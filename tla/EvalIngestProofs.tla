-------------------------- MODULE EvalIngestProofs --------------------------
(***************************************************************************)
(* The safety properties of EvalIngest, for any number of runs, cases and  *)
(* commands, and that it implements Archive.                               *)
(*                                                                         *)
(* A file never changes once it is whole, so what a sender read of it is   *)
(* still on disk when its transaction ends; and a run_id that a            *)
(* transaction has inserted belongs to that transaction alone and to no    *)
(* committed one.                                                          *)
(***************************************************************************)
EXTENDS EvalIngest, FiniteSetTheorems, WellFoundedInduction, TLAPS

(* The client has a transaction open.                                      *)
AtWork == {"insert", "look", "rows", "commit", "rollback"}

Placed ==
  \A s \in Senders :
    /\ pc[s] \in Sending \cup {"connect"} => queue[s] # <<>>
    /\ pc[s] \in AtWork <=> server[s] = "open"
    /\ pc[s] = "begin" => server[s] = "none"

(* What a transaction has inserted is not committed, and is what was read. *)
Holds ==
  \A s \in Senders : item[s] # Nothing =>
    /\ server[s] # "none"
    /\ stored[item[s]] = "none"
    /\ content[s] = disk[item[s]]
    /\ content[s] \in Ends

Reads ==
  \A s \in Senders : server[s] = "open" =>
    content[s] = disk[Head(queue[s])] /\ content[s] \in Ends

StepOf(s) ==
  /\ pc[s] \in {"rows", "commit"} => item[s] = Head(queue[s])
  /\ pc[s] \in {"insert", "look"} => item[s] = Nothing
  /\ pc[s] = "look" => stored[Head(queue[s])] # "none"
  /\ pc[s] = "commit" => wrote[s] = Groups(item[s]) /\ outcome[s] = "inserted"
  /\ pc[s] = "rollback" => outcome[s] \in {"present", "failed"}
  /\ pc[s] = "rollback" /\ outcome[s] = "present"
       => stored[Head(queue[s])] # "none"
  /\ server[s] = "committing"
       => item[s] # Nothing /\ wrote[s] = Groups(item[s])

Steps == \A s \in Senders : StepOf(s)

Rivals ==
  \A s, t \in Senders : s # t /\ item[s] = item[t] => item[s] = Nothing

(* A file is whole once its run has left recordRun's save.                 *)
Files ==
  /\ \A r \in Runs : pc[r] = "running" => disk[r] = "none"
  /\ \A r \in Runs : pc[r] = "saving" => disk[r] = "torn"
  /\ \A i \in Items : stored[i] # "none" => stored[i] = disk[i]

Told ==
  \A s \in Senders, i \in Items :
    report[s][i] \in {"inserted", "present"} => stored[i] # "none"

Times(v) == {StartedAt[i] : i \in Db!Carriers(v)}

SeenFirst(v) ==
  IF Db!Carriers(v) = {} THEN firstSeen[v] = Never
  ELSE firstSeen[v] \in Times(v) /\ \A time \in Times(v) : firstSeen[v] <= time

(* The other tables say what Archive says of the stored runs.              *)
Agrees ==
  /\ rows = [i \in Items |-> IF stored[i] = "none" THEN 0 ELSE Groups(i)]
  /\ \A v \in Version : SeenFirst(v)

IInv ==
  /\ TypeOK
  /\ Placed
  /\ Holds
  /\ Reads
  /\ Steps
  /\ Rivals
  /\ Files
  /\ Told
  /\ OneEnvelope
  /\ Agrees

USE EvalIngestAssumption DEF Items, Senders

-----------------------------------------------------------------------------
LEMMA ConstantsOK ==
  /\ \A i \in Items : Groups(i) \in Nat \ {0}
  /\ \A i \in Items : i # Nothing
  /\ \A r \in Runs : r \notin Cases /\ r \notin Commands
  BY DEF Groups

LEMMA Initially == Init => IInv
<1> SUFFICES ASSUME Init PROVE IInv
  OBVIOUS
<1> USE DEF Init
<1>1. TypeOK
  BY DEF TypeOK, Envelopes, Ends, Results, Sending, NoReports, Never, IsInjective
<1>2. Placed /\ Holds /\ Reads /\ Steps /\ Rivals
  BY DEF Placed, Holds, Reads, Steps, StepOf, Rivals, AtWork, Sending
<1>3. Files /\ Told /\ OneEnvelope
  BY ConstantsOK DEF Files, Told, OneEnvelope, NoReports
<1>4. Agrees
  <2>1. \A v \in Version : Db!Carriers(v) = {}
    BY DEF Db!Carriers
  <2> QED
    BY <2>1 DEF Agrees, SeenFirst
<1> QED
  BY <1>1, <1>2, <1>3, <1>4 DEF IInv

-----------------------------------------------------------------------------
(* The next item's turn.                                                   *)

Places == {"running", "saving", "over", "idle", "connect"} \cup Sending

(* s has reported something as result and goes on to what is left.         *)
Passed(s, result) ==
  /\ queue' \in [Senders -> Seq(Items)] /\ later' \in [Senders -> Seq(Items)]
  /\ \A t \in Senders : IsInjective(queue'[t]) /\ IsInjective(later'[t])
  /\ outcome' \in [Senders -> Results]
  /\ report' \in [Senders -> [Items -> Results]]
  /\ pc' \in [Senders -> Places]
  /\ outcome'[s] = "none"
  /\ pc'[s] \in {"begin", "connect", "over", "idle"}
  /\ pc'[s] \in {"begin", "connect"} => queue'[s] # <<>>
  /\ \A t \in Senders \ {s} :
       /\ pc'[t] = pc[t] /\ queue'[t] = queue[t]
       /\ outcome'[t] = outcome[t] /\ report'[t] = report[t]
  /\ \A i \in Items : report'[s][i] # report[s][i] => report'[s][i] = result

LEMMA AfterNextConnection ==
  ASSUME TypeOK, NEW s \in Senders, NextConnection(s)
  PROVE  /\ queue' \in [Senders -> Seq(Items)] /\ later' \in [Senders -> Seq(Items)]
         /\ \A t \in Senders : IsInjective(queue'[t]) /\ IsInjective(later'[t])
         /\ pc' \in [Senders -> Places]
         /\ pc'[s] \in {"connect", "over", "idle"}
         /\ pc'[s] = "connect" => queue'[s] # <<>>
         /\ \A t \in Senders \ {s} : pc'[t] = pc[t] /\ queue'[t] = queue[t]
  BY DEF TypeOK, NextConnection, Goto, Over, Places, Sending, IsInjective

LEMMA RestOfQueue ==
  ASSUME NEW S, NEW q \in Seq(S), Len(q) > 1, IsInjective(q)
  PROVE  Tail(q) \in Seq(S) /\ Tail(q) # <<>> /\ IsInjective(Tail(q))
<1>1. q # <<>> /\ Len(q) \in Nat /\ DOMAIN q = 1..Len(q)
  OBVIOUS
<1>2. /\ Tail(q) \in Seq(S) /\ Len(Tail(q)) = Len(q) - 1
      /\ \A i \in 1..Len(Tail(q)) : Tail(q)[i] = q[i + 1]
  BY <1>1
<1>3. Tail(q) # <<>>
  <2> DEFINE m == Len(q)
             n == Len(Tail(q))
  <2>3. m \in Nat /\ m > 1 /\ n = m - 1
    BY <1>1, <1>2
  <2> HIDE DEF m, n
  <2>4. n # 0
    BY <2>3
  <2>1. Len(Tail(q)) # 0
    BY <2>4 DEF n
  <2>2. Len(<<>>) = 0
    OBVIOUS
  <2> QED
    BY ONLY <2>1, <2>2
<1>4. DOMAIN Tail(q) = 1..(Len(q) - 1)
  BY <1>2
<1>5. IsInjective(Tail(q))
  BY <1>1, <1>2, <1>4 DEF IsInjective
<1> QED
  BY <1>2, <1>3, <1>5

LEMMA AfterReport ==
  ASSUME TypeOK, NEW s \in Senders, NEW result \in Results, queue[s] # <<>>,
         Report(s, result)
  PROVE  /\ Passed(s, result)
         /\ \A i \in Items : report'[s][i] # report[s][i] => i = Head(queue[s])
<1>1. Head(queue[s]) \in Items /\ queue[s] \in Seq(Items)
  BY DEF TypeOK
<1>2. /\ report' = [report EXCEPT ![s][Head(queue[s])] = result]
      /\ outcome' = [outcome EXCEPT ![s] = "none"]
  BY DEF Report
<1>3. /\ report' \in [Senders -> [Items -> Results]]
      /\ \A t \in Senders \ {s} : report'[t] = report[t]
      /\ \A i \in Items : report'[s][i] # report[s][i]
           => report'[s][i] = result /\ i = Head(queue[s])
  BY <1>1, <1>2 DEF TypeOK
<1>4. /\ outcome' \in [Senders -> Results]
      /\ outcome'[s] = "none"
      /\ \A t \in Senders \ {s} : outcome'[t] = outcome[t]
  BY <1>2 DEF TypeOK, Results
<1>5. CASE Len(queue[s]) > 1
  <2>1. /\ queue' = [queue EXCEPT ![s] = Tail(queue[s])]
        /\ pc' = [pc EXCEPT ![s] = "begin"] /\ later' = later
    BY <1>5 DEF Report, Goto, TypeOK
  <2>2. IsInjective(queue[s])
    BY DEF TypeOK
  <2>3. /\ Tail(queue[s]) \in Seq(Items) /\ Tail(queue[s]) # <<>>
        /\ IsInjective(Tail(queue[s]))
    BY <1>1, <1>5, <2>2, RestOfQueue
  <2> QED
    BY <2>1, <2>2, <2>3, <1>3, <1>4 DEF TypeOK, Passed, Places, Sending
<1>6. CASE ~(Len(queue[s]) > 1)
  <2>1. NextConnection(s)
    BY <1>6 DEF Report
  <2> QED
    BY <2>1, AfterNextConnection, <1>3, <1>4 DEF Passed
<1> QED
  BY <1>5, <1>6

LEMMA AfterReportRest ==
  ASSUME TypeOK, NEW s \in Senders, NEW result \in Results,
         ReportRest(s, result)
  PROVE  Passed(s, result)
<1>1. /\ report' = [report EXCEPT ![s] = [i \in Items |->
            IF i \in ToSet(queue[s]) THEN result ELSE report[s][i]]]
      /\ outcome' = [outcome EXCEPT ![s] = "none"]
      /\ NextConnection(s)
  BY DEF ReportRest, TypeOK
<1>2. /\ report' \in [Senders -> [Items -> Results]]
      /\ \A t \in Senders \ {s} : report'[t] = report[t]
      /\ \A i \in Items : report'[s][i] # report[s][i] => report'[s][i] = result
  BY <1>1 DEF TypeOK
<1>3. /\ outcome' \in [Senders -> Results]
      /\ outcome'[s] = "none"
      /\ \A t \in Senders \ {s} : outcome'[t] = outcome[t]
  BY <1>1 DEF TypeOK, Results
<1> QED
  BY <1>1, <1>2, <1>3, AfterNextConnection DEF Passed

(* The other tables follow while the runs' stays as it is.                 *)
LEMMA DatabaseStays ==
  ASSUME Agrees, UNCHANGED database
  PROVE  Agrees'
<1>1. \A v \in Version : Db!Carriers(v)' = Db!Carriers(v)
  BY DEF Db!Carriers, database
<1> QED
  BY <1>1 DEF Agrees, SeenFirst, Times, database

(* A report that is true leaves to be shown what becomes of the database   *)
(* and of the transactions.                                                *)
LEMMA Elsewhere ==
  ASSUME IInv, NEW s \in Senders, NEW result \in Results \ {"conflict"},
         Passed(s, result),
         UNCHANGED disk,
         \A i \in Items : stored[i] # "none" => stored'[i] = stored[i],
         \A t \in Senders \ {s} :
           /\ server'[t] = server[t] /\ item'[t] = item[t]
           /\ wrote'[t] = wrote[t] /\ content'[t] = content[t],
         server'[s] # "open",
         pc'[s] = "begin" => server'[s] = "none",
         server'[s] = "committing"
           => item'[s] # Nothing /\ wrote'[s] = Groups(item'[s]),
         \A i \in Items :
           result \in {"inserted", "present"} /\ report'[s][i] # report[s][i]
             => stored'[i] # "none"
  PROVE  Placed' /\ Steps' /\ Reads' /\ Told' /\ OneEnvelope'
<1> USE DEF IInv
<1>1. /\ pc'[s] \in {"begin", "connect", "over", "idle"}
      /\ pc'[s] \in {"begin", "connect"} => queue'[s] # <<>>
      /\ outcome'[s] = "none"
      /\ \A t \in Senders \ {s} :
           /\ pc'[t] = pc[t] /\ queue'[t] = queue[t]
           /\ outcome'[t] = outcome[t] /\ report'[t] = report[t]
      /\ \A i \in Items : report'[s][i] # report[s][i] => report'[s][i] = result
  BY DEF Passed
<1>2. Placed'
  BY <1>1 DEF Placed, AtWork, Sending
<1>3. Reads'
  BY <1>1 DEF Reads
<1>4. Steps'
  <2> SUFFICES ASSUME NEW t \in Senders PROVE StepOf(t)'
    BY DEF Steps
  <2>1. CASE t = s
    BY <1>1, <2>1 DEF StepOf
  <2>2. CASE t # s
    <3>1. StepOf(t)
      BY DEF Steps
    <3>2. server[t] = "open" => Head(queue[t]) \in Items
      BY DEF TypeOK, Placed, AtWork, Sending
    <3>3. pc[t] \in {"look", "rollback"} => server[t] = "open"
      BY DEF Placed, AtWork
    <3> QED
      BY <1>1, <2>2, <3>1, <3>2, <3>3 DEF StepOf
  <2> QED
    BY <2>1, <2>2
<1>5. Told'
  <2> SUFFICES ASSUME NEW t \in Senders, NEW i \in Items,
                      report'[t][i] \in {"inserted", "present"}
               PROVE  stored'[i] # "none"
    BY DEF Told
  <2>1. CASE report'[t][i] = report[t][i]
    BY <2>1 DEF Told
  <2>2. CASE report'[t][i] # report[t][i]
    BY <1>1, <2>2
  <2> QED
    BY <2>1, <2>2
<1>6. OneEnvelope'
  BY <1>1 DEF OneEnvelope
<1> QED
  BY <1>2, <1>3, <1>4, <1>5, <1>6

-----------------------------------------------------------------------------
(* recordRun.                                                              *)

LEMMA StopKeeps ==
  ASSUME IInv, NEW r \in Runs, Stop(r)
  PROVE  IInv'
<1> USE DEF IInv
<1>1. /\ pc[r] = "running" /\ disk[r] = "none"
      /\ pc' = [pc EXCEPT ![r] = "saving"]
      /\ disk' = [disk EXCEPT ![r] = "torn"]
      /\ UNCHANGED <<flawed, database, queue, later, transaction, outcome,
                     report, breaks>>
  BY DEF Stop, Goto, Files
<1>2. stored[r] = "none" /\ "torn" \notin Ends /\ "none" \notin Ends
  BY <1>1 DEF Files, TypeOK, Ends
<1>3. TypeOK'
  BY <1>1 DEF TypeOK, database, transaction
<1>4. Placed' /\ Steps' /\ Rivals'
  BY <1>1 DEF TypeOK, Placed, Steps, StepOf, Rivals, AtWork, Sending, database,
              transaction
<1>5. Holds' /\ Reads'
  <2>1. \A i \in Items : disk[i] \in Ends => disk'[i] = disk[i]
    BY <1>1, <1>2 DEF TypeOK
  <2>2. \A s \in Senders : server[s] = "open" => Head(queue[s]) \in Items
    BY DEF TypeOK, Placed, AtWork, Sending
  <2> QED
    BY <1>1, <2>1, <2>2 DEF Holds, Reads, TypeOK, database, transaction
<1>6. Files'
  BY <1>1, <1>2 DEF Files, TypeOK, database
<1>7. Told' /\ OneEnvelope'
  BY <1>1 DEF Told, OneEnvelope, database
<1>8. Agrees'
  BY <1>1, DatabaseStays
<1> QED
  BY <1>3, <1>4, <1>5, <1>6, <1>7, <1>8

LEMMA SaveFailsKeeps ==
  ASSUME IInv, NEW r \in Runs, SaveFails(r)
  PROVE  IInv'
<1> USE DEF IInv
<1>1. /\ pc[r] = "running"
      /\ pc' = [pc EXCEPT ![r] = "over"]
      /\ UNCHANGED <<disk, flawed, database, queue, later, transaction,
                     outcome, report, breaks>>
  BY DEF SaveFails, Goto
<1>2. TypeOK'
  BY <1>1 DEF TypeOK, database, transaction
<1>3. Placed' /\ Steps' /\ Rivals' /\ Holds' /\ Reads'
  BY <1>1 DEF TypeOK, Placed, Steps, StepOf, Rivals, Holds, Reads, AtWork,
              Sending, database, transaction
<1>4. Files' /\ Told' /\ OneEnvelope'
  BY <1>1 DEF TypeOK, Files, Told, OneEnvelope, database
<1>5. Agrees'
  BY <1>1, DatabaseStays
<1> QED
  BY <1>2, <1>3, <1>4, <1>5

LEMMA SaveKeeps ==
  ASSUME IInv, NEW r \in Runs, Save(r)
  PROVE  IInv'
<1> USE DEF IInv
<1>1. PICK end \in Ends :
        /\ disk' = [disk EXCEPT ![r] = end]
        /\ IF end = "aborted"
           THEN Goto(r, "over") /\ UNCHANGED queue
           ELSE Goto(r, "connect") /\ queue' = [queue EXCEPT ![r] = <<r>>]
  BY DEF Save
<1>2. /\ pc[r] = "saving" /\ disk[r] = "torn"
      /\ UNCHANGED <<flawed, database, later, transaction, outcome, report,
                     breaks>>
  BY DEF Save, Files
<1>3. stored[r] = "none" /\ "torn" \notin Ends /\ "none" \notin Ends
  BY <1>2 DEF Files, TypeOK, Envelopes, Ends
<1>4. /\ server[r] # "open" /\ pc' \in [Senders -> Places]
      /\ pc'[r] \in {"connect", "over"}
      /\ pc'[r] = "connect" => queue'[r] # <<>>
      /\ queue' \in [Senders -> Seq(Items)] /\ IsInjective(queue'[r])
      /\ \A s \in Senders \ {r} : pc'[s] = pc[s] /\ queue'[s] = queue[s]
  <2>1. <<r>> \in Seq(Items) /\ <<r>> # <<>> /\ IsInjective(<<r>>)
    BY DEF IsInjective
  <2>2. server[r] # "open"
    BY <1>2 DEF Placed, AtWork
  <2>3. CASE end = "aborted"
    BY <1>1, <2>2, <2>3 DEF Goto, TypeOK, Places
  <2>4. CASE end # "aborted"
    <3>1. /\ pc' = [pc EXCEPT ![r] = "connect"]
          /\ queue' = [queue EXCEPT ![r] = <<r>>]
      BY <1>1, <2>4 DEF Goto
    <3> QED
      BY <3>1, <2>1, <2>2 DEF TypeOK, Places
  <2> QED
    BY <2>3, <2>4
<1>5. TypeOK'
  BY <1>1, <1>2, <1>4 DEF TypeOK, Places, Envelopes, database, transaction
<1>6. Placed' /\ Rivals'
  BY <1>2, <1>4 DEF Placed, Rivals, AtWork, Sending, database, transaction
<1>7. Steps'
  BY <1>2, <1>4 DEF Steps, StepOf, database, transaction
<1>8. Holds' /\ Reads'
  <2>1. \A i \in Items : disk[i] \in Ends => disk'[i] = disk[i]
    BY <1>1, <1>2, <1>3 DEF TypeOK
  <2>2. \A s \in Senders : server[s] = "open" => Head(queue[s]) \in Items
    BY DEF TypeOK, Placed, AtWork, Sending
  <2>3. Holds'
    BY <1>2, <2>1 DEF Holds, TypeOK, database, transaction
  <2>4. Reads'
    BY <1>2, <1>4, <2>1, <2>2 DEF Reads, transaction
  <2> QED
    BY <2>3, <2>4
<1>9. Files'
  BY <1>1, <1>2, <1>3, <1>4 DEF Files, TypeOK, database
<1>10. Told' /\ OneEnvelope'
  BY <1>2 DEF Told, OneEnvelope, database
<1>11. Agrees'
  BY <1>2, DatabaseStays
<1> QED
  BY <1>5, <1>6, <1>7, <1>8, <1>9, <1>10, <1>11

-----------------------------------------------------------------------------
(* ingestPaths.                                                            *)

LEMMA Listed ==
  ASSUME NEW set \in SUBSET Items, IsFiniteSet(set), NEW list \in Listings(set)
  PROVE  list \in Seq(Items) /\ IsInjective(list)
<1>1. Cardinality(set) \in Nat
  BY FS_CardinalityType
<1> QED
  BY <1>1 DEF Listings

LEMMA StartKeeps ==
  ASSUME IInv, NEW c \in Commands, Start(c)
  PROVE  IInv'
<1> USE DEF IInv
<1>1. PICK runs \in OldestFirst(Found(Runs)), cases \in Listings(Found(Cases)) :
        /\ runs \o cases # <<>>
        /\ queue' = [queue EXCEPT ![c] = IF runs = <<>> THEN cases ELSE runs]
        /\ later' = [later EXCEPT ![c] = IF runs = <<>> THEN <<>> ELSE cases]
  BY DEF Start
<1>2. /\ pc[c] = "idle" /\ pc' = [pc EXCEPT ![c] = "connect"]
      /\ report' = [report EXCEPT ![c] = [i \in Items |->
                      IF disk[i] = "torn" THEN "rejected" ELSE "none"]]
      /\ UNCHANGED <<disk, flawed, database, transaction, outcome, breaks>>
  BY DEF Start, Goto
<1>3. /\ runs \in Seq(Items) /\ IsInjective(runs)
      /\ cases \in Seq(Items) /\ IsInjective(cases)
  <2>1. /\ Found(Runs) \in SUBSET Items /\ IsFiniteSet(Found(Runs))
        /\ Found(Cases) \in SUBSET Items /\ IsFiniteSet(Found(Cases))
    BY FS_Subset DEF Found
  <2>2. runs \in Listings(Found(Runs))
    BY DEF OldestFirst
  <2> QED
    BY <2>1, <2>2, Listed
<1>4. /\ queue' \in [Senders -> Seq(Items)] /\ later' \in [Senders -> Seq(Items)]
      /\ \A t \in Senders : IsInjective(queue'[t]) /\ IsInjective(later'[t])
      /\ queue'[c] # <<>>
      /\ \A t \in Senders \ {c} : queue'[t] = queue[t]
  <2>1. runs = <<>> => cases # <<>>
    BY <1>1, <1>3
  <2>2. <<>> \in Seq(Items) /\ IsInjective(<<>>)
    BY DEF IsInjective
  <2>3. CASE runs = <<>>
    BY <1>1, <1>3, <2>1, <2>2, <2>3 DEF TypeOK
  <2>4. CASE runs # <<>>
    BY <1>1, <1>3, <2>2, <2>4 DEF TypeOK
  <2> QED
    BY <2>3, <2>4
<1>5. server[c] # "open"
  BY <1>2 DEF Placed, AtWork
<1>6. TypeOK'
  <2>1. report' \in [Senders -> [Items -> Results]]
    BY <1>2 DEF TypeOK, Results
  <2> QED
    BY <1>2, <1>4, <2>1 DEF TypeOK, database, transaction
<1>7. Placed' /\ Rivals' /\ Holds'
  BY <1>2, <1>4 DEF TypeOK, Placed, Rivals, Holds, AtWork, Sending, database,
              transaction
<1>8. Steps' /\ Reads'
  BY <1>2, <1>4, <1>5 DEF TypeOK, Steps, StepOf, Reads, database, transaction
<1>9. Files'
  BY <1>2 DEF Files, TypeOK, database
<1>10. Told' /\ OneEnvelope'
  BY <1>2 DEF TypeOK, Told, OneEnvelope, database
<1>11. Agrees'
  BY <1>2, DatabaseStays
<1> QED
  BY <1>6, <1>7, <1>8, <1>9, <1>10, <1>11

LEMMA ConnectKeeps ==
  ASSUME IInv, NEW s \in Senders, Connect(s)
  PROVE  IInv'
<1> USE DEF IInv
<1>1. /\ pc[s] = "connect" /\ server[s] = "none"
      /\ pc' = [pc EXCEPT ![s] = "begin"]
      /\ UNCHANGED <<disk, flawed, database, queue, later, transaction,
                     outcome, report, breaks>>
  BY DEF Connect, Goto
<1>2. TypeOK'
  BY <1>1 DEF TypeOK, Sending, database, transaction
<1>3. Placed' /\ Steps' /\ Rivals' /\ Holds' /\ Reads'
  BY <1>1 DEF TypeOK, Placed, Steps, StepOf, Rivals, Holds, Reads, AtWork,
              Sending, database, transaction
<1>4. Files' /\ Told' /\ OneEnvelope'
  BY <1>1 DEF TypeOK, Files, Told, OneEnvelope, database
<1>5. Agrees'
  BY <1>1, DatabaseStays
<1> QED
  BY <1>2, <1>3, <1>4, <1>5

LEMMA ConnectFailsKeeps ==
  ASSUME IInv, NEW s \in Senders, ConnectFails(s)
  PROVE  IInv'
<1> USE DEF IInv
<1>1. /\ pc[s] = "connect" /\ server[s] = "none"
      /\ breaks' \in 0..Breaks
      /\ UNCHANGED <<disk, flawed, database, transaction>>
  BY DEF ConnectFails, TypeOK
<1>2. Passed(s, "unsent")
  BY AfterReportRest DEF ConnectFails, Results
<1>3. TypeOK'
  BY <1>1, <1>2 DEF TypeOK, Passed, Places, database, transaction
<1>4. Rivals' /\ Holds'
  BY <1>1 DEF Rivals, Holds, database, transaction
<1>5. Placed' /\ Steps' /\ Reads' /\ Told' /\ OneEnvelope'
  BY <1>1, <1>2, Elsewhere DEF Results, database, transaction
<1>6. Files'
  BY <1>1, <1>2 DEF Files, Passed, database
<1>7. Agrees'
  BY <1>1, DatabaseStays
<1> QED
  BY <1>3, <1>4, <1>5, <1>6, <1>7

-----------------------------------------------------------------------------
(* One item.                                                               *)

LEMMA BeginKeeps ==
  ASSUME IInv, NEW s \in Senders, Begin(s)
  PROVE  IInv'
<1> USE DEF IInv
<1>1. /\ pc[s] = "begin" /\ queue[s] # <<>> /\ server[s] = "none"
      /\ Head(queue[s]) \in Items /\ item[s] = Nothing
      /\ UNCHANGED <<disk, flawed, database, item, wrote, breaks>>
  BY DEF Begin, TypeOK, Placed, Holds, Sending
<1>2. CASE disk[Head(queue[s])] \in Ends
  <2>1. /\ content' = [content EXCEPT ![s] = disk[Head(queue[s])]]
        /\ server' = [server EXCEPT ![s] = "open"]
        /\ pc' = [pc EXCEPT ![s] = "insert"]
        /\ UNCHANGED <<queue, later, outcome, report>>
    BY <1>2 DEF Begin, Goto
  <2>2. TypeOK'
    BY <1>1, <1>2, <2>1 DEF TypeOK, Sending, Envelopes, database
  <2>3. Placed' /\ Rivals' /\ Holds'
    BY <1>1, <2>1 DEF TypeOK, Placed, Rivals, Holds, AtWork, Sending, database
  <2>4. Steps' /\ Reads'
    BY <1>1, <1>2, <2>1 DEF TypeOK, Steps, StepOf, Reads, database
  <2>5. Files' /\ Told' /\ OneEnvelope'
    BY <1>1, <2>1 DEF TypeOK, Files, Told, OneEnvelope, database
  <2> QED
    BY <1>1, <2>2, <2>3, <2>4, <2>5, DatabaseStays
<1>3. CASE disk[Head(queue[s])] \notin Ends
  <2>1. Report(s, "rejected") /\ UNCHANGED <<content, server>>
    BY <1>3 DEF Begin
  <2>2. Passed(s, "rejected")
    BY <1>1, <2>1, AfterReport DEF Results
  <2>3. TypeOK'
    BY <1>1, <2>1, <2>2 DEF TypeOK, Passed, Places, database
  <2>4. Rivals' /\ Holds'
    BY <1>1, <2>1 DEF Rivals, Holds, database
  <2>5. Placed' /\ Steps' /\ Reads' /\ Told' /\ OneEnvelope'
    BY <1>1, <2>1, <2>2, Elsewhere DEF Results, database
  <2>6. Files'
    BY <1>1, <2>2 DEF Files, Passed, database
  <2> QED
    BY <1>1, <2>3, <2>4, <2>5, <2>6, DatabaseStays
<1> QED
  BY <1>2, <1>3

LEMMA InsertKeeps ==
  ASSUME IInv, NEW s \in Senders, Insert(s)
  PROVE  IInv'
<1> USE DEF IInv
<1>1. /\ pc[s] = "insert" /\ server[s] = "open" /\ Head(queue[s]) \in Items
      /\ content[s] = disk[Head(queue[s])] /\ content[s] \in Ends
      /\ UNCHANGED <<disk, flawed, database, queue, later, content, server,
                     wrote, outcome, report, breaks>>
  BY DEF Insert, TypeOK, Placed, Reads, AtWork, Sending
<1>2. \A t \in Senders \ {s} : item[t] # Head(queue[s])
  <2> SUFFICES ASSUME NEW t \in Senders \ {s}, item[t] = Head(queue[s])
               PROVE  FALSE
    OBVIOUS
  <2>1. server[t] # "none"
    BY <1>1, ConstantsOK DEF Holds
  <2> QED
    BY <1>1, <2>1 DEF Insert, Blockers, Others
<1>3. \/ /\ stored[Head(queue[s])] = "none"
         /\ item' = [item EXCEPT ![s] = Head(queue[s])]
         /\ pc' = [pc EXCEPT ![s] = "rows"]
      \/ /\ stored[Head(queue[s])] # "none"
         /\ pc' = [pc EXCEPT ![s] = "look"] /\ item' = item
  BY DEF Insert, Goto
<1>4. item[s] = Nothing
  BY <1>1 DEF Steps, StepOf
<1>5. TypeOK'
  <2>1. pc' \in [Senders -> Places]
    BY <1>3 DEF TypeOK, Places, Sending
  <2>3. item' \in [Senders -> Items \cup {Nothing}]
    <3>1. item \in [Senders -> Items \cup {Nothing}]
      BY DEF TypeOK
    <3> QED
      BY ONLY <1>1, <1>3, <3>1
  <2>2. /\ queue' = queue /\ later' = later /\ content' = content
        /\ server' = server /\ wrote' = wrote /\ outcome' = outcome
        /\ report' = report /\ breaks' = breaks
        /\ disk' = disk /\ flawed' = flawed /\ stored' = stored
        /\ rows' = rows /\ firstSeen' = firstSeen
    BY <1>1 DEF database
  <2> QED
    BY <2>1, <2>2, <2>3 DEF TypeOK, Places
<1>6. Placed' /\ Reads'
  BY <1>1, <1>3 DEF TypeOK, Placed, Reads, AtWork, Sending
<1>7. /\ s \in Senders
      /\ \A t \in Senders \ {s} : item'[t] = item[t] /\ pc'[t] = pc[t]
      /\ \/ /\ item'[s] = item[s] /\ pc'[s] = "look"
            /\ stored[Head(queue[s])] # "none"
         \/ /\ item'[s] = Head(queue[s]) /\ pc'[s] = "rows"
            /\ stored[Head(queue[s])] = "none"
  BY <1>1, <1>3 DEF TypeOK
<1>8. /\ stored' = stored /\ disk' = disk /\ server' = server /\ content' = content
      /\ queue' = queue /\ wrote' = wrote /\ outcome' = outcome
  BY <1>1 DEF database
<1>9. Rivals'
  <2>1. Rivals
    OBVIOUS
  <2> QED
    BY ONLY <1>2, <1>4, <1>7, <2>1 DEF Rivals
<1>10. Holds'
  <2>1. Holds
    OBVIOUS
  <2> QED
    BY ONLY <1>1, <1>4, <1>7, <1>8, <2>1 DEF Holds
<1>11. Steps'
  <2>1. Steps
    OBVIOUS
  <2>2. ASSUME NEW t \in Senders \ {s} PROVE StepOf(t)'
    BY ONLY <1>7, <1>8, <2>1, <2>2 DEF Steps, StepOf, Groups
  <2>3. StepOf(s)'
    BY ONLY <1>1, <1>4, <1>7, <1>8, <2>1 DEF Steps, StepOf, Groups
  <2> QED
    BY <2>2, <2>3 DEF Steps
<1>12. Files' /\ Told' /\ OneEnvelope'
  BY <1>1, <1>3 DEF TypeOK, Files, Told, OneEnvelope, database
<1> QED
  BY <1>1, <1>5, <1>6, <1>9, <1>10, <1>11, <1>12, DatabaseStays

LEMMA LookKeeps ==
  ASSUME IInv, NEW s \in Senders, Look(s)
  PROVE  IInv'
<1> USE DEF IInv
<1>1. /\ pc[s] = "look" /\ server[s] = "open" /\ Head(queue[s]) \in Items
      /\ content[s] = disk[Head(queue[s])]
      /\ stored[Head(queue[s])] # "none"
      /\ UNCHANGED <<disk, flawed, database, queue, later, transaction, report,
                     breaks>>
  BY DEF Look, TypeOK, Placed, Reads, Steps, StepOf, AtWork, Sending
<1>2. stored[Head(queue[s])] = content[s]
  BY <1>1 DEF Files
<1>3. /\ outcome' = [outcome EXCEPT ![s] = "present"]
      /\ pc' = [pc EXCEPT ![s] = "rollback"]
  BY <1>2 DEF Look, Conclude, Goto
<1>4. TypeOK'
  <2>1. /\ outcome' \in [Senders -> Results]
        /\ pc' \in [Senders -> Places]
    BY <1>3 DEF TypeOK, Places, Sending, Results
  <2> QED
    BY <1>1, <2>1 DEF TypeOK, Places, database, transaction
<1>5. Placed' /\ Reads' /\ Rivals' /\ Holds'
  BY <1>1, <1>3 DEF TypeOK, Placed, Reads, Rivals, Holds, AtWork, Sending,
              database, transaction
<1>6. Steps'
  BY <1>1, <1>3 DEF TypeOK, Steps, StepOf, database, transaction
<1>7. Files' /\ Told' /\ OneEnvelope'
  BY <1>1, <1>3 DEF TypeOK, Files, Told, OneEnvelope, database
<1> QED
  BY <1>1, <1>4, <1>5, <1>6, <1>7, DatabaseStays

LEMMA StatementFailsKeeps ==
  ASSUME IInv, NEW s \in Senders, pc[s] \in {"insert", "rows"},
         StatementFails(s)
  PROVE  IInv'
<1> USE DEF IInv
<1>1. /\ server[s] = "open"
      /\ outcome' = [outcome EXCEPT ![s] = "failed"]
      /\ pc' = [pc EXCEPT ![s] = "rollback"]
      /\ item' = [item EXCEPT ![s] = Nothing]
      /\ wrote' = [wrote EXCEPT ![s] = 0]
      /\ UNCHANGED <<disk, flawed, database, queue, later, content, server,
                     report, breaks>>
  BY DEF StatementFails, Conclude, Goto, Placed, AtWork
<1>2. TypeOK'
  <2>1. /\ outcome' \in [Senders -> Results]
        /\ pc' \in [Senders -> Places]
        /\ item' \in [Senders -> Items \cup {Nothing}]
        /\ wrote' \in [Senders -> Nat]
    BY <1>1 DEF TypeOK, Places, Sending, Results
  <2>2. /\ queue' = queue /\ later' = later /\ content' = content
        /\ server' = server /\ report' = report /\ breaks' = breaks
        /\ disk' = disk /\ flawed' = flawed /\ stored' = stored
        /\ rows' = rows /\ firstSeen' = firstSeen
    BY <1>1 DEF database
  <2> QED
    BY <2>1, <2>2 DEF TypeOK, Places
<1>3. Placed' /\ Reads' /\ Rivals'
  BY <1>1 DEF TypeOK, Placed, Reads, Rivals, AtWork, Sending
<1>4. Holds'
  BY <1>1 DEF TypeOK, Holds, database
<1>5. Steps'
  BY <1>1 DEF TypeOK, Steps, StepOf, database
<1>6. Files' /\ Told' /\ OneEnvelope'
  BY <1>1 DEF TypeOK, Files, Told, OneEnvelope, database
<1> QED
  BY <1>1, <1>2, <1>3, <1>4, <1>5, <1>6, DatabaseStays

LEMMA WriteRowsKeeps ==
  ASSUME IInv, NEW s \in Senders, WriteRows(s)
  PROVE  IInv'
<1> USE DEF IInv
<1>1. /\ pc[s] = "rows" /\ server[s] = "open" /\ item[s] = Head(queue[s])
      /\ wrote' = [wrote EXCEPT ![s] = wrote[s] + 1]
      /\ UNCHANGED <<disk, flawed, database, queue, later, content, server,
                     item, report, breaks>>
  BY DEF WriteRows, TypeOK, Placed, Steps, StepOf, AtWork
<1>2. \/ /\ wrote[s] + 1 = Groups(item[s])
         /\ outcome' = [outcome EXCEPT ![s] = "inserted"]
         /\ pc' = [pc EXCEPT ![s] = "commit"]
      \/ UNCHANGED <<outcome, pc>>
  BY DEF WriteRows, Conclude, Goto
<1>3. TypeOK'
  <2>1. outcome' \in [Senders -> Results] /\ pc' \in [Senders -> Places]
    BY <1>2 DEF TypeOK, Places, Sending, Results
  <2>2. wrote' \in [Senders -> Nat]
    BY <1>1 DEF TypeOK
  <2>3. /\ queue' = queue /\ later' = later /\ content' = content
        /\ server' = server /\ item' = item
        /\ report' = report /\ breaks' = breaks
        /\ disk' = disk /\ flawed' = flawed /\ stored' = stored
        /\ rows' = rows /\ firstSeen' = firstSeen
    BY <1>1 DEF database
  <2> QED
    BY <2>1, <2>2, <2>3 DEF TypeOK, Places
<1>4. Placed' /\ Reads' /\ Rivals' /\ Holds'
  BY <1>1, <1>2 DEF TypeOK, Placed, Reads, Rivals, Holds, AtWork, Sending,
              database
<1>5. Steps'
  BY <1>1, <1>2 DEF TypeOK, Steps, StepOf, database
<1>6. Files' /\ Told' /\ OneEnvelope'
  BY <1>1, <1>2 DEF TypeOK, Files, Told, OneEnvelope, database
<1> QED
  BY <1>1, <1>3, <1>4, <1>5, <1>6, DatabaseStays

LEMMA Ended ==
  ASSUME TypeOK, NEW s \in Senders, End(s)
  PROVE  /\ content' \in [Senders -> Envelopes]
         /\ server' \in [Senders -> {"none", "open", "orphan", "committing"}]
         /\ item' \in [Senders -> Items \cup {Nothing}]
         /\ wrote' \in [Senders -> Nat]
         /\ server'[s] = "none" /\ item'[s] = Nothing
         /\ \A t \in Senders \ {s} :
              /\ server'[t] = server[t] /\ item'[t] = item[t]
              /\ wrote'[t] = wrote[t] /\ content'[t] = content[t]
  BY DEF End, TypeOK, Envelopes, Ends

LEMMA RollbackKeeps ==
  ASSUME IInv, NEW s \in Senders, Rollback(s)
  PROVE  IInv'
<1> USE DEF IInv
<1>1. /\ pc[s] = "rollback" /\ server[s] = "open" /\ queue[s] # <<>>
      /\ Head(queue[s]) \in Items
      /\ outcome[s] \in Results \ {"conflict", "inserted"}
      /\ outcome[s] = "present" => stored[Head(queue[s])] # "none"
      /\ UNCHANGED <<disk, flawed, database, breaks>>
      /\ Report(s, outcome[s])
  BY DEF Rollback, TypeOK, Placed, Steps, StepOf, AtWork, Sending, Results
<1>2. /\ End(s)
      /\ server' = [server EXCEPT ![s] = "none"]
      /\ item' = [item EXCEPT ![s] = Nothing]
      /\ wrote' = [wrote EXCEPT ![s] = 0]
      /\ content' = [content EXCEPT ![s] = "none"]
  BY DEF Rollback, End
<1>3. /\ Passed(s, outcome[s])
      /\ \A i \in Items : report'[s][i] # report[s][i] => i = Head(queue[s])
  BY <1>1, AfterReport
<1>4. TypeOK'
  <2>1. /\ content' \in [Senders -> Envelopes]
        /\ server' \in [Senders -> {"none", "open", "orphan", "committing"}]
        /\ item' \in [Senders -> Items \cup {Nothing}]
        /\ wrote' \in [Senders -> Nat]
    BY <1>2, Ended
  <2>2. /\ breaks' \in 0..Breaks /\ flawed' \subseteq Items
        /\ disk' \in [Items -> Envelopes \cup {"torn"}]
        /\ stored' \in [Items -> Envelopes] /\ rows' \in [Items -> Nat]
        /\ firstSeen' \in [Version -> Nat]
    BY <1>1 DEF TypeOK, database
  <2>3. /\ queue' \in [Senders -> Seq(Items)] /\ later' \in [Senders -> Seq(Items)]
        /\ \A t \in Senders : IsInjective(queue'[t]) /\ IsInjective(later'[t])
        /\ outcome' \in [Senders -> Results]
        /\ report' \in [Senders -> [Items -> Results]]
        /\ pc' \in [Senders -> Places]
    BY <1>3 DEF Passed
  <2> QED
    BY ONLY <2>1, <2>2, <2>3 DEF TypeOK, Places
<1>5. Rivals' /\ Holds'
  BY <1>1, <1>2 DEF TypeOK, Rivals, Holds, database
<1>6. Placed' /\ Steps' /\ Reads' /\ Told' /\ OneEnvelope'
  <2>1. \A t \in Senders \ {s} :
          /\ server'[t] = server[t] /\ item'[t] = item[t]
          /\ wrote'[t] = wrote[t] /\ content'[t] = content[t]
    BY <1>2 DEF TypeOK
  <2>2. server'[s] = "none"
    BY <1>2 DEF TypeOK
  <2>3. /\ outcome[s] \in Results \ {"conflict"} /\ Passed(s, outcome[s])
        /\ UNCHANGED disk /\ stored' = stored
    BY <1>1, <1>3 DEF database
  <2>4. \A i \in Items :
          outcome[s] \in {"inserted", "present"} /\ report'[s][i] # report[s][i]
            => stored'[i] # "none"
    BY <1>1, <1>3, <2>3
  <2> HIDE DEF IInv
  <2> QED
    BY ONLY IInv, s \in Senders, <2>1, <2>2, <2>3, <2>4, Elsewhere
<1>7. Files'
  BY <1>1, <1>3 DEF Files, Passed, database
<1> QED
  BY <1>1, <1>4, <1>5, <1>6, <1>7, DatabaseStays

-----------------------------------------------------------------------------
(* A transaction's rows become those of the database.                      *)

LEMMA EarliestIs ==
  ASSUME NEW times \in SUBSET Nat, NEW t \in times, \A u \in times : t <= u
  PROVE  Db!Earliest(times) = t
<1> DEFINE e == Db!Earliest(times)
<1>1. e \in times /\ \A u \in times : e <= u
  BY DEF Db!Earliest
<1>2. e <= t /\ t <= e /\ e \in Nat /\ t \in Nat
  BY <1>1
<1> HIDE DEF e
<1>3. e = t
  BY <1>2
<1> QED
  BY <1>3 DEF e

LEMMA PublishStores ==
  ASSUME IInv, NEW s \in Senders, item[s] # Nothing,
         wrote[s] = Groups(item[s]), Publish(s)
  PROVE  /\ item[s] \in Items /\ content[s] \in Ends
         /\ content[s] = disk[item[s]] /\ content[s] # "none"
         /\ stored' = [stored EXCEPT ![item[s]] = content[s]]
         /\ stored' \in [Items -> Envelopes]
         /\ rows' \in [Items -> Nat] /\ firstSeen' \in [Version -> Nat]
         /\ \A i \in Items : stored[i] # "none" => stored'[i] = stored[i]
         /\ Agrees'
         /\ Db!Store(item[s], content[s])
<1> USE DEF IInv
<1> DEFINE i == item[s]
<1>1. /\ i \in Items /\ content[s] \in Ends /\ content[s] = disk[i]
      /\ content[s] # "none" /\ stored[i] = "none"
  BY DEF TypeOK, Holds, Ends
<1>2. /\ stored' = [stored EXCEPT ![i] = content[s]]
      /\ rows' = [rows EXCEPT ![i] = rows[i] + Groups(i)]
      /\ firstSeen' = [v \in Version |->
           IF v \in ToSet(VersionsOf[i]) THEN Earliest(s, v) ELSE firstSeen[v]]
  BY DEF Publish
<1>3. /\ stored' \in [Items -> Envelopes] /\ stored'[i] = content[s]
      /\ \A j \in Items \ {i} : stored'[j] = stored[j]
  BY <1>1, <1>2 DEF TypeOK, Envelopes
<1>4. rows[i] = 0 /\ rows[i] + Groups(i) = Groups(i)
  BY <1>1, ConstantsOK DEF Agrees
<1>5. rows' = [j \in Items |-> IF stored'[j] = "none" THEN 0 ELSE Groups(j)]
  BY <1>1, <1>2, <1>3, <1>4 DEF Agrees
<1>6. rows' = [rows EXCEPT ![i] = Len(VersionsOf[i]) + 1]
  BY <1>2, <1>4 DEF Groups
<1>7. firstSeen' \in [Version -> Nat]
  <2>1. StartedAt[i] \in Nat
    BY <1>1
  <2> QED
    BY <1>2, <2>1 DEF TypeOK, Earliest
<1>8. ASSUME NEW v \in Version
      PROVE  SeenFirst(v)' /\ firstSeen'[v] = Db!FirstSeen(v)'
  <2> DEFINE C == Db!Carriers(v)
             T == {StartedAt[j] : j \in C}
  <2>0. \A j \in Items : v \in Db!ToSet(VersionsOf[j]) <=> v \in ToSet(VersionsOf[j])
    BY DEF ToSet, Db!ToSet
  <2>1. C \subseteq Items /\ T \subseteq Nat \ {Never} /\ SeenFirst(v)
    BY DEF Db!Carriers, Agrees
  <2>2. firstSeen[v] \in Nat /\ StartedAt[i] \in Nat \ {Never}
    BY <1>1 DEF TypeOK
  <2>3. SeenFirst(v)'
    <3>1. CASE v \notin ToSet(VersionsOf[i])
      <4>1. C' = C
        <5>1. \A j \in Items : v \in Db!ToSet(VersionsOf[j])
                => (stored'[j] # "none" <=> stored[j] # "none")
          BY <1>3, <2>0, <3>1
        <5> QED
          BY <5>1 DEF Db!Carriers
      <4>2. firstSeen'[v] = firstSeen[v]
        BY <1>2, <3>1
      <4> QED
        BY <2>1, <4>1, <4>2 DEF SeenFirst, Times
    <3>2. CASE v \in ToSet(VersionsOf[i])
      <4>1. C' = C \cup {i}
        BY <1>1, <1>3, <2>0, <3>2 DEF Db!Carriers
      <4>2. firstSeen'[v] = Earliest(s, v)
        BY <1>2, <3>2
      <4>3. T' = T \cup {StartedAt[i]}
        BY <4>1
      <4>4. CASE C = {}
        <5>1. firstSeen'[v] = StartedAt[i]
          BY <2>1, <4>2, <4>4 DEF SeenFirst, Earliest
        <5>2. C' = {i} /\ Times(v)' = {StartedAt[i]}
          <6>1. C' = {i}
            BY <4>1, <4>4
          <6> QED
            BY <6>1 DEF Times
        <5>3. Db!Carriers(v)' # {} /\ StartedAt[i] <= StartedAt[i]
          BY <2>2, <5>2
        <5> QED
          BY <5>1, <5>2, <5>3 DEF SeenFirst
      <4>5. CASE C # {}
        <5>1. firstSeen[v] \in T /\ \A time \in T : firstSeen[v] <= time
          BY <2>1, <4>5 DEF SeenFirst, Times
        <5>2. firstSeen'[v] = IF StartedAt[i] < firstSeen[v]
                              THEN StartedAt[i] ELSE firstSeen[v]
          BY <2>1, <4>2, <5>1 DEF Earliest
        <5>3. firstSeen'[v] \in T' /\ \A time \in T' : firstSeen'[v] <= time
          <6> HIDE DEF T, C
          <6> QED
            BY <2>1, <2>2, <4>3, <5>1, <5>2
        <5> QED
          BY <4>1, <5>3 DEF SeenFirst, Times
      <4> QED
        BY <4>4, <4>5
    <3> QED
      BY <3>1, <3>2
  <2>4. T' \subseteq Nat
    BY DEF Db!Carriers
  <2>5. CASE C' = {}
    BY <2>3, <2>5 DEF SeenFirst, Db!FirstSeen, Never
  <2>6. CASE C' # {}
    <3>1. firstSeen'[v] \in T' /\ \A time \in T' : firstSeen'[v] <= time
      BY <2>3, <2>6 DEF SeenFirst, Times
    <3>2. Db!Earliest(T') = firstSeen'[v]
      <4> SUFFICES ASSUME NEW times, times = T'
                   PROVE  Db!Earliest(times) = firstSeen'[v]
        OBVIOUS
      <4>1. /\ times \in SUBSET Nat /\ firstSeen'[v] \in times
            /\ \A u \in times : firstSeen'[v] <= u
        BY <2>4, <3>1
      <4> QED
        BY <4>1, EarliestIs
    <3>3. Db!FirstSeen(v)' = Db!Earliest(T')
      BY <2>6 DEF Db!FirstSeen
    <3> QED
      BY <2>3, <3>2, <3>3
  <2> QED
    BY <2>3, <2>5, <2>6
<1>9. Agrees'
  BY <1>5, <1>8 DEF Agrees
<1>10. firstSeen' = [v \in Version |-> Db!FirstSeen(v)']
  BY <1>7, <1>8
<1>11. Db!Store(i, content[s])
  BY <1>1, <1>2, <1>6, <1>10 DEF Db!Store
<1>12. rows' \in [Items -> Nat]
  BY <1>5, ConstantsOK
<1> QED
  BY <1>1, <1>2, <1>3, <1>7, <1>9, <1>11, <1>12

LEMMA CommitKeeps ==
  ASSUME IInv, NEW s \in Senders, Commit(s)
  PROVE  IInv' /\ Db!Store(item[s], content[s]) /\ item[s] \in Items
         /\ content[s] \in Ends
<1> USE DEF IInv
<1>1. /\ pc[s] = "commit" /\ server[s] = "open" /\ queue[s] # <<>>
      /\ Head(queue[s]) \in Items /\ item[s] = Head(queue[s])
      /\ item[s] # Nothing
      /\ wrote[s] = Groups(item[s]) /\ outcome[s] = "inserted"
      /\ UNCHANGED <<disk, flawed, breaks>>
      /\ Report(s, "inserted") /\ Publish(s) /\ End(s)
  BY DEF Commit, Publish, TypeOK, Placed, Steps, StepOf, AtWork, Sending
<1>2. /\ content[s] \in Ends
      /\ content[s] = disk[item[s]] /\ content[s] # "none"
      /\ stored' = [stored EXCEPT ![item[s]] = content[s]]
      /\ stored' \in [Items -> Envelopes]
      /\ rows' \in [Items -> Nat] /\ firstSeen' \in [Version -> Nat]
      /\ \A i \in Items : stored[i] # "none" => stored'[i] = stored[i]
      /\ Agrees'
      /\ Db!Store(item[s], content[s])
  BY <1>1, PublishStores
<1>3. /\ Passed(s, "inserted")
      /\ \A i \in Items : report'[s][i] # report[s][i] => i = Head(queue[s])
  BY <1>1, AfterReport DEF Results
<1>4. /\ content' \in [Senders -> Envelopes]
      /\ server' \in [Senders -> {"none", "open", "orphan", "committing"}]
      /\ item' \in [Senders -> Items \cup {Nothing}]
      /\ wrote' \in [Senders -> Nat]
      /\ server'[s] = "none" /\ item'[s] = Nothing
      /\ \A t \in Senders \ {s} :
           /\ server'[t] = server[t] /\ item'[t] = item[t]
           /\ wrote'[t] = wrote[t] /\ content'[t] = content[t]
  BY <1>1, Ended
<1>5. stored'[item[s]] = content[s]
      /\ \A i \in Items \ {item[s]} : stored'[i] = stored[i]
  BY <1>1, <1>2 DEF TypeOK
<1>6. TypeOK'
  <2>1. /\ queue' \in [Senders -> Seq(Items)] /\ later' \in [Senders -> Seq(Items)]
        /\ \A t \in Senders : IsInjective(queue'[t]) /\ IsInjective(later'[t])
        /\ outcome' \in [Senders -> Results]
        /\ report' \in [Senders -> [Items -> Results]]
        /\ pc' \in [Senders -> Places]
    BY <1>3 DEF Passed
  <2>2. /\ breaks' \in 0..Breaks /\ flawed' \subseteq Items
        /\ disk' \in [Items -> Envelopes \cup {"torn"}]
    BY <1>1 DEF TypeOK
  <2> QED
    BY ONLY <1>2, <1>4, <2>1, <2>2 DEF TypeOK, Places
<1>7. Rivals'
  BY <1>4 DEF Rivals
<1>8. Holds'
  <2> SUFFICES ASSUME NEW t \in Senders, item'[t] # Nothing
               PROVE  /\ server'[t] # "none"
                      /\ stored'[item'[t]] = "none"
                      /\ content'[t] = disk'[item'[t]]
                      /\ content'[t] \in Ends
    BY DEF Holds
  <2>1. t # s /\ item'[t] = item[t] /\ item[t] # item[s] /\ item[t] \in Items
    BY <1>1, <1>4 DEF Rivals, TypeOK
  <2>2. /\ server[t] # "none" /\ stored[item[t]] = "none"
        /\ content[t] = disk[item[t]] /\ content[t] \in Ends
    BY <2>1 DEF Holds
  <2>3. stored'[item[t]] = stored[item[t]] /\ disk' = disk
    BY <1>1, <1>5, <2>1
  <2> QED
    BY <1>4, <2>1, <2>2, <2>3
<1>9. Placed' /\ Steps' /\ Reads' /\ Told' /\ OneEnvelope'
  BY <1>1, <1>2, <1>3, <1>4, <1>5, Elsewhere DEF Results
<1>10. Files'
  <2>1. \A i \in Items : stored'[i] # "none" => stored'[i] = disk[i]
    BY <1>1, <1>2, <1>5 DEF Files
  <2>2. \A r \in Runs : pc'[r] \in {"running", "saving"} => pc'[r] = pc[r]
    BY <1>3 DEF Passed
  <2>3. disk' = disk
    BY <1>1
  <2> QED
    BY <2>1, <2>2, <2>3 DEF Files
<1> QED
  BY <1>1, <1>2, <1>6, <1>7, <1>8, <1>9, <1>10

LEMMA ServerDropsKeeps ==
  ASSUME IInv, NEW s \in Senders, ServerDrops(s)
  PROVE  IInv'
<1> USE DEF IInv
<1>1. /\ server[s] # "open" /\ server[s] # "none" /\ End(s)
      /\ UNCHANGED <<disk, flawed, database, pc, queue, later, outcome, report,
                     breaks>>
  BY DEF ServerDrops
<1>2. /\ content' \in [Senders -> Envelopes]
      /\ server' \in [Senders -> {"none", "open", "orphan", "committing"}]
      /\ item' \in [Senders -> Items \cup {Nothing}]
      /\ wrote' \in [Senders -> Nat]
      /\ server'[s] = "none" /\ item'[s] = Nothing
      /\ \A t \in Senders \ {s} :
           /\ server'[t] = server[t] /\ item'[t] = item[t]
           /\ wrote'[t] = wrote[t] /\ content'[t] = content[t]
  BY <1>1, Ended
<1>3. pc[s] \notin AtWork
  BY <1>1 DEF Placed
<1>4. TypeOK'
  BY <1>1, <1>2 DEF TypeOK, database
<1>5. Placed' /\ Reads'
  BY <1>1, <1>2, <1>3 DEF Placed, Reads
<1>8. Rivals'
  BY <1>2 DEF Rivals
<1>9. Holds'
  <2> SUFFICES ASSUME NEW t \in Senders, item'[t] # Nothing
               PROVE  /\ server'[t] # "none"
                      /\ stored'[item'[t]] = "none"
                      /\ content'[t] = disk'[item'[t]]
                      /\ content'[t] \in Ends
    BY DEF Holds
  <2>1. /\ item'[t] = item[t] /\ server'[t] = server[t]
        /\ content'[t] = content[t] /\ disk' = disk /\ stored' = stored
    BY <1>1, <1>2 DEF database
  <2> QED
    BY <2>1 DEF Holds
<1>6. Steps'
  BY <1>1, <1>2, <1>3 DEF Steps, StepOf, AtWork, database
<1>7. Files' /\ Told' /\ OneEnvelope'
  BY <1>1 DEF Files, Told, OneEnvelope, database
<1> QED
  BY <1>1, <1>4, <1>5, <1>6, <1>7, <1>8, <1>9, DatabaseStays

LEMMA ServerCommitsKeeps ==
  ASSUME IInv, NEW s \in Senders, ServerCommits(s)
  PROVE  IInv' /\ Db!Store(item[s], content[s]) /\ item[s] \in Items
         /\ content[s] \in Ends
<1> USE DEF IInv
<1>1. /\ server[s] = "committing" /\ item[s] # Nothing
      /\ wrote[s] = Groups(item[s]) /\ Publish(s) /\ End(s)
      /\ UNCHANGED <<disk, flawed, pc, queue, later, outcome, report, breaks>>
  BY DEF ServerCommits, Publish, Steps, StepOf
<1>2. /\ item[s] \in Items /\ content[s] \in Ends
      /\ content[s] = disk[item[s]] /\ content[s] # "none"
      /\ stored' = [stored EXCEPT ![item[s]] = content[s]]
      /\ stored' \in [Items -> Envelopes]
      /\ rows' \in [Items -> Nat] /\ firstSeen' \in [Version -> Nat]
      /\ \A i \in Items : stored[i] # "none" => stored'[i] = stored[i]
      /\ Agrees'
      /\ Db!Store(item[s], content[s])
  BY <1>1, PublishStores
<1>3. /\ content' \in [Senders -> Envelopes]
      /\ server' \in [Senders -> {"none", "open", "orphan", "committing"}]
      /\ item' \in [Senders -> Items \cup {Nothing}]
      /\ wrote' \in [Senders -> Nat]
      /\ server'[s] = "none" /\ item'[s] = Nothing
      /\ \A t \in Senders \ {s} :
           /\ server'[t] = server[t] /\ item'[t] = item[t]
           /\ wrote'[t] = wrote[t] /\ content'[t] = content[t]
  BY <1>1, Ended
<1>4. pc[s] \notin AtWork
  BY <1>1 DEF Placed
<1>5. stored'[item[s]] = content[s]
      /\ \A i \in Items \ {item[s]} : stored'[i] = stored[i]
  BY <1>2 DEF TypeOK
<1>6. TypeOK'
  BY <1>1, <1>2, <1>3 DEF TypeOK
<1>7. Placed' /\ Reads' /\ Rivals'
  BY <1>1, <1>3, <1>4 DEF Placed, Reads, Rivals
<1>8. Holds'
  <2> SUFFICES ASSUME NEW t \in Senders, item'[t] # Nothing
               PROVE  /\ server'[t] # "none"
                      /\ stored'[item'[t]] = "none"
                      /\ content'[t] = disk'[item'[t]]
                      /\ content'[t] \in Ends
    BY DEF Holds
  <2>1. t # s /\ item'[t] = item[t] /\ item[t] # item[s] /\ item[t] \in Items
    BY <1>1, <1>3 DEF Rivals, TypeOK
  <2>2. /\ server[t] # "none" /\ stored[item[t]] = "none"
        /\ content[t] = disk[item[t]] /\ content[t] \in Ends
    BY <2>1 DEF Holds
  <2>3. stored'[item[t]] = stored[item[t]] /\ disk' = disk
    BY <1>1, <1>5, <2>1
  <2> QED
    BY <1>3, <2>1, <2>2, <2>3
<1>9. Steps'
  <2> SUFFICES ASSUME NEW t \in Senders PROVE StepOf(t)'
    BY DEF Steps
  <2>1. StepOf(t)
    BY DEF Steps
  <2>2. pc[t] \in AtWork => Head(queue[t]) \in Items
    BY DEF TypeOK, Placed, AtWork, Sending
  <2> QED
    BY <1>1, <1>2, <1>3, <1>4, <2>1, <2>2 DEF StepOf, AtWork
<1>10. Files'
  BY <1>1, <1>2, <1>5 DEF Files
<1>11. Told' /\ OneEnvelope'
  BY <1>1, <1>2 DEF Told, OneEnvelope
<1> QED
  BY <1>2, <1>6, <1>7, <1>8, <1>9, <1>10, <1>11

-----------------------------------------------------------------------------
(* Failures.                                                               *)

LEMMA Abandoned ==
  ASSUME IInv, NEW s \in Senders, Abandon(s)
  PROVE  /\ server' \in [Senders -> {"none", "open", "orphan", "committing"}]
         /\ server'[s] # "open"
         /\ server[s] = "none" <=> server'[s] = "none"
         /\ server'[s] = "committing"
              => item[s] # Nothing /\ wrote[s] = Groups(item[s])
         /\ \A t \in Senders \ {s} : server'[t] = server[t]
<1>1. server' = [server EXCEPT ![s] =
        IF server[s] = "none" THEN "none"
        ELSE IF pc[s] = "commit" THEN "committing" ELSE "orphan"]
  BY DEF Abandon, IInv, TypeOK
<1>2. pc[s] = "commit" => item[s] # Nothing /\ wrote[s] = Groups(item[s])
  <2> SUFFICES ASSUME pc[s] = "commit"
               PROVE  item[s] # Nothing /\ wrote[s] = Groups(item[s])
    OBVIOUS
  <2>1. queue[s] # <<>> /\ StepOf(s)
    BY DEF IInv, Placed, Steps, Sending
  <2>2. Head(queue[s]) \in Items
    BY <2>1 DEF IInv, TypeOK
  <2> QED
    BY <2>1, <2>2, ConstantsOK DEF StepOf
<1> QED
  BY <1>1, <1>2 DEF IInv, TypeOK

LEMMA LoseConnectionKeeps ==
  ASSUME IInv, NEW s \in Senders, LoseConnection(s)
  PROVE  IInv'
<1> USE DEF IInv
<1>1. /\ breaks' \in 0..Breaks /\ Abandon(s) /\ ReportRest(s, "failed")
      /\ UNCHANGED <<disk, flawed, database, content, item, wrote>>
  BY DEF LoseConnection, TypeOK
<1>2. Passed(s, "failed") /\ pc'[s] # "begin"
  BY <1>1, AfterReportRest, AfterNextConnection DEF Results, ReportRest
<1>3. /\ server' \in [Senders -> {"none", "open", "orphan", "committing"}]
      /\ server'[s] # "open"
      /\ server[s] = "none" <=> server'[s] = "none"
      /\ server'[s] = "committing"
           => item[s] # Nothing /\ wrote[s] = Groups(item[s])
      /\ \A t \in Senders \ {s} : server'[t] = server[t]
  BY <1>1, Abandoned
<1>4. TypeOK'
  <2>1. /\ queue' \in [Senders -> Seq(Items)] /\ later' \in [Senders -> Seq(Items)]
        /\ \A t \in Senders : IsInjective(queue'[t]) /\ IsInjective(later'[t])
        /\ outcome' \in [Senders -> Results]
        /\ report' \in [Senders -> [Items -> Results]]
        /\ pc' \in [Senders -> Places]
    BY <1>2 DEF Passed
  <2>2. /\ flawed' \subseteq Items
        /\ disk' \in [Items -> Envelopes \cup {"torn"}]
        /\ stored' \in [Items -> Envelopes] /\ rows' \in [Items -> Nat]
        /\ firstSeen' \in [Version -> Nat]
        /\ content' \in [Senders -> Envelopes]
        /\ item' \in [Senders -> Items \cup {Nothing}]
        /\ wrote' \in [Senders -> Nat]
    BY <1>1 DEF TypeOK, database
  <2> QED
    BY ONLY <1>1, <1>3, <2>1, <2>2 DEF TypeOK, Places
<1>5. Rivals' /\ Holds'
  BY <1>1, <1>3 DEF Rivals, Holds, database
<1>6. Placed' /\ Steps' /\ Reads' /\ Told' /\ OneEnvelope'
  BY <1>1, <1>2, <1>3, Elsewhere DEF Results, database
<1>7. Files'
  BY <1>1, <1>2 DEF Files, Passed, database
<1> QED
  BY <1>1, <1>4, <1>5, <1>6, <1>7, DatabaseStays

LEMMA KillKeeps ==
  ASSUME IInv, NEW r \in Runs, Kill(r)
  PROVE  IInv'
<1> USE DEF IInv
<1>1. /\ Abandon(r) /\ pc' = [pc EXCEPT ![r] = "over"]
      /\ queue' = [queue EXCEPT ![r] = <<>>]
      /\ outcome' = [outcome EXCEPT ![r] = "none"]
      /\ UNCHANGED <<disk, flawed, database, later, content, item, wrote,
                     report, breaks>>
  BY DEF Kill, Goto
<1>2. /\ server' \in [Senders -> {"none", "open", "orphan", "committing"}]
      /\ server'[r] # "open"
      /\ server[r] = "none" <=> server'[r] = "none"
      /\ server'[r] = "committing"
           => item[r] # Nothing /\ wrote[r] = Groups(item[r])
      /\ \A t \in Senders \ {r} : server'[t] = server[t]
  BY <1>1, Abandoned
<1>3. /\ pc' \in [Senders -> Places] /\ outcome' \in [Senders -> Results]
      /\ queue' \in [Senders -> Seq(Items)]
      /\ \A t \in Senders : IsInjective(queue'[t]) /\ IsInjective(later'[t])
      /\ pc'[r] = "over" /\ outcome'[r] = "none"
      /\ \A t \in Senders \ {r} :
           pc'[t] = pc[t] /\ queue'[t] = queue[t] /\ outcome'[t] = outcome[t]
  <2>1. pc' \in [Senders -> Places] /\ outcome' \in [Senders -> Results]
    BY <1>1 DEF TypeOK, Places, Results
  <2>2. <<>> \in Seq(Items) /\ IsInjective(<<>>)
    BY DEF IsInjective
  <2>3. /\ queue' \in [Senders -> Seq(Items)]
        /\ \A t \in Senders : IsInjective(queue'[t]) /\ IsInjective(later'[t])
    BY <1>1, <2>2 DEF TypeOK
  <2> QED
    BY <1>1, <2>1, <2>3 DEF TypeOK
<1>4. TypeOK'
  <2>1. /\ flawed' \subseteq Items /\ breaks' \in 0..Breaks
        /\ disk' \in [Items -> Envelopes \cup {"torn"}]
        /\ stored' \in [Items -> Envelopes] /\ rows' \in [Items -> Nat]
        /\ firstSeen' \in [Version -> Nat]
        /\ content' \in [Senders -> Envelopes]
        /\ item' \in [Senders -> Items \cup {Nothing}]
        /\ wrote' \in [Senders -> Nat]
        /\ later' \in [Senders -> Seq(Items)]
        /\ report' \in [Senders -> [Items -> Results]]
    BY <1>1 DEF TypeOK, database
  <2> QED
    BY ONLY <1>2, <1>3, <2>1 DEF TypeOK, Places
<1>5. Placed' /\ Reads' /\ Rivals' /\ Holds'
  <2>1. Placed'
    BY <1>2, <1>3 DEF Placed, AtWork, Sending
  <2>2. Reads'
    BY <1>1, <1>2, <1>3 DEF Reads
  <2>3. Rivals' /\ Holds'
    BY <1>1, <1>2 DEF Rivals, Holds, database
  <2> QED
    BY <2>1, <2>2, <2>3
<1>6. Steps'
  BY <1>1, <1>2, <1>3 DEF Steps, StepOf, database
<1>7. Files' /\ Told' /\ OneEnvelope'
  BY <1>1, <1>3 DEF Files, Told, OneEnvelope, database
<1> QED
  BY <1>1, <1>4, <1>5, <1>6, <1>7, DatabaseStays

-----------------------------------------------------------------------------
THEOREM Inductive == IInv /\ [Next]_vars => IInv'
<1> SUFFICES ASSUME IInv, [Next]_vars PROVE IInv'
  OBVIOUS
<1>1. ASSUME NEW r \in Runs, Stop(r) \/ SaveFails(r) \/ Save(r) \/ Kill(r)
      PROVE  IInv'
  BY <1>1, StopKeeps, SaveFailsKeeps, SaveKeeps, KillKeeps
<1>2. ASSUME NEW c \in Commands, Start(c)
      PROVE  IInv'
  BY <1>2, StartKeeps
<1>3. ASSUME NEW s \in Senders, Statement(s)
      PROVE  IInv'
  <2>1. CASE RowsRefused(s)
    BY <2>1, StatementFailsKeeps DEF RowsRefused
  <2> QED
    BY <1>3, <2>1, ConnectKeeps, BeginKeeps, InsertKeeps, LookKeeps, WriteRowsKeeps,
       CommitKeeps, RollbackKeeps DEF Statement
<1>4. ASSUME NEW s \in Senders, Victim(s)
      PROVE  IInv'
  BY <1>4, StatementFailsKeeps DEF Victim
<1>5. ASSUME NEW s \in Senders, ServerEnds(s)
      PROVE  IInv'
  BY <1>5, ServerDropsKeeps, ServerCommitsKeeps DEF ServerEnds
<1>6. ASSUME NEW s \in Senders, ConnectFails(s) \/ LoseConnection(s)
      PROVE  IInv'
  BY <1>6, ConnectFailsKeeps, LoseConnectionKeeps
<1>7. CASE UNCHANGED vars
  <2>1. UNCHANGED <<disk, flawed, database, pc, queue, later, transaction, outcome,
                    report, breaks>>
    BY <1>7 DEF vars
  <2>2. Agrees'
    BY <2>1, DatabaseStays DEF IInv
  <2>3. TypeOK' /\ Placed' /\ Holds' /\ Reads'
    BY <2>1 DEF IInv, TypeOK, Placed, Holds, Reads, database, transaction
  <2>4. Steps' /\ Rivals'
    BY <2>1 DEF IInv, Steps, StepOf, Rivals, database, transaction
  <2>5. Files' /\ Told' /\ OneEnvelope'
    BY <2>1 DEF IInv, Files, Told, OneEnvelope, database
  <2> QED
    BY <2>2, <2>3, <2>4, <2>5 DEF IInv
<1> QED
  BY <1>1, <1>2, <1>3, <1>4, <1>5, <1>6, <1>7 DEF Next

(* Every step of a sender keeps every variable's kind of value.            *)
THEOREM TypeCorrect == Spec => []TypeOK
<1>1. IInv => TypeOK
  BY DEF IInv
<1> QED
  BY Initially, Inductive, <1>1, PTL DEF Spec

(* What is reported as stored is stored, from the envelope on disk.        *)
THEOREM ReportsAreTrue == Spec => []ReportsTrue
<1>1. IInv => ReportsTrue
  BY DEF IInv, ReportsTrue, Told, Files
<1> QED
  BY Initially, Inductive, <1>1, PTL DEF Spec

(* No sender ever finds a run_id stored from another envelope.             *)
THEOREM OneEnvelopeEach == Spec => []OneEnvelope
<1>1. IInv => OneEnvelope
  BY DEF IInv
<1> QED
  BY Initially, Inductive, <1>1, PTL DEF Spec

-----------------------------------------------------------------------------
(* Waiting.                                                                *)

AtServer == {s \in Senders : server[s] # "none"}

(* Only finitely many senders, of however many, have a transaction.        *)
LEMMA StepAtServer ==
  ASSUME IInv, [Next]_vars, IsFiniteSet(AtServer)
  PROVE  IsFiniteSet(AtServer)'
<1>1. server \in [Senders -> {"none", "open", "orphan", "committing"}]
  BY DEF IInv, TypeOK
<1>2. CASE \E s \in Senders : \E u : server' = [server EXCEPT ![s] = u]
  <2>1. PICK s \in Senders : \E u : server' = [server EXCEPT ![s] = u]
    BY <1>2
  <2>2. AtServer' \subseteq AtServer \cup {s}
    BY <1>1, <2>1 DEF AtServer
  <2>3. IsFiniteSet(AtServer \cup {s})
    BY FS_AddElement
  <2> QED
    BY <2>2, <2>3, FS_Subset
<1>3. CASE server' = server
  BY <1>3 DEF AtServer
<1>4. ASSUME NEW r \in Runs, Stop(r) \/ SaveFails(r) \/ Save(r) \/ Kill(r)
      PROVE  \/ server' = server
             \/ \E s \in Senders : \E u : server' = [server EXCEPT ![s] = u]
  BY <1>4 DEF Stop, SaveFails, Save, Kill, Abandon, transaction
<1>5. ASSUME NEW s \in Senders,
             Statement(s) \/ Victim(s) \/ ServerEnds(s) \/ ConnectFails(s)
               \/ LoseConnection(s)
      PROVE  \/ server' = server
             \/ \E t \in Senders : \E u : server' = [server EXCEPT ![t] = u]
  <2>1. CASE Connect(s) \/ Insert(s) \/ Look(s) \/ WriteRows(s) \/ RowsRefused(s)
               \/ Victim(s) \/ ConnectFails(s)
    BY <2>1 DEF Connect, Insert, Look, WriteRows, RowsRefused, Victim,
                StatementFails, ConnectFails, transaction
  <2>2. CASE Begin(s)
    BY <2>2 DEF Begin
  <2>3. CASE Commit(s) \/ Rollback(s) \/ ServerEnds(s)
    BY <2>3 DEF Commit, Rollback, ServerEnds, ServerDrops, ServerCommits, Publish, End
  <2>4. CASE LoseConnection(s)
    BY <2>4 DEF LoseConnection, Abandon
  <2> QED
    BY <1>5, <2>1, <2>2, <2>3, <2>4 DEF Statement
<1>6. ASSUME NEW c \in Commands, Start(c) PROVE server' = server
  BY <1>6 DEF Start, transaction
<1>7. CASE UNCHANGED vars
  BY <1>7, <1>3 DEF vars, transaction
<1> QED
  BY <1>2, <1>3, <1>4, <1>5, <1>6, <1>7 DEF Next

(* A finite set each of whose members waits for another of it holds a      *)
(* deadlock: a smallest such set, where nobody can be spared.              *)
LEMMA WaitersDeadlock ==
  ASSUME NEW W \in SUBSET Senders, IsFiniteSet(W), W # {},
         \A s \in W : Blockers(s) \cap W # {}
  PROVE  \E set \in SUBSET Senders : set # {} /\ Deadlocked(set)
<1> DEFINE Waits(S) == S # {} /\ \A s \in S : Blockers(s) \cap S # {}
           All == {S \in SUBSET W : Waits(S)}
<1>1. All \subseteq FiniteSubsetsOf(Senders) /\ W \in All
  BY FS_Subset DEF FiniteSubsetsOf
<1>2. PICK S \in All : \A R \in All : ~(<<R, S>> \in StrictSubsetOrdering(Senders))
  BY <1>1, FS_StrictSubsetOrderingWellFounded, WFMin
<1>3. ASSUME NEW s \in S, \A t \in S : s \notin Blockers(t)
      PROVE  FALSE
  <2> DEFINE R == S \ {s}
  <2>1. s \notin Blockers(s) /\ Blockers(s) \cap S # {}
    BY <1>3
  <2>2. R # {}
    BY <2>1
  <2>3. \A t \in R : Blockers(t) \cap R # {}
    BY <1>3
  <2>4. R \in All
    BY <2>2, <2>3
  <2>5. <<R, S>> \in StrictSubsetOrdering(Senders)
    BY <1>1, <2>4 DEF StrictSubsetOrdering
  <2> QED
    BY <1>2, <2>4, <2>5
<1>4. Deadlocked(S)
  BY <1>3 DEF Deadlocked
<1> QED
  BY <1>4

(* Where a statement waits, someone can go on: the waits of clients that   *)
(* all wait are a deadlock, for any number of senders and subjects.        *)
THEOREM WaitsDoEnd == Spec => []WaitsEnd
<1> DEFINE I == IInv /\ IsFiniteSet(AtServer)
<1>1. Init => I
  <2>1. ASSUME Init PROVE AtServer = {}
    BY <2>1 DEF Init, AtServer
  <2> QED
    BY <2>1, Initially, FS_EmptySet
<1>2. I /\ [Next]_vars => I'
  BY Inductive, StepAtServer
<1>3. I => WaitsEnd
  <2> SUFFICES ASSUME IInv, IsFiniteSet(AtServer),
                      NEW s \in Senders, Blockers(s) # {},
                      \A t \in AtServer : server[t] = "open" /\ Blockers(t) # {}
               PROVE  \E set \in SUBSET Senders : set # {} /\ Deadlocked(set)
    BY DEF WaitsEnd, AtServer, IInv, TypeOK
  <2>1. \A t \in Senders : Blockers(t) \subseteq AtServer
    BY DEF Blockers, Others, AtServer
  <2>2. AtServer # {} /\ AtServer \in SUBSET Senders
    BY <2>1 DEF AtServer
  <2>3. \A t \in AtServer : Blockers(t) \cap AtServer # {}
    BY <2>1, <2>2
  <2> QED
    BY <2>2, <2>3, WaitersDeadlock
<1> HIDE DEF I
<1> QED
  BY <1>1, <1>2, <1>3, PTL DEF Spec

-----------------------------------------------------------------------------
(* Only a commit changes the database, and it stores one run or case.      *)
LEMMA StepStores ==
  ASSUME IInv, [Next]_vars
  PROVE  [Db!Next]_(Db!vars)
<1>1. ASSUME NEW s \in Senders, Commit(s) \/ ServerCommits(s)
      PROVE  Db!Next
  BY <1>1, CommitKeeps, ServerCommitsKeeps DEF Db!Next
<1>2. ASSUME NEW r \in Runs, Stop(r) \/ SaveFails(r) \/ Save(r) \/ Kill(r)
      PROVE  UNCHANGED database
  BY <1>2 DEF Stop, SaveFails, Save, Kill
<1>3. ASSUME NEW c \in Commands, Start(c)
      PROVE  UNCHANGED database
  BY <1>3 DEF Start
<1>4. ASSUME NEW s \in Senders,
             Statement(s) \/ Victim(s) \/ ServerEnds(s) \/ ConnectFails(s)
               \/ LoseConnection(s),
             ~Commit(s), ~ServerCommits(s)
      PROVE  UNCHANGED database
  BY <1>4 DEF Statement, Victim, ServerEnds, ConnectFails, LoseConnection, Connect,
              Begin, Insert, Look, WriteRows, RowsRefused, StatementFails, Rollback,
              ServerDrops
<1>5. CASE UNCHANGED vars
  BY <1>5 DEF vars, database, Db!vars
<1> QED
  BY <1>1, <1>2, <1>3, <1>4, <1>5 DEF Next, database, Db!vars

(* Whatever senders do and whatever breaks, the database stores each run   *)
(* or case once, whole, and says truly when a content was first seen.      *)
THEOREM Refinement == Spec => ImplementsArchive
<1>1. Init => Db!Init
  BY DEF Init, Db!Init, Never
<1>2. IInv /\ [Next]_vars => [Db!Next]_(Db!vars)
  BY StepStores
<1> QED
  BY Initially, Inductive, <1>1, <1>2, PTL DEF Spec, ImplementsArchive, Db!Spec

=============================================================================
