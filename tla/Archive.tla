------------------------------ MODULE Archive ------------------------------
(***************************************************************************)
(* What the eval-history database promises about runs and adjudication     *)
(* cases: each is stored once, in one step and with everything that        *)
(* belongs to it, and never changes or goes away; when a content was first *)
(* seen depends on what is stored and not on the order it came in.         *)
(***************************************************************************)
EXTENDS Naturals, Sequences, SequencesExt

CONSTANTS
  Items,       \* runs and cases
  Envelopes,   \* what can be stored of one
  Version,     \* contents of subjects
  VersionsOf,  \* per item, those its envelope has, a sequence
  StartedAt    \* per item, a natural number

VARIABLES
  stored,      \* per item, its envelope, or "none"
  rows,        \* per item, how many groups of rows it has
  firstSeen    \* per content, a time, or 0 for never

vars == <<stored, rows, firstSeen>>

(* The stored items that have a content.                                   *)
Carriers(v) == {i \in Items : stored[i] # "none" /\ v \in ToSet(VersionsOf[i])}

Earliest(times) == CHOOSE t \in times : \A u \in times : t <= u

FirstSeen(v) ==
  IF Carriers(v) = {} THEN 0 ELSE Earliest({StartedAt[i] : i \in Carriers(v)})

Init ==
  /\ stored = [i \in Items |-> "none"]
  /\ rows = [i \in Items |-> 0]
  /\ firstSeen = [v \in Version |-> 0]

Store(i, envelope) ==
  /\ stored[i] = "none"
  /\ stored' = [stored EXCEPT ![i] = envelope]
  /\ rows' = [rows EXCEPT ![i] = Len(VersionsOf[i]) + 1]
  /\ firstSeen' = [v \in Version |-> FirstSeen(v)']

Next == \E i \in Items, envelope \in Envelopes : Store(i, envelope)

Spec == Init /\ [][Next]_vars
=============================================================================
