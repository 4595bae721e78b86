-------------------------- MODULE MigrationHistory --------------------------
(***************************************************************************)
(* What one eval-history database may have been through: from nothing,     *)
(* the migration files of some checkout or other, one at a time and always *)
(* the next one of a checkout that has all those before it.  A file's SQL  *)
(* and its row in the ledger appear together.                              *)
(***************************************************************************)
EXTENDS Naturals, Sequences

CONSTANTS File,         \* migration files
          VersionOf,    \* per file, its version
          Directories   \* the checkouts, each a set of files

VARIABLES ledger,       \* the files on record, oldest first
          schema        \* the files whose SQL has been carried out

vars == <<ledger, schema>>

Past == {ledger[i] : i \in DOMAIN ledger}

Init == ledger = <<>> /\ schema = <<>>

(* f follows every file on record, and every other file of the checkout    *)
(* that is not on record follows f.                                        *)
IsNext(f, dir) ==
  /\ f \in dir \ Past
  /\ Past \subseteq dir
  /\ \A g \in Past : VersionOf[g] < VersionOf[f]
  /\ \A g \in dir \ (Past \cup {f}) : VersionOf[f] < VersionOf[g]

Apply(f) ==
  /\ ledger' = Append(ledger, f)
  /\ schema' = Append(schema, f)

Next == \E dir \in Directories : \E f \in dir : IsNext(f, dir) /\ Apply(f)

Spec == Init /\ [][Next]_vars
=============================================================================
