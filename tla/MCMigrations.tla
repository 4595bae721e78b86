---------------------------- MODULE MCMigrations ----------------------------
(* Instances of Migrations for TLC: two contents of version 2, one file of *)
(* version 1 and one of version 3, and the checkouts made of them.         *)
EXTENDS Migrations

CONSTANTS f1, f2, g2, f3

MCFile == {f1, f2, g2, f3}
MCVersionOf == [f \in MCFile |-> CASE f = f1 -> 1 [] f = f3 -> 3 [] OTHER -> 2]
MCDefiners == {g2}

(* Behind, ahead, diverged, with a gap, and with a version twice.          *)
MCDirectories == {{f1}, {f1, f2}, {f1, g2}, {f1, f2, f3}, {f1, f3}, {f2, g2}}

(* The checkouts of two releases.                                          *)
MCReleases == {{f1}, {f1, f2}}
=============================================================================
