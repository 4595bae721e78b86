--------------------------- MODULE MCTablePaging ---------------------------
(* Instances of TablePaging for TLC: result sets one to three pages long.  *)
EXTENDS TablePaging

\* One query, read again by revalidation.
OneQuery == {"byName"}

\* Two sort orders of different length, so a reset can keep or change the size.
TwoQueries == {"byName", "byDate"}

MCRows == [q \in Queries |-> IF q = "byName" THEN 5 ELSE 4]

\* byDate lists the rows of byName backwards and leaves the first of them out:
\* where a row of one stands in the order of the other.
MCSeek ==
  [q \in Queries |-> [r \in Row |->
     IF r.query = q THEN r.rank
     ELSE IF q = "byDate" /\ r.rank = 1 THEN 4
     ELSE 6 - r.rank]]

\* The server reads one order after the last row and the other by offset.
MCKeyset == {"byName"}

MCPids == 1..2
=============================================================================
