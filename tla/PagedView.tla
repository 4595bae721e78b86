----------------------------- MODULE PagedView -----------------------------
(***************************************************************************)
(* What the infinite-scroll table promises about one query, with none of   *)
(* its machinery: the rows on screen are a growing prefix of the result,   *)
(* which only a re-read of the first page may cut back.                    *)
(***************************************************************************)
EXTENDS Naturals

CONSTANTS
  Size,      \* how many rows the query selects, a natural number
  First,     \* how many the first page holds, in 0..Size
  Refusals   \* may the server refuse a page

VARIABLES
  shown,     \* how many rows of the result are on screen
  more       \* does the view offer further rows

vars == <<shown, more>>

Init == shown = First /\ more = (First < Size)

\* More rows appear below; the offer ends exactly with the last row.
Extend == \E n \in shown..Size : shown' = n /\ more' = (n < Size)

\* The page is read again from the top.
Restart == shown' = First /\ more' = (First < Size)

\* A refused read ends the offer early: on a load-more below what is shown
\* (or was captured), on a re-read with no rows at all.
Refuse == Refusals /\ more' = FALSE /\ (shown' = 0 \/ shown' \in shown..Size)

Next == Extend \/ Restart \/ Refuse

Spec == Init /\ [][Next]_vars
=============================================================================
