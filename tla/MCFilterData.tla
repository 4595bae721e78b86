---------------------------- MODULE MCFilterData ----------------------------
(* Instances of FilterData for TLC.                                        *)
EXTENDS FilterData
=============================================================================
