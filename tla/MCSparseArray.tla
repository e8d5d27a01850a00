---------------------------- MODULE MCSparseArray ----------------------------
(* Keys with a gap, below and above zero; more of them than the first        *)
(* capacity holds.                                                           *)
EXTENDS SparseArray

CONSTANTS v1, v2

MCKey == {-2, 1, 2, 5}
MCValue == {v1, v2}
=============================================================================
