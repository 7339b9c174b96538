--------------------------- MODULE MCRequestTable ---------------------------
(* Instances of RequestTable for TLC.                                      *)
EXTENDS RequestTable, TLC

Symmetry == Permutations(Peer) \cup Permutations(Object)
=============================================================================
