-------------------------- MODULE MCMailboxService --------------------------
(* Instances of MailboxService for TLC.                                    *)
EXTENDS MailboxService, TLC

Symmetry == Permutations(User) \cup Permutations(Worker)

(* A node whose older JSON list, if it has one, holds two keys at most.     *)
FewLegacy == Init /\ Cardinality(legacy) <= 2

SmallLegacy == FewLegacy /\ [][Next]_vars
=============================================================================
