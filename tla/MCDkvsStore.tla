---------------------------- MODULE MCDkvsStore -----------------------------
(* Instances of DkvsStore for TLC.                                         *)
EXTENDS DkvsStore, TLC

(* A version of alice's, and the transfer of the key to bob until it       *)
(* expires.                                                                *)
First  == [seq |-> 1, validity |-> 1, rank |-> 1, owner |-> "alice", from |-> None]
Lent   == [seq |-> 3, validity |-> 0, rank |-> 3, owner |-> "bob", from |-> "alice"]

FirstAndLent == {First, Lent}

Owners == {"alice", "bob"}

FairSpec == Spec /\ Fairness
=============================================================================
