------------------------------ MODULE OwnedKey ------------------------------
(* What the certificates of a key promise: who puts it while nobody has it *)
(* owns it until some time; he may prolong that, and up to then it passes  *)
(* from one to the next only as its owner, and one that he has agreed with,*)
(* have settled before.  When its time is over nobody has it.  What they   *)
(* agree on, and how it is paid, is no matter here; an agreement is never  *)
(* withdrawn.                                                              *)
EXTENDS Naturals

CONSTANTS User, None, Time

VARIABLES
    held,       \* [owner, until] of the key, or None
    agreed,     \* pairs: the first may hand the key to the second
    now         \* the clock

vars == <<held, agreed, now>>

Init == held = None /\ agreed = {} /\ now = 0

Hold(u, t) ==
    /\ now <= t
    /\ held' = [owner |-> u, until |-> t]
    /\ UNCHANGED <<agreed, now>>

Register(u, t) == held = None /\ Hold(u, t)

Renew(t) == held # None /\ Hold(held.owner, t)

HandOver(u, t) == held # None /\ <<held.owner, u>> \in agreed /\ Hold(u, t)

Agree ==
    /\ UNCHANGED <<held, now>>
    /\ agreed \subseteq agreed' /\ agreed' \subseteq User \X User

Tick ==
    /\ now' = now + 1
    /\ held' = IF held # None /\ held.until < now' THEN None ELSE held
    /\ UNCHANGED agreed

Next ==
    \/ Agree
    \/ Tick
    \/ \E t \in Time : Renew(t) \/ \E u \in User : Register(u, t) \/ HandOver(u, t)

Spec == Init /\ [][Next]_vars
=============================================================================
