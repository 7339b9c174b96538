--------------------------- MODULE MCMailboxStore ---------------------------
(* An instance of MailboxStore for TLC.                                    *)
EXTENDS MailboxStore, TLC

(* Messages of half a page: a page is full with two of them.               *)
ThreeMessages == 1..3
HalfPage == [m \in Msg |-> 1]

(* Two of the states StoreInit leads to: after a restart and a lost        *)
(* request, with two messages stored and one to come, more than fill a     *)
(* page; and with the faults to come, after a message that was refused.    *)
AtRest ==
    /\ putGen = [m \in Msg |-> 1] /\ served = TRUE
    /\ lock = [g \in Gen |-> Nobody]
    /\ hpc = [h \in Handler |-> "idle"] /\ hgen = [h \in Handler |-> 1]
    /\ asker = [h \in Handler |-> Nobody]
    /\ page = [h \in Handler |-> {}] /\ doomed = [h \in Handler |-> {}]
    /\ more = [h \in Handler |-> FALSE]
    /\ cpc = [c \in Client |-> "idle"] /\ waitFor = [c \in Client |-> Nobody]
    /\ want = [c \in Client |-> {}]
    /\ delivered = {} /\ lost = {} /\ again = {}
FaultsAreOver ==
    /\ gen = MaxGen /\ losses = MaxLoss
    /\ store = {1, 3}
    /\ arrival = [m \in Msg |-> IF m \in store THEN "stored" ELSE "away"]
FaultsAreToCome ==
    /\ gen = 1 /\ losses = 0
    /\ store = {}
    /\ arrival = [m \in Msg |-> IF m = 3 THEN "gone" ELSE "away"]

Begin == AtRest /\ (FaultsAreOver \/ FaultsAreToCome)

(* The owner goes on reading: for liveness.                                *)
OwnerReads == Begin /\ [][StoreNext]_storeVars /\ Fairness
=============================================================================
