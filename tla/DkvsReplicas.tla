---------------------------- MODULE DkvsReplicas ----------------------------
(***************************************************************************)
(* The copies of one key on the nodes of the DHT.  A record travels by     *)
(* puts, by the corrections of readers and by the retries of senders: it   *)
(* may reach a node late, out of order, several times or never.  Each node *)
(* keeps what Select prefers, but choosing and writing are two steps:      *)
(* libp2p's handler holds the lock of the key, which keeps other handlers  *)
(* out; putKeyToLocalNode (a put, or a read that saves what it found)      *)
(* holds none.  Records do not expire here, and a datastore does not fail. *)
(***************************************************************************)
EXTENDS DkvsRecord, FiniteSets

CONSTANTS
    Node,
    Local,      \* the nodes whose own program puts or reads the key
    MaxWrites   \* bound: writes on their way at a time

ASSUME CopiesAssumption == Local \subseteq Node /\ MaxWrites \in Nat \ {0}

VARIABLES
    kept,     \* the record each node has, or None
    writes,   \* what is to be written at each node: [rec, old, by], where
              \* old is what was there at the choice (history)
    got,      \* the records written or refused at each node, and
    lost      \* those of them that were overwritten unseen (history)

copyVars == <<kept, writes, got, lost>>

Side == {"handler", "local"}

CopiesTypeOK ==
    /\ kept \in [Node -> Rec \cup {None}]
    /\ writes \in [Node -> SUBSET [rec : Rec, old : Rec \cup {None}, by : Side]]
    /\ got \in [Node -> SUBSET Rec]
    /\ lost \in [Node -> SUBSET Rec]

CopiesInit ==
    /\ kept = [n \in Node |-> None]
    /\ writes = [n \in Node |-> {}]
    /\ got = [n \in Node |-> {}]
    /\ lost = [n \in Node |-> {}]

-----------------------------------------------------------------------------
(* A record reaches a node: it is to be written, or refused.               *)
WillWrite(n, r, by) ==
    /\ Cardinality(UNION {writes[m] : m \in Node}) < MaxWrites
    /\ writes' = [writes EXCEPT ![n] = @ \cup {[rec |-> r, old |-> kept[n], by |-> by]}]
    /\ UNCHANGED <<kept, got, lost>>

Refuse(n, r) ==
    /\ got' = [got EXCEPT ![n] = @ \cup {r}]
    /\ lost' = [lost EXCEPT ![n] = @ \ {r}]
    /\ UNCHANGED <<kept, writes>>

(* Variant: a record already received is taken without a second look.      *)
ChooseAgain(n, r, by) ==
    IF r \in got[n] \/ Replaces(r, kept[n]) THEN WillWrite(n, r, by) ELSE Refuse(n, r)

Choose(n, r, by) ==
    IF Replaces(r, kept[n]) THEN WillWrite(n, r, by) ELSE Refuse(n, r)

(* PutValue and GetValue of peers, one at a time.                          *)
Handle(n, r) ==
    /\ \A w \in writes[n] : w.by # "handler"
    /\ Choose(n, r, "handler")

(* What a writer loses that has not seen the record it overwrites: the     *)
(* newer ones, since dht.go:82 reads, compares and writes without a lock.  *)
Overwritten(n, w) ==
    IF kept[n] \in {w.old, w.rec} THEN {} ELSE {r \in got[n] : IsOlder(w.rec, r)}

(* putLocal.                                                               *)
PutLocal(n, w) ==
    /\ kept' = [kept EXCEPT ![n] = w.rec]
    /\ writes' = [writes EXCEPT ![n] = @ \ {w}]
    /\ got' = [got EXCEPT ![n] = (@ \ Overwritten(n, w)) \cup {w.rec}]
    /\ lost' = [lost EXCEPT ![n] = (@ \cup Overwritten(n, w)) \ {w.rec}]

CopiesNext ==
    \E n \in Node :
        \/ \E r \in Rec : Handle(n, r) \/ (n \in Local /\ Choose(n, r, "local"))
        \/ \E w \in writes[n] : PutLocal(n, w)

CopiesSpec == CopiesInit /\ [][CopiesNext]_copyVars

-----------------------------------------------------------------------------
(* Records that any owner among them may replace: all from one key, or all *)
(* without Data from the keys of the public service.                       *)
Compatible(S) ==
    \/ \A a, b \in S : a.owner = b.owner
    \/ \A a \in S : a.from = None /\ a.owner \in Service

(* Whatever the order, the repetitions and the losses, a node that has     *)
(* received compatible records keeps the newest of them, but for those     *)
(* that a writer has overwritten unseen, until they reach it again.        *)
NewestIsKept ==
    \A n \in Node :
        Compatible(got[n]) /\ got[n] # {} =>
            kept[n] \in got[n] /\ \A r \in got[n] : ~IsOlder(kept[n], r)

(* So nodes that have received the same compatible records agree, without  *)
(* any coordination. (After a transfer they may not: a node that gets the  *)
(* new owner's update before the transfer refuses it for good.)            *)
ReplicasAgree ==
    \A m, n \in Node :
        got[m] = got[n] /\ Compatible(got[m]) => kept[m] = kept[n]

(* The key changes hands by a transfer from its owner, or between keys of  *)
(* the public service, and never goes back to an earlier instant.  At one  *)
(* and the same instant Select takes the record kept for the new one, so   *)
(* the owner that gave the key away may then still replace it.             *)
Passes(old, new) ==
    old # None =>
        /\ new.seq >= old.seq
        /\ \/ new.owner = old.owner
           \/ new.seq > old.seq /\ new.from = old.owner
           \/ new.seq = old.seq /\ old.from = new.owner
           \/ {new.owner, old.owner} \subseteq Service

(* What a node keeps changes hands so, from the record that is there or    *)
(* from the one that was there when the writer chose.                      *)
HandedOver ==
    [][\A n \in Node :
          kept'[n] # kept[n] =>
              \/ Passes(kept[n], kept'[n])
              \/ \E w \in writes[n] :
                    w.rec = kept'[n] /\ w.old # kept[n] /\ Passes(w.old, w.rec)]_copyVars
=============================================================================
