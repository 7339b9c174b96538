----------------------------- MODULE DkvsStore ------------------------------
(***************************************************************************)
(* One key of the DKVS on one node: the record in the node's datastore,    *)
(* the goroutines that write it, and the way a record put here takes to    *)
(* the peers of the DHT (dkvs/dht.go; Put, TransferKey and the reads of    *)
(* dkvs/dkvs.go).                                                          *)
(*                                                                         *)
(* Put answers as soon as the record is in the datastore; a goroutine then *)
(* reads it back and sends it to peers.  When the DHT has no peer in its   *)
(* routing table the key is listed as not synchronised, and a ticker sends *)
(* listed keys later.  No lock makes the read, the choice and the write of *)
(* putKeyToLocalNode one step.  libp2p's own handler of a peer's put       *)
(* writes the same datastore; it excludes itself, not these writers, so it *)
(* is one of them here.                                                    *)
(*                                                                         *)
(* The datastore and the list survive the process.                         *)
(***************************************************************************)
EXTENDS DkvsRecord, FiniteSets

CONSTANTS
    Writer,     \* goroutines that write the key's record
    Sync,       \* the ticker's goroutine
    Peer,       \* service nodes
    MaxTime,    \* bound: the clock
    MaxTries    \* attempts of dhtPut

Proc == Writer \cup {Sync}

ASSUME StoreAssumption ==
    /\ Sync \notin Writer
    /\ MaxTime \in Nat
    /\ MaxTries \in Nat \ {0}

VARIABLES
    now,        \* the clock
    local,      \* the record in the datastore, or None
    listed,     \* the key is in the database of keys not synchronised
    peer,       \* the record each peer has, or None
    pc,         \* where each goroutine is
    rec,        \* the record a goroutine writes or sends
    seen,       \* what the datastore held when the writer read it (history)
    tries       \* attempts a transfer has left

(* History, for the properties.                                            *)
VARIABLES
    mine,       \* the last write to the datastore was that of a Put
    fate        \* what became of each record on its way to the peers

procVars == <<pc, rec, seen, tries>>
fateVars == <<mine, fate>>
vars == <<now, local, listed, peer, procVars, fateVars>>

Writing == {"put", "inbound", "transfer"}
MaybeRec == Rec \cup {None}

(* A record has reached a peer, its way was cut by one of the races named  *)
(* below, or it was cut and yet logged as a success.                       *)
Fate == {"none", "reached", "cut", "announced"}

TypeOK ==
    /\ now \in 0..MaxTime
    /\ local \in MaybeRec
    /\ listed \in BOOLEAN
    /\ peer \in [Peer -> MaybeRec]
    /\ pc \in [Proc -> Writing \cup {"idle", "fetch", "send", "list", "publish",
                                     "delete"}]
    /\ rec \in [Proc -> MaybeRec]
    /\ seen \in [Writer -> MaybeRec]
    /\ tries \in [Writer -> 0..MaxTries]
    /\ mine \in BOOLEAN
    /\ fate \in [Rec -> Fate]

(* A node starts with whatever its datastore and its list hold.            *)
Init ==
    /\ now = 0
    /\ local \in MaybeRec
    /\ listed \in BOOLEAN
    /\ peer = [p \in Peer |-> None]
    /\ pc = [x \in Proc |-> "idle"]
    /\ rec = [x \in Proc |-> None]
    /\ seen = [w \in Writer |-> None]
    /\ tries = [w \in Writer |-> 0]
    /\ mine = FALSE
    /\ fate = [r \in Rec |-> "none"]

(* The fate of r is known; one that has reached a peer stays there.        *)
Settle(r, f) ==
    fate' = [s \in Rec |-> IF s = r /\ fate[s] # "reached" THEN f ELSE fate[s]]

Goto(x, label) == pc' = [pc EXCEPT ![x] = label]

(* A goroutine is at its end, or at its next tick.                         *)
Done(x) ==
    /\ Goto(x, "idle")
    /\ rec' = [rec EXCEPT ![x] = None]

(* ValidateRecord, of a record that is signed and formed as it should be.  *)
Valid(r) == now <= r.validity

(* getRecordFromDatastore: a record that has expired is as good as none.   *)
Live(r) == IF r # None /\ Valid(r) THEN r ELSE None

-----------------------------------------------------------------------------
(* putKeyToLocalNode, first half: the record is validated, the one in the  *)
(* datastore read and Select asked.  A record that may not replace it is   *)
(* refused, which changes nothing.                                         *)

(* Variant: the record in the datastore is not asked for.                  *)
AdmitAny(w, r, why) ==
    /\ pc[w] = "idle"
    /\ Valid(r)
    /\ Goto(w, why)
    /\ rec' = [rec EXCEPT ![w] = r]
    /\ seen' = [seen EXCEPT ![w] = local]
    /\ UNCHANGED <<now, local, listed, peer, tries, fateVars>>

Admit(w, r, why) ==
    /\ pc[w] = "idle"
    /\ Valid(r)
    /\ Replaces(r, Live(local))
    /\ Goto(w, why)
    /\ rec' = [rec EXCEPT ![w] = r]
    /\ seen' = [seen EXCEPT ![w] = local]
    /\ UNCHANGED <<now, local, listed, peer, tries, fateVars>>

(* Put, after the checks of the key and of the signature.                  *)
Put(w, r) == Admit(w, r, "put")

(* saveKeyToLocal, with what a read brought from the network.              *)
SaveRead(w, p) == peer[p] # None /\ Admit(w, peer[p], "inbound")

(* A peer's put, by libp2p's handler.                                      *)
Inbound(w, r) == Admit(w, r, "inbound")

(* TransferKey: the record found here or at a peer must belong to the one  *)
(* who gives the key away; dhtPut then starts with the local node.         *)
Found(r) == r = Live(local) \/ \E p \in Peer : r = Live(peer[p])

Transfer(w, r) ==
    /\ \E old \in Rec : Found(old) /\ old.owner = r.from
    /\ Admit(w, r, "transfer")

(* Second half: the record is written over whatever is there by now.       *)
AfterWrite(w) ==
    CASE pc[w] = "put" -> "fetch"
      [] pc[w] = "transfer" -> "publish"
      [] OTHER -> "idle"

Write(w) ==
    /\ pc[w] \in Writing
    /\ local' = rec[w]
    /\ mine' = (pc[w] = "put")
    /\ rec' = [rec EXCEPT ![w] = IF pc[w] = "transfer" THEN @ ELSE None]
    /\ seen' = [seen EXCEPT ![w] = None]
    /\ tries' = [tries EXCEPT ![w] = IF pc[w] = "transfer" /\ @ = 0 THEN MaxTries ELSE @]
    /\ Goto(w, AfterWrite(w))
    /\ UNCHANGED <<now, listed, peer, fate>>

(* The datastore refuses: an error to the caller.                          *)
WriteError(w) ==
    /\ pc[w] \in Writing
    /\ Done(w)
    /\ seen' = [seen EXCEPT ![w] = None]
    /\ tries' = [tries EXCEPT ![w] = 0]
    /\ UNCHANGED <<now, local, listed, peer, fateVars>>

-----------------------------------------------------------------------------
(* The goroutine of asyncPut and the ticker's read the record back.        *)

(* Variant: a key listed in an earlier life of the process is passed over. *)
SyncStartMine ==
    /\ pc[Sync] = "idle"
    /\ listed
    /\ mine
    /\ Goto(Sync, "fetch")
    /\ UNCHANGED <<now, local, listed, peer, rec, seen, tries, fateVars>>

SyncStart ==
    /\ pc[Sync] = "idle"
    /\ listed
    /\ Goto(Sync, "fetch")
    /\ UNCHANGED <<now, local, listed, peer, rec, seen, tries, fateVars>>

Fetch(x) ==
    /\ pc[x] = "fetch"
    /\ Live(local) # None
    /\ rec' = [rec EXCEPT ![x] = local]
    /\ Goto(x, "send")
    /\ UNCHANGED <<now, local, listed, peer, seen, tries, fateVars>>

(* The record has expired or cannot be read.  The goroutine of asyncPut    *)
(* gives up; the ticker's strikes the key from the list.                   *)
FetchNothing(x) ==
    /\ pc[x] = "fetch"
    /\ IF x = Sync THEN Goto(x, "delete") /\ UNCHANGED rec ELSE Done(x)
    /\ Settle(local, "cut")
    /\ UNCHANGED <<now, local, listed, peer, seen, tries, mine>>

-----------------------------------------------------------------------------
(* putKeyToNetNode.                                                        *)

(* A peer takes a record as libp2p's handler does.                         *)
Takes(p, r) == Valid(r) /\ Replaces(r, Live(peer[p]))

(* The end of a sending that returned no error: asyncPut logs a success,   *)
(* the ticker's goroutine goes on to strike the key.                       *)
TakenForDone(x, taken) ==
    /\ IF x = Sync THEN Goto(x, "delete") /\ UNCHANGED rec ELSE Done(x)
    /\ Settle(rec[x], IF taken THEN "reached"
                      ELSE IF x = Sync THEN "cut" ELSE "announced")

(* Peers were found; A are those that take the record.                     *)
Send(x, A) ==
    /\ pc[x] = "send"
    /\ \A p \in A : Takes(p, rec[x])
    /\ peer' = [p \in Peer |-> IF p \in A THEN rec[x] ELSE peer[p]]
    /\ TakenForDone(x, A # {})
    /\ UNCHANGED <<now, local, listed, seen, tries, mine>>

(* No peer is found, but a node answers when asked what it is: the error   *)
(* is dropped and the record goes to nobody.                               *)
SendToNobody(x) ==
    /\ pc[x] = "send"
    /\ TakenForDone(x, FALSE)
    /\ UNCHANGED <<now, local, listed, peer, seen, tries, mine>>

(* None of the closest peers is a service node, and no node answers: an    *)
(* error that asyncPut takes for a success and the ticker heeds.           *)
NoServicePeer(w) ==
    /\ pc[w] = "send"
    /\ TakenForDone(w, FALSE)
    /\ UNCHANGED <<now, local, listed, peer, seen, tries, mine>>

SyncNoPeer ==
    /\ pc[Sync] = "send"
    /\ Done(Sync)
    /\ UNCHANGED <<now, local, listed, peer, seen, tries, fateVars>>

(* The routing table is empty: the one error for which the key is listed.  *)
LookupFailure(w) ==
    /\ pc[w] = "send"
    /\ Goto(w, "list")
    /\ UNCHANGED <<now, local, listed, peer, rec, seen, tries, fateVars>>

(* Variant: nothing is listed.                                             *)
ListNothing(w) ==
    /\ pc[w] = "list"
    /\ Done(w)
    /\ UNCHANGED <<now, local, listed, peer, seen, tries, fateVars>>

List(w) ==
    /\ pc[w] = "list"
    /\ listed' = TRUE
    /\ Done(w)
    /\ UNCHANGED <<now, local, peer, seen, tries, fateVars>>

ListError(w) ==
    /\ pc[w] = "list"
    /\ Settle(rec[w], "cut")
    /\ Done(w)
    /\ UNCHANGED <<now, local, listed, peer, seen, tries, mine>>

(* The ticker's goroutine strikes the key, whatever the key holds by now.  *)
SyncDelete ==
    /\ pc[Sync] = "delete"
    /\ listed' = FALSE
    /\ Settle(IF local = rec[Sync] THEN None ELSE local, "cut")
    /\ Done(Sync)
    /\ UNCHANGED <<now, local, peer, seen, tries, mine>>

SyncDeleteError ==
    /\ pc[Sync] = "delete"
    /\ Done(Sync)
    /\ UNCHANGED <<now, local, listed, peer, seen, tries, fateVars>>

-----------------------------------------------------------------------------
(* dhtPut of a transfer: the closest peers are sent the record.            *)

Publish(w, A) ==
    /\ pc[w] = "publish"
    /\ \A p \in A : Takes(p, rec[w])
    /\ peer' = [p \in Peer |-> IF p \in A THEN rec[w] ELSE peer[p]]
    /\ tries' = [tries EXCEPT ![w] = 0]
    /\ Done(w)
    /\ UNCHANGED <<now, local, listed, seen, fateVars>>

(* An empty routing table is met by trying again, from the checks on: the  *)
(* record is once more compared with the one in the datastore.             *)
PublishRetry(w) ==
    /\ pc[w] = "publish"
    /\ tries[w] > 1
    /\ Valid(rec[w])
    /\ Replaces(rec[w], Live(local))
    /\ Goto(w, "transfer")
    /\ seen' = [seen EXCEPT ![w] = local]
    /\ tries' = [tries EXCEPT ![w] = @ - 1]
    /\ UNCHANGED <<now, local, listed, peer, rec, fateVars>>

(* The last attempt has failed, or the checks refuse the record by now: an *)
(* error, which leaves what the datastore holds.                           *)
PublishError(w) ==
    /\ pc[w] = "publish"
    /\ Done(w)
    /\ tries' = [tries EXCEPT ![w] = 0]
    /\ UNCHANGED <<now, local, listed, peer, seen, fateVars>>

-----------------------------------------------------------------------------
(* The rest of the world: other nodes put records to the peers, time goes  *)
(* by, the process ends and starts again.                                  *)

PeerPut(p, r) ==
    /\ Takes(p, r)
    /\ peer' = [peer EXCEPT ![p] = r]
    /\ UNCHANGED <<now, local, listed, procVars, fateVars>>

Tick ==
    /\ now < MaxTime
    /\ now' = now + 1
    /\ UNCHANGED <<local, listed, peer, procVars, fateVars>>

(* A background put in flight is forgotten.                                *)
Restart ==
    /\ \E x \in Proc : pc[x] # "idle"
    /\ pc' = [x \in Proc |-> "idle"]
    /\ Settle(IF \E w \in Writer : pc[w] \in {"fetch", "send", "list"}
              THEN local ELSE None, "cut")
    /\ rec' = [x \in Proc |-> None]
    /\ seen' = [w \in Writer |-> None]
    /\ tries' = [w \in Writer |-> 0]
    /\ UNCHANGED <<now, local, listed, peer, mine>>

-----------------------------------------------------------------------------
Deliver(x) ==
    \/ Fetch(x)
    \/ FetchNothing(x)
    \/ \E A \in SUBSET Peer : Send(x, A)
    \/ SendToNobody(x)

Store(w) ==
    \/ \E r \in Rec : Put(w, r) \/ Inbound(w, r) \/ Transfer(w, r)
    \/ \E p \in Peer : SaveRead(w, p)
    \/ Write(w)
    \/ WriteError(w)
    \/ NoServicePeer(w)
    \/ LookupFailure(w)
    \/ List(w)
    \/ ListError(w)
    \/ \E A \in SUBSET Peer : Publish(w, A)
    \/ PublishRetry(w)
    \/ PublishError(w)

Synchronise == SyncStart \/ SyncNoPeer \/ SyncDelete \/ SyncDeleteError

Next ==
    \/ \E w \in Writer : Store(w)
    \/ \E x \in Proc : Deliver(x)
    \/ Synchronise
    \/ \E p \in Peer, r \in Rec : PeerPut(p, r)
    \/ Tick
    \/ Restart

Spec == Init /\ [][Next]_vars

(* The ticker fires every ten seconds while the node has a connection, and *)
(* the node has one; its lookups find a service node again and again.      *)
Fairness ==
    /\ WF_vars(SyncStart)
    /\ WF_vars(Fetch(Sync) \/ FetchNothing(Sync))
    /\ WF_vars(SyncDelete)
    /\ SF_vars(\E A \in SUBSET Peer : Send(Sync, A))

-----------------------------------------------------------------------------
(* What the store guarantees.                                              *)

(* A goroutine of asyncPut that will send r, or list the key.              *)
Carries(w, r) ==
    \/ pc[w] = "fetch"
    \/ pc[w] \in {"send", "list"} /\ rec[w] = r

(* The record that Put left in the datastore, as long as it is valid, has  *)
(* reached a peer, is on its way to one or is listed for the ticker, unless*)
(* one of the races that forfeit it cut its way: a restart, a list or a    *)
(* datastore that failed, peers that all refused, no service peer, a node  *)
(* that answered in the place of a peer, a strike of the ticker that came  *)
(* after the next Put.                                                     *)
PutIsAccountedFor ==
    mine /\ Live(local) # None =>
        \/ fate[local] # "none"
        \/ listed
        \/ \E w \in Writer : Carries(w, local)

(* The record in the datastore is replaced only by a newer one, once it is *)
(* valid no more, or by a writer that made its choice before it was there. *)
NewerReplaces ==
    [][\/ local' = local
       \/ local = None
       \/ ~Valid(local)
       \/ IsOlder(local, local')
       \/ \E w \in Writer : pc[w] \in Writing /\ pc'[w] # pc[w] /\ seen[w] # local]_vars

(* The ticker of periodicallyProcessUnsyncKey comes to every listed record,*)
(* those listed in an earlier life of the process included: once the       *)
(* process is no longer restarted, the record is sent or struck from the   *)
(* list in the end, or another has taken its place.                        *)
ListedIsSettled ==
    (<>[][~Restart]_vars) =>
        \A r \in Rec : listed /\ local = r ~> fate[r] # "none" \/ local # r
=============================================================================
