---------------------------- MODULE MailboxStore ----------------------------
(***************************************************************************)
(* One mailbox: the messages this node keeps for a public key, put there   *)
(* by OnPubsubMsgRequest, paged out and deleted by OnReadMailboxRequest    *)
(* (dmsg/service/mailbox/service.go), and the loop of readMailbox that     *)
(* asks for page after page (dmsg/service/mailbox/client.go).              *)
(*                                                                         *)
(* The lock that keeps readers apart, MsgRWMutex, belongs to the user      *)
(* object in serviceUserList, and a handler looks the object up before it  *)
(* locks it.  A release followed by a create makes a new object with a     *)
(* new lock: gen counts the objects, and a handler may still be at work    *)
(* under the lock of an earlier one.                                       *)
(*                                                                         *)
(* A message is its rank in key order (keys hold the sender, the request   *)
(* ID and the time after the owner's prefix: their order is not that of    *)
(* arrival).  A message is put once: IDs are fresh and pubsub suppresses   *)
(* repeats.  Reads that stop at the enable flag send no answer and are     *)
(* requests lost.  cleanRestServiceUser has no caller (the call in Start   *)
(* is commented out) and is not here.                                      *)
(***************************************************************************)
EXTENDS Integers, FiniteSets, FiniteSetsExt

CONSTANTS
    Msg,          \* messages, by rank in key order
    Size,         \* bytes of content of each message
    PageLimit,    \* MaxContentSize: a page that reaches it is closed
    Handler,      \* goroutines that serve read requests
    Client,       \* callers of readMailbox for the key
    Nobody,         \* no handler, no client
    MaxGen,       \* bound: user objects made for the key
    MaxLoss       \* bound: read requests that never reach the handler

(* A message is smaller than a page: pubsub refuses messages above 1 MiB   *)
(* and MaxContentSize is 2 MiB.                                            *)
ASSUME StoreAssumption ==
    /\ Msg \in SUBSET Nat
    /\ IsFiniteSet(Msg)
    /\ Size \in [Msg -> Nat]
    /\ PageLimit \in Nat
    /\ \A m \in Msg : Size[m] < PageLimit
    /\ Nobody \notin Handler \cup Client
    /\ MaxGen \in Nat \ {0}
    /\ MaxLoss \in Nat

VARIABLES
    store,      \* messages in the datastore under the key's prefix
    arrival,    \* where the handler of each message is
    putGen,     \* the user object that handler looked up
    served,     \* the key is in serviceUserList
    gen,        \* how many user objects there have been
    lock,       \* who holds the lock of each user object
    hpc,        \* where each read handler is
    hgen,       \* the user object it looked up
    asker,      \* the client it serves; Nobody asks to clear the mailbox
    page,       \* the messages it will return
    doomed,     \* the messages it has yet to delete
    more,       \* the ExistData of its answer
    cpc,        \* where each client is in readMailbox
    waitFor     \* the handler that has a client's last request

(* History: what became of messages, for the properties.                   *)
VARIABLES
    delivered,  \* handed to the receive callback or the caller of a client
    lost,       \* went with an answer that never arrived or was handed to
                \* nobody, or were cleared
    again,      \* may be returned by a second read
    want,       \* what the mailbox held when the client's loop began
    losses      \* requests lost so far

putVars    == <<arrival, putGen>>
userVars   == <<served, gen>>
jobVars    == <<hgen, asker, page, doomed, more>>
clientVars == <<cpc, waitFor, want>>
fateVars   == <<delivered, lost, again>>
storeVars == <<store, putVars, userVars, lock, hpc, jobVars, clientVars, fateVars,
          losses>>

Gen == 1..MaxGen
Taken == {h \in Handler : hpc[h] \in {"delete", "reply"}}
InHand == UNION {page[h] : h \in Taken}

StoreTypeOK ==
    /\ store \in SUBSET Msg
    /\ arrival \in [Msg -> {"away", "held", "stored", "gone"}]
    /\ putGen \in [Msg -> Gen]
    /\ served \in BOOLEAN
    /\ gen \in Gen
    /\ lock \in [Gen -> Handler \cup {Nobody}]
    /\ hpc \in [Handler -> {"idle", "asked", "lock", "delete", "reply", "failed"}]
    /\ hgen \in [Handler -> Gen]
    /\ asker \in [Handler -> Client \cup {Nobody}]
    /\ page \in [Handler -> SUBSET Msg]
    /\ doomed \in [Handler -> SUBSET Msg]
    /\ more \in [Handler -> BOOLEAN]
    /\ cpc \in [Client -> {"idle", "waiting", "next", "done"}]
    /\ waitFor \in [Client -> Handler \cup {Nobody}]
    /\ want \in [Client -> SUBSET Msg]
    /\ delivered \in SUBSET Msg
    /\ lost \in SUBSET Msg
    /\ again \in SUBSET Msg
    /\ losses \in 0..MaxLoss

StoreInit ==
    /\ store = {}
    /\ arrival = [m \in Msg |-> "away"]
    /\ putGen = [m \in Msg |-> 1]
    /\ served = TRUE
    /\ gen = 1
    /\ lock = [g \in Gen |-> Nobody]
    /\ hpc = [h \in Handler |-> "idle"]
    /\ hgen = [h \in Handler |-> 1]
    /\ asker = [h \in Handler |-> Nobody]
    /\ page = [h \in Handler |-> {}]
    /\ doomed = [h \in Handler |-> {}]
    /\ more = [h \in Handler |-> FALSE]
    /\ cpc = [c \in Client |-> "idle"]
    /\ waitFor = [c \in Client |-> Nobody]
    /\ want = [c \in Client |-> {}]
    /\ delivered = {}
    /\ lost = {}
    /\ again = {}
    /\ losses = 0

-----------------------------------------------------------------------------
(* One page of the stored messages.                                        *)

SizeOf(S) == MapThenSumSet(LAMBDA m : Size[m], S)

(* The sizes have not reached the limit.                                   *)
Below(S) == SizeOf(S) < PageLimit

(* Messages are taken in key order until their sizes reach the limit.      *)
PageOf(S) == {m \in S : Below({l \in S : l < m})}

(* The message that makes a page full, if one does.                        *)
Filling(S) == {m \in PageOf(S) : ~Below({l \in S : l <= m})}

Full(S) == Filling(S) # {}

(* Variant: a full page is left alone.                                     *)
DoomedIfNotFull(S) == IF Full(S) THEN {} ELSE PageOf(S)

(* The message that fills a page is returned, but the loop is left before  *)
(* its key joins those to delete.                                          *)
DoomedOf(S) == PageOf(S) \ Filling(S)

(* Variant of ExistData: an off-by-one.                                    *)
ExistDataBeyondNext(S) == Full(S) /\ Cardinality(S \ PageOf(S)) > 1

ExistData(S) == Full(S) /\ PageOf(S) # S

-----------------------------------------------------------------------------
(* OnPubsubMsgRequest.                                                     *)

PutLookup(m) ==
    /\ served
    /\ arrival[m] = "away"
    /\ arrival' = [arrival EXCEPT ![m] = "held"]
    /\ putGen' = [putGen EXCEPT ![m] = gen]
    /\ UNCHANGED <<store, userVars, lock, hpc, jobVars, clientVars, fateVars,
                   losses>>

(* The read lock is free unless a reader holds the object's lock.          *)
PutStore(m) ==
    /\ arrival[m] = "held"
    /\ lock[putGen[m]] = Nobody
    /\ store' = store \cup {m}
    /\ arrival' = [arrival EXCEPT ![m] = "stored"]
    /\ UNCHANGED <<putGen, userVars, lock, hpc, jobVars, clientVars, fateVars,
                   losses>>

(* The datastore refuses the message: it is logged and forgotten.          *)
PutError(m) ==
    /\ arrival[m] = "held"
    /\ lock[putGen[m]] = Nobody
    /\ arrival' = [arrival EXCEPT ![m] = "gone"]
    /\ UNCHANGED <<store, putGen, userVars, lock, hpc, jobVars, clientVars,
                   fateVars, losses>>

-----------------------------------------------------------------------------
(* A handler is done: its locals are gone.                                 *)
Finish(h) ==
    /\ hpc' = [hpc EXCEPT ![h] = "idle"]
    /\ hgen' = [hgen EXCEPT ![h] = 1]
    /\ asker' = [asker EXCEPT ![h] = Nobody]
    /\ page' = [page EXCEPT ![h] = {}]
    /\ doomed' = [doomed EXCEPT ![h] = {}]
    /\ more' = [more EXCEPT ![h] = FALSE]

(* OnReadMailboxRequest.                                                   *)

(* A request that asks to clear the mailbox (no client of the repository   *)
(* sends one, the handler serves it).                                      *)
ClearRequest(h) ==
    /\ hpc[h] = "idle"
    /\ hpc' = [hpc EXCEPT ![h] = "asked"]
    /\ asker' = [asker EXCEPT ![h] = Nobody]
    /\ UNCHANGED <<store, putVars, userVars, lock, hgen, page, doomed, more,
                   clientVars, fateVars, losses>>

RequestLost(h) ==
    /\ hpc[h] = "asked"
    /\ losses < MaxLoss
    /\ losses' = losses + 1
    /\ Finish(h)
    /\ UNCHANGED <<store, putVars, userVars, lock, clientVars, fateVars>>

Lookup(h) ==
    /\ hpc[h] = "asked"
    /\ hpc' = [hpc EXCEPT ![h] = IF served THEN "lock" ELSE "failed"]
    /\ hgen' = [hgen EXCEPT ![h] = gen]
    /\ UNCHANGED <<store, putVars, userVars, lock, asker, page, doomed, more,
                   clientVars, fateVars, losses>>

(* Messages a reader under another object's lock has in hand.              *)
Shared(h) ==
    UNION {page[k] : k \in {i \in Handler : hpc[i] = "delete" /\ hgen[i] # hgen[h]}}

Read(h) ==
    /\ hpc[h] = "lock"
    /\ lock[hgen[h]] = Nobody
    /\ lock' = [lock EXCEPT ![hgen[h]] = h]
    /\ hpc' = [hpc EXCEPT ![h] = "delete"]
    /\ page' = [page EXCEPT ![h] = IF asker[h] = Nobody THEN {} ELSE PageOf(store)]
    /\ doomed' = [doomed EXCEPT ![h] =
                      IF asker[h] = Nobody THEN store ELSE DoomedOf(store)]
    /\ more' = [more EXCEPT ![h] = asker[h] # Nobody /\ ExistData(store)]
    /\ again' = again \cup (page'[h] \cap (Filling(store) \cup Shared(h)))
    /\ UNCHANGED <<store, putVars, userVars, hgen, asker, clientVars, delivered,
                   lost, losses>>

(* The datastore cannot be queried: an error answer.                       *)
ReadError(h) ==
    /\ hpc[h] = "lock"
    /\ lock[hgen[h]] = Nobody
    /\ hpc' = [hpc EXCEPT ![h] = "failed"]
    /\ UNCHANGED <<store, putVars, userVars, lock, jobVars, clientVars, fateVars,
                   losses>>

(* Deletes go in key order; one that fails is logged and passed over.      *)
FirstDoomed(h) == Min(doomed[h])

Delete(h) ==
    /\ hpc[h] = "delete"
    /\ doomed[h] # {}
    /\ doomed' = [doomed EXCEPT ![h] = @ \ {FirstDoomed(h)}]
    /\ store' = store \ {FirstDoomed(h)}
    /\ lost' = IF asker[h] = Nobody THEN lost \cup {FirstDoomed(h)} ELSE lost
    /\ UNCHANGED <<putVars, userVars, lock, hpc, hgen, asker, page, more,
                   clientVars, delivered, again, losses>>

DeleteError(h) ==
    /\ hpc[h] = "delete"
    /\ doomed[h] # {}
    /\ doomed' = [doomed EXCEPT ![h] = @ \ {FirstDoomed(h)}]
    /\ again' = again \cup {FirstDoomed(h)}
    /\ UNCHANGED <<store, putVars, userVars, lock, hpc, hgen, asker, page, more,
                   clientVars, delivered, lost, losses>>

(* The deferred unlock runs before the answer is sent.                     *)
ReadReturn(h) ==
    /\ hpc[h] = "delete"
    /\ doomed[h] = {}
    /\ lock' = [lock EXCEPT ![hgen[h]] = Nobody]
    /\ hpc' = [hpc EXCEPT ![h] = "reply"]
    /\ UNCHANGED <<store, putVars, userVars, jobVars, clientVars, fateVars, losses>>

-----------------------------------------------------------------------------
(* The answer.  The response reaches HandleResponseData, which gives its   *)
(* messages to the callback whether or not the caller still waits, and     *)
(* then offers it to the caller on a channel nobody may be reading yet.    *)
(* Without a callback a page is handed only to a caller who waits; one     *)
(* that is handed to nobody, or whose keys do not parse, is ResponseLost.  *)

WaitsFor(c, h) == asker[h] = c /\ waitFor[c] = h

(* Variant: the messages of an answer that comes too late are dropped.     *)
HandedIfAwaited(h) == IF \E c \in Client : WaitsFor(c, h) THEN page[h] ELSE {}

Handed(h) == page[h]

Leave(c, label) ==
    /\ cpc' = [cpc EXCEPT ![c] = label]
    /\ waitFor' = [waitFor EXCEPT ![c] = Nobody]

Respond(h) ==
    /\ hpc[h] = "reply"
    /\ Finish(h)
    /\ delivered' = delivered \cup Handed(h)
    /\ \/ \E c \in Client :
              /\ WaitsFor(c, h)
              /\ Leave(c, IF more[h] THEN "next" ELSE "done")
       \/ UNCHANGED <<cpc, waitFor>>
    /\ UNCHANGED <<store, putVars, userVars, lock, want, lost, again, losses>>

RespondError(h) ==
    /\ hpc[h] = "failed"
    /\ Finish(h)
    /\ \/ \E c \in Client : WaitsFor(c, h) /\ Leave(c, "idle")
       \/ UNCHANGED <<cpc, waitFor>>
    /\ UNCHANGED <<store, putVars, userVars, lock, want, fateVars, losses>>

(* The stream to the asker fails; or the answer arrives and no callback is *)
(* set and nobody waits for it, or a key in it does not parse (the caller's*)
(* error is then Timeout). What was deleted for it is gone.                *)
ResponseLost(h) ==
    /\ hpc[h] = "reply"
    /\ Finish(h)
    /\ lost' = lost \cup page[h]
    /\ UNCHANGED <<store, putVars, userVars, lock, clientVars, delivered, again,
                   losses>>

-----------------------------------------------------------------------------
(* readMailbox: requests go on while the answers say there is more.        *)

Ask(c, h) ==
    /\ cpc[c] \in {"idle", "next"}
    /\ hpc[h] = "idle"
    /\ hpc' = [hpc EXCEPT ![h] = "asked"]
    /\ asker' = [asker EXCEPT ![h] = c]
    /\ cpc' = [cpc EXCEPT ![c] = "waiting"]
    /\ waitFor' = [waitFor EXCEPT ![c] = h]
    /\ want' = [want EXCEPT ![c] = IF cpc[c] = "idle" THEN store ELSE @]
    /\ UNCHANGED <<store, putVars, userVars, lock, hgen, page, doomed, more,
                   fateVars, losses>>

Timeout(c) ==
    /\ cpc[c] = "waiting"
    /\ Leave(c, "idle")
    /\ UNCHANGED <<store, putVars, userVars, lock, hpc, jobVars, want, fateVars,
                   losses>>

(* readMailbox has returned without an error.                              *)
Return(c) ==
    /\ cpc[c] = "done"
    /\ cpc' = [cpc EXCEPT ![c] = "idle"]
    /\ UNCHANGED <<store, putVars, userVars, lock, hpc, jobVars, waitFor, want,
                   fateVars, losses>>

-----------------------------------------------------------------------------
(* The registration, and the end of the process (modelled in full by       *)
(* MailboxService).                                                        *)

Unregister ==
    /\ served
    /\ served' = FALSE
    /\ UNCHANGED <<store, putVars, gen, lock, hpc, jobVars, clientVars, fateVars,
                   losses>>

Register ==
    /\ ~served
    /\ gen < MaxGen
    /\ served' = TRUE
    /\ gen' = gen + 1
    /\ UNCHANGED <<store, putVars, lock, hpc, jobVars, clientVars, fateVars, losses>>

(* The process ends and starts again; its handlers are gone, and with them *)
(* the pages they had begun to delete.                                     *)
Restart ==
    /\ gen < MaxGen
    /\ gen' = gen + 1
    /\ lock' = [g \in Gen |-> Nobody]
    /\ hpc' = [h \in Handler |-> "idle"]
    /\ hgen' = [h \in Handler |-> 1]
    /\ asker' = [h \in Handler |-> Nobody]
    /\ page' = [h \in Handler |-> {}]
    /\ doomed' = [h \in Handler |-> {}]
    /\ more' = [h \in Handler |-> FALSE]
    /\ arrival' = [m \in Msg |-> IF arrival[m] = "held" THEN "gone" ELSE arrival[m]]
    /\ lost' = lost \cup (InHand \ store)
    /\ again' = again \cup (InHand \cap store)
    /\ UNCHANGED <<store, putGen, served, clientVars, delivered, losses>>

-----------------------------------------------------------------------------
Put(m) == PutLookup(m) \/ PutStore(m) \/ PutError(m)

ReadRequest(h) ==
    Lookup(h) \/ Read(h) \/ Delete(h) \/ ReadReturn(h) \/ Respond(h) \/ RespondError(h)

Fault(h) ==
    RequestLost(h) \/ ReadError(h) \/ DeleteError(h) \/ ResponseLost(h)

StoreNext ==
    \/ \E m \in Msg : Put(m)
    \/ \E h \in Handler : ReadRequest(h) \/ Fault(h) \/ ClearRequest(h)
    \/ \E c \in Client : Timeout(c) \/ Return(c) \/ \E h \in Handler : Ask(c, h)
    \/ Unregister
    \/ Register
    \/ Restart

StoreSpec == StoreInit /\ [][StoreNext]_storeVars

(* Handlers run to their end and MsgRWMutex starves nobody; a datastore    *)
(* error is transient; time.After fires; and the owner goes on reading     *)
(* (there is no limit on handlers in the code: a free one comes up again). *)
Fairness ==
    /\ \A h \in Handler :
          /\ WF_storeVars(ReadRequest(h))
          /\ SF_storeVars(Read(h))
          /\ SF_storeVars(Delete(h))
    /\ \A c \in Client :
          /\ WF_storeVars(Timeout(c))
          /\ WF_storeVars(Return(c))
          /\ SF_storeVars(\E h \in Handler : Ask(c, h))

-----------------------------------------------------------------------------
(* What the mailbox guarantees.                                            *)

(* A message that was stored is in the datastore, in the hands of a        *)
(* handler, or its fate is known: it reached a client, went down with an   *)
(* answer that did not arrive or that nobody took (no callback, a key that *)
(* does not parse: client.go:259-269), or was cleared on request.          *)
NothingVanishes ==
    {m \in Msg : arrival[m] = "stored" /\ m \notin store}
        \subseteq InHand \cup delivered \cup lost

(* A message is returned by one read only: what has left with an answer is *)
(* no longer stored, and no two handlers have the same message in hand.    *)
(* The exceptions (again) are the message that fills a page, a delete that *)
(* failed, a restart between two deletes, and readers under the locks of   *)
(* two user objects of a key that was released and created again.          *)
ReturnedOnce ==
    /\ (delivered \cup lost) \cap store \subseteq again
    /\ \A h, k \in Taken : h # k => page[h] \cap page[k] \subseteq again

(* When readMailbox returns without an error, every message the mailbox    *)
(* held when it began has been handed over or taken out by another reader. *)
ReadAllOnSuccess ==
    \A c \in Client : cpc[c] = "done" => want[c] \cap store \subseteq delivered

(* While its owner keeps reading, a stored message is handed over in the   *)
(* end, unless the key is released or an answer that has it is lost or     *)
(* taken by nobody.                                                        *)
StoredIsRead ==
    \A m \in Msg : m \in store ~> (m \in delivered \cup lost \/ ~served)
=============================================================================
