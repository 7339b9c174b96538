----------------------------- MODULE DkvsClient -----------------------------
(***************************************************************************)
(* One node, Self, that puts and reads the key over the copies of          *)
(* DkvsReplicas: putKeyToNetNode hands its record to the service peers and *)
(* notes who provides the key; Get asks the network and its own store at   *)
(* once (dhtGetRecord), and what the network gives is saved at home later, *)
(* beside puts and other reads.                                            *)
(***************************************************************************)
EXTENDS DkvsReplicas

CONSTANTS
    Self,       \* the node
    Own,        \* the records its own program puts
    Call        \* calls of Get

ASSUME ClientAssumption == Self \in Local /\ Own \subseteq Rec

VARIABLES
    stage,      \* where a call is
    net, loc,   \* its two goroutines: [at, rec], and where it is
    res,        \* the record it returned, if it came from the network
    saves,      \* records that goroutines of readRecordFromDhtNet save
    put,        \* putKeyToNetNode: [at, rec, rest, isInDhtNet]
    provides    \* the nodes its provider store has for the key

readVars == <<stage, net, loc, res, saves>>
putVars == <<put, provides>>
clientVars == <<copyVars, readVars, putVars>>

(* currentReadRecMode, which SetReadRecMode may change at any moment.      *)
Mode == {"LocalFirst", "NetworkFirst"}

NoNet == [at |-> "none", rec |-> None]
NoPut == [at |-> "idle", rec |-> None, rest |-> {}, isInDhtNet |-> FALSE]

ClientInit ==
    /\ CopiesInit
    /\ stage = [c \in Call |-> "idle"]
    /\ net = [c \in Call |-> NoNet]
    /\ loc = [c \in Call |-> "none"]
    /\ res = [c \in Call |-> None]
    /\ saves = {}
    /\ put = NoPut /\ provides = {}

-----------------------------------------------------------------------------
(* Records that reach nodes by the handlers of libp2p, the puts of the     *)
(* programs, and the writes that follow.                                   *)
Others ==
    /\ \E n \in Node :
          \/ \E r \in Rec :
                \/ Handle(n, r)
                \/ /\ n \in Local /\ (n = Self => r \in Own)
                   /\ Choose(n, r, "local")
          \/ \E w \in writes[n] : PutLocal(n, w)
    /\ UNCHANGED <<readVars, putVars>>

(* dhtGetRecord reads the mode once.                                       *)
Get(c) ==
    /\ stage[c] = "idle"
    /\ loc' = [loc EXCEPT ![c] = "run"]
    /\ \E mode \in Mode :
          IF mode = "LocalFirst"
          THEN stage' = [stage EXCEPT ![c] = "local"] /\ UNCHANGED net
          ELSE /\ stage' = [stage EXCEPT ![c] = "select"]
               /\ net' = [net EXCEPT ![c].at = "run"]
    /\ UNCHANGED <<copyVars, res, saves, putVars>>

(* readRecordFromLocal: the record kept, or ErrNotFound.                   *)
ReadLocal(c) ==
    /\ loc[c] = "run"
    /\ loc' = [loc EXCEPT ![c] = "have"]
    /\ UNCHANGED <<copyVars, stage, net, res, saves, putVars>>

(* GetValue of the DHT comes upon nodes in any order, and stays with the   *)
(* better of the record it has and theirs.                                 *)
MeetValue(c) ==
    /\ net[c].at = "run"
    /\ \E n \in Node :
         /\ kept[n] # None
         /\ net[c].rec # None => Select(net[c].rec, kept[n]) = 1
         /\ net' = [net EXCEPT ![c].rec = kept[n]]
    /\ UNCHANGED <<copyVars, stage, loc, res, saves, putVars>>

(* A result that the call does not wait for stays in its goroutine for     *)
(* ever: the channels have no buffer.                                      *)
EndSearch(c, r) ==
    net' = [net EXCEPT ![c] =
              IF stage[c] = "select" THEN [at |-> "have", rec |-> r] ELSE NoNet]

(* Variant: what the network gave is not saved.                            *)
GetValueOnly(c) ==
    /\ net[c].at = "run" /\ net[c].rec # None
    /\ EndSearch(c, net[c].rec)
    /\ UNCHANGED <<copyVars, stage, loc, res, saves, putVars>>

GetValue(c) ==
    /\ net[c].at = "run" /\ net[c].rec # None
    /\ EndSearch(c, net[c].rec)
    /\ saves' = saves \cup {net[c].rec}
    /\ UNCHANGED <<copyVars, stage, loc, res, putVars>>

(* ErrNotFound ends the search, another error some attempts later.         *)
GetValueError(c) ==
    /\ net[c].at = "run"
    /\ \/ EndSearch(c, None)
       \/ net' = [net EXCEPT ![c] = [at |-> "run", rec |-> None]]
    /\ UNCHANGED <<copyVars, stage, loc, res, saves, putVars>>

Return(c, r) ==
    /\ stage' = [stage EXCEPT ![c] = "done"]
    /\ res' = [res EXCEPT ![c] = r]
    /\ loc' = [loc EXCEPT ![c] = "none"]
    /\ UNCHANGED <<copyVars, saves, putVars>>

TakeNet(c) ==
    /\ stage[c] = "select" /\ net[c].at = "have"
    /\ net' = [net EXCEPT ![c] = NoNet]
    /\ Return(c, net[c].rec)

(* Variant: after the timer the network is waited for.                     *)
TakeLocalOrNet(c) ==
    /\ stage[c] = "local" /\ loc[c] = "have" /\ net[c].at # "run"
    /\ Return(c, None)
    /\ UNCHANGED net

TakeLocal(c) ==
    /\ stage[c] = "local" /\ loc[c] = "have"
    /\ Return(c, None)
    /\ UNCHANGED net

(* Twenty-five seconds without an answer of the network.                   *)
Timeout(c) ==
    /\ stage[c] = "select"
    /\ stage' = [stage EXCEPT ![c] = "local"]
    /\ net' = [net EXCEPT ![c] = IF @.at = "have" THEN NoNet ELSE @]
    /\ UNCHANGED <<copyVars, loc, res, saves, putVars>>

(* saveKeyToLocal: what is kept is read and compared; the write is one of  *)
(* Others, and another writer may come in between.                         *)
SaveKeyToLocal(r) ==
    /\ r \in saves
    /\ saves' = saves \ {r}
    /\ Choose(Self, r, "local")
    /\ UNCHANGED <<stage, net, loc, res, putVars>>

-----------------------------------------------------------------------------
(* putKeyToNetNode, of the record that asyncPut has just written.          *)
PutKeyToNetNode ==
    /\ put.at = "idle" /\ kept[Self] # None
    /\ put' = [at |-> "put", rec |-> kept[Self], rest |-> Node \ {Self},
               isInDhtNet |-> FALSE]
    /\ UNCHANGED <<copyVars, readVars, provides>>

(* A goroutine for each peer: a peer whose handler writes the record is    *)
(* noted as a provider (updateProvider).                                   *)
PutValue(n) ==
    /\ n \in put.rest
    /\ \E w \in writes[n] :
         w.by = "handler" /\ w.rec = put.rec /\ PutLocal(n, w)
    /\ put' = [put EXCEPT !.rest = @ \ {n}, !.isInDhtNet = TRUE]
    /\ provides' = provides \cup {n}
    /\ UNCHANGED readVars

(* Variant: the peer is noted though the put has failed.                   *)
PutValueErrorNoted(n) ==
    /\ n \in put.rest
    /\ put' = [put EXCEPT !.rest = @ \ {n}]
    /\ provides' = provides \cup {n}
    /\ UNCHANGED <<copyVars, readVars>>

(* The peer prefers what it has, or cannot be reached.                     *)
PutValueError(n) ==
    /\ n \in put.rest
    /\ put' = [put EXCEPT !.rest = @ \ {n}]
    /\ UNCHANGED <<copyVars, readVars, provides>>

(* enableProvider, when some peer has the record.                          *)
PutDone ==
    /\ put.at = "put" /\ put.rest = {}
    /\ put' = NoPut
    /\ provides' = IF put.isInDhtNet THEN provides \cup {Self} ELSE provides
    /\ UNCHANGED <<copyVars, readVars>>

-----------------------------------------------------------------------------
Goroutine(c) == ReadLocal(c) \/ Timeout(c) \/ TakeLocal(c) \/ TakeNet(c)

ClientNext ==
    \/ Others
    \/ \E c \in Call :
          Get(c) \/ MeetValue(c) \/ GetValue(c) \/ GetValueError(c) \/ Goroutine(c)
    \/ \E r \in saves : SaveKeyToLocal(r)
    \/ PutKeyToNetNode \/ PutDone
    \/ \E n \in Node : PutValue(n) \/ PutValueError(n)

(* The store answers and the timer fires; the network owes nothing.        *)
ClientSpec ==
    /\ ClientInit /\ [][ClientNext]_clientVars
    /\ \A c \in Call : WF_clientVars(Goroutine(c))

-----------------------------------------------------------------------------
ClientTypeOK ==
    /\ CopiesTypeOK
    /\ stage \in [Call -> {"idle", "select", "local", "done"}]
    /\ net \in [Call -> [at : {"none", "run", "have"}, rec : Rec \cup {None}]]
    /\ loc \in [Call -> {"none", "run", "have"}]
    /\ res \in [Call -> Rec \cup {None}]
    /\ saves \subseteq Rec
    /\ put \in [at : {"idle", "put"}, rec : Rec \cup {None},
                rest : SUBSET (Node \ {Self}), isInDhtNet : BOOLEAN]
    /\ provides \subseteq Node

(* dkvs.go:545-552: a Get returns, whatever becomes of its search in the   *)
(* network.                                                                *)
GetsReturn == \A c \in Call : stage[c] # "idle" ~> stage[c] = "done"

(* On its way home: to be compared, or to be written.                      *)
Homeward == saves \cup {w.rec : w \in writes[Self]}

(* dkvs.go:570, 722: what a Get had from the network is on its way home or *)
(* has been there: while nothing incompatible reaches the node, a later    *)
(* look into its own store gives no older record, unless a writer that     *)
(* had not seen this record or a newer one has overwritten it.             *)
ReadsGoOn ==
    \A c \in Call :
        /\ res[c] \notin Homeward \cup lost[Self] \cup {None}
        /\ Compatible(got[Self] \cup {res[c]})
        => kept[Self] # None /\ ~IsOlder(kept[Self], res[c])

(* dht.go:216-231: who is noted as a provider of the key has a record of   *)
(* it, and the node announces itself only with another provider.           *)
ProvidersHaveIt ==
    /\ \A n \in provides : kept[n] # None
    /\ Self \in provides => provides # {Self}
=============================================================================
