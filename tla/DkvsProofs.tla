----------------------------- MODULE DkvsProofs -----------------------------
(***************************************************************************)
(* Theorems of DkvsReplicas, DkvsClient and DkvsStore, for every set of    *)
(* records, owners, nodes, calls, writers and peers.                       *)
(***************************************************************************)
EXTENDS DkvsClient, DkvsStore, TLAPS

-----------------------------------------------------------------------------
(* IsOlder is a strict total order on the records of a key.                *)

LEMMA OlderIrreflexive ==
    ASSUME NEW a \in Record
    PROVE  ~IsOlder(a, a)
BY DEF IsOlder, Compare, Record

LEMMA OlderAsymmetric ==
    ASSUME NEW a \in Record, NEW b \in Record, IsOlder(a, b)
    PROVE  ~IsOlder(b, a)
BY DEF IsOlder, Compare, Record

LEMMA OlderTransitive ==
    ASSUME NEW a \in Record, NEW b \in Record, NEW c \in Record,
           IsOlder(a, b), ~IsOlder(c, b)
    PROVE  IsOlder(a, c)
BY DEF IsOlder, Compare, Record

LEMMA OlderTotal ==
    ASSUME NEW a \in Rec, NEW b \in Rec, ~IsOlder(a, b), ~IsOlder(b, a)
    PROVE  a = b
<1>1. a \in Record /\ b \in Record
  BY RecordAssumption
<1>2. a.rank = b.rank
  BY <1>1 DEF IsOlder, Compare, Record
<1>3. QED
  BY <1>2, RecordAssumption

-----------------------------------------------------------------------------

(* A node keeps one of the records that have reached it.                   *)
KeptIsGot ==
    \A n \in Node : IF got[n] = {} THEN kept[n] = None ELSE kept[n] \in got[n]

(* What is to be written may take the place of what its writer has seen.   *)
WritesChosen == \A n \in Node : \A w \in writes[n] : Replaces(w.rec, w.old)

CopiesInv == CopiesTypeOK /\ KeptIsGot /\ WritesChosen /\ NewestIsKept

(* The records that have reached a node, the ones on their way into its    *)
(* store included.                                                         *)
Reached(n) == got[n] \cup lost[n] \cup {w.rec : w \in writes[n]}

-----------------------------------------------------------------------------
(* Among compatible records the owner is no obstacle.                      *)

LEMMA CompatibleSubset ==
    ASSUME NEW S, NEW T, T \subseteq S, Compatible(S)
    PROVE  Compatible(T)
BY DEF Compatible

LEMMA CompatibleVerify ==
    ASSUME NEW S \in SUBSET Rec, Compatible(S), NEW a \in S, NEW b \in S
    PROVE  VerifyPubKey(a, b)
<1>1. CASE \A x, y \in S : x.owner = y.owner
  BY <1>1 DEF VerifyPubKey
<1>2. CASE \A x \in S : x.from = None /\ x.owner \in Service
  BY <1>2 DEF VerifyPubKey
<1>3. QED
  BY <1>1, <1>2 DEF Compatible

-----------------------------------------------------------------------------
LEMMA CopiesInitInv == CopiesInit => CopiesInv
BY DEF CopiesInit, CopiesInv, CopiesTypeOK, KeptIsGot, WritesChosen, NewestIsKept

(* A choice writes nothing yet; what it refuses is older, or incompatible. *)
LEMMA ChooseInv ==
    ASSUME CopiesInv, NEW n \in Node, NEW r \in Rec, NEW by \in Side, Choose(n, r, by)
    PROVE  /\ CopiesInv'
           /\ kept' = kept
           /\ \A m \in Node : Reached(m) \subseteq Reached(m)'
           /\ r \in Reached(n)'
<1> USE DEF CopiesInv
<1>1. CASE Replaces(r, kept[n]) /\ WillWrite(n, r, by)
  <2> DEFINE w == [rec |-> r, old |-> kept[n], by |-> by]
  <2>1. /\ UNCHANGED <<kept, got, lost>>
        /\ writes' = [writes EXCEPT ![n] = @ \cup {w}]
        /\ w \in [rec : Rec, old : Rec \cup {None}, by : Side]
        /\ w.rec = r /\ w.old = kept[n]
    BY <1>1 DEF WillWrite, CopiesTypeOK
  <2> HIDE DEF w
  <2>2. CopiesTypeOK' /\ KeptIsGot' /\ NewestIsKept'
    BY <2>1 DEF CopiesTypeOK, KeptIsGot, NewestIsKept
  <2>3. /\ \A m \in Node : writes[m] \subseteq writes'[m]
        /\ w \in writes'[n]
        /\ \A m \in Node : writes'[m] \subseteq writes[m] \cup (IF m = n THEN {w} ELSE {})
    BY <2>1 DEF CopiesTypeOK
  <2>4. WritesChosen'
    BY <1>1, <2>1, <2>3 DEF WritesChosen
  <2>5. \A m \in Node : Reached(m) \subseteq Reached(m)'
    BY <2>1, <2>3 DEF Reached
  <2>6. r \in Reached(n)'
    BY <2>1, <2>3 DEF Reached
  <2>7. QED
    BY <2>1, <2>2, <2>4, <2>5, <2>6
<1>2. CASE ~Replaces(r, kept[n]) /\ Refuse(n, r)
  <2>1. /\ UNCHANGED <<kept, writes>>
        /\ got' = [got EXCEPT ![n] = @ \cup {r}]
        /\ lost' = [lost EXCEPT ![n] = @ \ {r}]
    BY <1>2 DEF Refuse
  <2>2. CopiesTypeOK' /\ WritesChosen'
    BY <2>1 DEF CopiesTypeOK, WritesChosen
  <2>3. /\ got'[n] = got[n] \cup {r} /\ lost'[n] = lost[n] \ {r}
        /\ \A m \in Node \ {n} : got'[m] = got[m] /\ lost'[m] = lost[m]
    BY <2>1 DEF CopiesTypeOK
  <2>4. /\ kept[n] \notin {None, r} /\ Select(r, kept[n]) # 0
        /\ kept[n] \in got[n]
    BY <1>2 DEF Replaces, KeptIsGot
  <2>5. KeptIsGot'
    BY <2>1, <2>3, <2>4 DEF KeptIsGot
  <2>6. ASSUME Compatible(got'[n]), NEW x \in got'[n]
        PROVE  ~IsOlder(kept[n], x)
    <3>1. /\ got'[n] \in SUBSET Rec /\ kept[n] \in got'[n] /\ r \in got'[n]
          /\ kept[n] \in Record /\ r \in Record
      BY <2>2, <2>3, <2>4, RecordAssumption DEF CopiesTypeOK
    <3>2. VerifyPubKey(r, kept[n])
      BY <2>6, <3>1, CompatibleVerify
    <3>3. IsOlder(r, kept[n])
      BY <2>4, <3>2 DEF Select
    <3>4. ~IsOlder(kept[n], r)
      BY <3>1, <3>3, OlderAsymmetric
    <3>5. Compatible(got[n])
      BY <2>3, <2>6, CompatibleSubset
    <3>6. QED
      BY <2>3, <2>4, <3>4, <3>5 DEF NewestIsKept
  <2>7. NewestIsKept'
    BY <2>1, <2>3, <2>5, <2>6 DEF NewestIsKept, KeptIsGot
  <2>8. (\A m \in Node : Reached(m) \subseteq Reached(m)') /\ r \in Reached(n)'
    BY <2>1, <2>3 DEF Reached
  <2>9. QED
    BY <2>1, <2>2, <2>5, <2>7, <2>8
<1>3. QED
  BY <1>1, <1>2 DEF Choose

(* A write of what takes the place of the record there; or a blind one,    *)
(* after which the records it has overwritten are none of got.             *)
LEMMA PutLocalInv ==
    ASSUME CopiesInv, NEW n \in Node, NEW w \in writes[n], PutLocal(n, w)
    PROVE  /\ CopiesInv'
           /\ kept'[n] = w.rec /\ w.rec \in Rec
           /\ \A m \in Node \ {n} : kept'[m] = kept[m]
           /\ \A m \in Node : Reached(m) \subseteq Reached(m)'
<1> DEFINE O == Overwritten(n, w)
<1> USE DEF CopiesInv
<1>1. /\ w.rec \in Rec /\ w.rec # None /\ w.rec \in Record
      /\ Replaces(w.rec, w.old)
      /\ got[n] \in SUBSET Rec /\ got[n] \in SUBSET Record
      /\ O \subseteq got[n]
  BY RecordAssumption DEF CopiesTypeOK, WritesChosen, Overwritten
<1>2. /\ kept' = [kept EXCEPT ![n] = w.rec]
      /\ writes' = [writes EXCEPT ![n] = @ \ {w}]
      /\ got' = [got EXCEPT ![n] = (@ \ O) \cup {w.rec}]
      /\ lost' = [lost EXCEPT ![n] = (@ \cup O) \ {w.rec}]
  BY DEF PutLocal
<1>3. O = Overwritten(n, w)
  OBVIOUS
<1> HIDE DEF O
<1>4. /\ kept'[n] = w.rec /\ writes'[n] = writes[n] \ {w}
      /\ got'[n] = (got[n] \ O) \cup {w.rec}
      /\ lost'[n] = (lost[n] \cup O) \ {w.rec}
      /\ \A m \in Node \ {n} : /\ kept'[m] = kept[m] /\ writes'[m] = writes[m]
                              /\ got'[m] = got[m] /\ lost'[m] = lost[m]
  BY <1>2 DEF CopiesTypeOK
<1>5. CopiesTypeOK'
  BY <1>1, <1>2 DEF CopiesTypeOK
<1>6. KeptIsGot' /\ WritesChosen'
  BY <1>1, <1>4 DEF KeptIsGot, WritesChosen
<1>7. ASSUME Compatible(got'[n]), NEW x \in got'[n]
      PROVE  ~IsOlder(w.rec, x)
  <2>1. ~IsOlder(w.rec, w.rec)
    BY <1>1, OlderIrreflexive
  <2>2. SUFFICES ASSUME x \in got[n], x \notin O
                 PROVE  ~IsOlder(w.rec, x)
    BY <1>4, <1>7, <2>1
  <2>3. CASE kept[n] \notin {w.old, w.rec}
    BY <1>3, <2>2, <2>3 DEF Overwritten
  <2>4. CASE kept[n] \in {w.old, w.rec}
    <3>1. O = {} /\ got'[n] = got[n] \cup {w.rec}
      BY <1>3, <1>4, <2>4 DEF Overwritten
    <3>2. Compatible(got[n])
      BY <1>7, <3>1, CompatibleSubset
    <3>3. /\ kept[n] \in got[n] /\ kept[n] # None /\ kept[n] \in Record
          /\ ~IsOlder(kept[n], x)
      BY <1>1, <2>2, <3>2, RecordAssumption DEF NewestIsKept
    <3>4. CASE kept[n] = w.rec
      BY <3>3, <3>4
    <3>5. CASE kept[n] = w.old /\ kept[n] # w.rec
      <4>1. ~IsOlder(w.rec, kept[n])
        BY <1>1, <3>3, <3>5 DEF Replaces, Select
      <4>2. QED
        BY <1>1, <2>2, <3>3, <4>1, OlderTransitive
    <3>6. QED
      BY <2>4, <3>4, <3>5
  <2>5. QED
    BY <2>3, <2>4
<1>8. NewestIsKept'
  BY <1>4, <1>7 DEF NewestIsKept
<1>9. \A m \in Node : Reached(m) \subseteq Reached(m)'
  BY <1>1, <1>4 DEF Reached
<1>10. QED
  BY <1>1, <1>4, <1>5, <1>6, <1>8, <1>9

(* What a step does to the copies: records only come.                      *)
LEMMA CopiesGrow ==
    ASSUME CopiesInv, CopiesNext \/ UNCHANGED copyVars
    PROVE  /\ CopiesInv'
           /\ \A n \in Node : Reached(n) \subseteq Reached(n)'
           /\ \A n \in Node : kept[n] # None => kept'[n] # None
<1>1. CASE UNCHANGED copyVars
  BY <1>1 DEF copyVars, CopiesInv, CopiesTypeOK, KeptIsGot, WritesChosen, NewestIsKept,
              Reached
<1>2. ASSUME NEW n \in Node, NEW r \in Rec, NEW by \in Side, Choose(n, r, by)
      PROVE  /\ CopiesInv'
             /\ \A m \in Node : Reached(m) \subseteq Reached(m)'
             /\ \A m \in Node : kept[m] # None => kept'[m] # None
  BY <1>2, ChooseInv
<1>3. ASSUME NEW n \in Node, NEW w \in writes[n], PutLocal(n, w)
      PROVE  /\ CopiesInv'
             /\ \A m \in Node : Reached(m) \subseteq Reached(m)'
             /\ \A m \in Node : kept[m] # None => kept'[m] # None
  BY <1>3, PutLocalInv, RecordAssumption
<1>4. QED
  BY <1>1, <1>2, <1>3 DEF CopiesNext, Handle, Side

LEMMA StepInv == CopiesInv /\ [CopiesNext]_copyVars => CopiesInv'
BY CopiesGrow

LEMMA CopiesInvariance == CopiesSpec => []CopiesInv
BY CopiesInitInv, StepInv, PTL DEF CopiesSpec

-----------------------------------------------------------------------------
(* The copies and what reached them stay in their types.                   *)
THEOREM CopiesTypeCorrect == CopiesSpec => []CopiesTypeOK
<1>1. CopiesInv => CopiesTypeOK
  BY DEF CopiesInv
<1>2. QED
  BY <1>1, CopiesInvariance, PTL

(* In any order of delivery, compatible records leave the newest one.      *)
THEOREM KeepsNewest == CopiesSpec => []NewestIsKept
<1>1. CopiesInv => NewestIsKept
  BY DEF CopiesInv
<1>2. QED
  BY <1>1, CopiesInvariance, PTL

(* Nodes that received the same compatible records hold the same one.      *)
THEOREM Convergence == CopiesSpec => []ReplicasAgree
<1>1. CopiesInv => ReplicasAgree
  <2> SUFFICES ASSUME CopiesInv, NEW m \in Node, NEW n \in Node,
                      got[m] = got[n], Compatible(got[m])
               PROVE  kept[m] = kept[n]
    BY DEF ReplicasAgree
  <2>1. CASE got[m] = {}
    BY <2>1 DEF CopiesInv, KeptIsGot
  <2>2. CASE got[m] # {}
    <3>1. /\ kept[m] \in got[m] /\ kept[n] \in got[m]
          /\ ~IsOlder(kept[m], kept[n]) /\ ~IsOlder(kept[n], kept[m])
      BY <2>2 DEF CopiesInv, NewestIsKept
    <3>2. kept[m] \in Rec /\ kept[n] \in Rec
      BY <3>1 DEF CopiesInv, CopiesTypeOK
    <3>3. QED
      BY <3>1, <3>2, OlderTotal
  <2>3. QED
    BY <2>1, <2>2
<1>2. QED
  BY <1>1, CopiesInvariance, PTL

(* A record that may take the place of another has the key from its owner. *)
LEMMA ReplacesPasses ==
    ASSUME NEW r \in Rec, NEW old \in Rec \cup {None}, Replaces(r, old)
    PROVE  Passes(old, r)
<1> SUFFICES ASSUME old # None PROVE Passes(old, r)
  BY DEF Passes
<1>1. r \in Record /\ old \in Record
  BY RecordAssumption
<1>2. CASE r = old
  BY <1>1, <1>2 DEF Passes, Record
<1>3. CASE r # old
  <2>1. VerifyPubKey(r, old) /\ ~IsOlder(r, old)
    BY <1>3 DEF Replaces, Select
  <2>2. r.seq >= old.seq
    BY <1>1, <2>1 DEF IsOlder, Compare, Record
  <2>3. QED
    BY <1>1, <2>1, <2>2 DEF Passes, VerifyPubKey, Record
<1>4. QED
  BY <1>2, <1>3

(* A key changes hands only by a transfer or within the public service,    *)
(* from the record that is there or from the one its writer has seen.      *)
THEOREM OwnershipIsHandedOver == CopiesSpec => HandedOver
<1> DEFINE Handed ==
      \A n \in Node :
          kept'[n] # kept[n] =>
              \/ Passes(kept[n], kept'[n])
              \/ \E w \in writes[n] :
                    w.rec = kept'[n] /\ w.old # kept[n] /\ Passes(w.old, w.rec)
<1>1. ASSUME CopiesInv, CopiesNext
      PROVE  Handed
  <2>1. CASE kept' = kept
    BY <2>1
  <2>2. ASSUME NEW n \in Node, NEW w \in writes[n], PutLocal(n, w)
        PROVE  Handed
    <3>1. kept'[n] = w.rec /\ \A m \in Node \ {n} : kept'[m] = kept[m]
      BY <1>1, <2>2, PutLocalInv
    <3>2. Passes(w.old, w.rec)
      BY <1>1, ReplacesPasses DEF CopiesInv, CopiesTypeOK, WritesChosen
    <3>3. QED
      BY <3>1, <3>2
  <2>3. QED
    BY <1>1, <2>1, <2>2 DEF CopiesNext, Handle, Choose, WillWrite, Refuse
<1>2. CopiesInv /\ [CopiesNext]_copyVars => [Handed]_copyVars
  BY <1>1
<1>3. QED
  BY <1>2, CopiesInvariance, PTL DEF CopiesSpec, HandedOver

-----------------------------------------------------------------------------
(* The client.  What a search found is on its way home, or has reached the *)
(* node's store; a put that reached a peer has noted it.                   *)

NetIsSaved ==
    \A c \in Call :
        /\ net[c].at = "have" => net[c].rec \in saves \cup Reached(Self) \cup {None}
        /\ res[c] \in saves \cup Reached(Self) \cup {None}

PutIsNoted ==
    /\ put.at = "put" => put.rec # None /\ kept[Self] # None
    /\ put.rest # {} => put.at = "put"
    /\ put.isInDhtNet => \E n \in provides : n # Self

ClientInv == ClientTypeOK /\ CopiesInv /\ NetIsSaved /\ PutIsNoted /\ ProvidersHaveIt

(* Every step of the client is one of the copies, or leaves them alone.    *)
LEMMA ClientStepCopies ==
    ASSUME ClientTypeOK, ClientNext
    PROVE  CopiesNext \/ UNCHANGED copyVars
<1>1. CASE Others
  BY <1>1 DEF Others, CopiesNext
<1>2. ASSUME NEW r \in saves, SaveKeyToLocal(r)
      PROVE  CopiesNext
  BY <1>2, ClientAssumption, CopiesAssumption DEF SaveKeyToLocal, CopiesNext, ClientTypeOK
<1>3. ASSUME NEW n \in Node, PutValue(n)
      PROVE  CopiesNext
  BY <1>3 DEF PutValue, CopiesNext
<1>4. ASSUME NEW n \in Node, PutValueError(n)
      PROVE  UNCHANGED copyVars
  BY <1>4 DEF PutValueError
<1>5. CASE PutKeyToNetNode \/ PutDone
  BY <1>5 DEF PutKeyToNetNode, PutDone
<1>6. ASSUME NEW c \in Call,
             Get(c) \/ MeetValue(c) \/ GetValue(c) \/ GetValueError(c)
               \/ Goroutine(c)
      PROVE  UNCHANGED copyVars
  BY <1>6 DEF Get, MeetValue, GetValue, GetValueError, Goroutine, ReadLocal,
              Timeout, TakeLocal, TakeNet, Return
<1>7. QED
  BY <1>1, <1>2, <1>3, <1>4, <1>5, <1>6 DEF ClientNext

LEMMA ClientInitInv == ClientInit => ClientInv
<1> SUFFICES ASSUME ClientInit PROVE ClientInv
  OBVIOUS
<1>1. CopiesInv
  BY CopiesInitInv DEF ClientInit
<1>2. ClientTypeOK
  BY <1>1, ClientAssumption, CopiesAssumption
     DEF ClientInit, ClientTypeOK, CopiesInv, NoPut, NoNet
<1>3. NetIsSaved /\ PutIsNoted /\ ProvidersHaveIt
  BY DEF ClientInit, NetIsSaved, PutIsNoted, ProvidersHaveIt, NoPut, NoNet
<1>4. QED
  BY <1>1, <1>2, <1>3 DEF ClientInv

(* A step that touches no put leaves it noted.                             *)
LEMMA PutStands ==
    ASSUME ClientInv, UNCHANGED putVars, CopiesNext \/ UNCHANGED copyVars
    PROVE  PutIsNoted' /\ ProvidersHaveIt'
<1>1. \A n \in Node : kept[n] # None => kept'[n] # None
  BY CopiesGrow DEF ClientInv
<1>2. QED
  BY <1>1, ClientAssumption, CopiesAssumption
     DEF ClientInv, ClientTypeOK, putVars, PutIsNoted, ProvidersHaveIt

(* A step that touches no call leaves what it found saved.                 *)
LEMMA SaveStands ==
    ASSUME ClientInv, UNCHANGED readVars, CopiesNext \/ UNCHANGED copyVars
    PROVE  NetIsSaved'
<1>1. Reached(Self) \subseteq Reached(Self)'
  BY CopiesGrow, ClientAssumption, CopiesAssumption DEF ClientInv
<1>2. QED
  BY <1>1 DEF ClientInv, readVars, NetIsSaved

-----------------------------------------------------------------------------
(* The steps of a call.                                                    *)
LEMMA CallStep ==
    ASSUME ClientInv, NEW c \in Call,
           Get(c) \/ MeetValue(c) \/ GetValue(c) \/ GetValueError(c) \/ Goroutine(c)
    PROVE  ClientInv'
<1>1. UNCHANGED <<copyVars, putVars>>
  BY DEF Get, MeetValue, GetValue, GetValueError, Goroutine, ReadLocal,
         Timeout, TakeLocal, TakeNet, Return
<1>2. CopiesInv' /\ PutIsNoted' /\ ProvidersHaveIt' /\ CopiesTypeOK'
  BY <1>1, CopiesGrow, PutStands DEF ClientInv, CopiesInv
<1>3. /\ put' = put /\ provides' = provides /\ Reached(Self)' = Reached(Self)
      /\ kept \in [Node -> Rec \cup {None}]
  BY <1>1 DEF putVars, copyVars, ClientInv, CopiesInv, CopiesTypeOK, Reached
<1> DEFINE Net == [at : {"none", "run", "have"}, rec : Rec \cup {None}]
           R == Reached(Self)
<1>4. SUFFICES ASSUME TRUE
               PROVE  /\ stage' \in [Call -> {"idle", "select", "local", "done"}]
                      /\ net' \in [Call -> Net]
                      /\ loc' \in [Call -> {"none", "run", "have"}]
                      /\ res' \in [Call -> Rec \cup {None}]
                      /\ saves' \subseteq Rec
                      /\ \A k \in Call :
                            /\ net'[k].at = "have" =>
                                  net'[k].rec \in saves' \cup R \cup {None}
                            /\ res'[k] \in saves' \cup R \cup {None}
  BY <1>2, <1>3 DEF ClientInv, ClientTypeOK, NetIsSaved
<1>5. /\ stage \in [Call -> {"idle", "select", "local", "done"}]
      /\ net \in [Call -> Net]
      /\ loc \in [Call -> {"none", "run", "have"}]
      /\ res \in [Call -> Rec \cup {None}]
      /\ saves \subseteq Rec
      /\ \A k \in Call : /\ net[k].at = "have" => net[k].rec \in saves \cup R \cup {None}
                         /\ res[k] \in saves \cup R \cup {None}
  BY DEF ClientInv, ClientTypeOK, NetIsSaved
<1> HIDE DEF R
<1>6. CASE Get(c)
  <2>1. net' = net \/ net' = [net EXCEPT ![c].at = "run"]
    BY <1>6 DEF Get
  <2>2. net' \in [Call -> Net]
        /\ \A k \in Call : net'[k].at = "have" => net'[k] = net[k]
    BY <1>5, <2>1
  <2>3. QED
    BY <1>5, <1>6, <2>2 DEF Get
<1>7. CASE MeetValue(c)
  <2>1. PICK n \in Node : /\ kept[n] # None
                          /\ net' = [net EXCEPT ![c].rec = kept[n]]
    BY <1>7 DEF MeetValue
  <2>2. net' \in [Call -> Net]
        /\ \A k \in Call : net'[k].at = "have" => net'[k] = net[k]
    BY <1>3, <1>5, <1>7, <2>1 DEF MeetValue
  <2>3. QED
    BY <1>5, <1>7, <2>2 DEF MeetValue
<1>8. ASSUME NEW r \in Rec \cup {None}, EndSearch(c, r)
      PROVE  /\ net' \in [Call -> Net]
             /\ \A k \in Call : net'[k].at = "have" => net'[k] = net[k] \/ net'[k].rec = r
  <2>1. net' \in {[net EXCEPT ![c] = [at |-> "have", rec |-> r]],
                  [net EXCEPT ![c] = [at |-> "none", rec |-> None]]}
    BY <1>8 DEF EndSearch, NoNet
  <2>2. QED
    BY <1>5, <2>1
<1>9. CASE GetValue(c)
  <2>1. /\ net[c].rec \in Rec
        /\ EndSearch(c, net[c].rec)
        /\ saves' = saves \cup {net[c].rec}
        /\ UNCHANGED <<stage, loc, res>>
    BY <1>5, <1>9 DEF GetValue
  <2>2. QED
    BY <1>5, <1>8, <2>1
<1>10. CASE GetValueError(c)
  <2>1. /\ UNCHANGED <<stage, loc, res, saves>>
        /\ EndSearch(c, None) \/ net' = [net EXCEPT ![c] = [at |-> "run", rec |-> None]]
    BY <1>10 DEF GetValueError
  <2>2. CASE EndSearch(c, None)
    BY <1>5, <1>8, <2>1, <2>2
  <2>3. CASE net' = [net EXCEPT ![c] = [at |-> "run", rec |-> None]]
    BY <1>5, <2>1, <2>3
  <2>4. QED
    BY <2>1, <2>2, <2>3
<1>11. CASE ReadLocal(c)
  BY <1>5, <1>11 DEF ReadLocal
<1>12. CASE Timeout(c)
  <2>1. net' = net \/ net' = [net EXCEPT ![c] = [at |-> "none", rec |-> None]]
    BY <1>5, <1>12 DEF Timeout, NoNet
  <2>2. CASE net' = net
    BY <1>5, <1>12, <2>2 DEF Timeout
  <2>3. CASE net' = [net EXCEPT ![c] = [at |-> "none", rec |-> None]]
    <3>1. net' \in [Call -> Net]
      BY <1>5, <2>3
    <3>2. \A k \in Call : net'[k].at = "have" => net'[k] = net[k]
      BY <1>5, <2>3
    <3>3. QED
      BY <1>5, <1>12, <3>1, <3>2 DEF Timeout
  <2>4. QED
    BY <2>1, <2>2, <2>3
<1>13. CASE TakeLocal(c)
  BY <1>5, <1>13 DEF TakeLocal, Return
<1>14. CASE TakeNet(c)
  <2>1. net' = [net EXCEPT ![c] = [at |-> "none", rec |-> None]]
    BY <1>14 DEF TakeNet, NoNet
  <2>2. net' \in [Call -> Net]
        /\ \A k \in Call : net'[k].at = "have" => net'[k] = net[k]
    BY <1>5, <2>1
  <2>3. net[c].rec \in Rec \cup {None} /\ net[c].rec \in saves \cup R \cup {None}
    BY <1>5, <1>14 DEF TakeNet
  <2>4. QED
    BY <1>5, <1>14, <2>2, <2>3 DEF TakeNet, Return
<1>15. QED
  BY <1>6, <1>7, <1>9, <1>10, <1>11, <1>12, <1>13, <1>14 DEF Goroutine

(* A record found comes home: from the saves to what reaches the store.    *)
LEMMA SaveStep ==
    ASSUME ClientInv, NEW r \in saves, SaveKeyToLocal(r)
    PROVE  ClientInv'
<1>1. /\ r \in Rec /\ Self \in Node /\ CopiesNext /\ UNCHANGED putVars
      /\ Choose(Self, r, "local") /\ "local" \in Side /\ CopiesInv
  BY ClientAssumption, CopiesAssumption
     DEF SaveKeyToLocal, ClientInv, ClientTypeOK, CopiesNext, Side
<1>2. CopiesInv' /\ CopiesTypeOK' /\ PutIsNoted' /\ ProvidersHaveIt'
  BY <1>1, CopiesGrow, PutStands DEF ClientInv, CopiesInv
<1>3. /\ Reached(Self) \subseteq Reached(Self)'
      /\ r \in Reached(Self)'
      /\ saves' = saves \ {r}
  BY <1>1, ChooseInv DEF SaveKeyToLocal
<1>4. NetIsSaved'
  BY <1>3 DEF ClientInv, NetIsSaved, SaveKeyToLocal
<1>5. ClientTypeOK'
  BY <1>1, <1>2 DEF ClientInv, ClientTypeOK, SaveKeyToLocal, putVars
<1>6. QED
  BY <1>2, <1>4, <1>5 DEF ClientInv

(* The steps of putKeyToNetNode.                                           *)
LEMMA PutStep ==
    ASSUME ClientInv, \/ PutKeyToNetNode \/ PutDone
                      \/ \E n \in Node : PutValue(n) \/ PutValueError(n)
    PROVE  ClientInv'
<1>1. UNCHANGED readVars /\ (CopiesNext \/ UNCHANGED copyVars)
  BY ClientStepCopies DEF PutKeyToNetNode, PutDone, PutValue, PutValueError, ClientNext,
                            ClientInv
<1>2. CopiesInv' /\ CopiesTypeOK' /\ NetIsSaved'
  BY <1>1, CopiesGrow, SaveStands DEF ClientInv, CopiesInv
<1>3. SUFFICES ASSUME TRUE
               PROVE  ClientTypeOK' /\ PutIsNoted' /\ ProvidersHaveIt'
  BY <1>2 DEF ClientInv
<1>4. Self \in Node /\ kept \in [Node -> Rec \cup {None}] /\ None \notin Rec
  BY ClientAssumption, CopiesAssumption, RecordAssumption
     DEF ClientInv, CopiesInv, CopiesTypeOK
<1> USE DEF ClientInv, ClientTypeOK, PutIsNoted, ProvidersHaveIt
<1>5. CASE PutKeyToNetNode
  <2>1. ClientTypeOK'
    BY <1>1, <1>2, <1>4, <1>5 DEF PutKeyToNetNode, readVars
  <2>2. PutIsNoted' /\ ProvidersHaveIt'
    BY <1>4, <1>5 DEF PutKeyToNetNode, copyVars
  <2>3. QED
    BY <2>1, <2>2
<1>6. CASE PutDone
  <2>1. ClientTypeOK'
    BY <1>1, <1>2, <1>4, <1>6 DEF PutDone, NoPut, readVars
  <2>2. kept[Self] # None
    BY <1>6 DEF PutDone
  <2>3. PutIsNoted' /\ ProvidersHaveIt'
    BY <1>4, <1>6, <2>2 DEF PutDone, NoPut, copyVars
  <2>4. QED
    BY <2>1, <2>3
<1>7. ASSUME NEW n \in Node, PutValueError(n)
      PROVE  ClientTypeOK' /\ PutIsNoted' /\ ProvidersHaveIt'
  <2>1. /\ put' = [put EXCEPT !.rest = @ \ {n}]
        /\ UNCHANGED <<kept, provides>>
    BY <1>7 DEF PutValueError, copyVars
  <2>2. ClientTypeOK'
    BY <1>1, <1>2, <2>1 DEF readVars
  <2>3. PutIsNoted' /\ ProvidersHaveIt'
    BY <1>4, <2>1
  <2>4. QED
    BY <2>2, <2>3
<1>8. ASSUME NEW n \in Node, PutValue(n)
      PROVE  ClientTypeOK' /\ PutIsNoted' /\ ProvidersHaveIt'
  <2>1. /\ put' = [put EXCEPT !.rest = @ \ {n}, !.isInDhtNet = TRUE]
        /\ provides' = provides \cup {n}
        /\ n \in put.rest
        /\ kept'[n] = put.rec
    BY <1>4, <1>8, PutLocalInv DEF PutValue
  <2>2. ClientTypeOK'
    BY <1>1, <1>2, <2>1 DEF readVars
  <2>3. \A m \in Node : kept[m] # None => kept'[m] # None
    BY <1>1, CopiesGrow
  <2>4. put.rec \in Rec /\ put.rec # None /\ n # Self
    BY <2>1
  <2>5. PutIsNoted'
    BY <1>4, <2>1, <2>3, <2>4
  <2>6. ProvidersHaveIt'
    BY <1>4, <2>1, <2>3, <2>4
  <2>7. QED
    BY <2>2, <2>5, <2>6
<1>9. QED
  BY <1>5, <1>6, <1>7, <1>8

-----------------------------------------------------------------------------
LEMMA ClientStepInv ==
    ASSUME ClientInv, [ClientNext]_clientVars
    PROVE  ClientInv' /\ [CopiesNext]_copyVars
<1>1. CASE UNCHANGED clientVars
  <2>1. UNCHANGED <<copyVars, readVars, putVars>>
    BY <1>1 DEF clientVars
  <2>2. CopiesInv' /\ PutIsNoted' /\ ProvidersHaveIt' /\ NetIsSaved'
    BY <2>1, CopiesGrow, PutStands, SaveStands DEF ClientInv
  <2>3. ClientTypeOK'
    BY <2>1, <2>2 DEF ClientInv, CopiesInv, ClientTypeOK, readVars, putVars
  <2>4. QED
    BY <2>1, <2>2, <2>3 DEF ClientInv
<1>2. CASE ClientNext
  <2>1. [CopiesNext]_copyVars
    BY <1>2, ClientStepCopies DEF ClientInv
  <2>2. CASE Others
    <3>1. CopiesNext /\ UNCHANGED <<readVars, putVars>>
      BY <2>2 DEF Others, CopiesNext
    <3>2. CopiesInv' /\ PutIsNoted' /\ ProvidersHaveIt' /\ NetIsSaved'
      BY <3>1, CopiesGrow, PutStands, SaveStands DEF ClientInv
    <3>3. ClientTypeOK'
      BY <3>1, <3>2 DEF ClientInv, CopiesInv, ClientTypeOK, readVars, putVars
    <3>4. QED
      BY <2>1, <3>2, <3>3 DEF ClientInv
  <2>3. QED
    BY <1>2, <2>1, <2>2, CallStep, SaveStep, PutStep DEF ClientNext
<1>3. QED
  BY <1>1, <1>2

(* The client and its peers are copies as DkvsReplicas has them: whatever  *)
(* calls and puts do, a copy changes by a choice and a later write only,   *)
(* between which other writers may come.                                   *)
THEOREM ClientRefinesReplicas == ClientSpec => CopiesSpec
<1>1. ClientInit => CopiesInit
  BY DEF ClientInit
<1>2. QED
  BY <1>1, ClientInitInv, ClientStepInv, PTL DEF ClientSpec, CopiesSpec

LEMMA ClientInvariance == ClientSpec => []ClientInv
BY ClientInitInv, ClientStepInv, PTL DEF ClientSpec

(* The node and its calls stay in their types.                             *)
THEOREM ClientTypeCorrect == ClientSpec => []ClientTypeOK
<1>1. ClientInv => ClientTypeOK
  BY DEF ClientInv
<1>2. QED
  BY <1>1, ClientInvariance, PTL

(* Whoever is noted as a provider has a record of the key.                 *)
THEOREM ProvidersHave == ClientSpec => []ProvidersHaveIt
<1>1. ClientInv => ProvidersHaveIt
  BY DEF ClientInv
<1>2. QED
  BY <1>1, ClientInvariance, PTL

(* A later look into the own store gives nothing older than a Get did, but *)
(* for what a writer that had not seen it has overwritten.                 *)
THEOREM ReadsNeverGoBack == ClientSpec => []ReadsGoOn
<1>1. ClientInv => ReadsGoOn
  <2> SUFFICES ASSUME ClientInv, NEW c \in Call,
                      res[c] \notin Homeward \cup lost[Self] \cup {None},
                      Compatible(got[Self] \cup {res[c]})
               PROVE  kept[Self] # None /\ ~IsOlder(kept[Self], res[c])
    BY DEF ReadsGoOn
  <2>1. Self \in Node
    BY ClientAssumption, CopiesAssumption
  <2>2. res[c] \in got[Self]
    BY DEF ClientInv, NetIsSaved, Reached, Homeward
  <2>3. Compatible(got[Self])
    BY CompatibleSubset
  <2>4. /\ kept[Self] \in got[Self]
        /\ \A r \in got[Self] : ~IsOlder(kept[Self], r)
    BY <2>1, <2>2, <2>3 DEF ClientInv, CopiesInv, NewestIsKept
  <2>5. got[Self] \subseteq Rec /\ None \notin Rec
    BY <2>1, RecordAssumption DEF ClientInv, CopiesInv, CopiesTypeOK
  <2>6. QED
    BY <2>2, <2>4, <2>5
<1>2. QED
  BY <1>1, ClientInvariance, PTL

-----------------------------------------------------------------------------
(***************************************************************************)
(* DkvsStore: one key on one node.                                         *)
(***************************************************************************)
(* The ticker's goroutine holds a record from its reading to its striking, *)
(* and strikes only what it has settled.                                   *)
SyncInv ==
    /\ pc[Sync] \in {"idle", "fetch"} => rec[Sync] = None
    /\ pc[Sync] = "delete" /\ rec[Sync] # None => fate[rec[Sync]] # "none"

(* A writer between its choice and its write: what it saw may give way.    *)
ChoiceInv ==
    \A w \in Writer : pc[w] \in Writing =>
        /\ rec[w] \in Rec
        /\ \/ seen[w] = None
           \/ ~Valid(seen[w])
           \/ seen[w] = rec[w]
           \/ IsOlder(seen[w], rec[w])

(* A transfer that is sent has its record, and an attempt left.            *)
TriesInv == \A w \in Writer : pc[w] = "publish" => tries[w] > 0 /\ rec[w] \in Rec

IInv == TypeOK /\ TriesInv /\ SyncInv /\ ChoiceInv /\ PutIsAccountedFor

-----------------------------------------------------------------------------
(* What may replace a record kept is the same again or newer.              *)
LEMMA ReplacedByNewer ==
    ASSUME NEW r \in Rec, NEW old \in Rec, Replaces(r, old)
    PROVE  r = old \/ IsOlder(old, r)
<1>1. CASE r = old
  BY <1>1
<1>2. CASE r # old
  <2>1. old # None
    BY RecordAssumption
  <2>2. ~IsOlder(r, old)
    BY <1>2, <2>1 DEF Replaces, Select
  <2>3. QED
    BY <2>2, OlderTotal
<1>3. QED
  BY <1>1, <1>2

-----------------------------------------------------------------------------
LEMMA InitInv == Init => IInv
<1> SUFFICES ASSUME Init PROVE IInv
  OBVIOUS
<1>1. TypeOK
  <2>1. now \in 0..MaxTime /\ tries \in [Writer -> 0..MaxTries]
    BY StoreAssumption DEF Init
  <2>2. QED
    BY <2>1 DEF Init, TypeOK, MaybeRec, Fate, Writing
<1>2. TriesInv /\ SyncInv /\ ChoiceInv /\ PutIsAccountedFor
  BY DEF Init, TriesInv, SyncInv, ChoiceInv, PutIsAccountedFor, Proc, Writing
<1>3. QED
  BY <1>1, <1>2 DEF IInv

(* A record whose fate is known stays so.                                  *)
LEMMA SettleFacts ==
    ASSUME TypeOK, NEW r \in MaybeRec, NEW f \in Fate \ {"none"}, Settle(r, f)
    PROVE  /\ fate' \in [Rec -> Fate]
           /\ \A s \in Rec : fate[s] # "none" => fate'[s] # "none"
           /\ r # None => fate'[r] # "none"
BY DEF TypeOK, Settle, Fate, MaybeRec

LEMMA ProcFacts == Sync \in Proc /\ Writer \subseteq Proc /\ Sync \notin Writer
BY StoreAssumption DEF Proc

-----------------------------------------------------------------------------
(* What is accounted for stays so when no new record is put, nothing is    *)
(* struck from the list, no fate is forgotten and no carrier is lost.      *)
LEMMA StillAccountedFor ==
    ASSUME IInv,
           now' \in Nat, now' >= now, local' = local, mine' = mine,
           listed => listed',
           local \in Rec /\ fate[local] # "none" => fate'[local] # "none",
           \A w \in Writer : local # None /\ Carries(w, local) =>
               \/ Carries(w, local)'
               \/ listed'
               \/ fate'[local] # "none"
    PROVE  PutIsAccountedFor'
<1> SUFFICES ASSUME mine, Live(local)' # None
             PROVE  \/ fate'[local] # "none"
                    \/ listed'
                    \/ \E w \in Writer : Carries(w, local)'
  BY DEF PutIsAccountedFor
<1>1. local # None /\ local \in Rec
  BY DEF Live, IInv, TypeOK, MaybeRec
<1>2. Live(local) # None
  <2>1. now \in Nat /\ local.validity \in Nat
    BY <1>1, RecordAssumption DEF IInv, TypeOK, Record
  <2>2. now' <= local.validity
    BY <1>1 DEF Live, Valid
  <2>3. QED
    BY <1>1, <2>1, <2>2 DEF Live, Valid
<1>3. \/ fate[local] # "none"
      \/ listed
      \/ \E w \in Writer : Carries(w, local)
  BY <1>2 DEF IInv, PutIsAccountedFor
<1>4. QED
  BY <1>1, <1>3

-----------------------------------------------------------------------------
(* The writers.                                                            *)

(* Who is about to write has read what its record may take the place of.   *)
LEMMA ChoiceIsMade ==
    ASSUME IInv, NEW w \in Writer, NEW r \in Rec, NEW why \in Writing,
           Replaces(r, Live(local)),
           pc' = [pc EXCEPT ![w] = why],
           rec'[w] = r, \A v \in Writer \ {w} : rec'[v] = rec[v],
           seen' = [seen EXCEPT ![w] = local],
           now' = now
    PROVE  ChoiceInv'
<1> USE ProcFacts
<1>1. \/ local = None
      \/ ~Valid(local)
      \/ local = r
      \/ IsOlder(local, r)
  <2>1. CASE local = None \/ ~Valid(local)
    BY <2>1
  <2>2. CASE local # None /\ Valid(local)
    <3>1. local \in Rec /\ Replaces(r, local)
      BY <2>2 DEF Live, IInv, TypeOK, MaybeRec
    <3>2. QED
      BY <3>1, ReplacedByNewer
  <2>3. QED
    BY <2>1, <2>2
<1>2. /\ rec'[w] = r /\ seen'[w] = local
      /\ \A v \in Writer \ {w} :
            pc'[v] = pc[v] /\ rec'[v] = rec[v] /\ seen'[v] = seen[v]
  BY DEF IInv, TypeOK
<1>3. QED
  BY <1>1, <1>2 DEF IInv, ChoiceInv, Valid

LEMMA AdmitInv ==
    ASSUME IInv, NEW w \in Writer, NEW r \in Rec,
           NEW why \in Writing, Admit(w, r, why)
    PROVE  IInv'
<1> USE ProcFacts
<1>1. TypeOK'
  BY DEF IInv, TypeOK, Admit, Goto, MaybeRec, fateVars
<1>2. /\ pc[w] = "idle" /\ Valid(r) /\ Replaces(r, Live(local))
      /\ pc' = [pc EXCEPT ![w] = why]
      /\ rec' = [rec EXCEPT ![w] = r]
      /\ seen' = [seen EXCEPT ![w] = local]
      /\ UNCHANGED <<now, local, listed, peer, tries, mine, fate>>
  BY DEF Admit, Goto, fateVars
<1>3. TriesInv' /\ SyncInv'
  BY <1>2 DEF IInv, TypeOK, TriesInv, SyncInv, Writing
<1>4. ChoiceInv'
  <2>1. rec'[w] = r /\ \A v \in Writer \ {w} : rec'[v] = rec[v]
    BY <1>2 DEF IInv, TypeOK
  <2>2. QED
    BY <1>2, <2>1, ChoiceIsMade
<1>5. PutIsAccountedFor'
  BY <1>2 DEF IInv, TypeOK, PutIsAccountedFor, Carries, Live, Valid
<1>6. QED
  BY <1>1, <1>3, <1>4, <1>5 DEF IInv

(* The choices of the writers that go on stand, as time only passes.       *)
LEMMA ChoiceStands ==
    ASSUME IInv, now' \in Nat, now' >= now,
           \A w \in Writer : pc'[w] \in Writing =>
               pc'[w] = pc[w] /\ rec'[w] = rec[w] /\ seen'[w] = seen[w]
    PROVE  ChoiceInv'
<1>1. ASSUME NEW r \in Rec, ~Valid(r)
      PROVE  ~(now' <= r.validity)
  BY <1>1, RecordAssumption DEF IInv, TypeOK, Valid, Record
<1>2. ASSUME NEW w \in Writer, pc'[w] \in Writing
      PROVE  /\ rec'[w] \in Rec
             /\ \/ seen'[w] = None
                \/ ~(now' <= seen'[w].validity)
                \/ seen'[w] = rec'[w]
                \/ IsOlder(seen'[w], rec'[w])
  <2>1. seen[w] \in Rec \cup {None}
    BY DEF IInv, TypeOK, MaybeRec
  <2>2. QED
    BY <1>1, <1>2, <2>1 DEF IInv, ChoiceInv
<1>3. QED
  BY <1>2 DEF ChoiceInv, Valid

LEMMA WriteInv ==
    ASSUME IInv, NEW w \in Writer, Write(w)
    PROVE  IInv'
<1> USE ProcFacts
<1>1. /\ pc[w] \in Writing
      /\ local' = rec[w]
      /\ mine' = (pc[w] = "put")
      /\ pc' = [pc EXCEPT ![w] = AfterWrite(w)]
      /\ rec' = [rec EXCEPT ![w] = IF pc[w] = "transfer" THEN @ ELSE None]
      /\ seen' = [seen EXCEPT ![w] = None]
      /\ tries' = [tries EXCEPT ![w] =
                      IF pc[w] = "transfer" /\ @ = 0 THEN MaxTries ELSE @]
      /\ UNCHANGED <<now, listed, peer, fate>>
  BY DEF Write, Goto
<1>2. AfterWrite(w) \in {"fetch", "publish", "idle"}
  BY <1>1 DEF AfterWrite, Writing
<1>3. TypeOK'
  <2>1. tries' \in [Writer -> 0..MaxTries]
    BY <1>1, StoreAssumption DEF IInv, TypeOK
  <2>2. QED
    BY <1>1, <1>2, <2>1 DEF IInv, TypeOK, MaybeRec, Writing
<1>4. TriesInv'
  <2>1. AfterWrite(w) = "publish" => pc[w] = "transfer"
    BY <1>1 DEF AfterWrite, Writing
  <2>2. pc[w] = "transfer" => tries'[w] > 0 /\ rec'[w] \in Rec
    BY <1>1, StoreAssumption DEF IInv, TypeOK, ChoiceInv
  <2>3. QED
    BY <1>1, <2>1, <2>2 DEF IInv, TypeOK, TriesInv
<1>5. SyncInv'
  BY <1>1 DEF IInv, TypeOK, SyncInv
<1>6. ChoiceInv'
  <2>1. AfterWrite(w) \notin Writing
    BY <1>2 DEF Writing
  <2>2. now' \in Nat /\ now' >= now
    BY <1>1 DEF IInv, TypeOK
  <2>3. QED
    BY <1>1, <2>1, <2>2, ChoiceStands DEF IInv, TypeOK
<1>7. PutIsAccountedFor'
  <2>1. mine' => pc'[w] = "fetch"
    BY <1>1 DEF IInv, TypeOK, AfterWrite
  <2>2. QED
    BY <2>1 DEF PutIsAccountedFor, Carries
<1>8. QED
  BY <1>3, <1>4, <1>5, <1>6, <1>7 DEF IInv

LEMMA WriteErrorInv ==
    ASSUME IInv, NEW w \in Writer, WriteError(w)
    PROVE  IInv'
<1> USE ProcFacts
<1>1. /\ pc[w] \in Writing
      /\ pc' = [pc EXCEPT ![w] = "idle"]
      /\ rec' = [rec EXCEPT ![w] = None]
      /\ seen' = [seen EXCEPT ![w] = None]
      /\ tries' = [tries EXCEPT ![w] = 0]
      /\ UNCHANGED <<now, local, listed, peer, mine, fate>>
  BY DEF WriteError, Done, Goto, fateVars
<1>2. TypeOK'
  BY <1>1, StoreAssumption DEF IInv, TypeOK, MaybeRec
<1>3. TriesInv' /\ SyncInv'
  BY <1>1 DEF IInv, TypeOK, TriesInv, SyncInv
<1>4. ChoiceInv'
  <2>1. now' \in Nat /\ now' >= now
    BY <1>1 DEF IInv, TypeOK
  <2>2. QED
    BY <1>1, <2>1, ChoiceStands DEF IInv, TypeOK, Writing
<1>5. PutIsAccountedFor'
  BY <1>1 DEF IInv, TypeOK, PutIsAccountedFor, Carries, Live, Valid, Writing
<1>6. QED
  BY <1>2, <1>3, <1>4, <1>5 DEF IInv

-----------------------------------------------------------------------------
(* Reading back and sending.                                               *)

LEMMA FetchInv ==
    ASSUME IInv, NEW x \in Proc, Fetch(x)
    PROVE  IInv'
<1> USE ProcFacts
<1>1. /\ pc[x] = "fetch"
      /\ pc' = [pc EXCEPT ![x] = "send"]
      /\ rec' = [rec EXCEPT ![x] = local]
      /\ UNCHANGED <<now, local, listed, peer, seen, tries, mine, fate>>
  BY DEF Fetch, Goto, fateVars
<1>2. TypeOK'
  BY <1>1 DEF IInv, TypeOK
<1>3. TriesInv' /\ SyncInv'
  BY <1>1 DEF IInv, TypeOK, TriesInv, SyncInv
<1>4. ChoiceInv'
  <2>1. now' \in Nat /\ now' >= now
    BY <1>1 DEF IInv, TypeOK
  <2>2. QED
    BY <1>1, <2>1, ChoiceStands DEF IInv, TypeOK, Writing
<1>5. PutIsAccountedFor'
  <2>1. now' \in Nat /\ now' >= now
    BY <1>1 DEF IInv, TypeOK
  <2>2. ASSUME NEW v \in Writer, Carries(v, local)
        PROVE  Carries(v, local)'
    BY <1>1, <2>2 DEF IInv, TypeOK, Carries
  <2>3. QED
    BY <1>1, <2>1, <2>2, StillAccountedFor
<1>6. QED
  BY <1>2, <1>3, <1>4, <1>5 DEF IInv

(* A sending that is over, or was never begun: the record's fate is known. *)
LEMMA SettledInv ==
    ASSUME IInv, NEW x \in Proc, NEW r \in MaybeRec, NEW f \in Fate \ {"none"},
           Settle(r, f),
           pc[x] \in {"fetch", "send", "list"},
           pc[x] = "fetch" => r = local,
           pc[x] # "fetch" => r = rec[x],
           IF x = Sync
             THEN pc' = [pc EXCEPT ![x] = "delete"] /\ rec' = rec
             ELSE pc' = [pc EXCEPT ![x] = "idle"] /\ rec' = [rec EXCEPT ![x] = None],
           peer' \in [Peer -> MaybeRec],
           UNCHANGED <<now, local, listed, seen, tries, mine>>
    PROVE  IInv'
<1> USE ProcFacts
<1>1. /\ fate' \in [Rec -> Fate]
      /\ \A s \in Rec : fate[s] # "none" => fate'[s] # "none"
      /\ r # None => fate'[r] # "none"
  BY SettleFacts DEF IInv
<1>2. TypeOK'
  BY <1>1 DEF IInv, TypeOK, MaybeRec
<1>3. TriesInv'
  BY DEF IInv, TypeOK, TriesInv
<1>4. SyncInv'
  <2>1. CASE x = Sync
    BY <1>1, <2>1 DEF IInv, TypeOK, SyncInv
  <2>2. CASE x # Sync
    <3>1. pc'[Sync] = pc[Sync] /\ rec'[Sync] = rec[Sync] /\ rec[Sync] \in MaybeRec
      BY <2>2 DEF IInv, TypeOK
    <3>2. QED
      BY <1>1, <3>1 DEF IInv, SyncInv, MaybeRec
  <2>3. QED
    BY <2>1, <2>2
<1>5. now' \in Nat /\ now' >= now
  BY DEF IInv, TypeOK
<1>6. ChoiceInv'
  BY <1>5, ChoiceStands DEF IInv, TypeOK, Writing
<1>7. PutIsAccountedFor'
  <2>1. ASSUME NEW v \in Writer, local # None, Carries(v, local)
        PROVE  Carries(v, local)' \/ fate'[local] # "none"
    <3>1. CASE v = x
      BY <1>1, <2>1, <3>1 DEF Carries
    <3>2. CASE v # x
      BY <2>1, <3>2 DEF IInv, TypeOK, Carries
    <3>3. QED
      BY <3>1, <3>2
  <2>2. QED
    BY <1>1, <1>5, <2>1, StillAccountedFor
<1>8. QED
  BY <1>2, <1>3, <1>4, <1>6, <1>7 DEF IInv

LEMMA DeliverInv ==
    ASSUME IInv, NEW x \in Proc, Deliver(x)
    PROVE  IInv'
<1>1. rec[x] \in MaybeRec /\ local \in MaybeRec /\ peer \in [Peer -> MaybeRec]
  BY DEF IInv, TypeOK
<1>2. CASE Fetch(x)
  BY <1>2, FetchInv
<1>3. CASE FetchNothing(x)
  <2>1. "cut" \in Fate \ {"none"}
    BY DEF Fate
  <2>2. /\ pc[x] = "fetch"
        /\ Settle(local, "cut")
        /\ IF x = Sync
             THEN pc' = [pc EXCEPT ![x] = "delete"] /\ rec' = rec
             ELSE pc' = [pc EXCEPT ![x] = "idle"] /\ rec' = [rec EXCEPT ![x] = None]
        /\ UNCHANGED <<now, local, listed, peer, seen, tries, mine>>
    BY <1>3 DEF FetchNothing, Goto, Done
  <2>3. QED
    BY <1>1, <2>1, <2>2, SettledInv
<1>4. ASSUME NEW taken \in BOOLEAN, pc[x] = "send", TakenForDone(x, taken),
             peer' \in [Peer -> MaybeRec],
             UNCHANGED <<now, local, listed, seen, tries, mine>>
      PROVE  IInv'
  <2> DEFINE f == IF taken THEN "reached" ELSE IF x = Sync THEN "cut" ELSE "announced"
  <2>1. f \in Fate \ {"none"}
    BY DEF Fate
  <2>2. /\ Settle(rec[x], f)
        /\ IF x = Sync
             THEN pc' = [pc EXCEPT ![x] = "delete"] /\ rec' = rec
             ELSE pc' = [pc EXCEPT ![x] = "idle"] /\ rec' = [rec EXCEPT ![x] = None]
    BY <1>4 DEF TakenForDone, Goto, Done
  <2> HIDE DEF f
  <2>3. QED
    BY <1>1, <1>4, <2>1, <2>2, SettledInv
<1>5. ASSUME NEW A \in SUBSET Peer, Send(x, A)
      PROVE  IInv'
  <2>1. peer' \in [Peer -> MaybeRec]
    BY <1>1, <1>5 DEF Send
  <2>2. (A # {}) \in BOOLEAN
    OBVIOUS
  <2>3. QED
    BY <1>4, <1>5, <2>1, <2>2 DEF Send
<1>6. CASE SendToNobody(x)
  BY <1>1, <1>4, <1>6 DEF SendToNobody
<1>7. QED
  BY <1>2, <1>3, <1>5, <1>6 DEF Deliver

LEMMA NoServicePeerInv ==
    ASSUME IInv, NEW w \in Writer, NoServicePeer(w)
    PROVE  IInv'
<1> USE ProcFacts
<1>1. "announced" \in Fate \ {"none"} /\ rec[w] \in MaybeRec
  BY DEF Fate, IInv, TypeOK
<1>2. /\ pc[w] = "send"
      /\ Settle(rec[w], "announced")
      /\ pc' = [pc EXCEPT ![w] = "idle"]
      /\ rec' = [rec EXCEPT ![w] = None]
      /\ peer' \in [Peer -> MaybeRec]
      /\ UNCHANGED <<now, local, listed, seen, tries, mine>>
  BY DEF NoServicePeer, TakenForDone, Goto, Done, IInv, TypeOK
<1>3. QED
  BY <1>1, <1>2, SettledInv

LEMMA LookupFailureInv ==
    ASSUME IInv, NEW w \in Writer, LookupFailure(w)
    PROVE  IInv'
<1> USE ProcFacts
<1>1. /\ pc[w] = "send"
      /\ pc' = [pc EXCEPT ![w] = "list"]
      /\ UNCHANGED <<now, local, listed, peer, rec, seen, tries, mine, fate>>
  BY DEF LookupFailure, Goto, fateVars
<1>2. TypeOK' /\ TriesInv' /\ SyncInv'
  BY <1>1 DEF IInv, TypeOK, TriesInv, SyncInv
<1>3. now' \in Nat /\ now' >= now
  BY <1>1 DEF IInv, TypeOK
<1>4. ChoiceInv'
  BY <1>1, <1>3, ChoiceStands DEF IInv, TypeOK, Writing
<1>5. PutIsAccountedFor'
  <2>1. ASSUME NEW v \in Writer, Carries(v, local)
        PROVE  Carries(v, local)'
    BY <1>1, <2>1 DEF IInv, TypeOK, Carries
  <2>2. QED
    BY <1>1, <1>3, <2>1, StillAccountedFor
<1>6. QED
  BY <1>2, <1>4, <1>5 DEF IInv

LEMMA ListInv ==
    ASSUME IInv, NEW w \in Writer, List(w)
    PROVE  IInv'
<1> USE ProcFacts
<1>1. /\ listed' = TRUE
      /\ pc' = [pc EXCEPT ![w] = "idle"]
      /\ rec' = [rec EXCEPT ![w] = None]
      /\ UNCHANGED <<now, local, peer, seen, tries, mine, fate>>
  BY DEF List, Done, Goto, fateVars
<1>2. TypeOK' /\ TriesInv' /\ SyncInv'
  BY <1>1 DEF IInv, TypeOK, TriesInv, SyncInv, MaybeRec
<1>3. now' \in Nat /\ now' >= now
  BY <1>1 DEF IInv, TypeOK
<1>4. ChoiceInv'
  BY <1>1, <1>3, ChoiceStands DEF IInv, TypeOK, Writing
<1>5. PutIsAccountedFor'
  BY <1>1 DEF PutIsAccountedFor
<1>6. QED
  BY <1>2, <1>4, <1>5 DEF IInv

LEMMA ListErrorInv ==
    ASSUME IInv, NEW w \in Writer, ListError(w)
    PROVE  IInv'
<1> USE ProcFacts
<1>1. "cut" \in Fate \ {"none"} /\ rec[w] \in MaybeRec
  BY DEF Fate, IInv, TypeOK
<1>2. /\ pc[w] = "list"
      /\ Settle(rec[w], "cut")
      /\ pc' = [pc EXCEPT ![w] = "idle"]
      /\ rec' = [rec EXCEPT ![w] = None]
      /\ peer' \in [Peer -> MaybeRec]
      /\ UNCHANGED <<now, local, listed, seen, tries, mine>>
  BY DEF ListError, Goto, Done, IInv, TypeOK
<1>3. QED
  BY <1>1, <1>2, SettledInv

-----------------------------------------------------------------------------
(* The transfer.                                                           *)

LEMMA PublishInv ==
    ASSUME IInv, NEW w \in Writer,
           PublishError(w) \/ \E A \in SUBSET Peer : Publish(w, A)
    PROVE  IInv'
<1> USE ProcFacts
<1>1. /\ pc[w] = "publish"
      /\ peer' \in [Peer -> MaybeRec]
      /\ tries' = [tries EXCEPT ![w] = 0]
      /\ pc' = [pc EXCEPT ![w] = "idle"]
      /\ rec' = [rec EXCEPT ![w] = None]
      /\ UNCHANGED <<now, local, listed, seen, mine, fate>>
  <2>1. peer \in [Peer -> MaybeRec] /\ rec[w] \in MaybeRec
    BY DEF IInv, TypeOK
  <2>2. ASSUME NEW A \in SUBSET Peer, Publish(w, A)
        PROVE  peer' \in [Peer -> MaybeRec]
    BY <2>1, <2>2 DEF Publish
  <2>3. PublishError(w) => peer' = peer
    BY DEF PublishError
  <2>4. QED
    BY <2>1, <2>2, <2>3 DEF Publish, PublishError, Done, Goto, fateVars
<1>2. TypeOK'
  BY <1>1, StoreAssumption DEF IInv, TypeOK, MaybeRec
<1>3. \A v \in Proc \ {w} : pc'[v] = pc[v] /\ rec'[v] = rec[v]
  BY <1>1 DEF IInv, TypeOK
<1>4. TriesInv'
  BY <1>1, <1>3 DEF IInv, TypeOK, TriesInv
<1>5. SyncInv'
  BY <1>1, <1>3 DEF IInv, SyncInv
<1>6. now' \in Nat /\ now' >= now
  BY <1>1 DEF IInv, TypeOK
<1>7. ChoiceInv'
  <2>1. pc'[w] \notin Writing
    BY <1>1 DEF IInv, TypeOK, Writing
  <2>2. QED
    BY <1>1, <1>3, <1>6, <2>1, ChoiceStands
<1>8. PutIsAccountedFor'
  <2>1. ASSUME NEW v \in Writer, Carries(v, local)
        PROVE  Carries(v, local)'
    BY <1>1, <1>3, <2>1 DEF Carries
  <2>2. QED
    BY <1>1, <1>6, <2>1, StillAccountedFor
<1>9. QED
  BY <1>2, <1>4, <1>5, <1>7, <1>8 DEF IInv

LEMMA PublishRetryInv ==
    ASSUME IInv, NEW w \in Writer, PublishRetry(w)
    PROVE  IInv'
<1> USE ProcFacts
<1>1. /\ pc[w] = "publish" /\ tries[w] > 1
      /\ Replaces(rec[w], Live(local))
      /\ pc' = [pc EXCEPT ![w] = "transfer"]
      /\ seen' = [seen EXCEPT ![w] = local]
      /\ tries' = [tries EXCEPT ![w] = @ - 1]
      /\ UNCHANGED <<now, local, listed, peer, rec, mine, fate>>
  BY DEF PublishRetry, Goto, fateVars
<1>2. TypeOK'
  <2>1. tries' \in [Writer -> 0..MaxTries]
    BY <1>1, StoreAssumption DEF IInv, TypeOK
  <2>2. QED
    BY <1>1, <2>1 DEF IInv, TypeOK, MaybeRec, Writing
<1>3. \A v \in Proc \ {w} : pc'[v] = pc[v]
  BY <1>1 DEF IInv, TypeOK
<1>4. TriesInv' /\ SyncInv'
  BY <1>1, <1>3 DEF IInv, TypeOK, TriesInv, SyncInv
<1>5. now' \in Nat /\ now' >= now
  BY <1>1 DEF IInv, TypeOK
<1>6. ChoiceInv'
  <2>1. rec[w] \in Rec /\ "transfer" \in Writing
    BY <1>1 DEF IInv, TriesInv, Writing
  <2>2. QED
    BY <1>1, <2>1, ChoiceIsMade
<1>7. PutIsAccountedFor'
  <2>1. ASSUME NEW v \in Writer, Carries(v, local)
        PROVE  Carries(v, local)'
    BY <1>1, <1>3, <2>1 DEF Carries
  <2>2. QED
    BY <1>1, <1>5, <2>1, StillAccountedFor
<1>8. QED
  BY <1>2, <1>4, <1>6, <1>7 DEF IInv

-----------------------------------------------------------------------------
(* The ticker's goroutine.                                                 *)

LEMMA SyncGoesOn ==
    ASSUME IInv,
           pc' \in {[pc EXCEPT ![Sync] = "idle"], [pc EXCEPT ![Sync] = "fetch"]},
           rec' = [rec EXCEPT ![Sync] = None],
           listed' \in BOOLEAN,
           UNCHANGED <<now, local, peer, seen, tries, mine>>,
           fate' \in [Rec -> Fate],
           \A r \in Rec : fate[r] # "none" => fate'[r] # "none",
           listed => listed' \/ local \notin Rec \/ fate'[local] # "none"
    PROVE  IInv'
<1> USE ProcFacts
<1>1. TypeOK' /\ TriesInv' /\ SyncInv'
  BY DEF IInv, TypeOK, TriesInv, SyncInv, MaybeRec
<1>2. \A w \in Writer : pc'[w] = pc[w] /\ rec'[w] = rec[w]
  BY DEF IInv, TypeOK
<1>3. now' \in Nat /\ now' >= now /\ local \in MaybeRec
  BY DEF IInv, TypeOK
<1>4. ChoiceInv'
  BY <1>2, <1>3, ChoiceStands
<1>5. PutIsAccountedFor'
  <2>1. ASSUME mine, Live(local) # None
        PROVE  \/ fate'[local] # "none"
               \/ listed'
               \/ \E w \in Writer : Carries(w, local)'
    <3>1. local \in Rec
      BY <1>3, <2>1 DEF Live, MaybeRec
    <3>2. \A w \in Writer : Carries(w, local) => Carries(w, local)'
      BY <1>2 DEF Carries
    <3>3. QED
      BY <2>1, <3>1, <3>2 DEF IInv, PutIsAccountedFor
  <2>2. QED
    BY <2>1 DEF PutIsAccountedFor, Live, Valid
<1>6. QED
  BY <1>1, <1>4, <1>5 DEF IInv

LEMMA SynchroniseInv ==
    ASSUME IInv, Synchronise
    PROVE  IInv'
<1> USE ProcFacts
<1>1. /\ listed \in BOOLEAN /\ local \in MaybeRec
      /\ rec \in [Proc -> MaybeRec] /\ fate \in [Rec -> Fate]
  BY DEF IInv, TypeOK
<1>2. CASE SyncStart
  <2>1. rec[Sync] = None
    BY <1>2 DEF SyncStart, IInv, SyncInv
  <2>2. /\ pc' = [pc EXCEPT ![Sync] = "fetch"]
        /\ rec' = [rec EXCEPT ![Sync] = None]
        /\ UNCHANGED <<now, local, listed, peer, seen, tries, mine, fate>>
    BY <1>1, <1>2, <2>1 DEF SyncStart, Goto, fateVars
  <2>3. QED
    BY <1>1, <2>2, SyncGoesOn
<1>3. CASE SyncNoPeer \/ SyncDeleteError
  <2>1. /\ pc' = [pc EXCEPT ![Sync] = "idle"]
        /\ rec' = [rec EXCEPT ![Sync] = None]
        /\ UNCHANGED <<now, local, listed, peer, seen, tries, mine, fate>>
    BY <1>3 DEF SyncNoPeer, SyncDeleteError, Done, Goto, fateVars
  <2>2. QED
    BY <1>1, <2>1, SyncGoesOn
<1>4. CASE SyncDelete
  <2> DEFINE r == IF local = rec[Sync] THEN None ELSE local
  <2>1. /\ pc[Sync] = "delete"
        /\ listed' = FALSE
        /\ Settle(r, "cut")
        /\ pc' = [pc EXCEPT ![Sync] = "idle"]
        /\ rec' = [rec EXCEPT ![Sync] = None]
        /\ UNCHANGED <<now, local, peer, seen, tries, mine>>
    BY <1>4 DEF SyncDelete, Done, Goto
  <2>2. r \in MaybeRec /\ "cut" \in Fate \ {"none"}
    BY <1>1 DEF MaybeRec, Fate
  <2> HIDE DEF r
  <2>3. /\ fate' \in [Rec -> Fate]
        /\ \A s \in Rec : fate[s] # "none" => fate'[s] # "none"
        /\ r # None => fate'[r] # "none"
    BY <2>1, <2>2, SettleFacts DEF IInv
  <2>4. local \in Rec => fate'[local] # "none"
    <3>1. CASE local = rec[Sync]
      BY <2>1, <2>3, <3>1, RecordAssumption DEF IInv, SyncInv
    <3>2. CASE local # rec[Sync]
      BY <2>3, <3>2, RecordAssumption DEF r
    <3>3. QED
      BY <3>1, <3>2
  <2>5. QED
    BY <2>1, <2>3, <2>4, SyncGoesOn
<1>5. QED
  BY <1>2, <1>3, <1>4 DEF Synchronise

-----------------------------------------------------------------------------
(* The rest of the world.                                                  *)

LEMMA WorldInv ==
    ASSUME IInv,
           \/ \E p \in Peer, r \in Rec : PeerPut(p, r)
           \/ Tick
           \/ UNCHANGED vars
    PROVE  IInv'
<1>1. /\ now' \in 0..MaxTime /\ now' >= now
      /\ peer' \in [Peer -> MaybeRec]
      /\ UNCHANGED <<local, listed, pc, rec, seen, tries, mine, fate>>
  BY StoreAssumption
  DEF IInv, TypeOK, PeerPut, Tick, vars, procVars, fateVars, MaybeRec
<1>2. TypeOK' /\ TriesInv' /\ SyncInv'
  BY <1>1 DEF IInv, TypeOK, TriesInv, SyncInv
<1>3. now' \in Nat
  BY <1>1
<1>4. ChoiceInv'
  BY <1>1, <1>3, ChoiceStands
<1>5. PutIsAccountedFor'
  <2>1. \A w \in Writer : Carries(w, local) => Carries(w, local)'
    BY <1>1 DEF Carries
  <2>2. QED
    BY <1>1, <1>3, <2>1, StillAccountedFor
<1>6. QED
  BY <1>2, <1>4, <1>5 DEF IInv

LEMMA RestartInv ==
    ASSUME IInv, Restart
    PROVE  IInv'
<1> USE ProcFacts
<1> DEFINE r == IF \E w \in Writer : pc[w] \in {"fetch", "send", "list"}
                THEN local ELSE None
<1>1. /\ pc' = [x \in Proc |-> "idle"]
      /\ Settle(r, "cut")
      /\ rec' = [x \in Proc |-> None]
      /\ seen' = [w \in Writer |-> None]
      /\ tries' = [w \in Writer |-> 0]
      /\ UNCHANGED <<now, local, listed, peer, mine>>
  BY DEF Restart
<1>2. r \in MaybeRec /\ "cut" \in Fate \ {"none"}
  BY DEF MaybeRec, Fate, IInv, TypeOK
<1>3. \A w \in Writer : Carries(w, local) => r = local
  BY DEF Carries
<1> HIDE DEF r
<1>4. /\ fate' \in [Rec -> Fate]
      /\ \A s \in Rec : fate[s] # "none" => fate'[s] # "none"
      /\ r # None => fate'[r] # "none"
  BY <1>1, <1>2, SettleFacts DEF IInv
<1>5. TypeOK'
  <2>1. tries' \in [Writer -> 0..MaxTries]
    BY <1>1, StoreAssumption
  <2>2. QED
    BY <1>1, <1>4, <2>1 DEF IInv, TypeOK, MaybeRec
<1>6. TriesInv' /\ SyncInv' /\ ChoiceInv'
  BY <1>1 DEF TriesInv, SyncInv, ChoiceInv, Writing
<1>7. PutIsAccountedFor'
  <2>1. now' \in Nat /\ now' >= now
    BY <1>1 DEF IInv, TypeOK
  <2>2. QED
    BY <1>1, <1>3, <1>4, <2>1, StillAccountedFor
<1>8. QED
  BY <1>5, <1>6, <1>7 DEF IInv

-----------------------------------------------------------------------------
LEMMA StoreInv ==
    ASSUME IInv, NEW w \in Writer, Store(w)
    PROVE  IInv'
<1>1. {"put", "inbound", "transfer"} \subseteq Writing
  BY DEF Writing
<1>2. ASSUME NEW r \in Rec, Put(w, r) \/ Inbound(w, r) \/ Transfer(w, r)
      PROVE  IInv'
  BY <1>1, <1>2, AdmitInv DEF Put, Inbound, Transfer
<1>3. ASSUME NEW p \in Peer, SaveRead(w, p)
      PROVE  IInv'
  <2>1. peer[p] \in Rec /\ Admit(w, peer[p], "inbound")
    BY <1>3 DEF SaveRead, IInv, TypeOK, MaybeRec
  <2>2. QED
    BY <1>1, <2>1, AdmitInv
<1>4. CASE Write(w)
  BY <1>4, WriteInv
<1>5. CASE WriteError(w)
  BY <1>5, WriteErrorInv
<1>6. CASE NoServicePeer(w)
  BY <1>6, NoServicePeerInv
<1>7. CASE LookupFailure(w)
  BY <1>7, LookupFailureInv
<1>8. CASE List(w)
  BY <1>8, ListInv
<1>9. CASE ListError(w)
  BY <1>9, ListErrorInv
<1>10. CASE PublishError(w) \/ \E A \in SUBSET Peer : Publish(w, A)
  BY <1>10, PublishInv
<1>11. CASE PublishRetry(w)
  BY <1>11, PublishRetryInv
<1>12. QED
  BY <1>2, <1>3, <1>4, <1>5, <1>6, <1>7, <1>8, <1>9, <1>10, <1>11 DEF Store

LEMMA NextInv == IInv /\ [Next]_vars => IInv'
<1> SUFFICES ASSUME IInv, [Next]_vars PROVE IInv'
  OBVIOUS
<1>1. CASE \E w \in Writer : Store(w)
  BY <1>1, StoreInv
<1>2. CASE \E x \in Proc : Deliver(x)
  BY <1>2, DeliverInv
<1>3. CASE Synchronise
  BY <1>3, SynchroniseInv
<1>4. CASE Restart
  BY <1>4, RestartInv
<1>5. CASE \/ \E p \in Peer, r \in Rec : PeerPut(p, r)
           \/ Tick
           \/ UNCHANGED vars
  BY <1>5, WorldInv
<1>6. QED
  BY <1>1, <1>2, <1>3, <1>4, <1>5 DEF Next

LEMMA Invariance == Spec => []IInv
<1>1. QED
  BY InitInv, NextInv, PTL DEF Spec

(* Every record the node, its goroutines and its peers hold is one that    *)
(* was put, and a transfer makes no more attempts than dhtPut allows.      *)
THEOREM TypeCorrect == Spec => []TypeOK
<1>1. IInv => TypeOK
  BY DEF IInv
<1>2. QED
  BY <1>1, Invariance, PTL

(* A record that Put left in the datastore of any node, with any number of *)
(* goroutines and peers, is with a peer, on its way, listed for the ticker *)
(* or cut off by a named race, as asyncPut means it to be.                 *)
THEOREM PutsAccounted == Spec => []PutIsAccountedFor
<1>1. IInv => PutIsAccountedFor
  BY DEF IInv
<1>2. QED
  BY <1>1, Invariance, PTL

-----------------------------------------------------------------------------
(* What putKeyToLocalNode may do to the record in the datastore.           *)
LEMMA StepReplaces ==
    ASSUME IInv, [Next]_vars
    PROVE  \/ local' = local
           \/ local = None
           \/ ~Valid(local)
           \/ IsOlder(local, local')
           \/ \E w \in Writer : pc[w] \in Writing /\ pc'[w] # pc[w] /\ seen[w] # local
<1>1. ASSUME NEW w \in Writer, Write(w), seen[w] = local
      PROVE  \/ local' = local
             \/ local = None
             \/ ~Valid(local)
             \/ IsOlder(local, local')
  BY <1>1 DEF Write, IInv, ChoiceInv
<1>2. ASSUME NEW w \in Writer, Write(w)
      PROVE  pc[w] \in Writing /\ pc'[w] # pc[w]
  <2>1. AfterWrite(w) # pc[w] /\ pc' = [pc EXCEPT ![w] = AfterWrite(w)]
    BY <1>2 DEF Write, Goto, AfterWrite, Writing
  <2>2. QED
    BY <1>2, <2>1, ProcFacts DEF Write, IInv, TypeOK
<1>3. CASE \E w \in Writer : Write(w)
  BY <1>1, <1>2, <1>3
<1>4. CASE ~\E w \in Writer : Write(w)
  <2>1. local' = local
    <3>1. ASSUME NEW w \in Writer, Store(w)
          PROVE  local' = local
      BY <1>4, <3>1
      DEF Store, Put, Inbound, Transfer, SaveRead, Admit, WriteError,
          NoServicePeer, LookupFailure, List, ListError, Publish, PublishRetry,
          PublishError
    <3>2. ASSUME NEW x \in Proc, Deliver(x)
          PROVE  local' = local
      BY <3>2 DEF Deliver, Fetch, FetchNothing, Send, SendToNobody
    <3>3. CASE Synchronise
      BY <3>3 DEF Synchronise, SyncStart, SyncNoPeer, SyncDelete, SyncDeleteError
    <3>4. CASE \/ \E p \in Peer, r \in Rec : PeerPut(p, r)
               \/ Tick
               \/ Restart
               \/ UNCHANGED vars
      BY <3>4 DEF PeerPut, Tick, Restart, vars
    <3>5. QED
      BY <3>1, <3>2, <3>3, <3>4 DEF Next
  <2>2. QED
    BY <2>1
<1>5. QED
  BY <1>3, <1>4

(* A valid record in the datastore gives way only to a newer one, or to a  *)
(* writer of putKeyToLocalNode that chose before it was there.             *)
THEOREM NewerOnly == Spec => NewerReplaces
<1>1. IInv /\ [Next]_vars =>
        [\/ local' = local
         \/ local = None
         \/ ~Valid(local)
         \/ IsOlder(local, local')
         \/ \E w \in Writer : pc[w] \in Writing /\ pc'[w] # pc[w] /\ seen[w] # local]_vars
  BY StepReplaces
<1>2. QED
  BY <1>1, Invariance, PTL DEF Spec, NewerReplaces
=============================================================================
