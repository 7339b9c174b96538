------------------------ MODULE PubsubMessagesProofs ------------------------
(***************************************************************************)
(* Theorems of PubsubMessages and of the proxies it rests on, for any      *)
(* clients, service peers, keys and limits.                                *)
(***************************************************************************)
EXTENDS PubsubMessages, FiniteSetTheorems, TLAPS

(* Creates of a key that a service peer is handling.                       *)
InHand(s, k) == {r \in handlers : r.s = s /\ r.k = k}

(* A topic is joined once for every create under way, and once for the     *)
(* entry of the list; more than that when two creates have crossed.        *)
JoinedInv ==
    /\ IsFiniteSet(handlers)
    /\ \A s \in Servers, k \in Keys :
          refs[s][k] >= Cardinality(InHand(s, k))
                          + (IF list[s][k] = Absent THEN 0 ELSE 1)

BornInv ==
    \A s \in Servers, k \in Keys :
        list[s][k] # Absent => list[s][k] = born[s][k]

(* What was said of key k of s when it had restarted e times still stands. *)
Backed(s, k, e) ==
    /\ e <= epoch[s]
    /\ \/ list[s][k] # Absent
       \/ epoch[s] # e
       \/ day - born[s][k] >= KeepPubsubDay

AnswersInv == \A a \in answers : a.code >= 0 => Backed(a.r.s, a.r.k, a.epoch)

ProxiesInv ==
    \A c \in Clients : \A k \in held[c] :
        /\ proxy[c][k].s \in Servers
        /\ Backed(proxy[c][k].s, k, proxy[c][k].epoch)

ProxyInv == ProxyTypeOK /\ JoinedInv /\ BornInv /\ AnswersInv /\ ProxiesInv

(* An answer that will be taken for a success is about a message given to  *)
(* the application of who made it, if that one had a receiver.             *)
RepliesInv == \A y \in replies : y.m \in received[y.by] \cup unread[y.by]

IInv == ProxyInv /\ TypeOK /\ IsFiniteSet(sent) /\ RepliesInv /\ RespondedWasReceived

-----------------------------------------------------------------------------
(* What the answers of a create say.                                       *)
LEMMA CreateCodes ==
    ASSUME NEW s \in Servers
    PROVE  /\ AnswerTo(AdapterOf(s), Failed) = ErrCode
           /\ AnswerTo(AdapterOf(s), Done) \in {SuccCode, ErrCode}
           /\ AnswerTo(AdapterOf(s), Coded(AlreadyExistCode)) \in {SuccCode, ErrCode}
<1>1. AdapterOf(s) = [casts |-> Data, fills |-> Data]
  BY DEF AdapterOf, CreateMsgPubsubAdapter, CreateChannelAdapter
<1>2. "nil" \in AdapterOf(s).fills
  BY <1>1 DEF Data
<1>3. /\ Failed.abort = FALSE /\ Failed.err = TRUE
      /\ Done.abort = FALSE
      /\ Coded(AlreadyExistCode).abort = FALSE
  BY DEF Failed, Done, Coded
<1>4. QED
  BY <1>2, <1>3 DEF AnswerTo, GetRetCode

LEMMA ProxyInitInv == ProxyInit => ProxyInv
<1> SUFFICES ASSUME ProxyInit PROVE ProxyInv
  OBVIOUS
<1>1. ProxyTypeOK
  BY BoundAssumption DEF ProxyInit, ProxyTypeOK, Idle, NoProxy, ProxyStage
<1>2. JoinedInv
  <2>1. IsFiniteSet(handlers)
    BY FS_EmptySet DEF ProxyInit
  <2>2. \A s \in Servers, k \in Keys : InHand(s, k) = {}
    BY DEF ProxyInit, InHand
  <2>3. \A s \in Servers, k \in Keys : list[s][k] = Absent /\ refs[s][k] = 0
    BY DEF ProxyInit
  <2>4. QED
    BY <2>1, <2>2, <2>3, FS_EmptySet DEF JoinedInv
<1>3. BornInv /\ AnswersInv /\ ProxiesInv
  BY DEF ProxyInit, BornInv, AnswersInv, ProxiesInv
<1>4. QED
  BY <1>1, <1>2, <1>3 DEF ProxyInv

(* What was said stays true when the list, its histories and the restarts  *)
(* of a service peer stay, and days pass.                                  *)
LEMMA BackedStays ==
    ASSUME ProxyTypeOK, NEW s \in Servers, NEW k \in Keys, NEW e \in Nat,
           Backed(s, k, e), list' = list, born' = born, epoch' = epoch,
           day' \in Nat, day' >= day
    PROVE  Backed(s, k, e)'
BY LimitAssumption DEF ProxyTypeOK, Backed

-----------------------------------------------------------------------------
(* The steps of a service peer.                                            *)

LEMMA CreateRequestInv ==
    ASSUME ProxyInv, NEW r \in reqs, OnCreatePubsubRequest(r)
    PROVE  ProxyInv'
<1>1. /\ r \in Create /\ r.s \in Servers /\ r.k \in Keys
      /\ UNCHANGED <<list, born, epoch, clientVars, day>>
      /\ reqs' \subseteq Create
  BY DEF ProxyInv, ProxyTypeOK, OnCreatePubsubRequest, Create
<1>2. UNCHANGED <<call, held, proxy, calls>>
  BY <1>1 DEF clientVars
<1>3. /\ handlers' \in {handlers, handlers \cup {r}}
      /\ \/ answers' = answers
         \/ answers' = answers \cup {Answer(r, Failed)}
         \/ /\ r.k \in Listed(r.s)
            /\ answers' = answers \cup {Answer(r, Coded(AlreadyExistCode))}
  BY DEF OnCreatePubsubRequest
<1>4. /\ Answer(r, Failed) = [r |-> r, code |-> ErrCode, epoch |-> epoch[r.s]]
      /\ \E code \in {SuccCode, ErrCode} :
            Answer(r, Coded(AlreadyExistCode))
              = [r |-> r, code |-> code, epoch |-> epoch[r.s]]
  BY <1>1, CreateCodes DEF Answer
<1>5. epoch[r.s] \in Nat
  BY <1>1 DEF ProxyInv, ProxyTypeOK
<1>6. answers' \subseteq [r : Create, code : {SuccCode, ErrCode}, epoch : Nat]
  BY <1>1, <1>3, <1>4, <1>5 DEF ProxyInv, ProxyTypeOK
<1>7. refs' \in [Servers -> [Keys -> Nat]]
  <2>1. CASE refs' = [refs EXCEPT ![r.s][r.k] = @ + 1]
    BY <1>1, <2>1 DEF ProxyInv, ProxyTypeOK
  <2>2. QED
    BY <2>1 DEF OnCreatePubsubRequest, ProxyInv, ProxyTypeOK
<1>8. ProxyTypeOK'
  BY <1>1, <1>2, <1>3, <1>6, <1>7 DEF ProxyInv, ProxyTypeOK
<1>9. JoinedInv'
  <2>1. CASE handlers' = handlers /\ refs' = refs
    BY <1>1, <2>1 DEF ProxyInv, JoinedInv, InHand
  <2>2. CASE /\ handlers' = handlers \cup {r}
             /\ refs' = [refs EXCEPT ![r.s][r.k] = @ + 1]
    <3>1. IsFiniteSet(handlers) /\ IsFiniteSet(handlers')
      BY <2>2, FS_AddElement DEF ProxyInv, JoinedInv
    <3>2. ASSUME NEW s \in Servers, NEW k \in Keys
          PROVE  refs'[s][k] >= Cardinality(InHand(s, k)')
                                  + (IF list'[s][k] = Absent THEN 0 ELSE 1)
      <4>1. /\ IsFiniteSet(InHand(s, k))
            /\ Cardinality(InHand(s, k)) \in Nat
        BY <3>1, FS_Subset, FS_CardinalityType DEF InHand
      <4>2. refs[s][k] \in Nat
        BY DEF ProxyInv, ProxyTypeOK
      <4>3. CASE s = r.s /\ k = r.k
        <5>1. InHand(s, k)' = InHand(s, k) \cup {r}
          BY <2>2, <4>3 DEF InHand
        <5>2. Cardinality(InHand(s, k)') <= Cardinality(InHand(s, k)) + 1
          <6>1. Cardinality(InHand(s, k)') =
                  IF r \in InHand(s, k) THEN Cardinality(InHand(s, k))
                  ELSE Cardinality(InHand(s, k)) + 1
            BY <4>1, <5>1, FS_AddElement
          <6>2. QED
            BY <4>1, <6>1
        <5>3. Cardinality(InHand(s, k)') \in Nat
          <6>1. IsFiniteSet(InHand(s, k)')
            BY <4>1, <5>1, FS_AddElement
          <6>2. QED
            BY <6>1, FS_CardinalityType
        <5>4. refs'[s][k] = refs[s][k] + 1
          BY <2>2, <4>3 DEF ProxyInv, ProxyTypeOK
        <5>5. refs[s][k] >= Cardinality(InHand(s, k))
                              + (IF list[s][k] = Absent THEN 0 ELSE 1)
          BY DEF ProxyInv, JoinedInv
        <5>6. QED
          BY <1>1, <4>1, <4>2, <5>2, <5>3, <5>4, <5>5
      <4>4. CASE ~(s = r.s /\ k = r.k)
        <5>1. InHand(s, k)' = InHand(s, k)
          BY <2>2, <4>4 DEF InHand
        <5>2. refs'[s][k] = refs[s][k]
          BY <1>1, <2>2, <4>4 DEF ProxyInv, ProxyTypeOK
        <5>3. QED
          BY <1>1, <5>1, <5>2 DEF ProxyInv, JoinedInv
      <4>5. QED
        BY <4>3, <4>4
    <3>3. QED
      BY <3>1, <3>2 DEF JoinedInv
  <2>3. QED
    BY <2>1, <2>2 DEF OnCreatePubsubRequest
<1>10. BornInv' /\ ProxiesInv'
  BY <1>1, <1>2 DEF ProxyInv, BornInv, ProxiesInv, Backed
<1>11. AnswersInv'
  <2>1. ASSUME NEW a \in answers, a.code >= 0 PROVE Backed(a.r.s, a.r.k, a.epoch)'
    BY <1>1, <2>1 DEF ProxyInv, AnswersInv, Backed
  <2>2. ASSUME NEW e \in Nat, e = epoch[r.s], r.k \in Listed(r.s)
        PROVE  Backed(r.s, r.k, e)'
    BY <1>1, <1>5, <2>2 DEF Listed, Backed
  <2>3. ASSUME NEW a \in answers', a \notin answers, a.code >= 0
        PROVE  /\ a.r = r /\ a.epoch = epoch[r.s]
               /\ r.k \in Listed(r.s)
    <3>1. a # [r |-> r, code |-> ErrCode, epoch |-> epoch[r.s]]
      BY <2>3 DEF ErrCode
    <3>2. QED
      BY <1>3, <1>4, <2>3, <3>1
  <2>4. ASSUME NEW a \in answers', a.code >= 0
        PROVE  Backed(a.r.s, a.r.k, a.epoch)'
    <3>1. CASE a \in answers
      BY <2>1, <2>4, <3>1
    <3>2. CASE a \notin answers
      BY <1>5, <2>2, <2>3, <2>4, <3>2
    <3>3. QED
      BY <3>1, <3>2
  <2>5. QED
    BY <2>4 DEF AnswersInv
<1>12. QED
  BY <1>8, <1>9, <1>10, <1>11 DEF ProxyInv

(* What the other steps of a service peer have in common: nothing said is  *)
(* taken back, and the client is not touched.                              *)
LEMMA SaidStays ==
    ASSUME ProxyInv, UNCHANGED <<held, proxy>>,
           \A s \in Servers, k \in Keys, e \in Nat :
              Backed(s, k, e) => Backed(s, k, e)',
           \A a \in answers' \ answers : Backed(a.r.s, a.r.k, a.epoch)'
    PROVE  AnswersInv' /\ ProxiesInv'
<1>1. AnswersInv'
  <2>1. ASSUME NEW a \in answers, a.code >= 0
        PROVE  Backed(a.r.s, a.r.k, a.epoch)'
    <3>1. a.r.s \in Servers /\ a.r.k \in Keys /\ a.epoch \in Nat
      BY DEF ProxyInv, ProxyTypeOK, Create
    <3>2. Backed(a.r.s, a.r.k, a.epoch)
      BY <2>1 DEF ProxyInv, AnswersInv
    <3>3. QED
      BY <3>1, <3>2
  <2>2. QED
    BY <2>1 DEF AnswersInv
<1>2. ProxiesInv'
  <2>1. ASSUME NEW c \in Clients, NEW k \in held[c]
        PROVE  /\ proxy[c][k].s \in Servers
               /\ \A p \in {proxy[c][k]} : Backed(p.s, k, p.epoch)'
    <3>1. k \in Keys /\ proxy[c][k].epoch \in Nat /\ proxy[c][k].s \in Servers
      BY DEF ProxyInv, ProxyTypeOK, ProxiesInv
    <3>2. Backed(proxy[c][k].s, k, proxy[c][k].epoch)
      BY DEF ProxyInv, ProxiesInv
    <3>3. QED
      BY <3>1, <3>2
  <2>2. QED
    BY <2>1 DEF ProxiesInv
<1>3. QED
  BY <1>1, <1>2

LEMMA InHandFinite ==
    ASSUME JoinedInv, NEW s, NEW k
    PROVE  IsFiniteSet(InHand(s, k)) /\ Cardinality(InHand(s, k)) \in Nat
BY FS_Subset, FS_CardinalityType DEF JoinedInv, InHand

LEMMA InsertInv ==
    ASSUME ProxyInv, NEW r \in handlers, InsertPubsub(r)
    PROVE  ProxyInv'
<1>1. /\ r \in Create /\ r.s \in Servers /\ r.k \in Keys
      /\ handlers' = handlers \ {r}
      /\ list' = [list EXCEPT ![r.s][r.k] = day]
      /\ born' = [born EXCEPT ![r.s][r.k] = day]
      /\ answers' = answers \cup {Answer(r, Done)}
      /\ UNCHANGED <<refs, epoch, call, held, proxy, calls, reqs, day>>
  BY DEF ProxyInv, ProxyTypeOK, InsertPubsub, Create, clientVars
<1>2. day \in 0..MaxDay /\ day # Absent
  BY AbsentAssumption DEF ProxyInv, ProxyTypeOK
<1>3. \E code \in {SuccCode, ErrCode} :
         Answer(r, Done) = [r |-> r, code |-> code, epoch |-> epoch[r.s]]
  BY <1>1, CreateCodes DEF Answer
<1>4. epoch[r.s] \in Nat
  BY <1>1 DEF ProxyInv, ProxyTypeOK
<1>5. ProxyTypeOK'
  <2>1. list' \in [Servers -> [Keys -> 0..MaxDay \cup {Absent}]]
    BY <1>1, <1>2 DEF ProxyInv, ProxyTypeOK
  <2>2. born' \in [Servers -> [Keys -> 0..MaxDay]]
    BY <1>1, <1>2 DEF ProxyInv, ProxyTypeOK
  <2>3. answers' \subseteq [r : Create, code : {SuccCode, ErrCode}, epoch : Nat]
    BY <1>1, <1>3, <1>4 DEF ProxyInv, ProxyTypeOK
  <2>4. QED
    BY <1>1, <2>1, <2>2, <2>3 DEF ProxyInv, ProxyTypeOK
<1>6. \A s \in Servers, k \in Keys :
         /\ list'[s][k] = IF s = r.s /\ k = r.k THEN day ELSE list[s][k]
         /\ born'[s][k] = IF s = r.s /\ k = r.k THEN day ELSE born[s][k]
  BY <1>1 DEF ProxyInv, ProxyTypeOK
<1>7. JoinedInv'
  <2>1. IsFiniteSet(handlers')
    BY <1>1, FS_RemoveElement DEF ProxyInv, JoinedInv
  <2>2. ASSUME NEW s \in Servers, NEW k \in Keys
        PROVE  refs'[s][k] >= Cardinality(InHand(s, k)')
                                + (IF list'[s][k] = Absent THEN 0 ELSE 1)
    <3>1. /\ IsFiniteSet(InHand(s, k)) /\ Cardinality(InHand(s, k)) \in Nat
          /\ refs[s][k] \in Nat /\ refs'[s][k] = refs[s][k]
          /\ refs[s][k] >= Cardinality(InHand(s, k))
                             + (IF list[s][k] = Absent THEN 0 ELSE 1)
      BY <1>1, InHandFinite DEF ProxyInv, ProxyTypeOK, JoinedInv
    <3>2. CASE s = r.s /\ k = r.k
      <4>1. InHand(s, k)' = InHand(s, k) \ {r} /\ r \in InHand(s, k)
        BY <1>1, <3>2 DEF InHand
      <4>2. Cardinality(InHand(s, k)') = Cardinality(InHand(s, k)) - 1
        BY <3>1, <4>1, FS_RemoveElement
      <4>3. QED
        BY <3>1, <4>2
    <3>3. CASE ~(s = r.s /\ k = r.k)
      <4>1. InHand(s, k)' = InHand(s, k)
        BY <1>1, <3>3 DEF InHand
      <4>2. QED
        BY <1>6, <3>1, <3>3, <4>1
    <3>4. QED
      BY <3>2, <3>3
  <2>3. QED
    BY <2>1, <2>2 DEF JoinedInv
<1>8. BornInv'
  BY <1>6 DEF ProxyInv, BornInv
<1>9. AnswersInv' /\ ProxiesInv'
  <2>1. ASSUME NEW s \in Servers, NEW k \in Keys, NEW e \in Nat, Backed(s, k, e)
        PROVE  Backed(s, k, e)'
    BY <1>1, <1>2, <1>6, <2>1 DEF Backed
  <2>2. ASSUME NEW e \in Nat, e = epoch[r.s]
        PROVE  Backed(r.s, r.k, e)'
    BY <1>1, <1>2, <1>4, <1>6, <2>2 DEF Backed
  <2>3. ASSUME NEW a \in answers' \ answers
        PROVE  Backed(a.r.s, a.r.k, a.epoch)'
    BY <1>1, <1>3, <1>4, <2>2, <2>3
  <2>4. QED
    BY <1>1, <2>1, <2>3, SaidStays
<1>10. QED
  BY <1>5, <1>7, <1>8, <1>9 DEF ProxyInv

LEMMA CleanInv ==
    ASSUME ProxyInv, NEW s \in Servers, NEW k \in Keys, CleanRestPubsub(s, k)
    PROVE  ProxyInv'
<1>1. /\ list[s][k] # Absent
      /\ day - list[s][k] >= KeepPubsubDay
      /\ list' = [list EXCEPT ![s][k] = Absent]
      /\ refs' = [refs EXCEPT ![s][k] = @ - 1]
      /\ UNCHANGED <<handlers, born, epoch, call, held, proxy, calls, reqs,
                     answers, day>>
  BY DEF CleanRestPubsub, UnsubscribePubsub, Listed, clientVars
<1>2. \A t \in Servers, l \in Keys :
         /\ list'[t][l] = IF t = s /\ l = k THEN Absent ELSE list[t][l]
         /\ refs'[t][l] = IF t = s /\ l = k THEN refs[t][l] - 1 ELSE refs[t][l]
  BY <1>1 DEF ProxyInv, ProxyTypeOK
<1>3. /\ Cardinality(InHand(s, k)) \in Nat /\ refs[s][k] \in Nat
      /\ refs[s][k] >= Cardinality(InHand(s, k)) + 1
  BY <1>1, InHandFinite DEF ProxyInv, ProxyTypeOK, JoinedInv
<1>4. ProxyTypeOK'
  <2>1. list' \in [Servers -> [Keys -> 0..MaxDay \cup {Absent}]]
    BY <1>1 DEF ProxyInv, ProxyTypeOK
  <2>2. refs[s][k] - 1 \in Nat
    BY <1>3
  <2>3. refs' \in [Servers -> [Keys -> Nat]]
    BY <1>1, <2>2 DEF ProxyInv, ProxyTypeOK
  <2>4. QED
    BY <1>1, <2>1, <2>3 DEF ProxyInv, ProxyTypeOK
<1>5. JoinedInv'
  <2>1. \A t, l : InHand(t, l)' = InHand(t, l)
    BY <1>1 DEF InHand
  <2>2. ASSUME NEW t \in Servers, NEW l \in Keys
        PROVE  refs'[t][l] >= Cardinality(InHand(t, l)')
                                + (IF list'[t][l] = Absent THEN 0 ELSE 1)
    BY <1>2, <1>3, <2>1 DEF ProxyInv, JoinedInv
  <2>3. QED
    BY <1>1, <2>2 DEF ProxyInv, JoinedInv
<1>6. BornInv'
  BY <1>1, <1>2 DEF ProxyInv, BornInv
<1>7. AnswersInv' /\ ProxiesInv'
  <2>1. list[s][k] = born[s][k]
    BY <1>1 DEF ProxyInv, BornInv
  <2>2. \A t \in Servers, l \in Keys, e \in Nat :
           Backed(t, l, e) => Backed(t, l, e)'
    BY <1>1, <1>2, <2>1 DEF Backed
  <2>3. answers' \ answers = {}
    BY <1>1
  <2>4. QED
    BY <1>1, <2>2, <2>3, SaidStays
<1>8. QED
  BY <1>4, <1>5, <1>6, <1>7 DEF ProxyInv

LEMMA CrashInv ==
    ASSUME ProxyInv, NEW s \in Servers, Crash(s)
    PROVE  ProxyInv'
<1>1. /\ epoch' = [epoch EXCEPT ![s] = @ + 1]
      /\ list' = [list EXCEPT ![s] = [k \in Keys |-> Absent]]
      /\ refs' = [refs EXCEPT ![s] = [k \in Keys |-> 0]]
      /\ handlers' = {r \in handlers : r.s # s}
      /\ UNCHANGED <<born, call, held, proxy, calls, reqs, answers, day>>
  BY DEF Crash, clientVars
<1>2. ProxyTypeOK'
  BY <1>1 DEF ProxyInv, ProxyTypeOK
<1>3. \A t \in Servers, k \in Keys :
         /\ list'[t][k] = IF t = s THEN Absent ELSE list[t][k]
         /\ refs'[t][k] = IF t = s THEN 0 ELSE refs[t][k]
         /\ epoch'[t] = IF t = s THEN epoch[t] + 1 ELSE epoch[t]
         /\ epoch[t] \in Nat
  BY <1>1 DEF ProxyInv, ProxyTypeOK
<1>4. JoinedInv'
  <2>1. IsFiniteSet(handlers')
    BY <1>1, FS_Subset DEF ProxyInv, JoinedInv
  <2>2. ASSUME NEW t \in Servers, NEW k \in Keys
        PROVE  refs'[t][k] >= Cardinality(InHand(t, k)')
                                + (IF list'[t][k] = Absent THEN 0 ELSE 1)
    <3>1. CASE t = s
      <4>1. InHand(t, k)' = {}
        BY <1>1, <3>1 DEF InHand
      <4>2. QED
        BY <1>3, <3>1, <4>1, FS_EmptySet
    <3>2. CASE t # s
      <4>1. InHand(t, k)' = InHand(t, k)
        BY <1>1, <3>2 DEF InHand
      <4>2. QED
        BY <1>3, <3>2, <4>1 DEF ProxyInv, JoinedInv
    <3>3. QED
      BY <3>1, <3>2
  <2>3. QED
    BY <2>1, <2>2 DEF JoinedInv
<1>5. BornInv'
  BY <1>1, <1>3 DEF ProxyInv, BornInv
<1>6. AnswersInv' /\ ProxiesInv'
  <2>1. \A t \in Servers, k \in Keys, e \in Nat :
           Backed(t, k, e) => Backed(t, k, e)'
    BY <1>1, <1>3 DEF Backed
  <2>2. answers' \ answers = {}
    BY <1>1
  <2>3. QED
    BY <1>1, <2>1, <2>2, SaidStays
<1>7. QED
  BY <1>2, <1>4, <1>5, <1>6 DEF ProxyInv

-----------------------------------------------------------------------------
(* The steps of a client, and the days.                                    *)

LEMMA ServerStands ==
    ASSUME ProxyInv, UNCHANGED serverVars, day' \in Nat, day' >= day,
           answers' \subseteq answers
    PROVE  /\ JoinedInv' /\ BornInv' /\ AnswersInv'
           /\ \A s \in Servers, k \in Keys, e \in Nat :
                 Backed(s, k, e) => Backed(s, k, e)'
<1>1. UNCHANGED <<list, refs, handlers, born, epoch>>
  BY DEF serverVars
<1>2. JoinedInv' /\ BornInv'
  BY <1>1 DEF ProxyInv, JoinedInv, BornInv, InHand
<1>3. \A s \in Servers, k \in Keys, e \in Nat :
         Backed(s, k, e) => Backed(s, k, e)'
  BY <1>1, BackedStays DEF ProxyInv
<1>4. ASSUME NEW a \in answers', a.code >= 0
      PROVE  Backed(a.r.s, a.r.k, a.epoch)'
  <2>1. a.r.s \in Servers /\ a.r.k \in Keys /\ a.epoch \in Nat
    BY DEF ProxyInv, ProxyTypeOK, Create
  <2>2. Backed(a.r.s, a.r.k, a.epoch)
    BY <1>4 DEF ProxyInv, AnswersInv
  <2>3. QED
    BY <1>3, <2>1, <2>2
<1>5. QED
  BY <1>2, <1>3, <1>4 DEF AnswersInv

(* A key that stays in a client's list stays backed.                       *)
LEMMA HeldStays ==
    ASSUME ProxyInv, UNCHANGED proxy,
           \A c \in Clients : held'[c] \subseteq held[c],
           \A s \in Servers, k \in Keys, e \in Nat :
              Backed(s, k, e) => Backed(s, k, e)'
    PROVE  ProxiesInv'
<1>1. ASSUME NEW c \in Clients, NEW k \in held'[c]
      PROVE  /\ proxy[c][k].s \in Servers
             /\ \A p \in {proxy[c][k]} : Backed(p.s, k, p.epoch)'
  <2>1. k \in Keys /\ proxy[c][k].epoch \in Nat /\ proxy[c][k].s \in Servers
    BY DEF ProxyInv, ProxyTypeOK, ProxiesInv
  <2>2. Backed(proxy[c][k].s, k, proxy[c][k].epoch)
    BY DEF ProxyInv, ProxiesInv
  <2>3. QED
    BY <2>1, <2>2
<1>2. QED
  BY <1>1 DEF ProxiesInv

(* Every step of a client but the success of a create.                     *)
LEMMA ClientInv ==
    ASSUME ProxyInv, UNCHANGED <<serverVars, proxy>>, ProxyTypeOK',
           \A c \in Clients : held'[c] \subseteq held[c],
           day' >= day, answers' \subseteq answers
    PROVE  ProxyInv'
<1>1. day' \in Nat
  BY BoundAssumption DEF ProxyTypeOK
<1>2. QED
  BY <1>1, ServerStands, HeldStays DEF ProxyInv

CallType ==
    /\ call \in [Clients -> [at : ProxyStage, k : Keys \cup {Absent}, n : 0..MaxCalls,
                             s : Servers \cup {Absent}, rest : SUBSET Servers]]
    /\ \A c \in Clients : call[c].at # "idle" => /\ call[c].k \in Keys \ held[c]
                                                 /\ call[c].n > 0

LEMMA ClientStepInv ==
    ASSUME ProxyInv, NEW c \in Clients,
           \/ \E k \in Keys : SubscribePubsub(c, k) \/ Unsubscribe(c, k)
           \/ ClientStep(c)
    PROVE  ProxyInv'
<1>1. CallType /\ held \in [Clients -> SUBSET Keys]
  BY DEF ProxyInv, ProxyTypeOK, CallType
<1>2. ASSUME NEW k \in Keys, SubscribePubsub(c, k)
      PROVE  ProxyInv'
  <2>1. calls + 1 \in 0..MaxCalls /\ calls + 1 > 0 /\ ServersFor(c) \subseteq Servers
    BY <1>2, BoundAssumption, ClientAssumption
    DEF SubscribePubsub, ProxyInv, ProxyTypeOK, ServersFor
  <2>2. CallType'
    BY <1>1, <1>2, <2>1 DEF SubscribePubsub, CallType, ProxyStage
  <2>3. ProxyTypeOK'
    BY <1>2, <2>1, <2>2
    DEF SubscribePubsub, CallType, ProxyInv, ProxyTypeOK, serverVars
  <2>4. QED
    BY <1>2, <2>3, ClientInv DEF SubscribePubsub, ProxyInv, ProxyTypeOK
<1>3. ASSUME NEW k \in Keys, Unsubscribe(c, k)
      PROVE  ProxyInv'
  <2>1. /\ held' \in [Clients -> SUBSET Keys]
        /\ \A d \in Clients : held'[d] \subseteq held[d]
    BY <1>1, <1>3 DEF Unsubscribe
  <2>2. ProxyTypeOK'
    BY <1>3, <2>1 DEF Unsubscribe, ProxyInv, ProxyTypeOK, serverVars
  <2>3. QED
    BY <1>3, <2>1, <2>2, ClientInv DEF Unsubscribe, ProxyInv, ProxyTypeOK
<1>4. ASSUME NEW s \in Servers, CreateAsk(c, s)
      PROVE  ProxyInv'
  <2>1. CallType'
    <3>1. call' = [call EXCEPT ![c] = [at |-> "asked", k |-> call[c].k,
                                       n |-> call[c].n, s |-> s,
                                       rest |-> call[c].rest \ {s}]]
      BY <1>1, <1>4 DEF CreateAsk, CallType
    <3>2. QED
      BY <1>1, <1>4, <3>1 DEF CreateAsk, CallType, ProxyStage
  <2>2. [c |-> c, k |-> call[c].k, s |-> s, n |-> call[c].n] \in Create
    BY <1>1, <1>4, BoundAssumption DEF CreateAsk, CallType, Create
  <2>3. ProxyTypeOK'
    BY <1>4, <2>1, <2>2
    DEF CreateAsk, CallType, ProxyInv, ProxyTypeOK, serverVars
  <2>4. QED
    BY <1>4, <2>3, ClientInv DEF CreateAsk, ProxyInv, ProxyTypeOK
<1>5. CASE CreateTimeout(c)
  <2>1. CallType'
    BY <1>1, <1>5 DEF CreateTimeout, CallType, ProxyStage
  <2>2. ProxyTypeOK'
    BY <1>5, <2>1 DEF CreateTimeout, CallType, ProxyInv, ProxyTypeOK, serverVars
  <2>3. /\ UNCHANGED <<serverVars, held, proxy, answers, day>>
        /\ day \in 0..MaxDay
    BY <1>5 DEF CreateTimeout, ProxyInv, ProxyTypeOK
  <2>4. QED
    BY <2>2, <2>3, ClientInv
<1>6. CASE CreateNone(c)
  <2>1. CallType'
    BY <1>1, <1>6, BoundAssumption DEF CreateNone, CallType, ProxyStage, Idle
  <2>2. ProxyTypeOK'
    BY <1>6, <2>1 DEF CreateNone, CallType, ProxyInv, ProxyTypeOK, serverVars
  <2>3. QED
    BY <1>6, <2>2, ClientInv DEF CreateNone, ProxyInv, ProxyTypeOK
<1>7. QED
  BY <1>2, <1>3, <1>4, <1>5, <1>6 DEF ClientStep

LEMMA CreateAnswerInv ==
    ASSUME ProxyInv, NEW a \in answers, CreateAnswer(a)
    PROVE  ProxyInv'
<1> DEFINE c == a.r.c
<1>1. /\ c \in Clients /\ a.r.k \in Keys /\ a.r.s \in Servers /\ a.epoch \in Nat
      /\ CallType /\ held \in [Clients -> SUBSET Keys]
      /\ proxy \in [Clients -> [Keys -> [s : Servers \cup {Absent}, epoch : Nat]]]
      /\ call[c].at = "asked"
      /\ answers' \subseteq answers
      /\ UNCHANGED <<serverVars, calls, reqs, day>>
  BY DEF CreateAnswer, Awaited, ProxyInv, ProxyTypeOK, Create, CallType
<1>2. day' \in Nat /\ day' >= day
  BY <1>1, BoundAssumption DEF ProxyInv, ProxyTypeOK
<1>3. CASE ~(a.code >= 0)
  <2>1. /\ call' = [call EXCEPT ![c].at = "pick"]
        /\ UNCHANGED <<held, proxy>>
    BY <1>3 DEF CreateAnswer
  <2>2. CallType'
    <3>1. call' = [call EXCEPT ![c] = [at |-> "pick", k |-> call[c].k,
                                       n |-> call[c].n, s |-> call[c].s,
                                       rest |-> call[c].rest]]
      <4>1. call[c] \in [at : ProxyStage, k : Keys \cup {Absent}, n : 0..MaxCalls,
                         s : Servers \cup {Absent}, rest : SUBSET Servers]
        BY <1>1 DEF CallType
      <4>2. [call[c] EXCEPT !.at = "pick"] =
              [at |-> "pick", k |-> call[c].k, n |-> call[c].n, s |-> call[c].s,
               rest |-> call[c].rest]
        BY <4>1
      <4>3. QED
        BY <2>1, <4>2
    <3>2. QED
      BY <1>1, <2>1, <3>1 DEF CallType, ProxyStage
  <2>3. ProxyTypeOK'
    BY <1>1, <2>1, <2>2 DEF CallType, ProxyInv, ProxyTypeOK, serverVars
  <2>4. QED
    BY <1>1, <1>2, <2>1, <2>3, ClientInv
<1>4. CASE a.code >= 0
  <2>1. /\ call' = [call EXCEPT ![c] = Idle]
        /\ held' = [held EXCEPT ![c] = @ \cup {a.r.k}]
        /\ proxy' = [proxy EXCEPT ![c][a.r.k] = [s |-> a.r.s, epoch |-> a.epoch]]
    BY <1>4 DEF CreateAnswer
  <2>2. held' \in [Clients -> SUBSET Keys]
    BY <1>1, <2>1
  <2>3. CallType'
    BY <1>1, <2>1, BoundAssumption DEF CallType, ProxyStage, Idle
  <2>4. proxy' \in [Clients -> [Keys -> [s : Servers \cup {Absent}, epoch : Nat]]]
    BY <1>1, <2>1
  <2>5. ProxyTypeOK'
    BY <1>1, <2>2, <2>3, <2>4 DEF CallType, ProxyInv, ProxyTypeOK, serverVars
  <2>6. ProxiesInv'
    <3>1. Backed(a.r.s, a.r.k, a.epoch)
      BY <1>4 DEF ProxyInv, AnswersInv
    <3>2. ASSUME NEW d \in Clients, NEW k \in held'[d]
          PROVE  \E s \in Servers, e \in Nat :
                    /\ proxy'[d][k].s = s /\ proxy'[d][k].epoch = e
                    /\ Backed(s, k, e)
      <4>1. CASE d = c /\ k = a.r.k
        BY <1>1, <2>1, <3>1, <4>1
      <4>2. CASE ~(d = c /\ k = a.r.k)
        <5>1. k \in held[d] /\ k \in Keys
          BY <1>1, <2>1, <4>2
        <5>2. proxy'[d][k] = proxy[d][k] /\ proxy[d][k].epoch \in Nat
          BY <1>1, <2>1, <4>2, <5>1
        <5>3. QED
          BY <5>1, <5>2 DEF ProxyInv, ProxiesInv
      <4>3. QED
        BY <4>1, <4>2
    <3>3. ASSUME NEW d \in Clients, NEW k \in held'[d]
          PROVE  /\ proxy'[d][k].s \in Servers
                 /\ \A p \in {proxy'[d][k]} : Backed(p.s, k, p.epoch)'
      <4>1. k \in Keys
        BY <2>2
      <4>2. PICK s \in Servers, e \in Nat :
                    /\ proxy'[d][k].s = s /\ proxy'[d][k].epoch = e
                    /\ Backed(s, k, e)
        BY <3>2
      <4>3. Backed(s, k, e)'
        BY <1>1, <1>2, <4>1, <4>2, ServerStands
      <4>4. QED
        BY <4>2, <4>3 DEF Backed
    <3>4. QED
      BY <3>3 DEF ProxiesInv
  <2>7. QED
    BY <1>1, <1>2, <2>5, <2>6, ServerStands DEF ProxyInv
<1>5. QED
  BY <1>3, <1>4

LEMMA ProxyStepInv ==
    ASSUME ProxyInv, ProxyNext
    PROVE  ProxyInv'
<1>1. CASE NextDay
  <2>1. /\ day' = day + 1 /\ day' \in 0..MaxDay /\ day \in Nat
        /\ UNCHANGED <<serverVars, call, held, proxy, calls, reqs, answers>>
    BY <1>1, BoundAssumption DEF NextDay, ProxyInv, ProxyTypeOK, clientVars
  <2>2. ProxyTypeOK'
    BY <2>1 DEF ProxyInv, ProxyTypeOK, serverVars
  <2>3. QED
    BY <2>1, <2>2, ClientInv
<1>2. QED
  BY <1>1, CreateRequestInv, InsertInv, CleanInv, CrashInv, ClientStepInv,
     CreateAnswerInv DEF ProxyNext, ServerStep, Clean

-----------------------------------------------------------------------------
(* Messages and their answers.                                             *)

MsgTypeOK ==
    /\ sent \subseteq [from : Clients, dest : Keys, n : 0..MaxMsgs - 1]
    /\ requests \subseteq [m : sent, to : Clients]
    /\ replies \subseteq [m : sent, by : Clients, to : Clients,
                          code : {SuccCode, ErrCode}]
    /\ received \in [Clients -> SUBSET sent]
    /\ unread \in [Clients -> SUBSET sent]
    /\ responded \in [Clients -> SUBSET [m : sent, by : Clients]]
    /\ enable \in [Clients -> BOOLEAN]

MsgInv == MsgTypeOK /\ IsFiniteSet(sent) /\ RepliesInv /\ RespondedWasReceived

LEMMA InvParts == IInv <=> ProxyInv /\ MsgInv
BY DEF IInv, MsgInv, TypeOK, MsgTypeOK, ProxyInv

LEMMA InitInv == Init => IInv
<1> SUFFICES ASSUME Init PROVE ProxyInv /\ MsgInv
  BY InvParts
<1>1. ProxyInv
  BY ProxyInitInv DEF Init
<1>2. MsgInv
  BY FS_EmptySet DEF Init, MsgInv, MsgTypeOK, RepliesInv, RespondedWasReceived
<1>3. QED
  BY <1>1, <1>2

LEMMA SendMsgInv ==
    ASSUME MsgInv, NEW c \in Clients, NEW k \in Keys, SendMsg(c, k)
    PROVE  MsgInv'
<1> DEFINE m == [from |-> c, dest |-> k, n |-> Cardinality(sent)]
<1>1. m.n \in Nat /\ m.n < MaxMsgs /\ IsFiniteSet(sent \cup {m})
  BY FS_CardinalityType, FS_AddElement DEF SendMsg, MsgInv
<1>2. /\ sent' = sent \cup {m}
      /\ requests' = requests \cup {[m |-> m, to |-> d] : d \in Hearers(k)}
      /\ UNCHANGED <<replies, received, unread, responded, enable>>
  BY DEF SendMsg
<1>3. Hearers(k) \subseteq Clients
  BY DEF Hearers
<1>4. m \in [from : Clients, dest : Keys, n : 0..MaxMsgs - 1]
  BY <1>1, MessageAssumption
<1>5. MsgTypeOK'
  BY <1>2, <1>3, <1>4 DEF MsgInv, MsgTypeOK
<1>6. QED
  BY <1>1, <1>2, <1>5 DEF MsgInv, RepliesInv, RespondedWasReceived

(* Only a callback that has taken the message can say more than nothing.   *)
LEMMA SilentUnlessTaken ==
    ASSUME NEW x, NEW set, NEW o \in Outcomes(x, set),
           AnswerTo(PubsubMsgAdapter, o) # Silent
    PROVE  /\ Takes(x)
           /\ AnswerTo(PubsubMsgAdapter, o) \in {SuccCode, ErrCode}
<1>1. Aborted.abort = TRUE
  BY DEF Aborted, Done
<1>2. AnswerTo(PubsubMsgAdapter, Aborted) = Silent
  BY <1>1 DEF AnswerTo
<1>3. QED
  BY <1>2 DEF Outcomes, AnswerTo, GetRetCode

LEMMA HandleRequestInv ==
    ASSUME MsgInv, NEW x \in requests, HandleRequestData(x)
    PROVE  MsgInv'
<1>1. x.m \in sent /\ x.to \in Clients
  BY DEF MsgInv, MsgTypeOK
<1>2. /\ requests' = requests \ {x}
      /\ UNCHANGED <<sent, responded, enable>>
  BY DEF HandleRequestData
<1>10. PICK set \in BOOLEAN :
          /\ Received(x, set)
          /\ \E o \in Outcomes(x, set) :
                Reply(x.to, x.m, AnswerTo(PubsubMsgAdapter, o))
  BY DEF HandleRequestData
<1>3. PICK o \in Outcomes(x, set) : Reply(x.to, x.m, AnswerTo(PubsubMsgAdapter, o))
  BY <1>10
<1>4. /\ received' \in [Clients -> SUBSET sent]
      /\ unread' \in [Clients -> SUBSET sent]
      /\ \A c \in Clients : /\ received[c] \subseteq received'[c]
                            /\ unread[c] \subseteq unread'[c]
      /\ Takes(x) => x.m \in received'[x.to] \cup unread'[x.to]
  BY <1>1, <1>10 DEF Received, MsgInv, MsgTypeOK
<1>5. ASSUME NEW y \in replies', y \notin replies
      PROVE  /\ y.m = x.m /\ y.by = x.to
             /\ Takes(x)
             /\ y \in [m : sent, by : Clients, to : Clients, code : {SuccCode, ErrCode}]
  <2>1. /\ AnswerTo(PubsubMsgAdapter, o) # Silent
        /\ \E e \in Hearers(Own[x.m.from]) :
              y = [m |-> x.m, by |-> x.to, to |-> e,
                   code |-> AnswerTo(PubsubMsgAdapter, o)]
    BY <1>3, <1>5 DEF Reply
  <2>2. Hearers(Own[x.m.from]) \subseteq Clients
    BY DEF Hearers
  <2>3. QED
    BY <1>1, <2>1, <2>2, SilentUnlessTaken
<1>6. MsgTypeOK'
  BY <1>2, <1>4, <1>5 DEF MsgInv, MsgTypeOK
<1>7. RepliesInv'
  <2>1. ASSUME NEW y \in replies' PROVE y.m \in received'[y.by] \cup unread'[y.by]
    <3>1. CASE y \in replies
      BY <1>4, <3>1 DEF MsgInv, RepliesInv, MsgTypeOK
    <3>2. CASE y \notin replies
      BY <1>4, <1>5, <3>2
    <3>3. QED
      BY <3>1, <3>2
  <2>2. QED
    BY <2>1 DEF RepliesInv
<1>8. RespondedWasReceived'
  BY <1>2, <1>4 DEF MsgInv, RespondedWasReceived, MsgTypeOK
<1>9. QED
  BY <1>2, <1>6, <1>7, <1>8 DEF MsgInv

LEMMA HandleResponseInv ==
    ASSUME MsgInv, NEW y \in replies, HandleResponseData(y)
    PROVE  MsgInv'
<1> DEFINE told == [m |-> y.m, by |-> y.by]
<1>1. /\ y.m \in sent /\ y.by \in Clients /\ y.to \in Clients
      /\ y.m \in received[y.by] \cup unread[y.by]
  BY DEF MsgInv, MsgTypeOK, RepliesInv
<1>2. /\ replies' = replies \ {y}
      /\ responded' \in {responded, [responded EXCEPT ![y.to] = @ \cup {told}]}
      /\ UNCHANGED <<sent, requests, received, unread, enable>>
  BY DEF HandleResponseData
<1>3. /\ responded' \in [Clients -> SUBSET [m : sent, by : Clients]]
      /\ \A c \in Clients : responded'[c] \subseteq responded[c] \cup {told}
  BY <1>1, <1>2 DEF MsgInv, MsgTypeOK
<1>4. MsgTypeOK'
  BY <1>2, <1>3 DEF MsgInv, MsgTypeOK
<1>5. RespondedWasReceived'
  BY <1>1, <1>2, <1>3 DEF MsgInv, RespondedWasReceived
<1>6. QED
  BY <1>2, <1>4, <1>5 DEF MsgInv, RepliesInv

LEMMA StepInv == IInv /\ [Next]_vars => IInv'
<1> SUFFICES ASSUME ProxyInv, MsgInv, [Next]_vars PROVE ProxyInv' /\ MsgInv'
  BY DEF IInv, MsgInv, TypeOK, MsgTypeOK, ProxyInv
<1>1. UNCHANGED msgVars => MsgInv'
  BY DEF msgVars, MsgInv, MsgTypeOK, RepliesInv, RespondedWasReceived
<1>2. UNCHANGED proxyVars => ProxyInv'
  BY DEF proxyVars, serverVars, clientVars, ProxyInv, ProxyTypeOK, JoinedInv, InHand,
         BornInv, AnswersInv, ProxiesInv, Backed
<1>3. CASE UNCHANGED vars
  BY <1>1, <1>2, <1>3 DEF vars
<1>4. CASE ProxyNext /\ UNCHANGED msgVars
  BY <1>1, <1>4, ProxyStepInv
<1>5. ASSUME NEW c \in Clients, NEW k \in Keys, SendMsg(c, k)
      PROVE  ProxyInv' /\ MsgInv'
  BY <1>2, <1>5, SendMsgInv DEF SendMsg
<1>6. ASSUME NEW x \in requests, HandleRequestData(x)
      PROVE  ProxyInv' /\ MsgInv'
  BY <1>2, <1>6, HandleRequestInv DEF HandleRequestData
<1>7. ASSUME NEW y \in replies, HandleResponseData(y)
      PROVE  ProxyInv' /\ MsgInv'
  BY <1>2, <1>7, HandleResponseInv DEF HandleResponseData
<1>8. ASSUME NEW c \in Clients, Release(c)
      PROVE  ProxyInv' /\ MsgInv'
  <2>1. MsgTypeOK'
    BY <1>8 DEF Release, MsgInv, MsgTypeOK
  <2>2. QED
    BY <1>2, <1>8, <2>1 DEF Release, MsgInv, RepliesInv, RespondedWasReceived
<1>9. QED
  BY <1>3, <1>4, <1>5, <1>6, <1>7, <1>8 DEF Next

LEMMA Invariance == Spec => []IInv
BY InitInv, StepInv, PTL DEF Spec

-----------------------------------------------------------------------------
(* Lists, calls, messages and answers stay in their types, and a client    *)
(* looks only for a key that it does not have.                             *)
THEOREM TypeCorrect == Spec => []TypeOK
<1>1. IInv => TypeOK
  BY DEF IInv
<1>2. QED
  BY <1>1, Invariance, PTL

(* No crossing of creates and cleanings leaves a topic that is listed; a   *)
(* restart forgets the list with the topics.                               *)
THEOREM ListedStaysJoined == Spec => []ListedIsJoined
<1>1. IInv => ListedIsJoined
  <2> SUFFICES ASSUME IInv, NEW s \in Servers, NEW k \in Keys,
                      \/ k \in Listed(s)
                      \/ \E r \in handlers : r.s = s /\ r.k = k
               PROVE  refs[s][k] > 0
    BY DEF ListedIsJoined
  <2>1. /\ IsFiniteSet(InHand(s, k)) /\ Cardinality(InHand(s, k)) \in Nat
        /\ refs[s][k] \in Nat
        /\ refs[s][k] >= Cardinality(InHand(s, k))
                           + (IF list[s][k] = Absent THEN 0 ELSE 1)
    BY InHandFinite DEF IInv, ProxyInv, ProxyTypeOK, JoinedInv
  <2>2. CASE k \in Listed(s)
    BY <2>1, <2>2 DEF Listed
  <2>3. CASE \E r \in handlers : r.s = s /\ r.k = k
    <3>1. InHand(s, k) # {}
      BY <2>3 DEF InHand
    <3>2. Cardinality(InHand(s, k)) # 0
      BY <2>1, <3>1, FS_EmptySet
    <3>3. QED
      BY <2>1, <3>2
  <2>4. QED
    BY <2>2, <2>3
<1>2. QED
  BY <1>1, Invariance, PTL

(* A subscribed key is kept by the service peer that answered, until it    *)
(* restarts or the days are over.                                          *)
THEOREM SubscribedStaysBacked == Spec => []SubscribedIsBacked
<1>1. IInv => SubscribedIsBacked
  BY DEF IInv, ProxyInv, ProxyTypeOK, ProxiesInv, Backed, SubscribedIsBacked, Listed
<1>2. QED
  BY <1>1, Invariance, PTL

(* An answer an application sees is from one whose application was given   *)
(* the message, or had set nothing to be given it to.                      *)
THEOREM RespondedReceived == Spec => []RespondedWasReceived
<1>1. IInv => RespondedWasReceived
  BY DEF IInv
<1>2. QED
  BY <1>1, Invariance, PTL
=============================================================================
