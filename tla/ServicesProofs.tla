--------------------------- MODULE ServicesProofs ---------------------------
(* Theorems of the services of one process. First of TopicDispatch, on which *)
(* they rest: for any components, threads and keys, and any number of        *)
(* subscriptions, messages and consumers. Then of DmsgService and            *)
(* CustomProtocol: for any number of calls, in any order, and any protocols, *)
(* applications and requests.                                                *)
EXTENDS TopicDispatch, CustomProtocol, FiniteSetTheorems, TLAPS

(* The shared target of a key has the subscription that was made last.       *)
TargetInv == \A k \in Keys : target[k] = gen[k]

(* No consumer is of a subscription yet to be made, and one that joined an   *)
(* entry whose dispatcher waits on a cancelled subscription is marked.       *)
SubInv == \A k \in Keys : \A n \in DOMAIN consumers[k] :
  /\ consumers[k][n].sub <= gen[k]
  /\ /\ disp[k].at = "next"
     /\ disp[k].sub < gen[k]
     /\ n \in Fed(k)
     /\ consumers[k][n].sub = gen[k]
     => consumers[k][n].stale

(* Who holds a key and was not left with a closed topic has an open one.     *)
JoinedInv == \A k \in Keys : holders[k] \ orphans[k] # {} => topicList[k] > 0

IInv == /\ TypeOK
        /\ RefsMatchHolds
        /\ TargetInv
        /\ SubInv
        /\ JoinedInv
        /\ HolderIsFed

(* A consumer, and a waiting dispatcher.                                     *)
Consumer == [hold : Hold, at : {"select", "handle", "last", "ended"},
             got : Seq(Nat), sub : Nat, stale : BOOLEAN]
Dispatcher == [at : {"none", "next", "send"}, sub : Nat, todo : Seq(Nat)]

(* Nothing that tells what a consumer was started for has changed.           *)
SameConsumers ==
  \A k \in Keys :
    /\ DOMAIN consumers'[k] = DOMAIN consumers[k]
    /\ \A n \in DOMAIN consumers[k] :
         /\ consumers'[k][n].hold = consumers[k][n].hold
         /\ consumers'[k][n].sub = consumers[k][n].sub
         /\ consumers'[k][n].stale = consumers[k][n].stale

(* One consumer has been started on k, for the hold h.                       *)
OneMore(h, k) ==
  LET n == Len(consumers[k]) + 1
  IN /\ \A j \in Keys \ {k} : /\ consumers'[j] = consumers[j]
                              /\ waiting'[j] = waiting[j]
                              /\ disp'[j] = disp[j]
     /\ DOMAIN consumers'[k] = DOMAIN consumers[k] \cup {n}
     /\ \A i \in DOMAIN consumers[k] : i # n /\ consumers'[k][i] = consumers[k][i]
     /\ consumers'[k][n].hold = h
     /\ consumers'[k][n].sub = gen'[k]
     /\ HasEntry(k) /\ disp[k].at = "next" /\ disp[k].sub < gen'[k]
          => consumers'[k][n].stale
     /\ Fed(k)' = Fed(k) \cup {n}
     /\ IF HasEntry(k) THEN disp'[k] = disp[k]
                       ELSE disp'[k] = WaitsOn(target'[k])

-----------------------------------------------------------------------------
LEMMA InitInv == Init => IInv
<1> SUFFICES ASSUME Init PROVE IInv
  OBVIOUS
<1>1. TypeOK
  BY DEF Init, TypeOK, None
<1>2. RefsMatchHolds
  BY FS_EmptySet DEF Init, RefsMatchHolds, Holding
<1>3. TargetInv /\ SubInv /\ JoinedInv /\ HolderIsFed
  BY DEF Init, TargetInv, SubInv, JoinedInv, HolderIsFed
<1> QED
  BY <1>1, <1>2, <1>3 DEF IInv

LEMMA UsersAreHolds == \A c \in Comps : User(c) \in Hold /\ Listed(c) \in Hold
BY DEF User, Listed, Hold

(* A key is held, and asked for, only finitely often.                        *)
LEMMA FiniteUsers ==
  ASSUME TypeOK, NEW k \in Keys
  PROVE  IsFiniteSet(holders[k]) /\ IsFiniteSet(asking[k])
<1>1. IsFiniteSet(Comps \X Threads)
  BY CompsAssumption, FS_Product
<1>2. IsFiniteSet({"user", "list"})
  <2>1. {"user", "list"} = {"user"} \cup {"list"}
    OBVIOUS
  <2>2. IsFiniteSet({"user"}) /\ IsFiniteSet({"list"})
    BY FS_Singleton
  <2> QED
    BY <2>1, <2>2, FS_Union
<1>3. IsFiniteSet(Hold)
  BY <1>2, CompsAssumption, FS_Product DEF Hold
<1>4. holders[k] \subseteq Hold /\ asking[k] \subseteq Comps \X Threads
  BY DEF TypeOK
<1> QED
  BY <1>1, <1>3, <1>4, FS_Subset

-----------------------------------------------------------------------------
LEMMA WaitMessageEffect ==
  ASSUME TypeOK, NEW h \in Hold, NEW k \in Keys, WaitMessage(h, k),
         gen' \in [Keys -> Nat], target' \in [Keys -> Nat]
  PROVE  /\ consumers' \in [Keys -> Seq(Consumer)]
         /\ waiting' \in [Keys -> Seq(Nat)]
         /\ disp' \in [Keys -> Dispatcher]
         /\ OneMore(h, k)
<1> DEFINE n == Len(consumers[k]) + 1
           stale == HasEntry(k) /\ disp[k].at = "next" /\ disp[k].sub < gen'[k]
           new == [hold |-> h, at |-> "select", got |-> <<>>,
                   sub |-> gen'[k], stale |-> stale]
<1>1. /\ consumers \in [Keys -> Seq(Consumer)]
      /\ waiting \in [Keys -> Seq(Nat)]
      /\ disp \in [Keys -> Dispatcher]
  BY DEF TypeOK, Consumer, Dispatcher
<1>2. /\ disp' = IF HasEntry(k) THEN disp
                 ELSE [disp EXCEPT ![k] = WaitsOn(target'[k])]
      /\ waiting' = [waiting EXCEPT ![k] = Append(@, n)]
      /\ consumers' = [consumers EXCEPT ![k] = Append(@, new)]
  BY DEF WaitMessage
<1>3. new \in Consumer
  <2>1. stale \in BOOLEAN
    OBVIOUS
  <2> HIDE DEF stale
  <2> QED
    BY <2>1 DEF Consumer
<1>4. WaitsOn(target'[k]) \in Dispatcher
  BY DEF WaitsOn, Dispatcher
<1>5. n \in Nat
  BY <1>1
<1>6. disp' \in [Keys -> Dispatcher]
  BY <1>1, <1>2, <1>4
<1>7. /\ new.hold = h /\ new.sub = gen'[k]
      /\ stale => new.stale
  OBVIOUS
<1> HIDE DEF new
<1>8. /\ consumers' \in [Keys -> Seq(Consumer)]
      /\ waiting' \in [Keys -> Seq(Nat)]
  BY <1>1, <1>2, <1>3, <1>5
<1>9. /\ \A j \in Keys \ {k} : /\ consumers'[j] = consumers[j]
                               /\ waiting'[j] = waiting[j]
                               /\ disp'[j] = disp[j]
      /\ consumers'[k] = Append(consumers[k], new)
      /\ waiting'[k] = Append(waiting[k], n)
  BY <1>1, <1>2
<1>10. /\ DOMAIN consumers'[k] = DOMAIN consumers[k] \cup {n}
       /\ consumers'[k][n] = new
       /\ \A i \in DOMAIN consumers[k] : i # n /\ consumers'[k][i] = consumers[k][i]
  BY <1>1, <1>3, <1>9
<1>11. Fed(k)' = Fed(k) \cup {n}
  <2> DEFINE w == waiting[k]
  <2>1. w \in Seq(Nat) /\ waiting'[k] = Append(w, n)
    BY <1>1, <1>9
  <2>2. /\ DOMAIN Append(w, n) = DOMAIN w \cup {Len(w) + 1}
        /\ Append(w, n)[Len(w) + 1] = n
        /\ \A i \in DOMAIN w : Append(w, n)[i] = w[i]
    BY <1>5, <2>1
  <2> QED
    BY <2>1, <2>2 DEF Fed
<1>12. IF HasEntry(k) THEN disp'[k] = disp[k]
                      ELSE disp'[k] = WaitsOn(target'[k])
  BY <1>1, <1>2
<1> QED
  BY <1>6, <1>7, <1>8, <1>9, <1>10, <1>11, <1>12 DEF OneMore

(* A subscription is counted, and the target has the last one.               *)
LEMMA InitPubsubEffect ==
  ASSUME IInv, NEW k \in Keys, InitPubsub(k)
  PROVE  /\ topicList' \in [Keys -> Nat]
         /\ gen' \in [Keys -> Nat]
         /\ target' \in [Keys -> Nat]
         /\ TargetInv'
         /\ \A j \in Keys \ {k} : topicList'[j] = topicList[j] /\ gen'[j] = gen[j]
         /\ topicList'[k] = topicList[k] + 1
         /\ gen'[k] >= gen[k]
         /\ topicList[k] > 0 => gen'[k] = gen[k]
<1> USE DEF IInv, TypeOK, InitPubsub, Subscribe
<1>1. topicList' \in [Keys -> Nat] /\ topicList'[k] = topicList[k] + 1
  OBVIOUS
<1>2. /\ gen' \in [Keys -> Nat]
      /\ gen'[k] >= gen[k]
      /\ topicList[k] > 0 => gen'[k] = gen[k]
  <2>1. CASE topicList[k] = 0
    BY <2>1
  <2>2. CASE topicList[k] # 0
    BY <2>2
  <2> QED
    BY <2>1, <2>2
<1>3. \A j \in Keys \ {k} : topicList'[j] = topicList[j] /\ gen'[j] = gen[j]
  OBVIOUS
<1>4. target' \in [Keys -> Nat] /\ TargetInv'
  <2>1. target' = [target EXCEPT ![k] = gen'[k]]
    OBVIOUS
  <2> QED
    BY <1>2, <1>3, <2>1 DEF TargetInv
<1> QED
  BY <1>1, <1>2, <1>3, <1>4

(* Close takes a count if there is one, and whoever is left with none is an  *)
(* orphan.                                                                   *)
LEMMA CloseEffect ==
  ASSUME IInv, NEW k \in Keys, NEW hs \in SUBSET Hold, Close(k, hs)
  PROVE  /\ topicList' \in [Keys -> Nat]
         /\ orphans' \in [Keys -> SUBSET Hold]
         /\ \A j \in Keys \ {k} : /\ topicList'[j] = topicList[j]
                                  /\ orphans'[j] = orphans[j]
         /\ topicList[k] = 0 => topicList'[k] = 0
         /\ topicList[k] > 0 => topicList'[k] = topicList[k] - 1
         /\ hs \ orphans'[k] # {} => topicList'[k] > 0
         /\ hs \ orphans'[k] \subseteq hs \ orphans[k]
<1>1. topicList \in [Keys -> Nat] /\ orphans \in [Keys -> SUBSET Hold]
  BY DEF IInv, TypeOK
<1>2. orphans' = [orphans EXCEPT ![k] = IF topicList[k] <= 1 THEN hs
                                       ELSE orphans[k] \cap hs]
  BY DEF Close
<1>3. /\ orphans' \in [Keys -> SUBSET Hold]
      /\ \A j \in Keys \ {k} : orphans'[j] = orphans[j]
      /\ topicList[k] <= 1 => orphans'[k] = hs
      /\ ~(topicList[k] <= 1) => orphans'[k] = orphans[k] \cap hs
  <2>1. CASE topicList[k] <= 1
    BY <1>1, <1>2, <2>1
  <2>2. CASE ~(topicList[k] <= 1)
    BY <1>1, <1>2, <2>2
  <2> QED
    BY <2>1, <2>2
<1>4. /\ topicList' \in [Keys -> Nat]
      /\ \A j \in Keys \ {k} : topicList'[j] = topicList[j]
      /\ topicList[k] = 0 => topicList'[k] = 0
      /\ topicList[k] > 0 => topicList'[k] = topicList[k] - 1
  <2>1. CASE topicList[k] = 0
    BY <1>1, <2>1 DEF Close
  <2>2. CASE topicList[k] # 0
    BY <1>1, <2>2 DEF Close
  <2> QED
    BY <2>1, <2>2
<1>5. hs \ orphans'[k] # {} => ~(topicList[k] <= 1)
  BY <1>3
<1>6. topicList[k] \in Nat
  BY <1>1
<1> QED
  BY <1>3, <1>4, <1>5, <1>6

-----------------------------------------------------------------------------
(* The steps of dispatcher and consumers change no subscription, and no      *)
(* consumer is taken for another.                                            *)
LEMMA TakeType == ASSUME TypeOK, NEW k \in Keys, Take(k) PROVE TypeOK'
<1>1. PICK i \in Inbox(k, disp[k].sub) : taken' = [taken EXCEPT ![k] = i]
  BY DEF Take
<1>2. i \in Nat
  BY DEF Inbox, TypeOK
<1>3. taken' \in [Keys -> Nat]
  BY <1>1, <1>2 DEF TypeOK
<1>4. disp' \in [Keys -> Dispatcher]
  <2>1. disp \in [Keys -> Dispatcher] /\ waiting[k] \in Seq(Nat)
    BY DEF TypeOK, Dispatcher
  <2>2. disp' = [disp EXCEPT ![k].at = "send", ![k].todo = waiting[k]]
    BY DEF Take
  <2> QED
    BY <2>1, <2>2 DEF Dispatcher
<1> QED
  BY <1>3, <1>4 DEF Take, TypeOK, topicVars, holdVars, Dispatcher

LEMMA SendEffect ==
  ASSUME TypeOK, NEW k \in Keys, Send(k)
  PROVE  TypeOK' /\ SameConsumers
<1> DEFINE n == Head(disp[k].todo)
<1>1. /\ consumers \in [Keys -> Seq(Consumer)]
      /\ disp \in [Keys -> Dispatcher]
      /\ taken[k] \in Nat
  BY DEF TypeOK, Consumer, Dispatcher
<1>2. consumers' = [consumers EXCEPT
        ![k][n].at = "handle", ![k][n].got = Append(@, taken[k])]
  BY DEF Send
<1>3. disp' \in [Keys -> Dispatcher]
  <2>1. disp[k].todo \in Seq(Nat) /\ disp[k].todo # <<>>
    BY <1>1 DEF Dispatcher, Send
  <2>2. Tail(disp[k].todo) \in Seq(Nat)
    BY <2>1
  <2>3. disp' = [disp EXCEPT ![k].todo = Tail(@)]
    BY DEF Send
  <2> QED
    BY <1>1, <2>2, <2>3 DEF Dispatcher
<1>4. consumers' \in [Keys -> Seq(Consumer)] /\ SameConsumers
  <2>1. CASE n \in DOMAIN consumers[k]
    <3> DEFINE c == consumers[k][n]
               d == [c EXCEPT !.at = "handle", !.got = Append(@, taken[k])]
    <3>1. c \in Consumer
      BY <1>1, <2>1
    <3>2. /\ d \in Consumer
          /\ d.hold = c.hold /\ d.sub = c.sub /\ d.stale = c.stale
      <4>1. Append(c.got, taken[k]) \in Seq(Nat)
        BY <1>1, <3>1 DEF Consumer
      <4> HIDE DEF c
      <4> QED
        BY <3>1, <4>1 DEF Consumer
    <3>3. consumers' = [consumers EXCEPT ![k] = [@ EXCEPT ![n] = d]]
      BY <1>1, <1>2, <2>1
    <3> HIDE DEF d
    <3>4. [consumers[k] EXCEPT ![n] = d] \in Seq(Consumer)
      BY <1>1, <2>1, <3>2
    <3> QED
      BY <1>1, <2>1, <3>2, <3>3, <3>4 DEF SameConsumers
  <2>2. CASE n \notin DOMAIN consumers[k]
    <3>1. consumers'[k] = consumers[k]
      BY <1>1, <1>2, <2>2
    <3>2. consumers' = consumers
      BY <1>1, <1>2, <3>1
    <3> QED
      BY <1>1, <3>2 DEF SameConsumers
  <2> QED
    BY <2>1, <2>2
<1> QED
  BY <1>3, <1>4 DEF Send, TypeOK, topicVars, holdVars, Dispatcher, Consumer

LEMMA EndEffect ==
  ASSUME TypeOK, NEW k \in Keys, End(k)
  PROVE  TypeOK' /\ SameConsumers
<1> DEFINE closed == {waiting[k][i] : i \in DOMAIN waiting[k]}
           over(c) == [c EXCEPT !.at = IF @ = "handle" THEN "last" ELSE "ended"]
           cs == [n \in DOMAIN consumers[k] |->
                   IF n \in closed THEN over(consumers[k][n])
                                   ELSE consumers[k][n]]
<1>1. consumers \in [Keys -> Seq(Consumer)]
  BY DEF TypeOK, Consumer
<1>2. consumers' = [consumers EXCEPT ![k] = cs]
  BY DEF End
<1>3. \A n \in DOMAIN consumers[k] :
        /\ over(consumers[k][n]) \in Consumer
        /\ over(consumers[k][n]).hold = consumers[k][n].hold
        /\ over(consumers[k][n]).sub = consumers[k][n].sub
        /\ over(consumers[k][n]).stale = consumers[k][n].stale
  <2> TAKE n \in DOMAIN consumers[k]
  <2> DEFINE c == consumers[k][n]
  <2>1. c \in Consumer
    BY <1>1
  <2> HIDE DEF c
  <2>2. over(c) \in Consumer /\ over(c).hold = c.hold
        /\ over(c).sub = c.sub /\ over(c).stale = c.stale
    BY <2>1 DEF Consumer
  <2> QED
    BY <2>2 DEF c
<1> HIDE DEF over
<1>4. /\ DOMAIN cs = DOMAIN consumers[k]
      /\ \A n \in DOMAIN cs : cs[n] \in Consumer
  BY <1>1, <1>3
<1>5. cs \in Seq(Consumer)
  BY <1>1, <1>4
<1>6. consumers' \in [Keys -> Seq(Consumer)]
  BY <1>1, <1>2, <1>5
<1>7. SameConsumers
  BY <1>1, <1>2, <1>3 DEF SameConsumers
<1>8. waiting' \in [Keys -> Seq(Nat)] /\ disp' \in [Keys -> Dispatcher]
  BY DEF End, None, TypeOK, Dispatcher
<1> QED
  BY <1>6, <1>7, <1>8 DEF End, TypeOK, topicVars, holdVars, Dispatcher, Consumer

LEMMA HandleEffect ==
  ASSUME TypeOK, NEW k \in Keys, NEW n \in Nat, Handle(k, n)
  PROVE  TypeOK' /\ SameConsumers
<1> DEFINE c == consumers[k][n]
           d == [c EXCEPT !.at = IF @ = "handle" THEN "select" ELSE "ended"]
<1>1. consumers \in [Keys -> Seq(Consumer)] /\ n \in DOMAIN consumers[k]
  BY DEF TypeOK, Consumer, Handle
<1>2. consumers' = [consumers EXCEPT ![k] = [@ EXCEPT ![n] = d]]
  BY <1>1 DEF Handle
<1>3. c \in Consumer
  BY <1>1
<1> HIDE DEF c
<1>4. /\ d \in Consumer
      /\ d.hold = c.hold /\ d.sub = c.sub /\ d.stale = c.stale
  BY <1>3 DEF Consumer
<1> HIDE DEF d
<1>5. [consumers[k] EXCEPT ![n] = d] \in Seq(Consumer)
  BY <1>1, <1>4
<1>6. consumers' \in [Keys -> Seq(Consumer)] /\ SameConsumers
  BY <1>1, <1>2, <1>4, <1>5 DEF SameConsumers, c
<1> QED
  BY <1>6 DEF Handle, TypeOK, topicVars, holdVars, Consumer

LEMMA ArriveType == ASSUME TypeOK, NEW k \in Keys, Arrive(k) PROVE TypeOK'
<1>1. log' \in [Keys -> Seq(Nat)]
  BY DEF Arrive, TypeOK
<1> QED
  BY <1>1 DEF Arrive, TypeOK, topicVars, holdVars

LEMMA LoopType == ASSUME TypeOK, NEW k \in Keys, Loop(k) PROVE TypeOK'
BY DEF Loop, WaitsOn, TypeOK, topicVars, holdVars

-----------------------------------------------------------------------------
(* One step of a component, for each of its calls: the types, the count and  *)
(* what it says of the consumers.                                            *)
Users == /\ topicList' \in [Keys -> Nat]
         /\ asking' \in [Keys -> SUBSET (Comps \X Threads)]
         /\ holders' \in [Keys -> SUBSET Hold]
         /\ light' \in [Keys -> SUBSET Comps]
         /\ lost' \in [Keys -> Nat]
         /\ drift' \in [Keys -> Nat]
         /\ orphans' \in [Keys -> SUBSET Hold]

(* The count is right if it is right for the key that the step is about.     *)
LEMMA Recount ==
  ASSUME IInv, NEW k \in Keys,
         \A j \in Keys \ {k} : /\ topicList'[j] = topicList[j]
                              /\ holders'[j] = holders[j]
                              /\ asking'[j] = asking[j]
                              /\ lost'[j] = lost[j]
                              /\ drift'[j] = drift[j],
         /\ topicList'[k] <= Cardinality(holders'[k]) + Cardinality(asking'[k])
                             + lost'[k]
         /\ Cardinality(holders'[k]) + Cardinality(asking'[k]) + lost'[k]
              <= topicList'[k] + drift'[k]
  PROVE  RefsMatchHolds'
<1> SUFFICES ASSUME NEW j \in Keys
             PROVE  /\ topicList'[j] <= Cardinality(holders'[j])
                                        + Cardinality(asking'[j]) + lost'[j]
                    /\ Cardinality(holders'[j]) + Cardinality(asking'[j])
                       + lost'[j] <= topicList'[j] + drift'[j]
  BY DEF RefsMatchHolds, Holding
<1>1. CASE j = k
  BY <1>1
<1>2. CASE j # k
  BY <1>2, Zenon DEF IInv, RefsMatchHolds, Holding
<1> QED
  BY <1>1, <1>2

(* The numbers of a key: its count t, holders h, calls a, overwritten        *)
(* entries l and drift d.                                             *)
LEMMA CountBefore ==
  ASSUME IInv, NEW k \in Keys
  PROVE  /\ topicList[k] \in Nat /\ lost[k] \in Nat /\ drift[k] \in Nat
         /\ Cardinality(holders[k]) \in Nat
         /\ Cardinality(asking[k]) \in Nat
         /\ topicList[k] <= Cardinality(holders[k]) + Cardinality(asking[k])
                            + lost[k]
         /\ Cardinality(holders[k]) + Cardinality(asking[k]) + lost[k]
              <= topicList[k] + drift[k]
BY FiniteUsers, FS_CardinalityType DEF IInv, RefsMatchHolds, Holding, TypeOK

LEMMA SubscribeUserCounts ==
  ASSUME IInv, NEW c \in Comps, NEW k \in Keys, SubscribeUser(c, k)
  PROVE  Users /\ RefsMatchHolds'
<1> USE DEF SubscribeUser
<1>1. Users
  BY InitPubsubEffect, UsersAreHolds DEF Users, IInv, TypeOK
<1>2. Cardinality(holders[k] \cup {User(c)}) = Cardinality(holders[k]) + 1
  <2>1. User(c) \notin holders[k]
    BY DEF HasUser
  <2> QED
    BY <2>1, FiniteUsers, FS_AddElement DEF IInv
<1>3. /\ \A j \in Keys \ {k} : holders'[j] = holders[j]
      /\ holders'[k] = holders[k] \cup {User(c)}
      /\ asking' = asking /\ lost' = lost /\ drift' = drift
  BY DEF IInv, TypeOK
<1>4. /\ \A j \in Keys \ {k} : topicList'[j] = topicList[j]
      /\ topicList'[k] = topicList[k] + 1
  BY InitPubsubEffect
<1>5. /\ Cardinality(holders'[k]) = Cardinality(holders[k]) + 1
      /\ Cardinality(asking'[k]) = Cardinality(asking[k])
      /\ lost'[k] = lost[k] /\ drift'[k] = drift[k]
  BY <1>2, <1>3, Zenon
<1>6. /\ topicList'[k] <= Cardinality(holders'[k]) + Cardinality(asking'[k])
                          + lost'[k]
      /\ Cardinality(holders'[k]) + Cardinality(asking'[k]) + lost'[k]
           <= topicList'[k] + drift'[k]
  BY <1>4, <1>5, CountBefore
<1> QED
  BY <1>1, <1>3, <1>4, <1>6, Recount

LEMMA SubscribePubsubCounts ==
  ASSUME IInv, NEW c \in Comps, NEW t \in Threads, NEW k \in Keys,
         SubscribePubsub(c, t, k)
  PROVE  Users /\ RefsMatchHolds'
<1> USE DEF SubscribePubsub
<1>1. Users
  <2>1. <<c, t>> \in Comps \X Threads
    OBVIOUS
  <2> QED
    BY <2>1, InitPubsubEffect DEF Users, IInv, TypeOK
<1>2. Cardinality(asking[k] \cup {<<c, t>>}) = Cardinality(asking[k]) + 1
  BY FiniteUsers, FS_AddElement DEF IInv
<1>3. /\ \A j \in Keys \ {k} : asking'[j] = asking[j]
      /\ asking'[k] = asking[k] \cup {<<c, t>>}
      /\ holders' = holders /\ lost' = lost /\ drift' = drift
  BY DEF IInv, TypeOK
<1>4. /\ \A j \in Keys \ {k} : topicList'[j] = topicList[j]
      /\ topicList'[k] = topicList[k] + 1
  BY InitPubsubEffect
<1>5. /\ Cardinality(holders'[k]) = Cardinality(holders[k])
      /\ Cardinality(asking'[k]) = Cardinality(asking[k]) + 1
      /\ lost'[k] = lost[k] /\ drift'[k] = drift[k]
  BY <1>2, <1>3, Zenon
<1>6. /\ topicList'[k] <= Cardinality(holders'[k]) + Cardinality(asking'[k])
                          + lost'[k]
      /\ Cardinality(holders'[k]) + Cardinality(asking'[k]) + lost'[k]
           <= topicList'[k] + drift'[k]
  BY <1>4, <1>5, CountBefore
<1> QED
  BY <1>1, <1>3, <1>4, <1>6, Recount

LEMMA SubscribeFailsCounts ==
  ASSUME IInv, NEW c \in Comps, NEW t \in Threads, NEW k \in Keys,
         SubscribeFails(c, t, k)
  PROVE  Users /\ RefsMatchHolds'
<1> USE DEF SubscribeFails
<1>1. holders[k] \in SUBSET Hold
  BY DEF IInv, TypeOK
<1>2. Users
  BY <1>1, CloseEffect DEF Users, IInv, TypeOK
<1>3. Cardinality(asking[k] \ {<<c, t>>}) = Cardinality(asking[k]) - 1
  BY FiniteUsers, FS_RemoveElement DEF IInv
<1>4. /\ \A j \in Keys \ {k} : asking'[j] = asking[j]
      /\ asking'[k] = asking[k] \ {<<c, t>>}
      /\ holders' = holders /\ lost' = lost /\ drift' = drift
  BY DEF IInv, TypeOK
<1>5. /\ \A j \in Keys \ {k} : topicList'[j] = topicList[j]
      /\ topicList[k] = 0 => topicList'[k] = 0
      /\ topicList[k] > 0 => topicList'[k] = topicList[k] - 1
  BY <1>1, CloseEffect
<1>6. /\ Cardinality(holders'[k]) = Cardinality(holders[k])
      /\ Cardinality(asking'[k]) = Cardinality(asking[k]) - 1
      /\ lost'[k] = lost[k] /\ drift'[k] = drift[k]
  BY <1>3, <1>4, Zenon
<1>7. Cardinality(asking[k]) # 0
  BY FiniteUsers, FS_EmptySet DEF IInv
<1>8. /\ topicList'[k] <= Cardinality(holders'[k]) + Cardinality(asking'[k])
                          + lost'[k]
      /\ Cardinality(holders'[k]) + Cardinality(asking'[k]) + lost'[k]
           <= topicList'[k] + drift'[k]
  BY <1>5, <1>6, <1>7, CountBefore
<1> QED
  BY <1>2, <1>4, <1>5, <1>8, Recount

LEMMA SubscribeEndsCounts ==
  ASSUME IInv, NEW c \in Comps, NEW t \in Threads, NEW k \in Keys,
         SubscribeEnds(c, t, k)
  PROVE  Users /\ RefsMatchHolds'
<1> USE DEF SubscribeEnds, topicVars
<1>1. Users
  <2>1. orphans' \in [Keys -> SUBSET Hold]
    BY UsersAreHolds DEF IInv, TypeOK
  <2>2. lost' \in [Keys -> Nat]
    BY DEF IInv, TypeOK
  <2> QED
    BY <2>1, <2>2, UsersAreHolds DEF Users, IInv, TypeOK
<1>2. /\ Cardinality(asking[k] \ {<<c, t>>}) = Cardinality(asking[k]) - 1
      /\ Cardinality(holders[k] \cup {Listed(c)}) =
           IF Listed(c) \in holders[k] THEN Cardinality(holders[k])
                                       ELSE Cardinality(holders[k]) + 1
  BY FiniteUsers, FS_RemoveElement, FS_AddElement DEF IInv
<1>3. /\ \A j \in Keys \ {k} : /\ asking'[j] = asking[j]
                               /\ holders'[j] = holders[j]
                               /\ lost'[j] = lost[j]
      /\ asking'[k] = asking[k] \ {<<c, t>>}
      /\ holders'[k] = holders[k] \cup {Listed(c)}
      /\ lost'[k] = IF Listed(c) \in holders[k] THEN lost[k] + 1 ELSE lost[k]
  BY DEF IInv, TypeOK
<1>4. topicList' = topicList /\ drift' = drift
  OBVIOUS
<1>5. /\ Cardinality(asking'[k]) = Cardinality(asking[k]) - 1
      /\ Cardinality(holders'[k]) = IF Listed(c) \in holders[k]
                                      THEN Cardinality(holders[k])
                                      ELSE Cardinality(holders[k]) + 1
  BY <1>2, <1>3, Zenon
<1>6. topicList'[k] = topicList[k] /\ drift'[k] = drift[k]
  BY <1>4, Zenon
<1>7. /\ topicList'[k] <= Cardinality(holders'[k]) + Cardinality(asking'[k])
                          + lost'[k]
      /\ Cardinality(holders'[k]) + Cardinality(asking'[k]) + lost'[k]
           <= topicList'[k] + drift'[k]
  <2> HIDE DEF SubscribeEnds
  <2> QED
    BY <1>3, <1>5, <1>6, CountBefore
<1> QED
  BY <1>1, <1>3, <1>4, <1>7, Recount

LEMMA UnsubscribeCounts ==
  ASSUME IInv, NEW h \in Hold, NEW k \in Keys, Unsubscribe(h, k)
  PROVE  Users /\ RefsMatchHolds'
<1> USE DEF Unsubscribe
<1>1. /\ holders' \in [Keys -> SUBSET Hold]
      /\ \A j \in Keys \ {k} : holders'[j] = holders[j]
      /\ holders'[k] = holders[k] \ {h}
      /\ asking' = asking /\ lost' = lost /\ drift' = drift
  BY DEF IInv, TypeOK
<1>2. holders'[k] \in SUBSET Hold
  BY <1>1
<1>3. Users
  BY <1>1, <1>2, CloseEffect DEF Users, IInv, TypeOK
<1>4. Cardinality(holders[k] \ {h}) = Cardinality(holders[k]) - 1
  BY FiniteUsers, FS_RemoveElement DEF IInv
<1>5. /\ \A j \in Keys \ {k} : topicList'[j] = topicList[j]
      /\ topicList[k] = 0 => topicList'[k] = 0
      /\ topicList[k] > 0 => topicList'[k] = topicList[k] - 1
  BY <1>2, CloseEffect
<1>6. /\ Cardinality(holders'[k]) = Cardinality(holders[k]) - 1
      /\ Cardinality(asking'[k]) = Cardinality(asking[k])
      /\ lost'[k] = lost[k] /\ drift'[k] = drift[k]
  BY <1>1, <1>4, Zenon
<1>7. Cardinality(holders[k]) # 0
  BY FiniteUsers, FS_EmptySet DEF IInv
<1>8. /\ topicList'[k] <= Cardinality(holders'[k]) + Cardinality(asking'[k])
                          + lost'[k]
      /\ Cardinality(holders'[k]) + Cardinality(asking'[k]) + lost'[k]
           <= topicList'[k] + drift'[k]
  BY <1>5, <1>6, <1>7, CountBefore
<1> QED
  BY <1>1, <1>3, <1>5, <1>8, Recount

(* The one step after which a topic counts less than its holders.            *)
LEMMA UnsubscribeLightCounts ==
  ASSUME IInv, NEW c \in Comps, NEW k \in Keys, UnsubscribeLight(c, k)
  PROVE  Users /\ RefsMatchHolds'
<1> USE DEF UnsubscribeLight
<1>1. holders[k] \in SUBSET Hold
  BY DEF IInv, TypeOK
<1>2. /\ drift' \in [Keys -> Nat]
      /\ \A j \in Keys \ {k} : drift'[j] = drift[j]
      /\ topicList[k] = 0 => drift'[k] = drift[k]
      /\ topicList[k] > 0 => drift'[k] = drift[k] + 1
  <2>1. CASE topicList[k] = 0
    BY <2>1 DEF IInv, TypeOK
  <2>2. CASE topicList[k] # 0
    BY <2>2 DEF IInv, TypeOK
  <2> QED
    BY <2>1, <2>2
<1>3. Users
  BY <1>1, <1>2, CloseEffect DEF Users, IInv, TypeOK
<1>4. /\ \A j \in Keys \ {k} : topicList'[j] = topicList[j]
      /\ topicList[k] = 0 => topicList'[k] = 0
      /\ topicList[k] > 0 => topicList'[k] = topicList[k] - 1
  BY <1>1, CloseEffect
<1>5. asking' = asking /\ holders' = holders /\ lost' = lost
  OBVIOUS
<1>6. /\ Cardinality(holders'[k]) = Cardinality(holders[k])
      /\ Cardinality(asking'[k]) = Cardinality(asking[k])
      /\ lost'[k] = lost[k]
  BY <1>5, Zenon
<1>7. /\ topicList'[k] <= Cardinality(holders'[k]) + Cardinality(asking'[k])
                          + lost'[k]
      /\ Cardinality(holders'[k]) + Cardinality(asking'[k]) + lost'[k]
           <= topicList'[k] + drift'[k]
  BY <1>2, <1>4, <1>6, CountBefore
<1> QED
  BY <1>2, <1>3, <1>4, <1>5, <1>7, Recount

-----------------------------------------------------------------------------
LEMMA StepTypes == IInv /\ [Next]_vars => TypeOK'
<1> SUFFICES ASSUME IInv, [Next]_vars PROVE TypeOK'
  OBVIOUS
<1>0. TypeOK
  BY DEF IInv
<1>1. ASSUME NEW k \in Keys, Arrive(k) \/ Dispatch(k) PROVE TypeOK'
  BY <1>0, <1>1, ArriveType, TakeType, SendEffect, LoopType, EndEffect
  DEF Dispatch
<1>2. ASSUME NEW k \in Keys, NEW n \in 1..MaxConsumers, Handle(k, n)
      PROVE  TypeOK'
  BY <1>0, <1>2, HandleEffect, BoundsAssumption
<1>3. ASSUME NEW c \in Comps, NEW k \in Keys, SubscribeUser(c, k)
      PROVE  TypeOK'
  <2>1. InitPubsub(k) /\ WaitMessage(User(c), k)
    BY <1>3 DEF SubscribeUser
  <2> QED
    BY <1>0, <1>3, <2>1, InitPubsubEffect, WaitMessageEffect,
       SubscribeUserCounts, UsersAreHolds
    DEF SubscribeUser, TypeOK, Users, Consumer, Dispatcher
<1>4. ASSUME NEW h \in Hold, NEW k \in Keys, Unsubscribe(h, k)
      PROVE  TypeOK'
  BY <1>0, <1>4, UnsubscribeCounts
  DEF Unsubscribe, Close, TypeOK, Users, dispatchVars
<1>5. ASSUME NEW c \in Comps, NEW t \in Threads, NEW k \in Keys,
             SubscribePubsub(c, t, k)
      PROVE  TypeOK'
  <2>1. InitPubsub(k)
    BY <1>5 DEF SubscribePubsub
  <2> QED
    BY <1>0, <1>5, <2>1, InitPubsubEffect, SubscribePubsubCounts
    DEF SubscribePubsub, TypeOK, Users, dispatchVars
<1>6. ASSUME NEW c \in Comps, NEW t \in Threads, NEW k \in Keys,
             SubscribeFails(c, t, k)
      PROVE  TypeOK'
  BY <1>0, <1>6, SubscribeFailsCounts
  DEF SubscribeFails, Close, TypeOK, Users, dispatchVars
<1>7. ASSUME NEW c \in Comps, NEW t \in Threads, NEW k \in Keys,
             SubscribeEnds(c, t, k)
      PROVE  TypeOK'
  <2>1. WaitMessage(Listed(c), k) /\ UNCHANGED topicVars
    BY <1>7 DEF SubscribeEnds
  <2>2. gen' \in [Keys -> Nat] /\ target' \in [Keys -> Nat]
    BY <1>0, <2>1 DEF TypeOK, topicVars
  <2> QED
    BY <1>0, <1>7, <2>1, <2>2, WaitMessageEffect, SubscribeEndsCounts,
       UsersAreHolds
    DEF SubscribeEnds, TypeOK, Users, Consumer, Dispatcher, topicVars
<1>8. ASSUME NEW c \in Comps, NEW k \in Keys, SubscribeLight(c, k)
      PROVE  TypeOK'
  BY <1>0, <1>8 DEF SubscribeLight, TypeOK, topicVars, dispatchVars
<1>9. ASSUME NEW c \in Comps, NEW k \in Keys, UnsubscribeLight(c, k)
      PROVE  TypeOK'
  BY <1>0, <1>9, UnsubscribeLightCounts
  DEF UnsubscribeLight, Close, TypeOK, Users, dispatchVars
<1>10. CASE UNCHANGED vars
  BY <1>0, <1>10 DEF vars, TypeOK
<1> QED
  BY <1>1, <1>2, <1>3, <1>4, <1>5, <1>6, <1>7, <1>8, <1>9, <1>10 DEF Next

LEMMA StepCounts == IInv /\ [Next]_vars => RefsMatchHolds'
<1> SUFFICES ASSUME IInv, [Next]_vars PROVE RefsMatchHolds'
  OBVIOUS
<1>1. ASSUME NEW k \in Keys, Arrive(k) \/ Dispatch(k) PROVE RefsMatchHolds'
  BY <1>1
  DEF Dispatch, Arrive, Take, Send, Loop, End, topicVars, holdVars, IInv,
      RefsMatchHolds, Holding
<1>2. ASSUME NEW k \in Keys, NEW n \in 1..MaxConsumers, Handle(k, n)
      PROVE  RefsMatchHolds'
  BY <1>2 DEF Handle, topicVars, holdVars, IInv, RefsMatchHolds, Holding
<1>3. CASE UNCHANGED vars
  BY <1>3 DEF vars, IInv, RefsMatchHolds, Holding
<1>4. ASSUME NEW c \in Comps, NEW k \in Keys, SubscribeLight(c, k)
      PROVE  RefsMatchHolds'
  BY <1>4 DEF SubscribeLight, topicVars, IInv, RefsMatchHolds, Holding
<1> QED
  BY <1>1, <1>2, <1>3, <1>4, SubscribeUserCounts, UnsubscribeCounts,
     SubscribePubsubCounts, SubscribeFailsCounts, SubscribeEndsCounts,
     UnsubscribeLightCounts
  DEF Next

LEMMA StepTarget == IInv /\ [Next]_vars => TargetInv'
<1> SUFFICES ASSUME IInv, [Next]_vars PROVE TargetInv'
  OBVIOUS
<1> USE DEF IInv, TargetInv
<1>1. ASSUME NEW k \in Keys, InitPubsub(k) PROVE TargetInv'
  BY <1>1, InitPubsubEffect
<1>2. ASSUME UNCHANGED <<gen, target>> PROVE TargetInv'
  BY <1>2
<1>3. ASSUME NEW k \in Keys, Arrive(k) \/ Dispatch(k)
      PROVE  UNCHANGED <<gen, target>>
  BY <1>3 DEF Arrive, Dispatch, Take, Send, Loop, End, topicVars
<1>4. ASSUME NEW k \in Keys, NEW n \in 1..MaxConsumers, Handle(k, n)
      PROVE  UNCHANGED <<gen, target>>
  BY <1>4 DEF Handle, topicVars
<1>5. ASSUME NEW h \in Hold, NEW k \in Keys, Unsubscribe(h, k)
      PROVE  UNCHANGED <<gen, target>>
  BY <1>5 DEF Unsubscribe, Close
<1>6. ASSUME NEW c \in Comps, NEW k \in Keys,
             SubscribeLight(c, k) \/ UnsubscribeLight(c, k)
      PROVE  UNCHANGED <<gen, target>>
  BY <1>6 DEF SubscribeLight, UnsubscribeLight, Close, topicVars
<1>7. ASSUME NEW c \in Comps, NEW t \in Threads, NEW k \in Keys,
             SubscribeFails(c, t, k) \/ SubscribeEnds(c, t, k)
      PROVE  UNCHANGED <<gen, target>>
  BY <1>7 DEF SubscribeFails, SubscribeEnds, Close, topicVars
<1>8. ASSUME NEW c \in Comps, NEW k \in Keys, SubscribeUser(c, k)
      PROVE  TargetInv'
  BY <1>1, <1>8 DEF SubscribeUser
<1>9. ASSUME NEW c \in Comps, NEW t \in Threads, NEW k \in Keys,
             SubscribePubsub(c, t, k)
      PROVE  TargetInv'
  BY <1>1, <1>9 DEF SubscribePubsub
<1>10. CASE UNCHANGED vars
  BY <1>2, <1>10 DEF vars
<1>11. CASE Next
  BY <1>2, <1>3, <1>4, <1>5, <1>6, <1>7, <1>8, <1>9, <1>11 DEF Next
<1> QED
  BY <1>10, <1>11

(* Who is left with a closed topic is an orphan from then on.                *)
LEMMA StepJoined == IInv /\ [Next]_vars => JoinedInv'
<1> SUFFICES ASSUME IInv, [Next]_vars PROVE JoinedInv'
  OBVIOUS
<1>0. TypeOK /\ JoinedInv
  BY DEF IInv
<1>1. ASSUME NEW k \in Keys,
             \A j \in Keys \ {k} : /\ topicList'[j] = topicList[j]
                                  /\ holders'[j] = holders[j]
                                  /\ orphans'[j] = orphans[j],
             holders'[k] \ orphans'[k] # {} => topicList'[k] > 0
      PROVE  JoinedInv'
  BY <1>0, <1>1, Zenon DEF JoinedInv
<1>2. ASSUME UNCHANGED <<topicList, holders, orphans>>
      PROVE  JoinedInv'
  BY <1>0, <1>2 DEF JoinedInv
<1>3. ASSUME NEW c \in Comps, NEW k \in Keys, SubscribeUser(c, k)
      PROVE  JoinedInv'
  <2>1. /\ \A j \in Keys \ {k} : /\ topicList'[j] = topicList[j]
                                /\ holders'[j] = holders[j]
                                /\ orphans'[j] = orphans[j]
        /\ topicList'[k] = topicList[k] + 1
    BY <1>0, <1>3, InitPubsubEffect DEF SubscribeUser, TypeOK
  <2>2. topicList[k] \in Nat
    BY <1>0 DEF TypeOK
  <2>3. topicList'[k] > 0
    BY <2>1, <2>2
  <2> QED
    BY <1>1, <2>1, <2>3
<1>4. ASSUME NEW c \in Comps, NEW t \in Threads, NEW k \in Keys,
             SubscribePubsub(c, t, k)
      PROVE  JoinedInv'
  <2>1. /\ \A j \in Keys \ {k} : /\ topicList'[j] = topicList[j]
                                /\ holders'[j] = holders[j]
                                /\ orphans'[j] = orphans[j]
        /\ topicList'[k] = topicList[k] + 1
    BY <1>0, <1>4, InitPubsubEffect DEF SubscribePubsub, TypeOK
  <2>2. topicList[k] \in Nat
    BY <1>0 DEF TypeOK
  <2>3. topicList'[k] > 0
    BY <2>1, <2>2
  <2> QED
    BY <1>1, <2>1, <2>3
<1>5. ASSUME NEW c \in Comps, NEW t \in Threads, NEW k \in Keys,
             SubscribeFails(c, t, k)
      PROVE  JoinedInv'
  BY <1>0, <1>1, <1>5, CloseEffect DEF SubscribeFails, TypeOK
<1>6. ASSUME NEW c \in Comps, NEW t \in Threads, NEW k \in Keys,
             SubscribeEnds(c, t, k)
      PROVE  JoinedInv'
  <2>1. /\ topicList' = topicList
        /\ \A j \in Keys \ {k} : holders'[j] = holders[j]
        /\ holders'[k] = holders[k] \cup {Listed(c)}
        /\ \A j \in Keys \ {k} : orphans'[j] = orphans[j]
        /\ orphans'[k] = IF topicList[k] = 0 THEN orphans[k] \cup {Listed(c)}
                                             ELSE orphans[k] \ {Listed(c)}
    BY <1>0, <1>6 DEF SubscribeEnds, topicVars, TypeOK
  <2>2. topicList[k] \in Nat
    BY <1>0 DEF TypeOK
  <2>3. holders'[k] \ orphans'[k] # {} => topicList'[k] > 0
    <3>1. CASE topicList[k] = 0
      <4>1. holders[k] \subseteq orphans[k]
        BY <1>0, <3>1 DEF JoinedInv
      <4> QED
        BY <2>1, <3>1, <4>1
    <3>2. CASE topicList[k] # 0
      BY <2>1, <2>2, <3>2
    <3> QED
      BY <3>1, <3>2
  <2> QED
    BY <1>1, <2>1, <2>3
<1>7. ASSUME NEW h \in Hold, NEW k \in Keys, Unsubscribe(h, k)
      PROVE  JoinedInv'
  <2>1. /\ holders'[k] \in SUBSET Hold
        /\ \A j \in Keys \ {k} : holders'[j] = holders[j]
        /\ Close(k, holders'[k])
    BY <1>0, <1>7 DEF Unsubscribe, TypeOK
  <2> QED
    BY <1>1, <2>1, CloseEffect
<1>8. ASSUME NEW c \in Comps, NEW k \in Keys, UnsubscribeLight(c, k)
      PROVE  JoinedInv'
  <2>1. holders' = holders /\ Close(k, holders[k])
    BY <1>8 DEF UnsubscribeLight
  <2>2. holders[k] \in SUBSET Hold
    BY <1>0 DEF TypeOK
  <2>3. /\ \A j \in Keys \ {k} : /\ topicList'[j] = topicList[j]
                                /\ orphans'[j] = orphans[j]
        /\ holders[k] \ orphans'[k] # {} => topicList'[k] > 0
    BY <2>1, <2>2, CloseEffect
  <2> QED
    BY <1>1, <2>1, <2>3
<1> QED
  BY <1>2, <1>3, <1>4, <1>5, <1>6, <1>7, <1>8
  DEF Next, Arrive, Dispatch, Take, Send, Loop, End, Handle,
      SubscribeLight, holdVars, topicVars, vars

-----------------------------------------------------------------------------
(* What is kept when no consumer starts.                                     *)
LEMMA KeepsSub ==
  ASSUME IInv, TypeOK', SameConsumers, UNCHANGED <<gen, waiting>>,
         \A k \in Keys : \/ disp'[k] = disp[k]
                        \/ disp'[k].at # "next"
                        \/ disp'[k].sub = gen[k]
  PROVE  SubInv'
<1> SUFFICES ASSUME NEW k \in Keys, NEW n \in DOMAIN consumers'[k]
             PROVE  /\ consumers'[k][n].sub <= gen'[k]
                    /\ /\ disp'[k].at = "next"
                       /\ disp'[k].sub < gen'[k]
                       /\ n \in Fed(k)'
                       /\ consumers'[k][n].sub = gen'[k]
                       => consumers'[k][n].stale
  BY DEF SubInv
<1>1. /\ n \in DOMAIN consumers[k]
      /\ consumers'[k][n].sub = consumers[k][n].sub
      /\ consumers'[k][n].stale = consumers[k][n].stale
  BY DEF SameConsumers
<1>2. Fed(k)' = Fed(k)
  BY DEF Fed
<1>3. gen[k] \in Nat
  BY DEF IInv, TypeOK
<1> QED
  BY <1>1, <1>2, <1>3 DEF IInv, SubInv

LEMMA KeepsFed ==
  ASSUME IInv, SameConsumers, UNCHANGED <<gen, waiting, holders, orphans>>
  PROVE  HolderIsFed'
<1> SUFFICES ASSUME NEW k \in Keys, NEW h \in holders[k] \ orphans[k]
             PROVE  \E n \in DOMAIN consumers'[k] :
                      /\ consumers'[k][n].hold = h
                      /\ consumers'[k][n].sub = gen'[k]
                      /\ n \in Fed(k)' \/ consumers'[k][n].stale
  BY DEF HolderIsFed
<1>1. PICK n \in DOMAIN consumers[k] :
        /\ consumers[k][n].hold = h
        /\ consumers[k][n].sub = gen[k]
        /\ n \in Fed(k) \/ consumers[k][n].stale
  BY DEF IInv, HolderIsFed
<1>2. Fed(k)' = Fed(k)
  BY DEF Fed
<1> QED
  BY <1>1, <1>2 DEF SameConsumers

(* And when one does: the others of the key are those of a subscription that *)
(* is still the last, or all that have the key are orphans.                  *)
LEMMA StartKeeps ==
  ASSUME IInv, NEW h \in Hold, NEW k \in Keys, OneMore(h, k),
         TypeOK', TargetInv',
         gen'[k] >= gen[k],
         holders[k] \ orphans[k] # {} => gen'[k] = gen[k],
         \A j \in Keys \ {k} : /\ gen'[j] = gen[j]
                              /\ holders'[j] = holders[j]
                              /\ orphans'[j] = orphans[j],
         holders'[k] \ orphans'[k] \subseteq (holders[k] \ orphans[k]) \cup {h}
  PROVE  SubInv' /\ HolderIsFed'
<1> DEFINE new == Len(consumers[k]) + 1
<1>1. gen[k] \in Nat /\ gen'[k] \in Nat
  BY DEF IInv, TypeOK
<1>2. /\ DOMAIN consumers'[k] = DOMAIN consumers[k] \cup {new}
      /\ \A i \in DOMAIN consumers[k] : i # new /\ consumers'[k][i] = consumers[k][i]
      /\ Fed(k)' = Fed(k) \cup {new}
      /\ consumers'[k][new].hold = h
      /\ consumers'[k][new].sub = gen'[k]
  BY DEF OneMore
<1>3. \A j \in Keys \ {k} : /\ consumers'[j] = consumers[j]
                           /\ Fed(j)' = Fed(j)
                           /\ disp'[j] = disp[j]
  BY DEF OneMore, Fed
<1>4. SubInv'
  <2> SUFFICES ASSUME NEW j \in Keys, NEW n \in DOMAIN consumers'[j]
               PROVE  /\ consumers'[j][n].sub <= gen'[j]
                      /\ /\ disp'[j].at = "next"
                         /\ disp'[j].sub < gen'[j]
                         /\ n \in Fed(j)'
                         /\ consumers'[j][n].sub = gen'[j]
                         => consumers'[j][n].stale
    BY DEF SubInv
  <2>1. CASE j # k
    BY <1>3, <2>1 DEF IInv, SubInv
  <2>2. CASE j = k
    <3>1. ~HasEntry(k) => disp'[k].sub = gen'[k]
      BY DEF OneMore, WaitsOn, TargetInv
    <3>2. CASE n = new
      <4>1. HasEntry(k) /\ disp[k].at = "next" /\ disp[k].sub < gen'[k]
              => consumers'[k][new].stale
        BY DEF OneMore
      <4>2. HasEntry(k) => disp'[k] = disp[k]
        BY DEF OneMore
      <4> QED
        BY <1>1, <1>2, <2>2, <3>1, <3>2, <4>1, <4>2
    <3>3. CASE n # new
      <4>1. /\ n \in DOMAIN consumers[k]
            /\ consumers'[k][n] = consumers[k][n]
            /\ n \in Fed(k)' => n \in Fed(k)
        BY <1>2, <2>2, <3>3
      <4>2. consumers[k][n].sub <= gen[k] /\ consumers[k][n].sub \in Nat
        <5>0. consumers \in [Keys -> Seq(Consumer)]
          BY DEF IInv, TypeOK, Consumer
        <5>1. consumers[k][n] \in Consumer
          BY <4>1, <5>0
        <5> QED
          BY <4>1, <5>1 DEF IInv, SubInv, Consumer
      <4>3. HasEntry(k) => disp'[k] = disp[k]
        BY DEF OneMore
      <4> QED
        BY <1>1, <2>2, <3>1, <4>1, <4>2, <4>3 DEF IInv, SubInv
    <3> QED
      BY <3>2, <3>3
  <2> QED
    BY <2>1, <2>2
<1>5. HolderIsFed'
  <2> SUFFICES ASSUME NEW j \in Keys, NEW d \in holders'[j] \ orphans'[j]
               PROVE  \E n \in DOMAIN consumers'[j] :
                        /\ consumers'[j][n].hold = d
                        /\ consumers'[j][n].sub = gen'[j]
                        /\ n \in Fed(j)' \/ consumers'[j][n].stale
    BY DEF HolderIsFed
  <2>1. CASE j = k /\ d = h
    BY <1>2, <2>1
  <2>2. CASE ~(j = k /\ d = h)
    <3>1. d \in holders[j] \ orphans[j] /\ gen'[j] = gen[j]
      BY <2>2
    <3>2. PICK n \in DOMAIN consumers[j] :
            /\ consumers[j][n].hold = d
            /\ consumers[j][n].sub = gen[j]
            /\ n \in Fed(j) \/ consumers[j][n].stale
      BY <3>1 DEF IInv, HolderIsFed
    <3>3. /\ n \in DOMAIN consumers'[j]
          /\ consumers'[j][n] = consumers[j][n]
          /\ n \in Fed(j) => n \in Fed(j)'
      BY <1>2, <1>3
    <3> QED
      BY <3>1, <3>2, <3>3
  <2> QED
    BY <2>1, <2>2
<1> QED
  BY <1>4, <1>5

(* A dispatcher that ends under a holder waited on a cancelled subscription: *)
(* every consumer of the last one that it still feeds is marked.             *)
LEMMA EndKeepsFed ==
  ASSUME IInv, NEW k \in Keys, End(k)
  PROVE  HolderIsFed'
<1>1. SameConsumers
  BY EndEffect DEF IInv
<1>2. /\ gen' = gen /\ holders' = holders /\ orphans' = orphans
      /\ \A j \in Keys \ {k} : Fed(j)' = Fed(j)
  BY DEF End, topicVars, holdVars, Fed, IInv, TypeOK
<1> SUFFICES ASSUME NEW j \in Keys, NEW h \in holders[j] \ orphans[j]
             PROVE  \E n \in DOMAIN consumers'[j] :
                      /\ consumers'[j][n].hold = h
                      /\ consumers'[j][n].sub = gen'[j]
                      /\ n \in Fed(j)' \/ consumers'[j][n].stale
  BY <1>2 DEF HolderIsFed
<1>3. PICK n \in DOMAIN consumers[j] :
        /\ consumers[j][n].hold = h
        /\ consumers[j][n].sub = gen[j]
        /\ n \in Fed(j) \/ consumers[j][n].stale
  BY DEF IInv, HolderIsFed
<1>4. CASE j # k
  BY <1>1, <1>2, <1>3, <1>4 DEF SameConsumers
<1>5. CASE j = k
  <2>1. topicList[k] > 0
    BY <1>5 DEF IInv, JoinedInv
  <2>2. disp[k].at = "next" /\ disp[k].sub < gen[k]
    BY <2>1 DEF End, Cancelled, IInv, TypeOK
  <2>3. consumers[k][n].stale
    BY <1>3, <1>5, <2>2 DEF IInv, SubInv
  <2> QED
    BY <1>1, <1>2, <1>3, <1>5, <2>3 DEF SameConsumers
<1> QED
  BY <1>4, <1>5

LEMMA DispatchKeeps ==
  ASSUME IInv, TypeOK', NEW k \in Keys, Arrive(k) \/ Dispatch(k)
  PROVE  SubInv' /\ HolderIsFed'
<1> USE DEF topicVars, holdVars
<1>0. TypeOK
  BY DEF IInv
<1>1. CASE Arrive(k)
  <2>1. SameConsumers /\ UNCHANGED <<gen, waiting, holders, orphans, disp>>
    BY <1>1 DEF Arrive, SameConsumers
  <2> QED
    BY <2>1, KeepsSub, KeepsFed
<1>2. CASE Take(k)
  <2>1. SameConsumers /\ UNCHANGED <<gen, waiting, holders, orphans>>
    BY <1>2 DEF Take, SameConsumers
  <2>2. \A j \in Keys : disp'[j] = disp[j] \/ disp'[j].at # "next"
    BY <1>0, <1>2 DEF Take, TypeOK
  <2> QED
    BY <2>1, <2>2, KeepsSub, KeepsFed
<1>3. CASE Send(k)
  <2>1. SameConsumers /\ UNCHANGED <<gen, waiting, holders, orphans>>
    BY <1>0, <1>3, SendEffect DEF Send
  <2>2. \A j \in Keys : disp'[j] = disp[j] \/ disp'[j].at # "next"
    BY <1>0, <1>3 DEF Send, TypeOK
  <2> QED
    BY <2>1, <2>2, KeepsSub, KeepsFed
<1>4. CASE Loop(k)
  <2>1. SameConsumers /\ UNCHANGED <<gen, waiting, holders, orphans>>
    BY <1>4 DEF Loop, SameConsumers
  <2>2. \A j \in Keys : disp'[j] = disp[j] \/ disp'[j].sub = gen[j]
    BY <1>0, <1>4 DEF Loop, WaitsOn, TypeOK, IInv, TargetInv
  <2> QED
    BY <2>1, <2>2, KeepsSub, KeepsFed
<1>5. CASE End(k)
  <2>1. SameConsumers
    BY <1>0, <1>5, EndEffect
  <2>2. /\ gen' = gen
        /\ \A j \in Keys : disp'[j] = disp[j] \/ disp'[j].at # "next"
        /\ \A j \in Keys : waiting'[j] = waiting[j] \/ waiting'[j] = <<>>
    BY <1>0, <1>5 DEF End, None, TypeOK
  <2>3. SubInv'
    <3> SUFFICES ASSUME NEW j \in Keys, NEW n \in DOMAIN consumers'[j]
                 PROVE  /\ consumers'[j][n].sub <= gen'[j]
                        /\ /\ disp'[j].at = "next"
                           /\ disp'[j].sub < gen'[j]
                           /\ n \in Fed(j)'
                           /\ consumers'[j][n].sub = gen'[j]
                           => consumers'[j][n].stale
      BY DEF SubInv
    <3>1. /\ n \in DOMAIN consumers[j]
          /\ consumers'[j][n].sub = consumers[j][n].sub
          /\ consumers'[j][n].stale = consumers[j][n].stale
      BY <2>1 DEF SameConsumers
    <3>2. n \in Fed(j)' => n \in Fed(j)
      BY <2>2 DEF Fed
    <3> QED
      BY <2>2, <3>1, <3>2 DEF IInv, SubInv
  <2> QED
    BY <1>5, <2>3, EndKeepsFed
<1> QED
  BY <1>1, <1>2, <1>3, <1>4, <1>5 DEF Dispatch

LEMMA StepFed == IInv /\ TypeOK' /\ TargetInv' /\ [Next]_vars
                   => SubInv' /\ HolderIsFed'
<1> SUFFICES ASSUME IInv, TypeOK', TargetInv', [Next]_vars
             PROVE  SubInv' /\ HolderIsFed'
  OBVIOUS
<1>0. TypeOK
  BY DEF IInv
<1>1. ASSUME NEW k \in Keys, Arrive(k) \/ Dispatch(k)
      PROVE  SubInv' /\ HolderIsFed'
  BY <1>1, DispatchKeeps
<1>2. ASSUME NEW k \in Keys, NEW n \in 1..MaxConsumers, Handle(k, n)
      PROVE  SubInv' /\ HolderIsFed'
  <2>1. SameConsumers
    BY <1>0, <1>2, HandleEffect, BoundsAssumption
  <2>2. UNCHANGED <<gen, waiting, holders, orphans, disp>>
    BY <1>2 DEF Handle, topicVars, holdVars
  <2> QED
    BY <2>1, <2>2, KeepsSub, KeepsFed
<1>3. ASSUME NEW c \in Comps, NEW k \in Keys, SubscribeUser(c, k)
      PROVE  SubInv' /\ HolderIsFed'
  <2>1. InitPubsub(k) /\ WaitMessage(User(c), k)
    BY <1>3 DEF SubscribeUser
  <2>2. OneMore(User(c), k)
    BY <1>0, <2>1, InitPubsubEffect, WaitMessageEffect, UsersAreHolds
  <2>3. /\ gen'[k] >= gen[k]
        /\ holders[k] \ orphans[k] # {} => gen'[k] = gen[k]
        /\ \A j \in Keys \ {k} : gen'[j] = gen[j]
    BY <2>1, InitPubsubEffect DEF IInv, JoinedInv
  <2>4. /\ \A j \in Keys \ {k} : /\ holders'[j] = holders[j]
                                /\ orphans'[j] = orphans[j]
        /\ holders'[k] \ orphans'[k]
             \subseteq (holders[k] \ orphans[k]) \cup {User(c)}
    BY <1>0, <1>3 DEF SubscribeUser, TypeOK
  <2> QED
    BY <2>2, <2>3, <2>4, UsersAreHolds, StartKeeps
<1>4. ASSUME NEW c \in Comps, NEW t \in Threads, NEW k \in Keys,
             SubscribeEnds(c, t, k)
      PROVE  SubInv' /\ HolderIsFed'
  <2>1. WaitMessage(Listed(c), k) /\ UNCHANGED topicVars
    BY <1>4 DEF SubscribeEnds
  <2>2. gen' = gen /\ target' = target
    BY <2>1 DEF topicVars
  <2>3. OneMore(Listed(c), k)
    BY <1>0, <2>1, <2>2, WaitMessageEffect, UsersAreHolds DEF TypeOK
  <2>4. /\ \A j \in Keys \ {k} : /\ holders'[j] = holders[j]
                                /\ orphans'[j] = orphans[j]
        /\ holders'[k] = holders[k] \cup {Listed(c)}
        /\ orphans[k] \ {Listed(c)} \subseteq orphans'[k]
    BY <1>0, <1>4 DEF SubscribeEnds, TypeOK
  <2>5. holders'[k] \ orphans'[k]
          \subseteq (holders[k] \ orphans[k]) \cup {Listed(c)}
    BY <2>4
  <2>6. gen'[k] >= gen[k]
    BY <1>0, <2>2 DEF TypeOK
  <2> QED
    BY <2>2, <2>3, <2>4, <2>5, <2>6, UsersAreHolds, StartKeeps
<1>5. ASSUME NEW c \in Comps, NEW t \in Threads, NEW k \in Keys,
             SubscribePubsub(c, t, k)
      PROVE  SubInv' /\ HolderIsFed'
  <2>1. InitPubsub(k)
    BY <1>5 DEF SubscribePubsub
  <2>2. UNCHANGED <<consumers, waiting, disp, holders, orphans>>
    BY <1>5 DEF SubscribePubsub, dispatchVars
  <2>3. ASSUME NEW j \in Keys
        PROVE  /\ gen[j] \in Nat /\ gen'[j] \in Nat
               /\ gen'[j] >= gen[j]
               /\ holders[j] \ orphans[j] # {} => gen'[j] = gen[j]
    <3>1. /\ gen[j] \in Nat /\ gen'[j] \in Nat
          /\ j # k => gen'[j] = gen[j]
      BY <1>0, <2>1, InitPubsubEffect DEF TypeOK
    <3>2. /\ gen'[k] >= gen[k]
          /\ holders[k] \ orphans[k] # {} => gen'[k] = gen[k]
      BY <2>1, InitPubsubEffect DEF IInv, JoinedInv
    <3> QED
      BY <3>1, <3>2
  <2>4. HolderIsFed'
    <3> SUFFICES ASSUME NEW j \in Keys, NEW d \in holders[j] \ orphans[j]
                 PROVE  \E n \in DOMAIN consumers[j] :
                          /\ consumers[j][n].hold = d
                          /\ consumers[j][n].sub = gen'[j]
                          /\ n \in Fed(j)' \/ consumers[j][n].stale
      BY <2>2 DEF HolderIsFed
    <3>1. gen'[j] = gen[j]
      BY <2>3
    <3>2. Fed(j)' = Fed(j)
      BY <2>2 DEF Fed
    <3> QED
      BY <3>1, <3>2 DEF IInv, HolderIsFed
  <2>5. ASSUME NEW j \in Keys, NEW n \in DOMAIN consumers[j]
        PROVE  consumers[j][n].sub \in Nat
    <3>1. consumers \in [Keys -> Seq(Consumer)]
      BY <1>0 DEF TypeOK, Consumer
    <3>2. consumers[j][n] \in Consumer
      BY <3>1
    <3> QED
      BY <3>2 DEF Consumer
  <2>6. SubInv'
    <3> SUFFICES ASSUME NEW j \in Keys, NEW n \in DOMAIN consumers[j]
                 PROVE  /\ consumers[j][n].sub <= gen'[j]
                        /\ /\ disp[j].at = "next"
                           /\ disp[j].sub < gen'[j]
                           /\ n \in Fed(j)'
                           /\ consumers[j][n].sub = gen'[j]
                           => consumers[j][n].stale
      BY <2>2 DEF SubInv
    <3>1. Fed(j)' = Fed(j)
      BY <2>2 DEF Fed
    <3>2. consumers[j][n].sub <= gen[j]
      BY DEF IInv, SubInv
    <3>3. gen[j] \in Nat /\ gen'[j] \in Nat /\ gen'[j] >= gen[j]
      BY <2>3
    <3>4. consumers[j][n].sub \in Nat
      BY <2>5, Zenon
    <3>5. /\ consumers[j][n].sub <= gen'[j]
          /\ consumers[j][n].sub = gen'[j] => gen'[j] = gen[j]
      BY <3>2, <3>3, <3>4
    <3> QED
      BY <3>1, <3>5 DEF IInv, SubInv
  <2> QED
    BY <2>4, <2>6
<1>6. ASSUME /\ UNCHANGED <<gen, consumers, waiting, disp>>
             /\ \A k \in Keys : holders'[k] \ orphans'[k]
                                 \subseteq holders[k] \ orphans[k]
      PROVE  SubInv' /\ HolderIsFed'
  BY <1>6 DEF IInv, SubInv, HolderIsFed, Fed
<1>7. ASSUME NEW k \in Keys, NEW hs \in SUBSET Hold, Close(k, hs),
             UNCHANGED dispatchVars,
             \A j \in Keys \ {k} : holders'[j] = holders[j],
             holders'[k] = hs, hs \subseteq holders[k]
      PROVE  SubInv' /\ HolderIsFed'
  <2>1. /\ \A j \in Keys \ {k} : orphans'[j] = orphans[j]
        /\ hs \ orphans'[k] \subseteq hs \ orphans[k]
    BY <1>7, CloseEffect
  <2>2. UNCHANGED <<gen, consumers, waiting, disp>>
    BY <1>7 DEF Close, dispatchVars
  <2>3. ASSUME NEW j \in Keys
        PROVE  holders'[j] \ orphans'[j] \subseteq holders[j] \ orphans[j]
    <3>1. CASE j = k
      BY <1>7, <2>1, <3>1
    <3>2. CASE j # k
      BY <1>7, <2>1, <3>2
    <3> QED
      BY <3>1, <3>2
  <2> QED
    BY <1>6, <2>2, <2>3
<1>8. ASSUME NEW h \in Hold, NEW k \in Keys, Unsubscribe(h, k)
      PROVE  SubInv' /\ HolderIsFed'
  <2>1. /\ \A j \in Keys \ {k} : holders'[j] = holders[j]
        /\ holders'[k] = holders[k] \ {h}
        /\ holders[k] \in SUBSET Hold
        /\ Close(k, holders'[k]) /\ UNCHANGED dispatchVars
    BY <1>0, <1>8 DEF Unsubscribe, TypeOK
  <2>2. holders'[k] \in SUBSET Hold /\ holders'[k] \subseteq holders[k]
    BY <2>1
  <2> QED
    BY <1>7, <2>1, <2>2
<1>9. ASSUME NEW k \in Keys, Close(k, holders[k]), UNCHANGED dispatchVars,
             UNCHANGED holders
      PROVE  SubInv' /\ HolderIsFed'
  BY <1>0, <1>7, <1>9 DEF TypeOK
<1>10. ASSUME NEW c \in Comps, NEW t \in Threads, NEW k \in Keys,
              SubscribeFails(c, t, k)
       PROVE  SubInv' /\ HolderIsFed'
  BY <1>9, <1>10 DEF SubscribeFails
<1>11. ASSUME NEW c \in Comps, NEW k \in Keys, UnsubscribeLight(c, k)
       PROVE  SubInv' /\ HolderIsFed'
  BY <1>9, <1>11 DEF UnsubscribeLight
<1>12. ASSUME NEW c \in Comps, NEW k \in Keys, SubscribeLight(c, k)
       PROVE  SubInv' /\ HolderIsFed'
  BY <1>6, <1>12 DEF SubscribeLight, topicVars, dispatchVars
<1>13. CASE UNCHANGED vars
  BY <1>6, <1>13 DEF vars
<1> QED
  BY <1>1, <1>2, <1>3, <1>4, <1>5, <1>8, <1>10, <1>11, <1>12, <1>13 DEF Next

LEMMA Inductive == Spec => []IInv
<1>1. IInv /\ [Next]_vars => IInv'
  BY StepTypes, StepCounts, StepTarget, StepJoined, StepFed DEF IInv
<1> QED
  BY InitInv, <1>1, PTL DEF Spec

-----------------------------------------------------------------------------
(* Every variable of the subscriptions and the dispatchers has its type.     *)
THEOREM TypeCorrect == Spec => []TypeOK
<1>1. IInv => TypeOK
  BY DEF IInv
<1> QED
  BY <1>1, Inductive, PTL

(* pubsub.go:66, 81: whatever fails or overlaps, a topic counts no more than *)
(* those that hold it, ask for it or were overwritten, and less only by what *)
(* light users that never joined took away.                                  *)
THEOREM RefsMatch == Spec => []RefsMatchHolds
<1>1. IInv => RefsMatchHolds
  BY DEF IInv
<1> QED
  BY <1>1, Inductive, PTL

(* baseService.go:97-136: who holds a key and was not left with a closed     *)
(* topic has a channel in the key's entry, unless it joined one that was     *)
(* about to end.                                                             *)
THEOREM HoldersAreFed == Spec => []HolderIsFed
<1>1. IInv => HolderIsFed
  BY DEF IInv
<1> QED
  BY <1>1, Inductive, PTL

-----------------------------------------------------------------------------
(* DmsgService. The script of the call under way (todo) and the fields,      *)
(* topics and handlers of the services are related by the invariants below;  *)
(* ServicesInv is their conjunction.                                         *)

(* The steps an application can be at, for the services released and a       *)
(* process that is ready or not.                                             *)
Verb == {"listen", "light", "open", "make", "regist", "unregist", "clear",
         "enable", "disable", "send", "closeChan", "stopChan", "leave",
         "leaveLight", "queryTarget", "leaveQuery", "join", "keep", "create",
         "leaveProxy", "ready"}
AnyStep == [s : Svc \cup {""}, do : Verb, x : Protocol \cup {"none"},
            pids : SUBSET PID]
Mailboxes == {"mailboxService", "mailboxClient"}
Asking == {"mailboxClient", "msgClient", "channelClient"}
ProxyVerb == {"join", "keep", "create", "leaveProxy"}
Taking == {"clear", "unregist", "leave", "leaveLight", "closeChan", "leaveQuery"}

Allowed(rel, rdy) == {st \in AnyStep :
  /\ st.do # "ready" => st.s \in Svc
  /\ st.do \in {"make", "clear"} => st.x \in Protocol
  /\ st.do = "light" => st.s \notin Mailboxes
  /\ st.do = "leave" => st.s \in Mailboxes
  /\ st.do \in Taking => st.s \in rel
  /\ st.do \in ProxyVerb => st.s \in Clients
  /\ st.do = "make" => /\ st.pids = {}
                       /\ rdy => st.s \notin Asking
                       /\ st.s = "mailboxService" => st.x \in {"mailbox", "seek", "msg"}
                       /\ st.s = "mailboxClient" => st.x \in {"mailbox", "seek"}
                       /\ st.s = "customService" => st.x = "query"}

ScriptInv == todo \in Seq(Allowed(released, ready))

MakeSeek == Step("mailboxService", "make", "seek")
MakeMsg == Step("mailboxService", "make", "msg")

InOrder(q) ==
  /\ \A i \in 2..Len(q) : q[i].do # "regist"
  /\ \A i \in 1..Len(q) : q[i].do = "ready" => i = Len(q)
  /\ \A i \in 1..Len(q) : q[i] = MakeSeek => i < Len(q) /\ q[i + 1] = MakeMsg
OrderInv == InOrder(todo)

(* The seek protocol of the mailbox service is there, or about to be made.   *)
SeekFirst ==
  \A i \in 1..Len(todo) :
    todo[i] = MakeMsg => \/ "seek" \in fields["mailboxService"]
                         \/ i > 1 /\ todo[i - 1] = MakeSeek

(* What the consumer of s needs is there, but for the second protocol of     *)
(* the mailbox service, which is made at step i.                             *)
Complete(s, i) ==
  /\ s = "mailboxClient" => "seek" \in fields[s]
  /\ s = "customService" => "query" \in fields[s]
  /\ s = "mailboxService" =>
       /\ "seek" \in fields[s]
       /\ "msg" \in fields[s] \/ (i <= Len(todo) /\ todo[i] = MakeMsg)

MadeInv == released = {} =>
  /\ ~chanClosed
  /\ SeekFirst
  /\ \A s \in Svc : handles[s] # {} => Complete(s, 1)
  /\ \A s \in Svc : consumer[s] \in PID => handles[s] # {}
  /\ todo # <<>> /\ Head(todo).do = "regist" /\ Head(todo).pids # {} =>
       Complete(Head(todo).s, 2)

UserInv ==
  /\ \A s \in Mailboxes : user[s] # "light"
  /\ topicRef["user"] + stray >= Cardinality(Holders("user"))

Joining(s) == Do(s, IF s = "msgClient" THEN "create" ELSE "keep")
ProxyInv ==
  \/ /\ \A i \in 1..Len(todo) : todo[i].do \notin ProxyVerb
     /\ topicRef["proxy"] >= Cardinality(proxied)
  \/ \E s \in Clients \ proxied :
       /\ Len(todo) = 2 /\ todo[1] = Do(s, "join") /\ todo[2] = Joining(s)
       /\ topicRef["proxy"] >= Cardinality(proxied)
  \/ \E s \in Clients \ proxied :
       /\ Len(todo) = 1 /\ todo[1] = Joining(s)
       /\ topicRef["proxy"] >= Cardinality(proxied) + 1
  \/ \E s \in proxied :
       /\ Len(todo) = 1 /\ todo[1] = Do(s, "leaveProxy")
       /\ topicRef["proxy"] >= Cardinality(proxied)

QueryInv == query = "joined" => topicRef["query"] >= 1

Has(q, e) == \E i \in 1..Len(q) : q[i] = e
ToMake(s, x) == Has(todo, Step(s, "make", x)) /\ x \notin fields[s]
StreamOf(c) == CASE c = "mailboxClient" -> "createMailbox"
                 [] c = "msgClient" -> "createMsgPubsub"
                 [] c = "channelClient" -> "createChannel"
ProtocolOf(c) == IF c = "mailboxClient" THEN "mailbox" ELSE "create"
Rivals(c) == CASE c = "mailboxClient" -> {}
               [] c = "msgClient" -> {"msgService"}
               [] c = "channelClient" -> {"channelService"}
HomeInv == ready \/ (\E i \in 1..Len(todo) : todo[i].do = "ready") =>
  \A c \in Asking :
    \/ responder[StreamOf(c)] = c
    \/ ToMake(c, ProtocolOf(c))
    \/ \E v \in Rivals(c) : "create" \in fields[v] \/ v \in released

-----------------------------------------------------------------------------
(* Scripts *)

LEMMA Singly == ASSUME NEW S, NEW a \in S PROVE <<a>> \in Seq(S)
OBVIOUS
LEMMA Pairs ==
  ASSUME NEW S, NEW a \in S, NEW b \in S PROVE <<a, b>> \in Seq(S)
OBVIOUS
LEMMA Triples ==
  ASSUME NEW S, NEW a \in S, NEW b \in S, NEW c \in S PROVE <<a, b, c>> \in Seq(S)
OBVIOUS
LEMMA Fours ==
  ASSUME NEW S, NEW a \in S, NEW b \in S, NEW c \in S, NEW d \in S
  PROVE  <<a, b, c, d>> \in Seq(S)
OBVIOUS
LEMMA Fives ==
  ASSUME NEW S, NEW a \in S, NEW b \in S, NEW c \in S, NEW d \in S, NEW e \in S
  PROVE  <<a, b, c, d, e>> \in Seq(S)
OBVIOUS
LEMMA Sevens ==
  ASSUME NEW S, NEW a \in S, NEW b \in S, NEW c \in S, NEW d \in S, NEW e \in S,
         NEW f \in S, NEW g \in S
  PROVE  <<a, b, c, d, e, f, g>> \in Seq(S)
OBVIOUS
LEMMA Joined ==
  ASSUME NEW S, NEW p \in Seq(S), NEW q \in Seq(S)
  PROVE  /\ p \o q \in Seq(S) /\ Len(p \o q) = Len(p) + Len(q)
         /\ \A i \in 1..Len(p) : (p \o q)[i] = p[i]
         /\ \A i \in 1..Len(q) : (p \o q)[Len(p) + i] = q[i]
OBVIOUS

LEMMA TailOf ==
  ASSUME NEW S, NEW q \in Seq(S), q # <<>>
  PROVE  /\ Tail(q) \in Seq(S) /\ Len(Tail(q)) = Len(q) - 1
         /\ Len(q) \in Nat \ {0} /\ Head(q) = q[1] /\ q[1] \in S
         /\ \A i \in 1..Len(q) - 1 : Tail(q)[i] = q[i + 1]
OBVIOUS

LEMMA Ahead ==
  ASSUME NEW S, NEW q \in Seq(S), q # <<>>, NEW e \in S
  PROVE  /\ <<e>> \o Tail(q) \in Seq(S) /\ Len(<<e>> \o Tail(q)) = Len(q)
         /\ (<<e>> \o Tail(q))[1] = e
         /\ \A i \in 2..Len(q) : (<<e>> \o Tail(q))[i] = q[i]
<1>1. /\ Tail(q) \in Seq(S) /\ Len(Tail(q)) = Len(q) - 1 /\ Len(q) \in Nat \ {0}
      /\ \A i \in 1..Len(q) - 1 : Tail(q)[i] = q[i + 1]
  BY TailOf
<1>2. <<e>> \in Seq(S) /\ Len(<<e>>) = 1 /\ <<e>>[1] = e
  OBVIOUS
<1>3. /\ <<e>> \o Tail(q) \in Seq(S) /\ Len(<<e>> \o Tail(q)) = 1 + Len(Tail(q))
      /\ (<<e>> \o Tail(q))[1] = e
      /\ \A i \in 1..Len(Tail(q)) : (<<e>> \o Tail(q))[1 + i] = Tail(q)[i]
  BY <1>1, <1>2, Joined
<1>4. ASSUME NEW i \in 2..Len(q) PROVE (<<e>> \o Tail(q))[i] = q[i]
  <2>1. i - 1 \in 1..Len(Tail(q)) /\ i - 1 \in 1..Len(q) - 1 /\ 1 + (i - 1) = i /\ (i - 1) + 1 = i
    BY <1>1
  <2>2. QED
    BY <1>1, <1>3, <2>1
<1>5. QED
  BY <1>1, <1>3, <1>4

(* Steps that no order is asked of.                                          *)
Ordinary(rel, rdy) == {st \in Allowed(rel, rdy) :
  st.do \notin {"regist", "ready"} \cup ProxyVerb /\ st \notin {MakeSeek, MakeMsg}}

LEMMA Ordinaries ==
  ASSUME NEW rel, NEW rdy, NEW q \in Seq(Ordinary(rel, rdy))
  PROVE  /\ q \in Seq(Allowed(rel, rdy)) /\ InOrder(q)
         /\ \A i \in 1..Len(q) : q[i].do \notin ProxyVerb /\ q[i] # MakeMsg
<1>1. \A i \in 1..Len(q) : q[i] \in Ordinary(rel, rdy)
  OBVIOUS
<1>2. Len(q) \in Nat
  OBVIOUS
<1>3. q \in Seq(Allowed(rel, rdy))
  BY DEF Ordinary
<1>4. \A i \in 1..Len(q) : /\ q[i].do \notin {"regist", "ready"}
                           /\ q[i].do \notin ProxyVerb
                           /\ q[i] # MakeSeek /\ q[i] # MakeMsg
  BY <1>1 DEF Ordinary
<1>5. QED
  BY <1>2, <1>3, <1>4 DEF InOrder

LEMMA PlainStep ==
  ASSUME NEW rel, NEW rdy, NEW s \in Svc,
         NEW do \in {"listen", "open", "enable", "disable", "send", "stopChan", "queryTarget"}
  PROVE  Do(s, do) \in Ordinary(rel, rdy)
BY DEF Do, Step, PidStep, Ordinary, Allowed, AnyStep, Verb, ProxyVerb, Taking, MakeSeek, MakeMsg

LEMMA LightStep ==
  ASSUME NEW rel, NEW rdy, NEW s \in Svc \ Mailboxes
  PROVE  Do(s, "light") \in Ordinary(rel, rdy)
BY DEF Do, Step, PidStep, Ordinary, Allowed, AnyStep, Verb, ProxyVerb, Taking, MakeSeek, MakeMsg

LEMMA MakeStep ==
  ASSUME NEW rel, NEW rdy \in BOOLEAN, NEW s \in Svc, NEW x \in Protocol,
         rdy => s \notin Asking, s = "mailboxService" => x = "mailbox",
         s = "mailboxClient" => x \in {"mailbox", "seek"},
         s = "customService" => x = "query"
  PROVE  Step(s, "make", x) \in Ordinary(rel, rdy)
BY DEF Step, PidStep, Ordinary, Allowed, AnyStep, Verb, ProxyVerb, Taking, MakeSeek, MakeMsg

LEMMA TakingStep ==
  ASSUME NEW rel, NEW rdy, NEW s \in Svc, s \in rel,
         NEW do \in Taking, NEW x \in Protocol \cup {"none"}, NEW pids \in SUBSET PID,
         do = "clear" => x \in Protocol, do = "leave" => s \in Mailboxes
  PROVE  PidStep(s, do, x, pids) \in Ordinary(rel, rdy)
BY DEF Step, PidStep, Ordinary, Allowed, AnyStep, Verb, ProxyVerb, Taking, MakeSeek, MakeMsg

-----------------------------------------------------------------------------
(* The calls *)

LEMMA SvcNames ==
  /\ {"mailboxService", "mailboxClient", "msgService", "msgClient", "channelService",
      "channelClient", "customService", "customClient"} = Svc
  /\ {"mailbox", "create", "seek", "msg", "query"} = Protocol
BY DEF Svc, Protocol

LEMMA PidNames ==
  /\ {"seekReq"} \in SUBSET PID /\ {"msgReq"} \in SUBSET PID
  /\ {"queryRes"} \in SUBSET PID /\ {} \in SUBSET PID
  /\ Pair["msg"] \in SUBSET PID /\ Pair["query"] \in SUBSET PID
BY DEF PID, Pair

LEMMA Hearing ==
  ASSUME NEW rdy \in BOOLEAN, NEW listen \in BOOLEAN,
         NEW s \in Svc \ (Mailboxes \cup {"customService"}), rdy => s \notin Asking
  PROVE  StartProxyPubsub(s, listen) \o <<Do(s, "enable")>> \in Seq(Ordinary({}, rdy))
<1> DEFINE S == Ordinary({}, rdy)
<1>1. Step(s, "make", "create") \in S /\ Step(s, "make", "msg") \in S
  BY MakeStep, SvcNames DEF Mailboxes
<1>2. Do(s, "listen") \in S /\ Do(s, "light") \in S /\ Do(s, "enable") \in S
  BY PlainStep, LightStep
<1>3. Do(s, IF listen THEN "listen" ELSE "light") \in S
  BY <1>2
<1> HIDE DEF S
<1>4. <<Do(s, "enable")>> \in Seq(S)
  BY <1>2, Singly
<1>5. StartProxyPubsub(s, listen) \in Seq(S)
  BY ONLY <1>1, <1>3, Triples, Zenon DEF StartProxyPubsub
<1>6. QED
  BY <1>4, <1>5, Joined DEF S

(* What Init does before the process is ready.                               *)
Inits ==
  InitMailboxService("mailboxService") \o InitMailboxClient("mailboxClient")
    \o InitMsgClient("msgClient") \o InitChannelClient("channelClient")
    \o InitCustomService("customService") \o InitCustomClient("customClient")

LEMMA InitPieces ==
  /\ InitMailboxService("mailboxService") \in Seq(Ordinary({}, FALSE))
  /\ InitMailboxClient("mailboxClient") \in Seq(Ordinary({}, FALSE))
  /\ InitMsgClient("msgClient") \in Seq(Ordinary({}, FALSE))
  /\ InitChannelClient("channelClient") \in Seq(Ordinary({}, FALSE))
  /\ InitCustomService("customService") \in Seq(Ordinary({}, FALSE))
  /\ InitCustomClient("customClient") \in Seq(Ordinary({}, FALSE))
<1> DEFINE S == Ordinary({}, FALSE)
<1>1. /\ Do("mailboxService", "listen") \in S /\ Do("mailboxService", "open") \in S
      /\ Do("mailboxClient", "listen") \in S
  BY PlainStep, SvcNames
<1>2. /\ Step("mailboxClient", "make", "mailbox") \in S
      /\ Step("mailboxClient", "make", "seek") \in S
      /\ Step("customClient", "make", "query") \in S
  BY MakeStep, SvcNames
<1>3. Do("customService", "light") \in S /\ Do("customClient", "light") \in S
  BY LightStep, SvcNames DEF Mailboxes
<1>4. InitMsgClient("msgClient") \in Seq(S) /\ InitChannelClient("channelClient") \in Seq(S)
  BY Hearing, CallAssumption, SvcNames DEF InitMsgClient, InitChannelClient,
     StartChannelService, Mailboxes
<1> HIDE DEF S
<1>5. InitMailboxService("mailboxService") \in Seq(S)
  BY ONLY <1>1, Pairs, Zenon DEF InitMailboxService
<1>6. InitMailboxClient("mailboxClient") \in Seq(S)
  BY ONLY <1>1, <1>2, Triples, Zenon DEF InitMailboxClient
<1>7. InitCustomService("customService") \in Seq(S)
  BY ONLY <1>3, Singly, Zenon DEF InitCustomService
<1>8. InitCustomClient("customClient") \in Seq(S)
  BY ONLY <1>2, <1>3, Pairs, Zenon DEF InitCustomClient
<1>9. QED
  BY <1>4, <1>5, <1>6, <1>7, <1>8 DEF S

LEMMA HasJoined ==
  ASSUME NEW S, NEW p \in Seq(S), NEW q \in Seq(S), NEW e, Has(p, e) \/ Has(q, e)
  PROVE  Has(p \o q, e)
<1>1. /\ Len(p \o q) = Len(p) + Len(q) /\ Len(p) \in Nat /\ Len(q) \in Nat
      /\ \A i \in 1..Len(p) : (p \o q)[i] = p[i]
      /\ \A i \in 1..Len(q) : (p \o q)[Len(p) + i] = q[i]
  BY Joined
<1>2. CASE Has(p, e)
  BY <1>1, <1>2 DEF Has
<1>3. CASE Has(q, e)
  <2>1. PICK i \in 1..Len(q) : q[i] = e
    BY <1>3 DEF Has
  <2>2. Len(p) + i \in 1..Len(p \o q)
    BY <1>1
  <2>3. QED
    BY <1>1, <2>1, <2>2 DEF Has
<1>4. QED
  BY <1>2, <1>3

LEMMA InitsMake ==
  /\ Inits \in Seq(Ordinary({}, FALSE))
  /\ Has(Inits, Step("mailboxClient", "make", "mailbox"))
  /\ Has(Inits, Step("msgClient", "make", "create"))
  /\ Has(Inits, Step("channelClient", "make", "create"))
<1> DEFINE S == Ordinary({}, FALSE)
           a == InitMailboxService("mailboxService")
           b == InitMailboxClient("mailboxClient")
           c == InitMsgClient("msgClient")
           d == InitChannelClient("channelClient")
           e == InitCustomService("customService")
           f == InitCustomClient("customClient")
<1>1. /\ a \in Seq(S) /\ b \in Seq(S) /\ c \in Seq(S) /\ d \in Seq(S)
      /\ e \in Seq(S) /\ f \in Seq(S)
  BY InitPieces
<1>2. Has(b, Step("mailboxClient", "make", "mailbox"))
  <2>1. Len(b) = 3 /\ b[2] = Step("mailboxClient", "make", "mailbox")
    BY DEF InitMailboxClient
  <2>2. QED
    BY <2>1 DEF Has
<1>3. ASSUME NEW s, NEW listen
      PROVE  Has(StartProxyPubsub(s, listen) \o <<Do(s, "enable")>>,
                 Step(s, "make", "create"))
  <2> DEFINE p == StartProxyPubsub(s, listen)
             T == {Step(s, "make", "create"), Step(s, "make", "msg"), Do(s, "enable"),
                   Do(s, IF listen THEN "listen" ELSE "light")}
  <2>1. p \in Seq(T)
    BY ONLY Triples, Zenon DEF StartProxyPubsub
  <2>2. <<Do(s, "enable")>> \in Seq(T)
    BY ONLY Singly, Zenon
  <2>3. Len(p) = 3 /\ p[1] = Step(s, "make", "create")
    BY DEF StartProxyPubsub
  <2>4. Has(p, Step(s, "make", "create"))
    BY <2>3 DEF Has
  <2> HIDE DEF p, T
  <2>5. QED
    BY <2>1, <2>2, <2>4, HasJoined DEF p
<1>4. Has(c, Step("msgClient", "make", "create"))
  BY <1>3 DEF InitMsgClient
<1>5. Has(d, Step("channelClient", "make", "create"))
  BY <1>3 DEF InitChannelClient, StartChannelService
<1> DEFINE ab == a \o b
           abc == ab \o c
           abcd == abc \o d
           most == abcd \o e
           all == most \o f
<1>6. Inits = all
  BY DEF Inits
<1> HIDE DEF S, a, b, c, d, e, f
<1>7. ab \in Seq(S)
  BY ONLY <1>1, Joined
<1>8. Has(ab, Step("mailboxClient", "make", "mailbox"))
  BY ONLY <1>1, <1>2, HasJoined
<1> HIDE DEF ab
<1>9. abc \in Seq(S)
  BY ONLY <1>1, <1>7, Joined
<1>10. /\ Has(abc, Step("mailboxClient", "make", "mailbox"))
       /\ Has(abc, Step("msgClient", "make", "create"))
  BY ONLY <1>1, <1>4, <1>7, <1>8, HasJoined
<1> HIDE DEF abc
<1>11. abcd \in Seq(S)
  BY ONLY <1>1, <1>9, Joined
<1>12. /\ Has(abcd, Step("mailboxClient", "make", "mailbox"))
       /\ Has(abcd, Step("msgClient", "make", "create"))
       /\ Has(abcd, Step("channelClient", "make", "create"))
  BY ONLY <1>1, <1>5, <1>9, <1>10, HasJoined
<1> HIDE DEF abcd
<1>13. most \in Seq(S)
  BY ONLY <1>1, <1>11, Joined
<1>14. /\ Has(most, Step("mailboxClient", "make", "mailbox"))
       /\ Has(most, Step("msgClient", "make", "create"))
       /\ Has(most, Step("channelClient", "make", "create"))
  BY ONLY <1>1, <1>11, <1>12, HasJoined
<1> HIDE DEF most
<1>15. all \in Seq(S)
  BY ONLY <1>1, <1>13, Joined
<1>16. /\ Has(all, Step("mailboxClient", "make", "mailbox"))
       /\ Has(all, Step("msgClient", "make", "create"))
       /\ Has(all, Step("channelClient", "make", "create"))
  BY ONLY <1>1, <1>13, <1>14, HasJoined
<1> HIDE DEF all
<1>17. QED
  BY <1>6, <1>15, <1>16 DEF S

(* A script in which each step has its place, none about a proxy.            *)
Fresh(q) ==
  /\ InOrder(q)
  /\ \A i \in 1..Len(q) :
       /\ q[i].do \notin ProxyVerb \cup {"ready", "regist"}
       /\ q[i] = MakeMsg => i > 1 /\ q[i - 1] = MakeSeek

LEMMA OrdinaryFresh ==
  ASSUME NEW rel, NEW rdy, NEW q \in Seq(Ordinary(rel, rdy))
  PROVE  Fresh(q) /\ q \in Seq(Allowed(rel, rdy))
<1>1. \A i \in 1..Len(q) : q[i] \in Ordinary(rel, rdy)
  OBVIOUS
<1>2. \A i \in 1..Len(q) : q[i].do \notin {"ready", "regist"}
  BY <1>1 DEF Ordinary
<1>3. QED
  BY <1>2, Ordinaries DEF Fresh

LEMMA FreshJoined ==
  ASSUME NEW rel, NEW rdy, NEW p \in Seq(Allowed(rel, rdy)), Fresh(p),
         NEW q \in Seq(Ordinary(rel, rdy))
  PROVE  Fresh(p \o q) /\ p \o q \in Seq(Allowed(rel, rdy))
<1> DEFINE r == p \o q
<1>1. Fresh(q) /\ q \in Seq(Allowed(rel, rdy))
  BY OrdinaryFresh
<1>2. /\ Len(p) \in Nat /\ Len(q) \in Nat /\ Len(r) = Len(p) + Len(q)
      /\ r \in Seq(Allowed(rel, rdy))
      /\ \A i \in 1..Len(p) : r[i] = p[i]
      /\ \A i \in 1..Len(q) : r[Len(p) + i] = q[i]
  BY <1>1, Joined
<1>3. \A i \in 1..Len(q) : /\ q[i].do \notin {"regist", "ready"} \cup ProxyVerb
                           /\ q[i] # MakeSeek /\ q[i] # MakeMsg
  <2>1. \A i \in 1..Len(q) : q[i] \in Ordinary(rel, rdy)
    OBVIOUS
  <2>2. QED
    BY <2>1 DEF Ordinary
<1> HIDE DEF r
<1>4. ASSUME NEW i \in 1..Len(r)
      PROVE  /\ r[i].do \notin {"ready", "regist"}
             /\ r[i] = MakeSeek => i < Len(r) /\ r[i + 1] = MakeMsg
             /\ r[i].do \notin ProxyVerb
             /\ r[i] = MakeMsg => i > 1 /\ r[i - 1] = MakeSeek
  <2>1. CASE i \in 1..Len(p)
    <3>1. r[i] = p[i]
      BY <1>2, <2>1
    <3>2. p[i].do \notin ProxyVerb \cup {"ready", "regist"}
      BY <1>2, <2>1 DEF Fresh, InOrder
    <3>3. p[i] = MakeSeek => i + 1 \in 1..Len(p) /\ p[i + 1] = MakeMsg
      BY <1>2, <2>1 DEF Fresh, InOrder
    <3>4. p[i] = MakeMsg => i - 1 \in 1..Len(p) /\ p[i - 1] = MakeSeek
      BY <1>2, <2>1 DEF Fresh
    <3>5. QED
      BY <1>2, <2>1, <3>1, <3>2, <3>3, <3>4
  <2>2. CASE i > Len(p)
    <3>1. i - Len(p) \in 1..Len(q) /\ i = Len(p) + (i - Len(p))
      BY <1>2, <2>2
    <3>2. r[i] = q[i - Len(p)]
      BY <1>2, <3>1
    <3>3. QED
      BY <1>3, <3>1, <3>2
  <2>3. QED
    BY <1>2, <2>1, <2>2
<1>5. Fresh(r)
  BY <1>2, <1>4 DEF Fresh, InOrder
<1>6. QED
  BY <1>2, <1>5 DEF r

LEMMA LastAdded ==
  ASSUME NEW S, NEW p \in Seq(S), NEW e \in S
  PROVE  /\ Len(p) \in Nat /\ Len(p \o <<e>>) = Len(p) + 1 /\ p \o <<e>> \in Seq(S)
         /\ \A i \in 1..Len(p) : (p \o <<e>>)[i] = p[i]
         /\ (p \o <<e>>)[Len(p) + 1] = e
OBVIOUS

LEMMA InitScript ==
  /\ InitAll \in Seq(Allowed({}, FALSE)) /\ InOrder(InitAll)
  /\ \A i \in 1..Len(InitAll) : InitAll[i].do \notin ProxyVerb /\ InitAll[i] # MakeMsg
  /\ InitAll # <<>> /\ InitAll[1].do # "regist"
  /\ Has(InitAll, Step("mailboxClient", "make", "mailbox"))
  /\ Has(InitAll, Step("msgClient", "make", "create"))
  /\ Has(InitAll, Step("channelClient", "make", "create"))
<1> DEFINE p == Inits
           last == Do("", "ready")
           q == <<last>>
           r == p \o q
           S == Allowed({}, FALSE)
           O == Ordinary({}, FALSE)
<1>1. p \in Seq(O) /\ p \in Seq(S)
  BY InitsMake, OrdinaryFresh
<1>2. \A i \in 1..Len(p) : /\ p[i].do \notin {"regist", "ready"} \cup ProxyVerb
                           /\ p[i] # MakeSeek /\ p[i] # MakeMsg
  <2>1. \A st \in O : /\ st.do \notin {"regist", "ready"} \cup ProxyVerb
                      /\ st # MakeSeek /\ st # MakeMsg
    BY DEF Ordinary
  <2> HIDE DEF O, p
  <2>2. \A i \in 1..Len(p) : p[i] \in O
    BY ONLY <1>1
  <2>3. QED
    BY <2>1, <2>2
<1>3. last \in S /\ last.do = "ready" /\ last # MakeMsg /\ last # MakeSeek
  BY DEF Do, Step, PidStep, Allowed, AnyStep, Verb, ProxyVerb, Taking, MakeMsg, MakeSeek
<1>4. InitAll = r
  BY DEF InitAll, Inits
<1>5. /\ Has(p, Step("mailboxClient", "make", "mailbox"))
      /\ Has(p, Step("msgClient", "make", "create"))
      /\ Has(p, Step("channelClient", "make", "create"))
  BY InitsMake
<1>6. "ready" \notin ProxyVerb
  BY DEF ProxyVerb
<1> HIDE DEF p, last, S, O
<1>7. q \in Seq(S) /\ Len(q) = 1 /\ q[1] = last
  BY <1>3
<1> HIDE DEF q
<1>8. /\ Len(p) \in Nat /\ Len(r) = Len(p) + 1 /\ r \in Seq(S)
      /\ \A i \in 1..Len(p) : r[i] = p[i]
      /\ r[Len(p) + 1] = last
  BY ONLY <1>1, <1>3, LastAdded DEF q
<1>9. /\ Has(r, Step("mailboxClient", "make", "mailbox"))
      /\ Has(r, Step("msgClient", "make", "create"))
      /\ Has(r, Step("channelClient", "make", "create"))
  BY ONLY <1>1, <1>5, <1>7, HasJoined
<1> HIDE DEF r
<1>10. ASSUME NEW i \in 1..Len(r)
       PROVE  /\ r[i].do # "regist" /\ r[i].do \notin ProxyVerb
              /\ r[i] # MakeSeek /\ r[i] # MakeMsg
              /\ r[i].do = "ready" => i = Len(r)
  <2>1. CASE i = Len(p) + 1
    BY <1>3, <1>6, <1>8, <2>1
  <2>2. CASE i \in 1..Len(p)
    BY <1>2, <1>8, <2>2
  <2>3. QED
    BY <1>8, <2>1, <2>2
<1>11. InOrder(r) /\ r # <<>> /\ r[1].do # "regist"
  BY <1>8, <1>10 DEF InOrder
<1>12. QED
  BY <1>4, <1>8, <1>9, <1>10, <1>11 DEF S

LEMMA StartMailboxFresh ==
  /\ Fresh(StartMailboxService("mailboxService"))
  /\ StartMailboxService("mailboxService") \in Seq(Allowed({}, TRUE))
<1> DEFINE q == StartMailboxService("mailboxService")
           S == Allowed({}, TRUE)
           a == Step("mailboxService", "make", "mailbox")
           e == Do("mailboxService", "enable")
<1>1. q = <<a, MakeSeek, MakeMsg, e>>
  BY DEF StartMailboxService, MakeSeek, MakeMsg
<1>2. a \in S /\ MakeSeek \in S /\ MakeMsg \in S /\ e \in S
  BY DEF Do, Step, PidStep, Allowed, AnyStep, Verb, ProxyVerb, Taking, Asking, MakeMsg, MakeSeek,
     Svc, Protocol
<1>3. /\ a.do = "make" /\ e.do = "enable" /\ MakeSeek.do = "make" /\ MakeMsg.do = "make"
      /\ a \notin {MakeSeek, MakeMsg} /\ e \notin {MakeSeek, MakeMsg} /\ MakeSeek # MakeMsg
  BY DEF Do, Step, PidStep, MakeMsg, MakeSeek
<1> HIDE DEF S, a, e
<1>4. q \in Seq(S)
  BY ONLY <1>1, <1>2, Fours, Zenon
<1>5. Len(q) = 4 /\ q[1] = a /\ q[2] = MakeSeek /\ q[3] = MakeMsg /\ q[4] = e
  BY <1>1
<1> HIDE DEF q
<1>6. ASSUME NEW i \in 1..Len(q)
      PROVE  /\ q[i].do \in {"make", "enable"}
             /\ q[i] = MakeSeek => i = 2
             /\ q[i] = MakeMsg => i = 3
  BY <1>3, <1>5
<1>7. InOrder(q)
  BY <1>5, <1>6 DEF InOrder
<1>8. Fresh(q)
  <2>1. \A i \in 1..Len(q) : q[i].do \notin ProxyVerb \cup {"ready", "regist"}
    BY <1>6 DEF ProxyVerb
  <2>2. \A i \in 1..Len(q) : q[i] = MakeMsg => i > 1 /\ q[i - 1] = MakeSeek
    BY <1>5, <1>6
  <2>3. QED
    BY ONLY <1>7, <2>1, <2>2 DEF Fresh
<1>9. QED
  BY ONLY <1>4, <1>8, Zenon DEF q, S

LEMMA StartScript == Fresh(StartAll) /\ StartAll \in Seq(Allowed({}, TRUE))
<1> DEFINE S == Ordinary({}, TRUE)
           a == StartMailboxService("mailboxService")
           b == StartMsgService("msgService")
           c == StartChannelService("channelService")
           d == StartCustomService("customService")
           ab == a \o b
           abc == ab \o c
<1>1. Fresh(a) /\ a \in Seq(Allowed({}, TRUE))
  BY StartMailboxFresh
<1>2. b \in Seq(S) /\ c \in Seq(S)
  BY Hearing, SvcNames DEF StartMsgService, StartChannelService, Mailboxes, Asking
<1>3. /\ Step("customService", "make", "query") \in S
      /\ Do("customService", "queryTarget") \in S /\ Do("customService", "enable") \in S
  BY MakeStep, PlainStep, SvcNames DEF Asking
<1>4. StartAll = abc \o d
  BY DEF StartAll
<1> HIDE DEF S
<1>5. d \in Seq(S)
  BY ONLY <1>3, Triples, Zenon DEF StartCustomService
<1> HIDE DEF a, b, c, d
<1>6. Fresh(ab) /\ ab \in Seq(Allowed({}, TRUE))
  BY <1>1, <1>2, FreshJoined DEF S
<1> HIDE DEF ab
<1>7. Fresh(abc) /\ abc \in Seq(Allowed({}, TRUE))
  BY <1>2, <1>6, FreshJoined DEF S
<1> HIDE DEF abc
<1>8. QED
  BY <1>4, <1>5, <1>7, FreshJoined DEF S

LEMMA StopScripts ==
  ASSUME NEW rel
  PROVE  /\ StopMailboxService("mailboxService") \in Seq(Ordinary(rel, TRUE))
         /\ StopMsgService("msgService") \in Seq(Ordinary(rel, TRUE))
         /\ StopChannelService("channelService") \in Seq(Ordinary(rel, TRUE))
         /\ StopCustomService("customService") \in Seq(Ordinary(rel, TRUE))
<1> DEFINE S == Ordinary(rel, TRUE)
<1>1. /\ Do("mailboxService", "send") \in S /\ Do("mailboxService", "disable") \in S
      /\ Do("msgService", "disable") \in S /\ Do("channelService", "disable") \in S
      /\ Do("customService", "stopChan") \in S /\ Do("customService", "disable") \in S
  BY PlainStep, SvcNames
<1> HIDE DEF S
<1>2. StopMailboxService("mailboxService") \in Seq(S)
  BY ONLY <1>1, Pairs, Zenon DEF StopMailboxService
<1>3. StopMsgService("msgService") \in Seq(S)
  BY ONLY <1>1, Singly, Zenon DEF StopMsgService
<1>4. StopChannelService("channelService") \in Seq(S)
  BY ONLY <1>1, Singly, Zenon DEF StopChannelService
<1>5. StopCustomService("customService") \in Seq(S)
  BY ONLY <1>1, Pairs, Zenon DEF StopCustomService
<1>6. QED
  BY <1>2, <1>3, <1>4, <1>5 DEF S

LEMMA StopScript ==
  ASSUME NEW rel
  PROVE  StopAll \in Seq(Ordinary(rel, TRUE))
BY StopScripts, Joined DEF StopAll

LEMMA ReleaseScript ==
  ASSUME NEW s \in Svc, NEW rel, s \in rel
  PROVE  Release(s) \in Seq(Ordinary(rel, TRUE))
<1> DEFINE S == Ordinary(rel, TRUE)
<1>1. \A x \in Protocol : Step(s, "clear", x) \in S
  BY TakingStep, PidNames DEF Step, Taking
<1>2. \A x \in Protocol, pids \in SUBSET PID : Unregist(s, x, pids) \in S
  BY TakingStep DEF Unregist, Taking
<1>3. /\ Do(s, "leaveLight") \in S /\ Do(s, "closeChan") \in S /\ Do(s, "leaveQuery") \in S
      /\ s \in Mailboxes => Do(s, "leave") \in S
  BY TakingStep, PidNames DEF Do, Step, Taking
<1>4. Do(s, "disable") \in S
  BY PlainStep
<1>5. /\ \A x \in {"mailbox", "create", "seek", "msg", "query"} : Step(s, "clear", x) \in S
      /\ Unregist(s, "seek", {"seekReq"}) \in S /\ Unregist(s, "msg", {"msgReq"}) \in S
      /\ Unregist(s, "create", {}) \in S /\ Unregist(s, "msg", Pair["msg"]) \in S
      /\ Unregist(s, "query", Pair["query"]) \in S /\ Unregist(s, "query", {"queryRes"}) \in S
  BY <1>1, <1>2, SvcNames, PidNames
<1>6. /\ Step(s, "clear", "mailbox") \in S /\ Step(s, "clear", "create") \in S
      /\ Step(s, "clear", "seek") \in S /\ Step(s, "clear", "msg") \in S
      /\ Step(s, "clear", "query") \in S
  BY <1>5
<1> HIDE DEF S
<1>7. CASE s = "mailboxService"
  <2>1. /\ StopMailboxService(s) \in Seq(S)
        /\ Do(s, "leave") \in S
    BY <1>3, <1>7, StopScripts DEF S, Mailboxes
  <2>2. <<Step(s, "clear", "mailbox"),
          Unregist(s, "seek", {"seekReq"}), Step(s, "clear", "seek"),
          Unregist(s, "msg", {"msgReq"}), Step(s, "clear", "msg"),
          Do(s, "leave"), Do(s, "closeChan")>> \in Seq(S)
    BY ONLY <1>3, <1>5, <1>6, <2>1, Sevens, Zenon
  <2>3. ReleaseMailboxService(s) \in Seq(S)
    BY ONLY <2>1, <2>2, Joined, Zenon DEF ReleaseMailboxService
  <2>4. QED
    BY <1>7, <2>3 DEF Release, S
<1>8. CASE s = "mailboxClient"
  <2>1. Do(s, "leave") \in S
    BY <1>3, <1>8 DEF Mailboxes
  <2>2. ReleaseMailboxClient(s) \in Seq(S)
    BY ONLY <1>5, <1>6, <2>1, Fours, Zenon DEF ReleaseMailboxClient
  <2>3. QED
    BY <1>8, <2>2 DEF Release, S
<1>9. CASE s = "msgService"
  <2>1. ReleaseMsgService(s) \in Seq(S)
    BY ONLY <1>4, <1>5, <1>6, Fours, Zenon DEF ReleaseMsgService
  <2>2. QED
    BY <1>9, <2>1 DEF Release, S
<1>10. CASE s = "msgClient"
  <2>1. ReleaseMsgClient(s) \in Seq(S)
    BY ONLY <1>4, <1>5, <1>6, Fours, Zenon DEF ReleaseMsgClient
  <2>2. QED
    BY <1>10, <2>1 DEF Release, S
<1>11. CASE s \in {"channelService", "channelClient"}
  <2>1. ReleaseChannel(s) \in Seq(S)
    BY ONLY <1>3, <1>4, <1>5, <1>6, Fives, Zenon DEF ReleaseChannel
  <2>2. QED
    BY <1>11, <2>1 DEF Release, ReleaseChannelService, ReleaseChannelClient, S
<1>12. CASE s = "customService"
  <2>1. <<Unregist(s, "query", Pair["query"]), Step(s, "clear", "query")>> \in Seq(S)
    BY ONLY <1>5, <1>6, Pairs, Zenon
  <2>2. StopCustomService(s) \in Seq(S)
    BY <1>12, StopScripts DEF S
  <2>3. <<Do(s, "leaveQuery")>> \in Seq(S)
    BY ONLY <1>3, Singly, Zenon
  <2>4. ReleaseCustomService(s) \in Seq(S)
    BY ONLY <2>1, <2>2, <2>3, Joined, Zenon DEF ReleaseCustomService
  <2>5. QED
    BY <1>12, <2>4 DEF Release, S
<1>13. CASE s = "customClient"
  <2>1. ReleaseCustomClient(s) \in Seq(S)
    BY ONLY <1>3, <1>5, <1>6, Triples, Zenon DEF ReleaseCustomClient
  <2>2. QED
    BY <1>13, <2>1 DEF Release, S
<1>14. QED
  BY <1>7, <1>8, <1>9, <1>10, <1>11, <1>12, <1>13 DEF Svc

LEMMA ProxyScripts ==
  ASSUME NEW s \in Clients, NEW rel
  PROVE  /\ SetProxy(s) \in Seq(Allowed(rel, TRUE)) /\ InOrder(SetProxy(s))
         /\ Len(SetProxy(s)) = 2 /\ SetProxy(s)[1] = Do(s, "join")
         /\ SetProxy(s)[2] = Joining(s)
         /\ ClearProxy(s) \in Seq(Allowed(rel, TRUE)) /\ InOrder(ClearProxy(s))
         /\ Len(ClearProxy(s)) = 1 /\ ClearProxy(s)[1] = Do(s, "leaveProxy")
<1> DEFINE S == Allowed(rel, TRUE)
<1>1. Do(s, "join") \in S /\ Joining(s) \in S /\ Do(s, "leaveProxy") \in S
  BY DEF Do, Step, PidStep, Allowed, AnyStep, Verb, Taking, Clients, Svc, Joining
<1>2. /\ Do(s, "join").do = "join" /\ Joining(s).do \in {"keep", "create"}
      /\ Do(s, "leaveProxy").do = "leaveProxy"
      /\ Do(s, "join") # MakeSeek /\ Joining(s) # MakeSeek
      /\ Do(s, "leaveProxy") # MakeSeek
  BY DEF Do, Step, PidStep, MakeSeek, Joining
<1>3. SetProxy(s) = <<Do(s, "join"), Joining(s)>> /\ ClearProxy(s) = <<Do(s, "leaveProxy")>>
  BY DEF SetProxy, ClearProxy, Joining
<1> HIDE DEF S
<1>4. SetProxy(s) \in Seq(S) /\ ClearProxy(s) \in Seq(S)
  BY ONLY <1>1, <1>3, Pairs, Singly, Zenon
<1>5. /\ Len(SetProxy(s)) = 2 /\ SetProxy(s)[1] = Do(s, "join") /\ SetProxy(s)[2] = Joining(s)
      /\ Len(ClearProxy(s)) = 1 /\ ClearProxy(s)[1] = Do(s, "leaveProxy")
  BY <1>3
<1>6. InOrder(SetProxy(s)) /\ InOrder(ClearProxy(s))
  <2>1. ASSUME NEW i \in 1..Len(SetProxy(s))
        PROVE  SetProxy(s)[i].do \in {"join", "keep", "create"} /\ SetProxy(s)[i] # MakeSeek
    <3>1. i = 1 \/ i = 2
      BY <1>5
    <3>2. QED
      BY ONLY <1>2, <1>5, <3>1
  <2>2. ASSUME NEW i \in 1..Len(ClearProxy(s))
        PROVE  ClearProxy(s)[i].do = "leaveProxy" /\ ClearProxy(s)[i] # MakeSeek
    <3>1. i = 1
      BY <1>5
    <3>2. QED
      BY ONLY <1>2, <1>5, <3>1
  <2>3. QED
    BY <1>5, <2>1, <2>2 DEF InOrder
<1>7. QED
  BY <1>4, <1>5, <1>6 DEF S

-----------------------------------------------------------------------------
(* The steps *)

LEMMA StepAt ==
  ASSUME ScriptInv, NEW s, NEW do, At(s, do)
  PROVE  /\ todo # <<>> /\ crashed = NoCrash
         /\ Len(todo) \in Nat \ {0} /\ Head(todo) = todo[1]
         /\ Head(todo) \in Allowed(released, ready) /\ Head(todo) \in AnyStep
         /\ Head(todo).s = s /\ Head(todo).do = do
         /\ Arg \in Protocol \cup {"none"} /\ Pids \in SUBSET PID
         /\ Head(todo) = PidStep(s, do, Arg, Pids)
<1>1. todo # <<>> /\ crashed = NoCrash /\ Head(todo).s = s /\ Head(todo).do = do
  BY DEF At
<1>2. /\ Len(todo) \in Nat \ {0} /\ Head(todo) = todo[1]
      /\ Head(todo) \in Allowed(released, ready)
  BY <1>1, TailOf DEF ScriptInv
<1>3. Head(todo) \in AnyStep
  BY <1>2 DEF Allowed
<1>4. Arg \in Protocol \cup {"none"} /\ Pids \in SUBSET PID
  BY <1>3 DEF Arg, Pids, AnyStep
<1>5. Head(todo) = PidStep(s, do, Arg, Pids)
  BY <1>1, <1>3 DEF Arg, Pids, AnyStep, PidStep
<1>6. QED
  BY <1>1, <1>2, <1>3, <1>4, <1>5

(* What the services make is registered, and answered, under known names.    *)
LEMMA Names ==
  ASSUME NEW s \in Svc, NEW x \in Protocol
  PROVE  /\ Registers(s, x) \in SUBSET PID /\ Answers(s, x) \in SUBSET Stream
         /\ s = "mailboxService" /\ x = "mailbox" => Registers(s, x) = {}
         /\ s = "mailboxClient" /\ x = "mailbox" => Registers(s, x) = {}
<1>1. {"seekRes"} \in SUBSET PID
  BY DEF PID, Pair
<1>2. Registers(s, x) \in SUBSET PID
  BY <1>1, PidNames DEF Registers
<1>3. Answers(s, x) \in SUBSET Stream
  BY DEF Answers, Stream
<1>4. QED
  BY <1>2, <1>3 DEF Registers

(* Steps that make no protocol leave the script, or the rest of it, or drop  *)
(* it; each part of the state has a few steps that change it.                *)
LEMMA StepFrame ==
  ASSUME NEW s \in Svc, AppStep(s)
  PROVE  /\ todo # <<>> /\ crashed = NoCrash /\ Head(todo).s = s
         /\ UNCHANGED <<ready, released, calls>>
         /\ \/ Make(s)
            \/ /\ todo' \in {todo, Tail(todo), <<>>} /\ UNCHANGED responder
               /\ Head(todo).do \notin {"make", "ready"}
         /\ Make(s) \/ Clear(s) \/ UNCHANGED fields
         /\ \/ RegistPubsubProtocol(s) \/ UnregistPubsubProtocol(s)
            \/ UNCHANGED handles /\ Head(todo).do # "regist"
         /\ CloseStop(s) \/ UNCHANGED chanClosed
         /\ UnregistPubsubProtocol(s) \/ SendStop(s) \/ LeaveQuery(s) \/ UNCHANGED crashed
         /\ QueryTarget(s) \/ LeaveQuery(s) \/ UNCHANGED query
         /\ \/ ListenToUser(s) \/ SubscribeLightUser(s) \/ UnsubscribeUser(s)
            \/ UnsubscribeLightUser(s) \/ UNCHANGED <<user, stray>>
         /\ \/ JoinProxy(s) \/ KeepProxy(s) \/ CreateProxy(s) \/ LeaveProxy(s)
            \/ UNCHANGED proxied /\ Head(todo).do \notin ProxyVerb
         /\ \/ ListenToUser(s) \/ QueryTarget(s) \/ SendStopService(s)
            \/ UNCHANGED consumer
         /\ \/ ListenToUser(s) \/ UnsubscribeUser(s) \/ UnsubscribeLightUser(s)
            \/ QueryTarget(s) \/ LeaveQuery(s) \/ JoinProxy(s) \/ CreateProxy(s)
            \/ LeaveProxy(s) \/ UNCHANGED topicRef
<1> USE DEF At, GoOn, Error, Nil, ProxyVerb
<1>1. CASE Make(s) \/ Clear(s)
  BY <1>1 DEF Make, Clear
<1>2. CASE RegistPubsubProtocol(s) \/ UnregistPubsubProtocol(s)
  <2>1. /\ todo # <<>> /\ crashed = NoCrash /\ Head(todo).s = s
        /\ todo' \in {todo, Tail(todo)}
        /\ Head(todo).do \in {"regist", "unregist"}
        /\ UnregistPubsubProtocol(s) \/ UNCHANGED crashed
        /\ UNCHANGED <<ready, fields, responder, user, topicRef, consumer, enable,
                       query, proxied, chanClosed, released, stray, calls>>
    BY <1>2 DEF RegistPubsubProtocol, UnregistPubsubProtocol
  <2>2. /\ Head(todo).do \notin {"make", "ready"} /\ Head(todo).do \notin ProxyVerb
        /\ todo' \in {todo, Tail(todo), <<>>}
    BY ONLY <2>1 DEF ProxyVerb
  <2>3. QED
    BY ONLY <1>2, <2>1, <2>2
<1>3. CASE ListenToUser(s) \/ SubscribeLightUser(s)
  BY <1>3 DEF ListenToUser, SubscribeLightUser
<1>4. CASE UnsubscribeUser(s) \/ UnsubscribeLightUser(s)
  BY <1>4 DEF UnsubscribeUser, UnsubscribeLightUser
<1>5. CASE OpenDatastore(s) \/ SetEnable(s) \/ ClearEnable(s)
  BY <1>5 DEF OpenDatastore, SetEnable, ClearEnable
<1>6. CASE SendStop(s) \/ CloseStop(s)
  BY <1>6 DEF SendStop, CloseStop
<1>7. CASE QueryTarget(s) \/ SendStopService(s) \/ LeaveQuery(s)
  BY <1>7 DEF QueryTarget, SendStopService, LeaveQuery
<1>8. CASE JoinProxy(s) \/ KeepProxy(s)
  BY <1>8 DEF JoinProxy, KeepProxy
<1>9. CASE CreateProxy(s) \/ LeaveProxy(s)
  BY <1>9 DEF CreateProxy, LeaveProxy
<1>10. QED
  BY <1>1, <1>2, <1>3, <1>4, <1>5, <1>6, <1>7, <1>8, <1>9 DEF AppStep

LEMMA OrderTail ==
  ASSUME NEW S, NEW q \in Seq(S), q # <<>>, InOrder(q)
  PROVE  /\ InOrder(Tail(q))
         /\ Tail(q) # <<>> => Head(Tail(q)).do # "regist"
<1>1. /\ Tail(q) \in Seq(S) /\ Len(Tail(q)) = Len(q) - 1 /\ Len(q) \in Nat \ {0}
      /\ \A i \in 1..Len(q) - 1 : Tail(q)[i] = q[i + 1]
  BY TailOf
<1> DEFINE r == Tail(q)
<1> HIDE DEF r
<1>2. r \in Seq(S) /\ Len(r) = Len(q) - 1 /\ \A i \in 1..Len(r) : r[i] = q[i + 1]
  BY <1>1 DEF r
<1>3. ASSUME NEW i \in 1..Len(r)
      PROVE  /\ r[i].do # "regist"
             /\ r[i].do = "ready" => i = Len(r)
             /\ r[i] = MakeSeek => i < Len(r) /\ r[i + 1] = MakeMsg
  <2>1. i + 1 \in 2..Len(q) /\ r[i] = q[i + 1]
    BY <1>1, <1>2
  <2>2. /\ q[i + 1].do # "regist"
        /\ q[i + 1].do = "ready" => i + 1 = Len(q)
        /\ q[i + 1] = MakeSeek => i + 1 < Len(q) /\ q[i + 1 + 1] = MakeMsg
    <3>1. i + 1 \in 2..Len(q) /\ i + 1 \in 1..Len(q)
      BY <1>1, <2>1
    <3>2. QED
      BY ONLY <3>1, InOrder(q) DEF InOrder
  <2>3. q[i + 1] = MakeSeek => i + 1 \in 1..Len(r) /\ r[i + 1] = MakeMsg
    <3>1. Len(q) \in Nat /\ Len(r) \in Nat /\ Len(r) = Len(q) - 1 /\ i \in Nat /\ i >= 1
      BY <1>1, <1>2
    <3>2. i + 1 < Len(q) => i + 1 \in 1..Len(r)
      BY ONLY <3>1
    <3>3. i + 1 \in 1..Len(r) => r[i + 1] = q[i + 1 + 1]
      BY <1>2
    <3>4. QED
      BY ONLY <2>2, <3>2, <3>3
  <2>4. /\ i + 1 = Len(q) => i = Len(r)
        /\ i + 1 \in 1..Len(r) => i < Len(r)
    <3>1. Len(q) \in Nat /\ Len(r) \in Nat /\ Len(r) = Len(q) - 1 /\ i \in Nat
      BY <1>1, <1>2
    <3>2. QED
      BY ONLY <3>1
  <2>5. QED
    BY ONLY <2>1, <2>2, <2>3, <2>4
<1>4. InOrder(r)
  BY <1>3 DEF InOrder
<1>5. r # <<>> => 1 \in 1..Len(r) /\ Head(r) = r[1]
  BY <1>2
<1>6. QED
  BY <1>3, <1>4, <1>5 DEF r

LEMMA OrderAhead ==
  ASSUME NEW S, NEW q \in Seq(S), q # <<>>, InOrder(q), NEW e \in S, e.do = "regist"
  PROVE  InOrder(<<e>> \o Tail(q))
<1> DEFINE r == <<e>> \o Tail(q)
<1>1. /\ r \in Seq(S) /\ Len(r) = Len(q) /\ r[1] = e
      /\ \A i \in 2..Len(q) : r[i] = q[i]
  BY Ahead
<1>2. Len(q) \in Nat \ {0} /\ e # MakeSeek
  BY DEF MakeSeek, Step, PidStep
<1> HIDE DEF r
<1>3. ASSUME NEW i \in 1..Len(r)
      PROVE  /\ i > 1 => r[i].do # "regist"
             /\ r[i].do = "ready" => i = Len(r)
             /\ r[i] = MakeSeek => i < Len(r) /\ r[i + 1] = MakeMsg
  <2>1. CASE i = 1
    BY <1>1, <1>2, <2>1
  <2>2. CASE i # 1
    <3>1. i \in 2..Len(q) /\ i \in 1..Len(q) /\ r[i] = q[i]
      BY <1>1, <1>2, <2>2
    <3>2. q[i] = MakeSeek => i + 1 \in 2..Len(q) /\ q[i + 1] = MakeMsg
      BY <1>2, <3>1 DEF InOrder
    <3>3. QED
      BY <1>1, <3>1, <3>2 DEF InOrder
  <2>3. QED
    BY <2>1, <2>2
<1>4. QED
  BY <1>1, <1>2, <1>3 DEF InOrder, r

(* What the steps, the calls and the goroutines are, for the lemmas below.   *)
Calls == (\E s \in Svc : CallRelease(s)) \/ CallStart \/ CallStop
           \/ \E s \in Clients : CallSetProxy(s) \/ CallClearProxy(s)
Consumes == \E s \in Svc : (\E p \in handles[s] : Lookup(s, p)) \/ Use(s) \/ ConsumerEnds(s)

LEMMA ServicesCases ==
  ASSUME ServicesNext
  PROVE  (\E s \in Svc : AppStep(s)) \/ Calls \/ Ready \/ QueryPeer \/ Consumes
BY DEF ServicesNext, Calls, Consumes

LEMMA CallFrame ==
  ASSUME Calls
  PROVE  /\ ready /\ todo = <<>> /\ crashed = NoCrash /\ calls < MaxCalls
         /\ calls' = calls + 1
         /\ UNCHANGED <<ready, fields, handles, responder, user, topicRef, consumer,
                        enable, query, proxied, chanClosed, stray, crashed>>
         /\ \/ released = {} /\ todo' = StartAll /\ UNCHANGED released
            \/ todo' = StopAll /\ UNCHANGED released
            \/ \E s \in Svc : todo' = Release(s) /\ released' = released \cup {s}
            \/ \E s \in Clients \ proxied : todo' = SetProxy(s) /\ UNCHANGED released
            \/ \E s \in Clients \cap proxied : todo' = ClearProxy(s) /\ UNCHANGED released
<1> USE DEF Call, MayCall, Idle
<1>1. CASE CallStart \/ CallStop
  BY <1>1 DEF CallStart, CallStop
<1>2. CASE \E s \in Svc : CallRelease(s)
  BY <1>2 DEF CallRelease
<1>3. CASE \E s \in Clients : CallSetProxy(s)
  BY <1>3 DEF CallSetProxy
<1>4. CASE \E s \in Clients : CallClearProxy(s)
  BY <1>4 DEF CallClearProxy
<1>5. QED
  BY <1>1, <1>2, <1>3, <1>4 DEF Calls

LEMMA ConsumerFrame ==
  ASSUME Consumes
  PROVE  /\ crashed = NoCrash
         /\ UNCHANGED <<todo, ready, fields, handles, responder, user, topicRef,
                        enable, query, proxied, chanClosed, released, stray, calls>>
BY DEF Consumes, Lookup, Use, ConsumerEnds

LEMMA NoneLeft ==
  ASSUME NEW S, NEW q \in Seq(S), Len(q) = 0
  PROVE  q = <<>>
OBVIOUS

LEMMA ReadyFrame ==
  ASSUME ScriptInv, OrderInv, Ready
  PROVE  /\ todo # <<>> /\ todo' = <<>> /\ ready' = TRUE /\ crashed = NoCrash
         /\ Head(todo).do = "ready" /\ Len(todo) = 1 /\ Head(todo) = todo[1]
         /\ UNCHANGED <<fields, handles, responder, user, topicRef, consumer, enable,
                        query, proxied, chanClosed, released, stray, calls, crashed>>
<1>1. At("", "ready")
  BY DEF Ready
<1>2. /\ todo # <<>> /\ Len(todo) \in Nat \ {0} /\ Head(todo) = todo[1]
      /\ Head(todo).do = "ready" /\ crashed = NoCrash
  BY <1>1, StepAt
<1>3. Len(todo) = 1
  <2>1. \A i \in 1..Len(todo) : todo[i].do = "ready" => i = Len(todo)
    BY DEF OrderInv, InOrder
  <2>2. 1 \in 1..Len(todo) /\ todo[1].do = "ready"
    BY <1>2
  <2>3. QED
    BY ONLY <2>1, <2>2
<1>4. Tail(todo) = <<>>
  <2>1. Tail(todo) \in Seq(Allowed(released, ready)) /\ Len(Tail(todo)) = 0
    BY <1>2, <1>3, TailOf DEF ScriptInv
  <2>2. QED
    BY <2>1, NoneLeft
<1>5. QED
  BY <1>2, <1>3, <1>4 DEF Ready, GoOn

LEMMA ScriptStays ==
  ASSUME ServicesTypeOK, ScriptInv, OrderInv, ServicesNext
  PROVE  ScriptInv' /\ OrderInv'
<1>0. \A S : <<>> \in Seq(S)
  OBVIOUS
<1>1. ASSUME NEW s \in Svc, AppStep(s)
      PROVE  ScriptInv' /\ OrderInv'
  <2> DEFINE S == Allowed(released, ready)
  <2>1. todo # <<>> /\ UNCHANGED <<ready, released>> /\ todo \in Seq(S)
    BY <1>1, StepFrame DEF ScriptInv
  <2>2. InOrder(todo)
    BY DEF OrderInv
  <2>3. CASE todo' \in {todo, Tail(todo), <<>>}
    <3>1. InOrder(<<>>)
      BY DEF InOrder
    <3>2. Tail(todo) \in Seq(S) /\ InOrder(Tail(todo))
      BY ONLY <2>1, <2>2, TailOf, OrderTail
    <3>3. todo' \in Seq(S) /\ InOrder(todo')
      BY ONLY <1>0, <2>1, <2>2, <2>3, <3>1, <3>2
    <3>4. QED
      BY <2>1, <3>3 DEF ScriptInv, OrderInv, InOrder
  <2>4. CASE Make(s)
    <3> DEFINE e == PidStep(s, "regist", Arg, Registers(s, Arg))
    <3>1. At(s, "make") /\ todo' \in {Tail(todo), <<e>> \o Tail(todo)}
      BY <2>4 DEF Make, GoOn
    <3>2. Arg \in Protocol
      BY <3>1, StepAt DEF Allowed, Arg
    <3>3. e \in S /\ e.do = "regist"
      <4>1. Registers(s, Arg) \in SUBSET PID
        BY <3>2, Names
      <4>2. QED
        BY <3>2, <4>1 DEF Allowed, AnyStep, Verb, ProxyVerb, PidStep, Taking
    <3> HIDE DEF S, e
    <3>4. <<e>> \o Tail(todo) \in Seq(S) /\ InOrder(<<e>> \o Tail(todo))
      BY ONLY <2>1, <2>2, <3>3, Ahead, OrderAhead
    <3>5. CASE todo' = <<e>> \o Tail(todo)
      BY <2>1, <3>4, <3>5 DEF ScriptInv, OrderInv, InOrder, S
    <3>6. QED
      BY <2>3, <3>1, <3>5
  <2>5. QED
    BY <1>1, <2>3, <2>4, StepFrame
<1>2. CASE Calls
  <2>1. ready = TRUE /\ ready' = TRUE
    BY <1>2, CallFrame DEF ServicesTypeOK
  <2>2. CASE released = {} /\ todo' = StartAll /\ UNCHANGED released
    BY <2>1, <2>2, StartScript DEF ScriptInv, OrderInv, Fresh, InOrder
  <2>3. ASSUME NEW q \in Seq(Ordinary(released', TRUE)), todo' = q
        PROVE  ScriptInv' /\ OrderInv'
    <3>1. q \in Seq(Allowed(released', TRUE)) /\ InOrder(q)
      BY Ordinaries
    <3>2. QED
      BY <2>1, <2>3, <3>1 DEF ScriptInv, OrderInv, InOrder
  <2>4. CASE todo' = StopAll /\ UNCHANGED released
    BY <2>3, <2>4, StopScript
  <2>5. CASE \E s \in Svc : todo' = Release(s) /\ released' = released \cup {s}
    <3>1. PICK s \in Svc : todo' = Release(s) /\ released' = released \cup {s}
      BY <2>5
    <3>2. Release(s) \in Seq(Ordinary(released', TRUE))
      BY <3>1, ReleaseScript
    <3>3. QED
      BY <2>3, <3>1, <3>2
  <2>6. CASE \E s \in Clients : /\ todo' \in {SetProxy(s), ClearProxy(s)}
                                /\ UNCHANGED released
    <3>1. PICK s \in Clients : todo' \in {SetProxy(s), ClearProxy(s)} /\ UNCHANGED released
      BY <2>6
    <3>2. todo' \in Seq(Allowed(released, TRUE)) /\ InOrder(todo')
      BY <3>1, ProxyScripts
    <3>3. QED
      BY <2>1, <3>1, <3>2 DEF ScriptInv, OrderInv, InOrder
  <2>7. QED
    BY <1>2, <2>2, <2>4, <2>5, <2>6, CallFrame
<1>3. CASE Ready
  <2>1. todo' = <<>>
    BY <1>3, ReadyFrame
  <2>2. QED
    BY <2>1, <1>0 DEF ScriptInv, OrderInv, InOrder
<1>4. CASE QueryPeer \/ Consumes
  <2>1. UNCHANGED <<todo, ready, released>>
    BY <1>4, ConsumerFrame DEF QueryPeer, Nil
  <2>2. QED
    BY <2>1 DEF ScriptInv, OrderInv, InOrder
<1>5. QED
  BY <1>1, <1>2, <1>3, <1>4, ServicesCases

LEMMA TypesStay ==
  ASSUME ServicesTypeOK, ScriptInv, OrderInv, ServicesNext
  PROVE  ServicesTypeOK'
<1> USE DEF ServicesTypeOK
<1>0. calls' \in 0..MaxCalls
  <2>1. MaxCalls \in Nat
    BY CallAssumption
  <2>2. CASE Calls
    BY <2>1, <2>2, CallFrame
  <2>3. CASE QueryPeer
    BY <2>1, <2>3 DEF QueryPeer, MayCall
  <2>4. CASE Ready \/ Consumes
    BY <2>4, ConsumerFrame DEF Ready
  <2>5. CASE \E s \in Svc : AppStep(s)
    BY <2>5, StepFrame
  <2>6. QED
    BY <2>2, <2>3, <2>4, <2>5, ServicesCases
<1>1. ASSUME NEW s \in Svc, AppStep(s)
      PROVE  ServicesTypeOK'
  <2>1. UNCHANGED <<ready, released>>
    BY <1>1, StepFrame
  <2>2. CASE Make(s)
    <3>1. Arg \in Protocol
      BY <2>2, StepAt DEF Make, Allowed, Arg
    <3>2. fields' \in [Svc -> SUBSET Protocol]
      BY <2>2, <3>1 DEF Make
    <3>3. responder' \in [Stream -> Svc \cup {"none"}]
      BY <2>2 DEF Make
    <3>4. QED
      BY <1>0, <2>1, <2>2, <3>2, <3>3 DEF Make
  <2>3. CASE Clear(s)
    <3>1. fields' \in [Svc -> SUBSET Protocol]
      BY <2>3 DEF Clear
    <3>2. QED
      BY <1>0, <2>1, <2>3, <3>1 DEF Clear
  <2>4. CASE RegistPubsubProtocol(s) \/ UnregistPubsubProtocol(s)
    <3>1. Pids \in SUBSET PID
      BY <2>4, StepAt DEF RegistPubsubProtocol, UnregistPubsubProtocol
    <3>2. handles' \in [Svc -> SUBSET PID]
      BY <2>4, <3>1 DEF RegistPubsubProtocol, UnregistPubsubProtocol
    <3>3. QED
      BY <1>0, <2>1, <2>4, <3>2 DEF RegistPubsubProtocol, UnregistPubsubProtocol
  <2>5. CASE ListenToUser(s) \/ SubscribeLightUser(s) \/ UnsubscribeUser(s)
               \/ UnsubscribeLightUser(s)
    <3>1. user' \in [Svc -> {"nil", "light", "listens"}] /\ stray' \in Nat
      BY <2>5 DEF ListenToUser, SubscribeLightUser, UnsubscribeUser, UnsubscribeLightUser
    <3>2. topicRef' \in [Topic -> Nat]
      BY <2>5 DEF ListenToUser, SubscribeLightUser, UnsubscribeUser, UnsubscribeLightUser,
         JoinTopic, Leave
    <3>3. consumer' \in [Svc -> {"none", "select"} \cup PID]
      BY <2>5 DEF ListenToUser, SubscribeLightUser, UnsubscribeUser, UnsubscribeLightUser
    <3>4. UNCHANGED <<fields, handles, responder, enable, query, proxied, chanClosed>>
      BY <2>5 DEF ListenToUser, SubscribeLightUser, UnsubscribeUser, UnsubscribeLightUser
    <3>5. QED
      BY <1>0, <2>1, <3>1, <3>2, <3>3, <3>4
  <2>6. CASE QueryTarget(s) \/ SendStopService(s) \/ LeaveQuery(s)
    <3>1. query' \in {"nil", "target", "joined", "closed"}
      BY <2>6 DEF QueryTarget, SendStopService, LeaveQuery
    <3>2. topicRef' \in [Topic -> Nat]
      BY <2>6 DEF QueryTarget, SendStopService, LeaveQuery, JoinTopic, Leave
    <3>3. consumer' \in [Svc -> {"none", "select"} \cup PID]
      BY <2>6 DEF QueryTarget, SendStopService, LeaveQuery
    <3>4. UNCHANGED <<fields, handles, responder, user, enable, proxied, chanClosed, stray>>
      BY <2>6 DEF QueryTarget, SendStopService, LeaveQuery
    <3>5. QED
      BY <1>0, <2>1, <3>1, <3>2, <3>3, <3>4
  <2>7. CASE OpenDatastore(s) \/ SetEnable(s) \/ ClearEnable(s) \/ SendStop(s) \/ CloseStop(s)
    <3>1. enable' \subseteq Svc /\ chanClosed' \in BOOLEAN
      BY <2>7 DEF OpenDatastore, SetEnable, ClearEnable, SendStop, CloseStop
    <3>2. UNCHANGED <<fields, handles, responder, user, topicRef, consumer, query, proxied,
                      stray>>
      BY <2>7 DEF OpenDatastore, SetEnable, ClearEnable, SendStop, CloseStop
    <3>3. QED
      BY <1>0, <2>1, <3>1, <3>2
  <2>8. CASE JoinProxy(s) \/ KeepProxy(s) \/ CreateProxy(s) \/ LeaveProxy(s)
    <3>1. s \in Clients
      BY <2>8, StepAt DEF JoinProxy, KeepProxy, CreateProxy, LeaveProxy, Allowed, ProxyVerb
    <3>2. proxied' \subseteq Clients
      BY <2>8, <3>1 DEF JoinProxy, KeepProxy, CreateProxy, LeaveProxy
    <3>3. topicRef' \in [Topic -> Nat]
      BY <2>8 DEF JoinProxy, KeepProxy, CreateProxy, LeaveProxy, JoinTopic, Leave
    <3>4. UNCHANGED <<fields, handles, responder, user, consumer, enable, query, chanClosed,
                      stray>>
      BY <2>8 DEF JoinProxy, KeepProxy, CreateProxy, LeaveProxy
    <3>5. QED
      BY <1>0, <2>1, <3>2, <3>3, <3>4
  <2>9. QED
    BY <1>1, <2>2, <2>3, <2>4, <2>5, <2>6, <2>7, <2>8 DEF AppStep
<1>2. CASE Calls
  BY <1>0, <1>2, CallFrame
<1>3. CASE Ready
  BY <1>0, <1>3, ReadyFrame
<1>4. CASE QueryPeer
  BY <1>0, <1>4 DEF QueryPeer
<1>5. CASE Consumes
  <2>1. consumer' \in [Svc -> {"none", "select"} \cup PID]
    BY <1>5 DEF Consumes, Lookup, Use, ConsumerEnds
  <2>2. QED
    BY <1>0, <1>5, <2>1, ConsumerFrame
<1>6. QED
  BY <1>1, <1>2, <1>3, <1>4, <1>5, ServicesCases

(* A nil pointer is met where the steps say, and nothing happens after.      *)
LEMMA CausesStay ==
  ASSUME ServicesTypeOK, ScriptInv, OrderInv, MadeInv, CrashHasCause, ServicesNext
  PROVE  CrashHasCause'
<1>1. ASSUME NEW s \in Svc, AppStep(s)
      PROVE  CrashHasCause'
  <2>1. crashed = NoCrash /\ released' = released
    BY <1>1, StepFrame
  <2>2. CASE UNCHANGED crashed
    BY <2>1, <2>2 DEF CrashHasCause
  <2>3. CASE UnregistPubsubProtocol(s) \/ LeaveQuery(s)
    <3>1. s \in released
      BY <2>3, StepAt DEF UnregistPubsubProtocol, LeaveQuery, Allowed, Taking
    <3>2. QED
      BY <2>1, <3>1 DEF CrashHasCause
  <2>4. CASE SendStop(s)
    <3>1. crashed' # NoCrash => chanClosed
      BY <2>1, <2>4 DEF SendStop, GoOn
    <3>2. chanClosed => released # {}
      BY DEF MadeInv
    <3>3. QED
      BY <2>1, <3>1, <3>2 DEF CrashHasCause
  <2>5. QED
    BY <1>1, <2>2, <2>3, <2>4, StepFrame
<1>2. CASE Calls \/ Ready
  BY <1>2, CallFrame, ReadyFrame DEF CrashHasCause
<1>3. CASE QueryPeer
  BY <1>3 DEF QueryPeer, Nil, CrashHasCause
<1>4. CASE Consumes
  <2>1. crashed = NoCrash /\ UNCHANGED <<released, todo>>
    BY <1>4, ConsumerFrame
  <2>2. SUFFICES ASSUME crashed' # NoCrash, released = {}
                 PROVE  /\ crashed' = <<"mailboxService", "msg">>
                        /\ todo # <<>> /\ Head(todo) = MakeMsg
    BY <2>1 DEF CrashHasCause, MakeMsg
  <2>3. PICK s \in Svc : Use(s)
    BY <1>4, <2>1, <2>2 DEF Consumes, Lookup, ConsumerEnds
  <2>4. /\ consumer[s] \in PID
        /\ \E f \in Needs[s] \ fields[s] : crashed' = <<s, f>>
    BY <2>1, <2>2, <2>3 DEF Use, ServicesTypeOK
  <2>5. PICK f \in Needs[s] \ fields[s] : crashed' = <<s, f>>
    BY <2>4
  <2>6. Complete(s, 1)
    BY <2>2, <2>4 DEF MadeInv
  <2>7. \/ s = "mailboxService" /\ f \in {"seek", "msg"}
        \/ s = "mailboxClient" /\ f = "seek"
        \/ s = "customService" /\ f = "query"
    BY <2>5 DEF Needs
  <2>8. s = "mailboxService" /\ f = "msg" /\ 1 <= Len(todo) /\ todo[1] = MakeMsg
    BY <2>5, <2>6, <2>7 DEF Complete
  <2>9. todo # <<>> /\ Head(todo) = todo[1]
    BY <2>8 DEF ScriptInv
  <2>10. QED
    BY <2>5, <2>8, <2>9
<1>5. QED
  BY <1>1, <1>2, <1>3, <1>4, ServicesCases

LEMMA SameMake ==
  ASSUME NEW s, NEW x, NEW t, NEW y
  PROVE  Step(s, "make", x) = Step(t, "make", y) <=> s = t /\ x = y
BY DEF Step, PidStep

(* Nothing is taken back while no service is released: what a service has    *)
(* made stays, and it is told apart what it is about to make.                *)
LEMMA MadeStays ==
  ASSUME ServicesTypeOK, ScriptInv, OrderInv, MadeInv, ServicesNext
  PROVE  MadeInv'
<1> SUFFICES ASSUME released' = {}
             PROVE  MadeInv'
  BY DEF MadeInv
<1>0. "none" \notin PID /\ "select" \notin PID
  BY DEF PID, Pair
<1>1. ASSUME NEW s \in Svc, AppStep(s)
      PROVE  MadeInv'
  <2>1. /\ released = {} /\ todo # <<>> /\ crashed = NoCrash /\ Head(todo).s = s
        /\ released' = released
    BY <1>1, StepFrame
  <2>2. /\ ~chanClosed /\ SeekFirst
        /\ \A t \in Svc : handles[t] # {} => Complete(t, 1)
        /\ \A t \in Svc : consumer[t] \in PID => handles[t] # {}
        /\ Head(todo).do = "regist" /\ Head(todo).pids # {} => Complete(Head(todo).s, 2)
    BY <2>1 DEF MadeInv
  <2>3. /\ Len(todo) \in Nat \ {0} /\ Head(todo) = todo[1]
        /\ Head(todo) \in Allowed({}, ready) /\ Tail(todo) \in Seq(Allowed({}, ready))
        /\ Len(Tail(todo)) = Len(todo) - 1
        /\ \A i \in 1..Len(todo) - 1 : Tail(todo)[i] = todo[i + 1]
    BY <2>1, TailOf DEF ScriptInv
  <2>4. Head(todo).do \notin Taking
    BY <2>3 DEF Allowed
  <2>5. ~Clear(s) /\ ~UnregistPubsubProtocol(s) /\ ~CloseStop(s) /\ ~LeaveQuery(s)
    BY <2>4 DEF Clear, UnregistPubsubProtocol, CloseStop, LeaveQuery, At, Taking
  <2>6. ~chanClosed'
    BY <1>1, <2>2, <2>5, StepFrame
  <2>7. ASSUME NEW t \in Svc, consumer'[t] \in PID
        PROVE  consumer[t] \in PID
    <3>1. CASE UNCHANGED consumer
      BY <2>7, <3>1
    <3>2. CASE ListenToUser(s) \/ QueryTarget(s) \/ SendStopService(s)
      BY <1>0, <2>7, <3>2 DEF ListenToUser, QueryTarget, SendStopService, ServicesTypeOK
    <3>3. QED
      BY <1>1, <3>1, <3>2, StepFrame
  <2>8. CASE /\ todo' \in {todo, Tail(todo), <<>>} /\ UNCHANGED fields
             /\ Head(todo).do # "make"
    <3>1. todo[1] \notin {MakeSeek, MakeMsg}
      BY <2>3, <2>8 DEF MakeSeek, MakeMsg, Step, PidStep
    <3>2. SeekFirst'
      <4>1. CASE todo' \in {todo, <<>>}
        BY <2>2, <2>8, <4>1 DEF SeekFirst
      <4>2. CASE todo' = Tail(todo)
        <5>1. ASSUME NEW i \in 1..Len(todo'), todo'[i] = MakeMsg, "seek" \notin fields["mailboxService"]
              PROVE  i > 1 /\ todo'[i - 1] = MakeSeek
          <6>1. i + 1 \in 1..Len(todo) /\ i \in 1..Len(todo) - 1 /\ todo[i + 1] = MakeMsg
            BY <2>3, <4>2, <5>1
          <6>2. todo[i] = MakeSeek
            BY <2>2, <5>1, <6>1 DEF SeekFirst
          <6>3. i # 1 /\ i - 1 \in 1..Len(todo) - 1 /\ (i - 1) + 1 = i
            BY <2>3, <3>1, <6>1, <6>2
          <6>4. QED
            BY <2>3, <4>2, <6>2, <6>3
        <5>2. QED
          BY <2>8, <5>1 DEF SeekFirst
      <4>3. QED
        BY <2>8, <4>1, <4>2
    <3>3. ASSUME NEW t \in Svc, Complete(t, 1)
          PROVE  Complete(t, 1)'
      BY <2>8, <3>1, <3>3 DEF Complete
    <3>4. todo' # <<>> /\ Head(todo').do = "regist" => todo' = todo
      BY <2>1, <2>8, OrderTail DEF ScriptInv, OrderInv
    <3>5. CASE UNCHANGED handles /\ Head(todo).do # "regist"
      <4>1. \A t \in Svc : handles'[t] # {} => Complete(t, 1)'
        BY <2>2, <3>3, <3>5
      <4>2. QED
        BY <2>2, <2>6, <2>7, <3>2, <3>4, <3>5, <4>1 DEF MadeInv
    <3>6. CASE RegistPubsubProtocol(s)
      <4>1. /\ todo' = Tail(todo) /\ handles' = [handles EXCEPT ![s] = @ \cup Pids]
            /\ Head(todo).do = "regist"
        BY <3>6 DEF RegistPubsubProtocol, GoOn, At
      <4>2. ASSUME NEW t \in Svc, handles'[t] # {}
            PROVE  Complete(t, 1)'
        <5>1. CASE handles[t] # {}
          BY <2>2, <3>3, <5>1
        <5>2. CASE handles[t] = {}
          <6>1. t = s /\ Pids # {}
            BY <4>1, <4>2, <5>2 DEF ServicesTypeOK
          <6>2. Complete(s, 2)
            BY <2>1, <2>2, <4>1, <6>1 DEF Pids
          <6>3. 2 <= Len(todo) => 1 <= Len(todo') /\ todo'[1] = todo[2]
            BY <2>3, <4>1
          <6>4. QED
            BY ONLY <2>8, <6>1, <6>2, <6>3 DEF Complete
        <5>3. QED
          BY <5>1, <5>2
      <4>3. \A t \in Svc : consumer'[t] \in PID => handles'[t] # {}
        BY <2>2, <2>7, <4>1 DEF ServicesTypeOK
      <4>4. todo' # <<>> => Head(todo').do # "regist"
        BY <2>1, <4>1, OrderTail DEF ScriptInv, OrderInv
      <4>5. QED
        BY <2>6, <3>2, <4>2, <4>3, <4>4 DEF MadeInv
    <3>7. QED
      BY <1>1, <2>5, <3>5, <3>6, StepFrame
  <2>9. CASE Make(s)
    <3>1. At(s, "make") /\ UNCHANGED handles /\ Head(todo).do = "make"
      BY <2>9 DEF Make, At
    <3>2. /\ Arg \in Protocol /\ Head(todo) = Step(s, "make", Arg)
          /\ s = "mailboxService" => Arg \in {"mailbox", "seek", "msg"}
          /\ s = "mailboxClient" => Arg \in {"mailbox", "seek"}
          /\ s = "customService" => Arg = "query"
      BY <3>1, StepAt DEF Allowed, Arg, Pids, Step, PidStep
    <3>3. /\ Arg \in fields'[s] /\ \A t \in Svc : fields[t] \subseteq fields'[t]
      BY <2>9 DEF Make, ServicesTypeOK
    <3>4. /\ todo[1] = MakeSeek <=> s = "mailboxService" /\ Arg = "seek"
          /\ todo[1] = MakeMsg <=> s = "mailboxService" /\ Arg = "msg"
      BY <2>3, <3>2, SameMake DEF MakeSeek, MakeMsg
    <3>5. ASSUME NEW t \in Svc, Complete(t, 1)
          PROVE  Complete(t, 1)'
      BY <3>3, <3>4, <3>5 DEF Complete
    <3>6. /\ \A t \in Svc : handles'[t] # {} => Complete(t, 1)'
          /\ \A t \in Svc : consumer'[t] \in PID => handles'[t] # {}
      BY <2>2, <2>7, <3>1, <3>5
    <3>7. \A i \in 1..Len(todo) :
            todo[i] = MakeMsg => \/ "seek" \in fields["mailboxService"]
                                 \/ i > 1 /\ todo[i - 1] = MakeSeek
      BY <2>2 DEF SeekFirst
    <3>8. todo[1] = MakeSeek => "seek" \in fields'["mailboxService"]
      BY <3>3, <3>4
    <3>9. CASE todo' = Tail(todo)
      <4>1. ASSUME NEW i \in 1..Len(todo'), todo'[i] = MakeMsg,
                   "seek" \notin fields'["mailboxService"]
            PROVE  i > 1 /\ todo'[i - 1] = MakeSeek
        <5>1. i + 1 \in 1..Len(todo) /\ i \in 1..Len(todo) - 1 /\ todo[i + 1] = MakeMsg
          BY <2>3, <3>9, <4>1
        <5>2. "seek" \notin fields["mailboxService"]
          BY <3>3, <4>1 DEF Svc
        <5>3. todo[i + 1 - 1] = MakeSeek /\ i + 1 - 1 = i
          BY <3>7, <5>1, <5>2
        <5>4. i # 1 /\ i - 1 \in 1..Len(todo) - 1 /\ (i - 1) + 1 = i
          BY <2>3, <3>8, <4>1, <5>1, <5>3
        <5>5. QED
          BY <2>3, <3>9, <5>3, <5>4
      <4>2. todo' # <<>> => Head(todo').do # "regist"
        BY <2>1, <3>9, OrderTail DEF ScriptInv, OrderInv
      <4>3. SeekFirst'
        BY <4>1 DEF SeekFirst
      <4>4. QED
        BY <2>6, <3>6, <4>2, <4>3 DEF MadeInv
    <3>10. CASE todo' # Tail(todo)
      <4> DEFINE e == PidStep(s, "regist", Arg, Registers(s, Arg))
      <4>1. todo' = <<e>> \o Tail(todo)
        BY <2>9, <3>10 DEF Make, GoOn
      <4>2. e.do = "regist" /\ e.s = s /\ e.pids = Registers(s, Arg) /\ e # MakeMsg
        BY DEF PidStep, MakeMsg, Step
      <4> HIDE DEF e
      <4>3. /\ Len(todo') = Len(todo) /\ todo'[1] = e /\ Head(todo') = e
            /\ \A i \in 2..Len(todo) : todo'[i] = todo[i]
        <5>1. todo \in Seq(Allowed({}, ready) \cup {e})
          BY <2>1 DEF ScriptInv
        <5>2. <<e>> \o Tail(todo) \in Seq(Allowed({}, ready) \cup {e})
          BY <2>1, <5>1, Ahead
        <5>3. /\ Len(<<e>> \o Tail(todo)) = Len(todo) /\ (<<e>> \o Tail(todo))[1] = e
              /\ \A i \in 2..Len(todo) : (<<e>> \o Tail(todo))[i] = todo[i]
          BY <2>1, <5>1, Ahead
        <5>4. todo' # <<>>
          BY <2>3, <4>1, <5>3
        <5>5. Head(todo') = todo'[1]
          BY <4>1, <5>2, <5>4, TailOf
        <5>6. QED
          BY <4>1, <5>3, <5>5
      <4>4. ASSUME NEW i \in 1..Len(todo'), todo'[i] = MakeMsg,
                   "seek" \notin fields'["mailboxService"]
            PROVE  i > 1 /\ todo'[i - 1] = MakeSeek
        <5>1. i \in 2..Len(todo) /\ i \in 1..Len(todo) /\ todo[i] = MakeMsg
          BY <2>3, <4>2, <4>3, <4>4
        <5>2. "seek" \notin fields["mailboxService"]
          BY <3>3, <4>4 DEF Svc
        <5>3. todo[i - 1] = MakeSeek
          BY <3>7, <5>1, <5>2
        <5>4. i - 1 # 1
          BY <3>8, <4>4, <5>3
        <5>5. i - 1 \in 2..Len(todo)
          BY <2>3, <5>1, <5>4
        <5>6. QED
          BY <4>3, <5>1, <5>3, <5>5
      <4>5. SeekFirst'
        BY <4>4 DEF SeekFirst
      <4>6. ASSUME Registers(s, Arg) # {}
            PROVE  Complete(s, 2)'
        <5>1. s = "mailboxService" \/ s = "mailboxClient" => Arg # "mailbox"
          BY <3>2, <4>6, Names
        <5>2. CASE s = "mailboxService" /\ Arg = "seek"
          <6>1. 1 < Len(todo) /\ todo[2] = MakeMsg
            <7>1. 1 \in 1..Len(todo) /\ todo[1] = MakeSeek /\ 1 + 1 = 2
              BY <2>3, <3>4, <5>2
            <7>2. 1 < Len(todo) /\ todo[1 + 1] = MakeMsg
              BY <7>1 DEF OrderInv, InOrder
            <7>3. QED
              BY <7>1, <7>2
          <6>2. 2 <= Len(todo') /\ todo'[2] = MakeMsg
            BY <2>3, <4>3, <6>1
          <6>3. QED
            BY <3>3, <5>2, <6>2 DEF Complete
        <5>3. CASE s = "mailboxService" /\ Arg = "msg"
          <6>1. "seek" \in fields["mailboxService"]
            BY <2>3, <3>4, <3>7, <5>3
          <6>2. QED
            BY <3>3, <5>3, <6>1 DEF Complete
        <5>4. CASE s # "mailboxService"
          BY <3>2, <3>3, <5>1, <5>4 DEF Complete
        <5>5. QED
          BY <3>2, <5>1, <5>2, <5>3, <5>4
      <4>7. QED
        BY <2>6, <3>6, <4>2, <4>3, <4>5, <4>6 DEF MadeInv
    <3>11. QED
      BY <3>9, <3>10
  <2>10. QED
    BY <1>1, <2>5, <2>8, <2>9, StepFrame
<1>2. CASE Calls
  <2>1. /\ todo = <<>>
        /\ UNCHANGED <<fields, handles, consumer, chanClosed>>
    BY <1>2, CallFrame
  <2>2. released = {}
    BY <1>2, CallFrame
  <2>3. /\ ~chanClosed /\ \A t \in Svc : handles[t] # {} => Complete(t, 1)
        /\ \A t \in Svc : consumer[t] \in PID => handles[t] # {}
    BY <2>2 DEF MadeInv
  <2>4. Len(todo) = 0
    BY <2>1
  <2>5. \A t \in Svc : Complete(t, 1) => Complete(t, 1)'
    BY <2>1, <2>4 DEF Complete
  <2>6. ASSUME \A i \in 1..Len(todo') :
                 /\ todo'[i].do # "regist"
                 /\ todo'[i] = MakeMsg => i > 1 /\ todo'[i - 1] = MakeSeek,
               NEW S, todo' \in Seq(S)
        PROVE  MadeInv'
    <3>1. SeekFirst'
      BY <2>6 DEF SeekFirst
    <3>2. todo' # <<>> => 1 \in 1..Len(todo') /\ Head(todo') = todo'[1]
      BY <2>6
    <3>3. QED
      BY <2>1, <2>3, <2>5, <2>6, <3>1, <3>2 DEF MadeInv
  <2>7. CASE todo' = StartAll
    BY <2>6, <2>7, StartScript DEF Fresh
  <2>8. CASE todo' = StopAll
    <3>1. Fresh(StopAll) /\ StopAll \in Seq(Allowed({}, TRUE))
      BY StopScript, OrdinaryFresh
    <3>2. QED
      BY <2>6, <2>8, <3>1 DEF Fresh
  <2>9. CASE \E s \in Clients : todo' = SetProxy(s)
    <3>1. PICK s \in Clients : todo' = SetProxy(s)
      BY <2>9
    <3>2. /\ todo' \in Seq(Allowed({}, TRUE)) /\ Len(todo') = 2
          /\ todo'[1] = Do(s, "join") /\ todo'[2] = Joining(s)
      BY <3>1, ProxyScripts
    <3>3. Do(s, "join").do = "join" /\ Joining(s).do \in {"keep", "create"}
      BY DEF Do, Step, PidStep, Joining
    <3>4. MakeMsg.do = "make"
      BY DEF MakeMsg, Step, PidStep
    <3>5. \A i \in 1..Len(todo') : todo'[i].do # "regist" /\ todo'[i] # MakeMsg
      BY <3>2, <3>3, <3>4
    <3>6. QED
      BY <2>6, <3>2, <3>5
  <2>10. CASE \E s \in Clients : todo' = ClearProxy(s)
    <3>1. PICK s \in Clients : todo' = ClearProxy(s)
      BY <2>10
    <3>2. /\ todo' \in Seq(Allowed({}, TRUE)) /\ Len(todo') = 1
          /\ todo'[1] = Do(s, "leaveProxy")
      BY <3>1, ProxyScripts
    <3>3. Do(s, "leaveProxy").do = "leaveProxy" /\ MakeMsg.do = "make"
      BY DEF Do, Step, PidStep, MakeMsg
    <3>4. \A i \in 1..Len(todo') : todo'[i].do # "regist" /\ todo'[i] # MakeMsg
      BY <3>2, <3>3
    <3>5. QED
      BY <2>6, <3>2, <3>4
  <2>11. ~\E s \in Svc : released' = released \cup {s}
    OBVIOUS
  <2>12. QED
    BY <1>2, <2>7, <2>8, <2>9, <2>10, <2>11, CallFrame
<1>3. CASE Ready
  <2>1. /\ released = {} /\ todo' = <<>> /\ Len(todo) = 1 /\ Head(todo) = todo[1]
        /\ Head(todo).do = "ready"
        /\ UNCHANGED <<fields, handles, consumer, chanClosed>>
    BY <1>3, ReadyFrame
  <2>2. todo[1] # MakeMsg
    BY <2>1 DEF MakeMsg, Step, PidStep
  <2>3. /\ ~chanClosed /\ \A t \in Svc : handles[t] # {} => Complete(t, 1)
        /\ \A t \in Svc : consumer[t] \in PID => handles[t] # {}
    BY <2>1 DEF MadeInv
  <2>4. \A t \in Svc : Complete(t, 1) => Complete(t, 1)'
    BY <2>1, <2>2 DEF Complete
  <2>5. SeekFirst'
    BY <2>1 DEF SeekFirst
  <2>6. QED
    BY <2>1, <2>3, <2>4, <2>5 DEF MadeInv
<1>4. CASE QueryPeer
  BY <1>4 DEF QueryPeer, Nil, MadeInv, SeekFirst, Complete
<1>5. CASE Consumes
  <2>1. UNCHANGED <<todo, fields, handles, chanClosed, released>>
    BY <1>5, ConsumerFrame
  <2>2. ASSUME NEW t \in Svc, consumer'[t] \in PID
        PROVE  consumer[t] \in PID \/ handles[t] # {}
    BY <1>0, <1>5, <2>2 DEF Consumes, Lookup, Use, ConsumerEnds, ServicesTypeOK
  <2>3. QED
    BY <2>1, <2>2 DEF MadeInv, SeekFirst, Complete
<1>6. QED
  BY <1>1, <1>2, <1>3, <1>4, <1>5, ServicesCases

LEMMA Asked ==
  ASSUME NEW c \in Asking
  PROVE  /\ c \in Svc /\ ProtocolOf(c) \in Protocol /\ StreamOf(c) \in Stream
         /\ StreamOf(c) \in Answers(c, ProtocolOf(c)) /\ Rivals(c) \subseteq Svc
         /\ \A s \in Svc, x \in Protocol :
              StreamOf(c) \in Answers(s, x) =>
                (s = c /\ x = ProtocolOf(c)) \/ (s \in Rivals(c) /\ x = "create")
BY DEF Asking, Svc, Protocol, Stream, StreamOf, ProtocolOf, Rivals, Answers

(* Answers come home, or will when the services are made.                    *)
LEMMA HomeStays ==
  ASSUME ServicesTypeOK, ScriptInv, OrderInv, HomeInv, ServicesNext
  PROVE  HomeInv'
<1> DEFINE Soon == \E i \in 1..Len(todo) : todo[i].do = "ready"
           Home(c) == \/ responder[StreamOf(c)] = c
                      \/ ToMake(c, ProtocolOf(c))
                      \/ \E v \in Rivals(c) : "create" \in fields[v] \/ v \in released
<1>1. ASSUME NEW s \in Svc, AppStep(s)
      PROVE  HomeInv'
  <2>1. todo # <<>> /\ Head(todo).s = s /\ UNCHANGED <<ready, released>>
    BY <1>1, StepFrame
  <2>2. /\ Len(todo) \in Nat \ {0} /\ Head(todo) = todo[1]
        /\ Head(todo) \in Allowed(released, ready)
        /\ Tail(todo) \in Seq(Allowed(released, ready))
        /\ Len(Tail(todo)) = Len(todo) - 1
        /\ \A i \in 1..Len(todo) - 1 : Tail(todo)[i] = todo[i + 1]
    BY <2>1, TailOf DEF ScriptInv
  <2>3. ASSUME NEW c \in Asking, ready
        PROVE  ~ToMake(c, ProtocolOf(c))
    <3>1. \A i \in 1..Len(todo) : todo[i] \in Allowed(released, ready)
      BY DEF ScriptInv
    <3>2. Step(c, "make", ProtocolOf(c)).do = "make" /\ Step(c, "make", ProtocolOf(c)).s = c
      BY DEF Step, PidStep
    <3>3. QED
      BY <2>3, <3>1, <3>2 DEF ToMake, Has, Allowed
  <2>4. CASE /\ todo' \in {todo, Tail(todo), <<>>} /\ UNCHANGED responder
             /\ Head(todo).do \notin {"make", "ready"}
    <3>1. ASSUME NEW v \in Svc, "create" \in fields[v], ~("create" \in fields'[v])
          PROVE  v \in released
      <4>1. Clear(s)
        <5>1. ~Make(s)
          BY <2>4 DEF Make, At
        <5>2. fields' # fields
          BY <3>1
        <5>3. QED
          BY <1>1, <5>1, <5>2, StepFrame
      <4>2. v = s /\ Head(todo).do = "clear"
        BY <3>1, <4>1 DEF Clear, At, ServicesTypeOK
      <4>3. QED
        BY <2>1, <2>2, <4>2 DEF Allowed, Taking
    <3>2. ASSUME NEW v \in Svc, NEW x, x \notin fields[v]
          PROVE  x \notin fields'[v]
      <4>1. ~Make(s)
        BY <2>4 DEF Make, At
      <4>2. CASE Clear(s)
        BY <3>2, <4>2 DEF Clear, ServicesTypeOK
      <4>3. QED
        BY <1>1, <3>2, <4>1, <4>2, StepFrame
    <3>3. ASSUME NEW c \in Asking, ready' \/ Soon', Home(c)
          PROVE  Home(c)'
      <4>1. CASE responder[StreamOf(c)] = c
        BY <2>4, <4>1
      <4>2. CASE \E v \in Rivals(c) : "create" \in fields[v] \/ v \in released
        BY <2>1, <3>1, <4>2, Asked
      <4>3. CASE ToMake(c, ProtocolOf(c))
        <5>1. ~ready
          BY <2>3, <4>3
        <5>2. Soon'
          BY <2>1, <3>3, <5>1
        <5>3. Len(todo') # 0
          BY <5>2
        <5>4. todo' \in {todo, Tail(todo)}
          BY <2>4, <5>3
        <5>5. Has(todo', Step(c, "make", ProtocolOf(c)))
          <6>1. PICK i \in 1..Len(todo) : todo[i] = Step(c, "make", ProtocolOf(c))
            BY <4>3 DEF ToMake, Has
          <6>2. Step(c, "make", ProtocolOf(c)).do = "make"
            BY DEF Step, PidStep
          <6>3. i # 1 /\ i - 1 \in 1..Len(todo) - 1 /\ (i - 1) + 1 = i
            BY <2>2, <2>4, <6>1, <6>2
          <6>4. Tail(todo)[i - 1] = Step(c, "make", ProtocolOf(c))
            BY <2>2, <6>1, <6>3
          <6>5. QED
            BY <2>2, <5>4, <6>1, <6>3, <6>4 DEF Has
        <5>6. c \in Svc /\ ProtocolOf(c) \notin fields[c]
          BY <4>3, Asked DEF ToMake
        <5>7. QED
          BY <3>2, <5>5, <5>6 DEF ToMake
      <4>4. QED
        BY <3>3, <4>1, <4>2, <4>3
    <3>4. Soon' => Soon
      BY <2>2, <2>4
    <3>5. QED
      BY <2>1, <3>3, <3>4 DEF HomeInv
  <2>5. CASE Make(s)
    <3>1. At(s, "make")
      BY <2>5 DEF Make
    <3>2. Arg \in Protocol /\ todo[1] = Step(s, "make", Arg)
      BY <2>2, <3>1, StepAt DEF Allowed, Arg, Pids, Step, PidStep
    <3>3. /\ \A v \in Svc : fields[v] \subseteq fields'[v]
          /\ \A v \in Svc : \A x : x \in fields'[v] => x \in fields[v] \/ (v = s /\ x = Arg)
          /\ Arg \in fields'[s]
      BY <2>5 DEF Make, ServicesTypeOK
    <3>4. Arg \notin fields[s] =>
            \A m \in Stream : responder'[m] = IF m \in Answers(s, Arg) THEN s ELSE responder[m]
      BY <2>5 DEF Make
    <3>5. Arg \in fields[s] => UNCHANGED responder /\ todo' = Tail(todo)
      BY <2>5 DEF Make, GoOn
    <3> DEFINE e == PidStep(s, "regist", Arg, Registers(s, Arg))
    <3>6. Arg \notin fields[s] => todo' = <<e>> \o Tail(todo)
      BY <2>5 DEF Make
    <3>7. e.do = "regist"
      BY DEF PidStep
    <3> HIDE DEF e
    <3>8. \/ todo' = Tail(todo)
          \/ /\ Len(todo') = Len(todo) /\ todo'[1] = e
             /\ \A i \in 2..Len(todo) : todo'[i] = todo[i]
      <4>1. todo \in Seq(Allowed(released, ready) \cup {e})
        BY DEF ScriptInv
      <4>2. QED
        BY <2>1, <3>5, <3>6, <4>1, Ahead
    <3>9. Soon' => Soon
      <4>1. CASE todo' = Tail(todo)
        BY <2>2, <4>1
      <4>2. CASE todo' # Tail(todo)
        <5>1. ASSUME NEW i \in 1..Len(todo'), todo'[i].do = "ready"
              PROVE  i \in 1..Len(todo) /\ todo[i].do = "ready"
          BY <2>2, <3>7, <3>8, <4>2, <5>1
        <5>2. QED
          BY <5>1
      <4>3. QED
        BY <4>1, <4>2
    <3>10. ASSUME NEW c \in Asking, Home(c)
           PROVE  Home(c)'
      <4>1. CASE Arg \notin fields[s] /\ StreamOf(c) \in Answers(s, Arg)
        <5>1. (s = c /\ Arg = ProtocolOf(c)) \/ (s \in Rivals(c) /\ Arg = "create")
          BY <3>2, <4>1, Asked
        <5>2. CASE s = c
          BY <3>4, <4>1, <5>2, Asked
        <5>3. CASE s \in Rivals(c) /\ Arg = "create"
          BY <3>3, <5>3
        <5>4. QED
          BY <5>1, <5>2, <5>3
      <4>2. CASE ~(Arg \notin fields[s] /\ StreamOf(c) \in Answers(s, Arg))
        <5>1. responder'[StreamOf(c)] = responder[StreamOf(c)]
          BY <3>4, <3>5, <4>2, Asked
        <5>2. CASE ToMake(c, ProtocolOf(c))
          <6>1. PICK i \in 1..Len(todo) : todo[i] = Step(c, "make", ProtocolOf(c))
            BY <5>2 DEF ToMake, Has
          <6>2. ProtocolOf(c) \notin fields[c] /\ c \in Svc
            BY <5>2, Asked DEF ToMake
          <6>3. ~(s = c /\ Arg = ProtocolOf(c))
            BY <4>2, <6>2, Asked
          <6>4. i # 1
            BY <3>2, <6>1, <6>3, SameMake
          <6>5. ProtocolOf(c) \notin fields'[c]
            BY <3>3, <6>2, <6>3
          <6>6. Has(todo', Step(c, "make", ProtocolOf(c)))
            <7>1. CASE todo' = Tail(todo)
              <8>1. i - 1 \in 1..Len(todo) - 1 /\ (i - 1) + 1 = i
                BY <2>2, <6>4
              <8>2. QED
                BY <2>2, <6>1, <7>1, <8>1 DEF Has
            <7>2. CASE todo' # Tail(todo)
              <8>1. i \in 2..Len(todo) /\ i \in 1..Len(todo')
                BY <2>2, <3>8, <6>4, <7>2
              <8>2. QED
                BY <3>8, <6>1, <7>2, <8>1 DEF Has
            <7>3. QED
              BY <7>1, <7>2
          <6>7. QED
            BY <6>5, <6>6 DEF ToMake
        <5>3. CASE \E v \in Rivals(c) : "create" \in fields[v] \/ v \in released
          BY <2>1, <3>3, <5>3, Asked
        <5>4. QED
          BY <3>10, <5>1, <5>2, <5>3
      <4>3. QED
        BY <4>1, <4>2
    <3>11. QED
      BY <2>1, <3>9, <3>10 DEF HomeInv
  <2>6. QED
    BY <1>1, <2>4, <2>5, StepFrame
<1>2. CASE Calls
  <2>1. /\ ready /\ todo = <<>> /\ UNCHANGED <<ready, responder, fields>>
        /\ released \subseteq released'
    BY <1>2, CallFrame
  <2>2. \A c \in Asking : ~ToMake(c, ProtocolOf(c))
    BY <2>1 DEF ToMake, Has
  <2>3. QED
    BY <2>1, <2>2 DEF HomeInv
<1>3. CASE Ready
  <2>1. /\ todo' = <<>> /\ Len(todo) = 1 /\ Head(todo) = todo[1] /\ Head(todo).do = "ready"
        /\ UNCHANGED <<fields, responder, released>>
    BY <1>3, ReadyFrame
  <2>2. \A c \in Asking : ~ToMake(c, ProtocolOf(c))
    BY <2>1 DEF ToMake, Has, Step, PidStep
  <2>3. Soon
    BY <2>1
  <2>4. QED
    BY <2>1, <2>2, <2>3 DEF HomeInv
<1>4. CASE QueryPeer \/ Consumes
  <2>1. UNCHANGED <<todo, ready, fields, responder, released>>
    BY <1>4, ConsumerFrame DEF QueryPeer, Nil
  <2>2. QED
    BY <2>1 DEF HomeInv, ToMake, Has
<1>5. QED
  BY <1>1, <1>2, <1>3, <1>4, ServicesCases

LEMMA SvcFinite == ASSUME NEW T, T \subseteq Svc PROVE IsFiniteSet(T)
<1> DEFINE a == {} \cup {"mailboxService"}
           b == a \cup {"mailboxClient"}
           c == b \cup {"msgService"}
           d == c \cup {"msgClient"}
           e == d \cup {"channelService"}
           f == e \cup {"channelClient"}
           g == f \cup {"customService"}
           h == g \cup {"customClient"}
<1>0. Svc = h
  BY DEF Svc
<1>1. IsFiniteSet(Svc)
  <2>1. IsFiniteSet(a)
    BY FS_EmptySet, FS_AddElement
  <2> HIDE DEF a
  <2>2. IsFiniteSet(b) /\ IsFiniteSet(c)
    BY <2>1, FS_AddElement
  <2> HIDE DEF b, c
  <2>3. IsFiniteSet(d) /\ IsFiniteSet(e)
    BY <2>2, FS_AddElement
  <2> HIDE DEF d, e
  <2>4. IsFiniteSet(f) /\ IsFiniteSet(g)
    BY <2>3, FS_AddElement
  <2> HIDE DEF f, g
  <2>5. IsFiniteSet(h)
    BY <2>4, FS_AddElement
  <2>6. QED
    BY <1>0, <2>5, Zenon
<1>2. QED
  BY <1>1, FS_Subset

LEMMA OneAround ==
  ASSUME NEW T, IsFiniteSet(T), NEW s
  PROVE  /\ Cardinality(T) \in Nat /\ Cardinality(T \cup {s}) \in Nat
         /\ Cardinality(T \cup {s}) <= Cardinality(T) + 1
         /\ IsFiniteSet(T \ {s}) /\ Cardinality(T \ {s}) \in Nat
         /\ s \in T => Cardinality(T \ {s}) = Cardinality(T) - 1
<1>1. IsFiniteSet(T \cup {s}) /\ IsFiniteSet(T \ {s}) /\ Cardinality(T) \in Nat
  BY FS_AddElement, FS_RemoveElement, FS_CardinalityType
<1>2. Cardinality(T \cup {s}) \in Nat /\ Cardinality(T \ {s}) \in Nat
  BY <1>1, FS_CardinalityType
<1>3. Cardinality(T \cup {s}) \in {Cardinality(T), Cardinality(T) + 1}
  BY FS_AddElement, Zenon
<1>4. s \in T => Cardinality(T \ {s}) = Cardinality(T) - 1
  BY FS_RemoveElement, Zenon
<1>5. QED
  BY <1>1, <1>2, <1>3, <1>4

LEMMA CountAround ==
  ASSUME NEW T, IsFiniteSet(T), NEW s, NEW U,
         U = T \/ U = T \cup {s} \/ U = T \ {s}
  PROVE  /\ Cardinality(U) \in Nat /\ Cardinality(U) <= Cardinality(T) + 1
         /\ U = T => Cardinality(U) = Cardinality(T)
         /\ s \in T /\ U = T \ {s} => Cardinality(U) = Cardinality(T) - 1
<1> DEFINE n == Cardinality(T)
           m == Cardinality(U)
<1>1. /\ n \in Nat /\ Cardinality(T \cup {s}) \in Nat
      /\ Cardinality(T \cup {s}) <= n + 1 /\ Cardinality(T \ {s}) \in Nat
      /\ s \in T => Cardinality(T \ {s}) = n - 1
  BY OneAround, FS_CardinalityType
<1>2. s \notin T => T \ {s} = T
  OBVIOUS
<1>3. U = T => m = n
  OBVIOUS
<1>4. U = T \cup {s} => m = Cardinality(T \cup {s})
  BY Zenon
<1>5. U = T \ {s} => m = Cardinality(T \ {s})
  BY Zenon
<1> HIDE DEF n, m
<1>6. s \notin T /\ U = T \ {s} => m = n
  BY <1>2, <1>3
<1>7. m \in Nat /\ m <= n + 1
  <2>1. CASE U = T
    BY <1>1, <1>3, <2>1
  <2>2. CASE U = T \cup {s}
    BY ONLY <1>1, <1>4, <2>2
  <2>3. CASE U = T \ {s}
    BY ONLY <1>1, <1>5, <1>6, <2>3
  <2>4. QED
    BY <2>1, <2>2, <2>3
<1>8. s \in T /\ U = T \ {s} => m = n - 1
  BY ONLY <1>1, <1>5
<1>9. QED
  BY ONLY <1>3, <1>7, <1>8 DEF n, m

(* Who hears the user has joined the topic, but for what light users left.   *)
LEMMA UserStays ==
  ASSUME ServicesTypeOK, ScriptInv, UserInv, ServicesNext
  PROVE  UserInv'
<1> DEFINE heard == {s \in Svc : user[s] = "listens"}
           n == Cardinality(heard)
<1>0. /\ n \in Nat /\ Holders("user") = heard
      /\ topicRef["user"] \in Nat /\ stray \in Nat /\ topicRef["user"] + stray >= n
  BY SvcFinite, FS_CardinalityType DEF Holders, UserInv, ServicesTypeOK, Topic
<1>1. ASSUME NEW s \in Svc, heard' \in {heard, heard \cup {s}, heard \ {s}}
      PROVE  /\ Cardinality(heard') \in Nat /\ Holders("user")' = heard'
             /\ heard' = heard => Cardinality(heard') = n
             /\ Cardinality(heard') <= n + 1
             /\ s \in heard /\ heard' = heard \ {s} => Cardinality(heard') = n - 1
  <2>1. Holders("user")' = heard'
    BY DEF Holders
  <2>2. IsFiniteSet(heard)
    BY SvcFinite
  <2> DEFINE now == heard'
  <2>3. now = heard \/ now = heard \cup {s} \/ now = heard \ {s}
    BY <1>1, Zenon
  <2> HIDE DEF heard, now
  <2>4. /\ Cardinality(now) \in Nat /\ Cardinality(now) <= Cardinality(heard) + 1
        /\ now = heard => Cardinality(now) = Cardinality(heard)
        /\ s \in heard /\ now = heard \ {s} => Cardinality(now) = Cardinality(heard) - 1
    BY ONLY <2>2, <2>3, CountAround
  <2>5. QED
    BY ONLY <2>1, <2>4 DEF n, now
<1>2. ASSUME UNCHANGED <<user, stray>>, topicRef'["user"] = topicRef["user"]
      PROVE  UserInv'
  BY <1>2 DEF UserInv, Holders
<1>3. ASSUME NEW s \in Svc, AppStep(s)
      PROVE  UserInv'
  <2>1. CASE ListenToUser(s)
    <3>1. \/ UNCHANGED <<user, topicRef, stray>>
          \/ /\ user' = [user EXCEPT ![s] = "listens"]
             /\ topicRef' = [topicRef EXCEPT !["user"] = @ + 1] /\ UNCHANGED stray
      BY <2>1 DEF ListenToUser, JoinTopic
    <3>2. CASE /\ user' = [user EXCEPT ![s] = "listens"]
               /\ topicRef' = [topicRef EXCEPT !["user"] = @ + 1] /\ UNCHANGED stray
      <4>1. heard' = heard \cup {s}
        BY <3>2 DEF ServicesTypeOK
      <4>2. topicRef'["user"] = topicRef["user"] + 1
        BY <3>2 DEF ServicesTypeOK, Topic
      <4>3. \A t \in Mailboxes : user'[t] # "light"
        BY <3>2 DEF UserInv, ServicesTypeOK, Mailboxes, Svc
      <4>4. Cardinality(heard') \in Nat /\ Cardinality(heard') <= n + 1 /\ Holders("user")' = heard'
        BY <1>1, <4>1
      <4> HIDE DEF heard, n
      <4>5. topicRef'["user"] + stray' >= Cardinality(Holders("user")')
        BY <1>0, <3>2, <4>2, <4>4
      <4>6. QED
        BY <4>3, <4>5 DEF UserInv
    <3>3. QED
      BY <1>2, <3>1, <3>2
  <2>2. CASE SubscribeLightUser(s)
    <3>1. s \notin Mailboxes
      BY <2>2, StepAt DEF SubscribeLightUser, Allowed
    <3>2. \/ UNCHANGED user
          \/ user[s] = "nil" /\ user' = [user EXCEPT ![s] = "light"]
      BY <2>2 DEF SubscribeLightUser
    <3>3. UNCHANGED <<topicRef, stray>>
      BY <2>2 DEF SubscribeLightUser
    <3>4. heard' = heard
      BY <3>2 DEF ServicesTypeOK
    <3>5. \A t \in Mailboxes : user'[t] # "light"
      BY <3>1, <3>2 DEF UserInv, ServicesTypeOK, Mailboxes, Svc
    <3>6. Cardinality(heard') = n /\ Holders("user")' = heard'
      BY <1>1, <3>4
    <3> HIDE DEF heard, n
    <3>7. QED
      BY <1>0, <3>3, <3>5, <3>6 DEF UserInv
  <2>3. CASE UnsubscribeUser(s) \/ UnsubscribeLightUser(s)
    <3>1. CASE user[s] = "nil"
      <4>1. UNCHANGED <<user, topicRef, stray>>
        BY <2>3, <3>1 DEF UnsubscribeUser, UnsubscribeLightUser
      <4>2. QED
        BY <1>2, <4>1
    <3>2. CASE user[s] # "nil"
      <4>1. /\ user' = [user EXCEPT ![s] = "nil"]
            /\ topicRef' = [topicRef EXCEPT !["user"] = IF @ = 0 THEN 0 ELSE @ - 1]
        BY <2>3, <3>2 DEF UnsubscribeUser, UnsubscribeLightUser, Leave
      <4>2. topicRef'["user"] = IF topicRef["user"] = 0 THEN 0 ELSE topicRef["user"] - 1
        BY <4>1 DEF ServicesTypeOK, Topic
      <4>3. heard' = heard \ {s}
        BY <4>1 DEF ServicesTypeOK
      <4>4. \A t \in Mailboxes : user'[t] # "light"
        BY <4>1 DEF UserInv, ServicesTypeOK, Mailboxes, Svc
      <4>5. \/ s \in heard /\ stray' \in {stray, stray + 1}
            \/ stray' = IF topicRef["user"] > 0 THEN stray + 1 ELSE stray
        <5>1. CASE UnsubscribeUser(s)
          <6>1. s \in Mailboxes
            BY <5>1, StepAt DEF UnsubscribeUser, Allowed
          <6>2. user[s] = "listens"
            BY <3>2, <6>1 DEF UserInv, ServicesTypeOK
          <6>3. QED
            BY <5>1, <6>2 DEF UnsubscribeUser
        <5>2. CASE UnsubscribeLightUser(s)
          BY <3>2, <5>2 DEF UnsubscribeLightUser
        <5>3. QED
          BY <2>3, <5>1, <5>2
      <4>6. /\ Cardinality(heard') \in Nat /\ Holders("user")' = heard'
            /\ Cardinality(heard') <= n
            /\ s \in heard => Cardinality(heard') = n - 1
        <5>1. s \notin heard => heard' = heard
          BY <4>3
        <5>2. /\ Cardinality(heard') \in Nat /\ Holders("user")' = heard'
              /\ heard' = heard => Cardinality(heard') = n
              /\ s \in heard => Cardinality(heard') = n - 1
          BY <1>1, <4>3
        <5> HIDE DEF heard, n
        <5>3. QED
          BY ONLY <1>0, <5>1, <5>2
      <4> HIDE DEF heard, n
      <4>7. topicRef'["user"] + stray' >= Cardinality(heard')
        BY ONLY <1>0, <4>2, <4>5, <4>6
      <4>8. QED
        BY <4>4, <4>6, <4>7 DEF UserInv
    <3>3. QED
      BY <3>1, <3>2
  <2>4. CASE UNCHANGED <<user, stray>> /\ ~ListenToUser(s) /\ ~UnsubscribeUser(s)
               /\ ~UnsubscribeLightUser(s)
    <3>1. CASE UNCHANGED topicRef
      BY <1>2, <2>4, <3>1
    <3>2. CASE QueryTarget(s) \/ LeaveQuery(s) \/ JoinProxy(s) \/ CreateProxy(s) \/ LeaveProxy(s)
      <4>1. topicRef'["user"] = topicRef["user"]
        BY <3>2 DEF QueryTarget, LeaveQuery, JoinProxy, CreateProxy, LeaveProxy, JoinTopic,
           Leave, ServicesTypeOK, Topic
      <4>2. QED
        BY <1>2, <2>4, <4>1
    <3>3. QED
      BY <1>3, <2>4, <3>1, <3>2, StepFrame
  <2>5. QED
    BY <1>3, <2>1, <2>2, <2>3, <2>4, StepFrame
<1>4. CASE Calls \/ Ready \/ QueryPeer \/ Consumes
  <2>1. UNCHANGED <<user, stray, topicRef>>
    BY <1>4, CallFrame, ConsumerFrame DEF Ready, QueryPeer
  <2>2. QED
    BY <1>2, <2>1
<1>5. QED
  BY <1>3, <1>4, ServicesCases

LEMMA QueryStays ==
  ASSUME ServicesTypeOK, QueryInv, ServicesNext
  PROVE  QueryInv'
<1>1. ASSUME NEW s \in Svc, AppStep(s)
      PROVE  QueryInv'
  <2>1. CASE QueryTarget(s)
    BY <2>1 DEF QueryTarget, QueryInv, JoinTopic, ServicesTypeOK, Topic
  <2>2. CASE LeaveQuery(s)
    BY <2>2 DEF LeaveQuery, QueryInv
  <2>3. CASE UNCHANGED <<query, topicRef>>
    BY <2>3 DEF QueryInv
  <2>4. CASE /\ UNCHANGED query
             /\ \/ ListenToUser(s) \/ UnsubscribeUser(s) \/ UnsubscribeLightUser(s)
                \/ JoinProxy(s) \/ CreateProxy(s) \/ LeaveProxy(s)
    <3>1. topicRef'["query"] = topicRef["query"]
      BY <2>4 DEF ListenToUser, UnsubscribeUser, UnsubscribeLightUser, JoinProxy, CreateProxy,
         LeaveProxy, JoinTopic, Leave, ServicesTypeOK, Topic
    <3>2. QED
      BY <2>4, <3>1 DEF QueryInv
  <2>5. QED
    BY <1>1, <2>1, <2>2, <2>3, <2>4, StepFrame
<1>2. CASE Calls \/ Ready \/ QueryPeer \/ Consumes
  BY <1>2, CallFrame, ConsumerFrame DEF Ready, QueryPeer, QueryInv
<1>3. QED
  BY <1>1, <1>2, ServicesCases

(* A client is among the proxied while it holds the topic, or is at one of   *)
(* the steps of getting or giving up its proxy.                              *)
NoProxySteps == \A i \in 1..Len(todo) : todo[i].do \notin ProxyVerb

LEMMA ProxyStays ==
  ASSUME ServicesTypeOK, ScriptInv, ProxyInv, ServicesNext
  PROVE  ProxyInv'
<1> DEFINE n == Cardinality(proxied)
           r == topicRef["proxy"]
<1>0. /\ n \in Nat /\ r \in Nat /\ r >= n /\ IsFiniteSet(proxied)
      /\ \A s : /\ Cardinality(proxied \cup {s}) <= n + 1
                /\ s \in proxied => Cardinality(proxied \ {s}) = n - 1
  <2>1. IsFiniteSet(proxied)
    BY SvcFinite DEF ServicesTypeOK, Clients, Svc
  <2>2. r \in Nat
    BY DEF ServicesTypeOK, Topic
  <2>3. n \in Nat /\ \A s : /\ Cardinality(proxied \cup {s}) <= n + 1
                            /\ s \in proxied => Cardinality(proxied \ {s}) = n - 1
    BY <2>1, OneAround
  <2>4. r >= n
    BY <2>2, <2>3 DEF ProxyInv
  <2>5. QED
    BY <2>1, <2>2, <2>3, <2>4
<1>1. ASSUME NEW s \in Svc, AppStep(s)
      PROVE  ProxyInv'
  <2>1. todo # <<>> /\ Head(todo).s = s
    BY <1>1, StepFrame
  <2>2. /\ Len(todo) \in Nat \ {0} /\ Head(todo) = todo[1]
        /\ Head(todo) \in Allowed(released, ready)
        /\ Tail(todo) \in Seq(Allowed(released, ready))
        /\ Len(Tail(todo)) = Len(todo) - 1
        /\ \A i \in 1..Len(todo) - 1 : Tail(todo)[i] = todo[i + 1]
    BY <2>1, TailOf DEF ScriptInv
  <2>3. CASE Head(todo).do \notin ProxyVerb
    <3>1. NoProxySteps
      <4>1. \A t : /\ Do(t, "join").do = "join" /\ Joining(t).do \in {"keep", "create"}
                   /\ Do(t, "leaveProxy").do = "leaveProxy"
        BY DEF Do, Step, PidStep, Joining
      <4>2. QED
        BY <2>2, <2>3, <4>1 DEF ProxyInv, NoProxySteps, ProxyVerb
    <3>2. ~JoinProxy(s) /\ ~KeepProxy(s) /\ ~CreateProxy(s) /\ ~LeaveProxy(s)
      BY <2>3 DEF JoinProxy, KeepProxy, CreateProxy, LeaveProxy, At, ProxyVerb
    <3>3. UNCHANGED proxied
      BY <1>1, <3>2, StepFrame
    <3>4. topicRef'["proxy"] = topicRef["proxy"]
      <4>1. CASE ListenToUser(s) \/ UnsubscribeUser(s) \/ UnsubscribeLightUser(s)
                   \/ QueryTarget(s) \/ LeaveQuery(s)
        BY <4>1 DEF ListenToUser, UnsubscribeUser, UnsubscribeLightUser, QueryTarget,
           LeaveQuery, JoinTopic, Leave, ServicesTypeOK, Topic
      <4>2. QED
        BY <1>1, <3>2, <4>1, StepFrame
    <3>5. NoProxySteps'
      <4>1. CASE todo' \in {todo, Tail(todo), <<>>}
        BY <2>2, <3>1, <4>1 DEF NoProxySteps
      <4>2. CASE Make(s)
        <5> DEFINE e == PidStep(s, "regist", Arg, Registers(s, Arg))
        <5>1. todo' \in {Tail(todo), <<e>> \o Tail(todo)}
          BY <4>2 DEF Make, GoOn
        <5>2. e.do \notin ProxyVerb
          BY DEF PidStep, ProxyVerb
        <5> HIDE DEF e
        <5>3. /\ Len(<<e>> \o Tail(todo)) = Len(todo) /\ (<<e>> \o Tail(todo))[1] = e
              /\ \A i \in 2..Len(todo) : (<<e>> \o Tail(todo))[i] = todo[i]
          <6>1. todo \in Seq(Allowed(released, ready) \cup {e})
            BY DEF ScriptInv
          <6>2. QED
            BY <2>1, <6>1, Ahead
        <5>4. CASE todo' = <<e>> \o Tail(todo)
          <6>1. ASSUME NEW i \in 1..Len(todo')
                PROVE  todo'[i].do \notin ProxyVerb
            <7>1. CASE i = 1
              BY <5>2, <5>3, <5>4, <7>1
            <7>2. CASE i # 1
              <8>1. i \in 2..Len(todo) /\ i \in 1..Len(todo)
                BY <2>2, <5>3, <5>4, <7>2
              <8>2. QED
                BY <3>1, <5>3, <5>4, <8>1 DEF NoProxySteps
            <7>3. QED
              BY <7>1, <7>2
          <6>2. QED
            BY <6>1 DEF NoProxySteps
        <5>5. QED
          BY <4>1, <5>1, <5>4
      <4>3. QED
        BY <1>1, <4>1, <4>2, StepFrame
    <3>6. QED
      BY <1>0, <3>3, <3>4, <3>5 DEF ProxyInv, NoProxySteps
  <2>4. CASE Head(todo).do \in ProxyVerb
    <3>1. \A t : /\ Do(t, "join").do = "join" /\ Joining(t).do \in {"keep", "create"}
                 /\ Do(t, "leaveProxy").do = "leaveProxy"
                 /\ Do(t, "join").s = t /\ Joining(t).s = t /\ Do(t, "leaveProxy").s = t
      BY DEF Do, Step, PidStep, Joining
    <3>2. ~NoProxySteps
      BY <2>2, <2>4 DEF NoProxySteps
    <3>3. \/ JoinProxy(s) \/ KeepProxy(s) \/ CreateProxy(s) \/ LeaveProxy(s)
      BY <1>1, <2>4, StepFrame
    <3>4. ASSUME todo' = <<>>, topicRef'["proxy"] >= Cardinality(proxied')
          PROVE  ProxyInv'
      <4>1. Len(todo') = 0
        BY <3>4
      <4>2. QED
        BY <3>4, <4>1 DEF ProxyInv
    <3>5. ASSUME Len(todo) = 1 PROVE Tail(todo) = <<>>
      <4>1. Len(Tail(todo)) = 0
        BY <2>2, <3>5
      <4>2. QED
        BY ONLY <2>2, <4>1, NoneLeft
    <3>6. CASE JoinProxy(s)
      <4>1. At(s, "join") /\ UNCHANGED proxied
        BY <3>6 DEF JoinProxy
      <4>2. /\ s \in Clients \ proxied /\ Len(todo) = 2 /\ todo[2] = Joining(s)
        BY <2>1, <2>2, <3>1, <3>2, <4>1 DEF ProxyInv, NoProxySteps, At
      <4>3. CASE todo' = <<>> /\ UNCHANGED topicRef
        BY <1>0, <3>4, <4>1, <4>3
      <4>4. CASE todo' = Tail(todo) /\ topicRef' = [topicRef EXCEPT !["proxy"] = @ + 1]
        <5>1. Len(todo') = 1 /\ todo'[1] = Joining(s)
          <6>1. Len(Tail(todo)) = 1 /\ Tail(todo)[1] = todo[1 + 1] /\ 1 + 1 = 2
            BY ONLY <2>2, <4>2
          <6>2. QED
            BY <4>2, <4>4, <6>1
        <5>2. topicRef'["proxy"] = r + 1
          BY <4>4 DEF ServicesTypeOK, Topic
        <5>3. QED
          BY <1>0, <4>1, <4>2, <5>1, <5>2 DEF ProxyInv
      <4>5. QED
        BY <3>6, <4>3, <4>4 DEF JoinProxy, JoinTopic, GoOn, Error
    <3>7. CASE KeepProxy(s) \/ CreateProxy(s)
      <4>1. At(s, "keep") \/ At(s, "create")
        BY <3>7 DEF KeepProxy, CreateProxy
      <4>2. Len(todo) = 1 /\ r >= n + 1
        BY <2>1, <2>2, <3>1, <3>2, <4>1 DEF ProxyInv, NoProxySteps, At
      <4>3. CASE /\ proxied' = proxied \cup {s} /\ todo' = Tail(todo) /\ UNCHANGED topicRef
        <5>1. Cardinality(proxied') <= n + 1 /\ Cardinality(proxied') \in Nat
          BY <1>0, <4>3, FS_AddElement, FS_CardinalityType
        <5>2. topicRef'["proxy"] >= Cardinality(proxied')
          BY <1>0, <4>2, <4>3, <5>1
        <5>3. QED
          BY <3>4, <3>5, <4>2, <4>3, <5>2
      <4>4. CASE /\ UNCHANGED proxied /\ todo' = <<>>
                 /\ topicRef' = [topicRef EXCEPT !["proxy"] = IF @ = 0 THEN 0 ELSE @ - 1]
        <5>1. topicRef'["proxy"] = IF r = 0 THEN 0 ELSE r - 1
          BY <4>4 DEF ServicesTypeOK, Topic
        <5>2. topicRef'["proxy"] >= Cardinality(proxied')
          BY <1>0, <4>2, <4>4, <5>1
        <5>3. QED
          BY <3>4, <4>4, <5>2
      <4>5. QED
        BY <3>7, <4>3, <4>4 DEF KeepProxy, CreateProxy, Leave, GoOn, Error
    <3>8. CASE LeaveProxy(s)
      <4>1. /\ At(s, "leaveProxy") /\ proxied' = proxied \ {s} /\ todo' = Tail(todo)
            /\ topicRef' = [topicRef EXCEPT !["proxy"] = IF @ = 0 THEN 0 ELSE @ - 1]
        BY <3>8 DEF LeaveProxy, Leave, GoOn
      <4>2. Len(todo) = 1 /\ s \in proxied
        BY <2>1, <2>2, <3>1, <3>2, <4>1 DEF ProxyInv, NoProxySteps, At
      <4>3. topicRef'["proxy"] = IF r = 0 THEN 0 ELSE r - 1
        BY <4>1 DEF ServicesTypeOK, Topic
      <4>4. topicRef'["proxy"] >= Cardinality(proxied')
        BY <1>0, <4>1, <4>2, <4>3
      <4>5. QED
        BY <3>4, <3>5, <4>1, <4>2, <4>4
    <3>9. QED
      BY <3>3, <3>6, <3>7, <3>8
  <2>5. QED
    BY <2>3, <2>4
<1>2. CASE Calls
  <2>1. /\ todo = <<>> /\ UNCHANGED <<topicRef, proxied>>
    BY <1>2, CallFrame
  <2>2. ASSUME NoProxySteps' PROVE ProxyInv'
    BY <1>0, <2>1, <2>2 DEF ProxyInv, NoProxySteps
  <2>3. ASSUME NEW rel, NEW q \in Seq(Ordinary(rel, TRUE)), todo' = q
        PROVE  ProxyInv'
    BY <2>2, <2>3, Ordinaries DEF NoProxySteps
  <2>4. CASE todo' = StartAll
    BY <2>2, <2>4, StartScript DEF NoProxySteps, Fresh
  <2>5. CASE todo' = StopAll
    BY <2>3, <2>5, StopScript
  <2>6. CASE \E s \in Svc : todo' = Release(s)
    <3>1. PICK s \in Svc : todo' = Release(s)
      BY <2>6
    <3>2. Release(s) \in Seq(Ordinary({s}, TRUE))
      BY ReleaseScript
    <3>3. QED
      BY <2>3, <3>1, <3>2
  <2>7. CASE \E s \in Clients \ proxied : todo' = SetProxy(s)
    BY <1>0, <2>1, <2>7, ProxyScripts DEF ProxyInv
  <2>8. CASE \E s \in Clients \cap proxied : todo' = ClearProxy(s)
    BY <1>0, <2>1, <2>8, ProxyScripts DEF ProxyInv
  <2>9. QED
    BY <1>2, <2>4, <2>5, <2>6, <2>7, <2>8, CallFrame
<1>3. CASE Ready \/ QueryPeer \/ Consumes
  <2>1. UNCHANGED <<topicRef, proxied>> /\ (UNCHANGED todo \/ Ready)
    BY <1>3, ConsumerFrame DEF QueryPeer, Nil, Ready
  <2>2. CASE UNCHANGED todo
    BY <2>1, <2>2 DEF ProxyInv
  <2>3. CASE Ready
    <3>1. At("", "ready") /\ todo' = Tail(todo)
      BY <2>3 DEF Ready, GoOn
    <3>2. /\ Len(todo) \in Nat \ {0} /\ todo[1].do = "ready"
      BY <3>1, StepAt
    <3>3. NoProxySteps
      <4>1. \A t : /\ Do(t, "join").do = "join" /\ Joining(t).do \in {"keep", "create"}
                   /\ Do(t, "leaveProxy").do = "leaveProxy"
        BY DEF Do, Step, PidStep, Joining
      <4>2. QED
        BY <3>2, <4>1 DEF ProxyInv, NoProxySteps
    <3>4. todo # <<>>
      BY <3>1 DEF At
    <3>5. NoProxySteps'
      <4>1. /\ Len(Tail(todo)) = Len(todo) - 1
            /\ \A i \in 1..Len(todo) - 1 : Tail(todo)[i] = todo[i + 1]
        BY <3>4, TailOf DEF ScriptInv
      <4>2. ASSUME NEW i \in 1..Len(Tail(todo))
            PROVE  Tail(todo)[i].do \notin ProxyVerb
        <5>1. i + 1 \in 1..Len(todo) /\ i \in 1..Len(todo) - 1
          BY <3>2, <4>1
        <5>2. QED
          BY <3>3, <4>1, <5>1 DEF NoProxySteps
      <4>3. QED
        BY <3>1, <4>2 DEF NoProxySteps
    <3>6. QED
      BY <1>0, <2>1, <3>5 DEF ProxyInv, NoProxySteps
  <2>4. QED
    BY <2>1, <2>2, <2>3
<1>4. QED
  BY <1>1, <1>2, <1>3, ServicesCases

(* The inductive invariant of the services.                                  *)
ServicesInv == /\ ServicesTypeOK /\ ScriptInv /\ OrderInv /\ MadeInv /\ UserInv
               /\ ProxyInv /\ QueryInv /\ HomeInv /\ CrashHasCause

LEMMA ServicesStart == ServicesInit => ServicesInv
<1> SUFFICES ASSUME ServicesInit
             PROVE  ServicesInv
  OBVIOUS
<1>1. /\ todo = InitAll /\ ready = FALSE /\ released = {} /\ proxied = {} /\ stray = 0
      /\ calls = 0 /\ crashed = NoCrash /\ ~chanClosed /\ query = "nil"
      /\ \A s \in Svc : /\ fields[s] = {} /\ handles[s] = {} /\ user[s] = "nil"
                        /\ consumer[s] = "none"
      /\ \A t \in Topic : topicRef[t] = 0
  BY DEF ServicesInit
<1>2. ServicesTypeOK
  <2>1. 0 \in 0..MaxCalls
    BY CallAssumption
  <2>2. QED
    BY <2>1 DEF ServicesInit, ServicesTypeOK
<1>3. ScriptInv /\ OrderInv
  BY <1>1, InitScript DEF ScriptInv, OrderInv
<1>4. MadeInv
  <2>1. \A s \in Svc : consumer[s] \notin PID
    BY <1>1 DEF PID, Pair
  <2>2. SeekFirst
    BY <1>1, InitScript DEF SeekFirst
  <2>3. todo # <<>> /\ Head(todo).do # "regist"
    BY <1>1, <1>3, InitScript, TailOf DEF ScriptInv
  <2>4. QED
    BY <1>1, <2>1, <2>2, <2>3 DEF MadeInv
<1>5. Cardinality({}) = 0
  BY FS_EmptySet
<1>6. UserInv
  <2>1. Holders("user") = {}
    BY <1>1 DEF Holders
  <2>2. \A s \in Mailboxes : user[s] # "light"
    BY <1>1 DEF Mailboxes, Svc
  <2>3. topicRef["user"] = 0
    BY <1>1 DEF Topic
  <2>4. QED
    BY <1>1, <1>5, <2>1, <2>2, <2>3 DEF UserInv
<1>7. ProxyInv
  <2>1. \A i \in 1..Len(todo) : todo[i].do \notin ProxyVerb
    BY <1>1, InitScript
  <2>2. topicRef["proxy"] >= Cardinality(proxied)
    BY <1>1, <1>5 DEF Topic
  <2>3. QED
    BY <2>1, <2>2 DEF ProxyInv
<1>8. QueryInv /\ CrashHasCause
  BY <1>1 DEF QueryInv, CrashHasCause
<1>9. HomeInv
  <2>1. ASSUME NEW c \in Asking
        PROVE  ToMake(c, ProtocolOf(c))
    <3>1. Has(todo, Step(c, "make", ProtocolOf(c)))
      BY <1>1, InitScript DEF Asking, ProtocolOf
    <3>2. QED
      BY <1>1, <3>1, Asked DEF ToMake
  <2>2. QED
    BY <2>1 DEF HomeInv
<1>10. QED
  BY <1>2, <1>3, <1>4, <1>6, <1>7, <1>8, <1>9 DEF ServicesInv

LEMMA ServicesStay == ServicesInv /\ ServicesNext => ServicesInv'
BY TypesStay, ScriptStays, MadeStays, UserStays, ProxyStays, QueryStays, HomeStays,
   CausesStay DEF ServicesInv

(* A step of the custom protocol leaves the services as they are, but it may *)
(* meet a nil pointer in a client that was released.                         *)
LEMMA ServicesRest ==
  ASSUME ServicesInv,
         UNCHANGED <<todo, ready, fields, handles, responder, user, topicRef, consumer,
                     enable, query, proxied, chanClosed, released, stray, calls>>,
         UNCHANGED crashed \/ released # {}
  PROVE  ServicesInv'
<1>1. ServicesTypeOK' /\ ScriptInv' /\ OrderInv' /\ QueryInv' /\ CrashHasCause'
  BY DEF ServicesInv, ServicesTypeOK, ScriptInv, OrderInv, InOrder, QueryInv, CrashHasCause
<1>2. MadeInv'
  BY DEF ServicesInv, MadeInv, SeekFirst, Complete
<1>3. UserInv'
  BY DEF ServicesInv, UserInv, Holders
<1>4. ProxyInv'
  BY DEF ServicesInv, ProxyInv
<1>5. HomeInv'
  BY DEF ServicesInv, HomeInv, ToMake
<1>6. QED
  BY <1>1, <1>2, <1>3, <1>4, <1>5 DEF ServicesInv

LEMMA HeldFollows == ServicesInv => HeldIsOpen
<1> SUFFICES ASSUME ServicesInv, NEW t \in Topic
             PROVE  topicRef[t] + (IF t = "user" THEN stray ELSE 0) >= Cardinality(Holders(t))
  BY DEF HeldIsOpen
<1>1. topicRef[t] \in Nat /\ stray \in Nat
  BY DEF ServicesInv, ServicesTypeOK
<1>2. CASE t = "user"
  BY <1>2 DEF ServicesInv, UserInv
<1>3. CASE t = "proxy"
  <2>1. Holders(t) = proxied
    BY <1>3 DEF Holders
  <2>2. IsFiniteSet(proxied)
    BY SvcFinite DEF ServicesInv, ServicesTypeOK, Clients, Svc
  <2>3. Cardinality(proxied) \in Nat
    BY <2>2, FS_CardinalityType
  <2>4. topicRef["proxy"] >= Cardinality(proxied)
    BY <1>1, <1>3, <2>3 DEF ServicesInv, ProxyInv
  <2>5. QED
    BY <1>1, <1>3, <2>1, <2>4
<1>4. CASE t = "query"
  <2>1. CASE query = "joined"
    <3>1. Holders(t) = {"customService"}
      BY <1>4, <2>1 DEF Holders
    <3>2. Cardinality(Holders(t)) = 1
      BY <3>1, FS_Singleton, Zenon
    <3>3. QED
      BY <1>1, <1>4, <2>1, <3>2 DEF ServicesInv, QueryInv
  <2>2. CASE query # "joined"
    <3>1. Holders(t) = {}
      BY <1>4, <2>2 DEF Holders
    <3>2. Cardinality(Holders(t)) = 0
      BY <3>1, FS_EmptySet, Zenon
    <3>3. QED
      BY <1>1, <1>4, <3>2
  <2>3. QED
    BY <2>1, <2>2
<1>5. QED
  BY <1>2, <1>3, <1>4 DEF Topic

LEMMA EachOf ==
  ASSUME NEW S, NEW q \in Seq(S)
  PROVE  \A i \in 1..Len(q) : q[i] \in S
OBVIOUS

LEMMA HomeFollows == ServicesInv => AnswersComeHome
<1> SUFFICES ASSUME ServicesInv, ready
             PROVE  AnswersComeHome
  BY DEF AnswersComeHome
<1>1. ASSUME NEW c \in Asking
      PROVE  \/ responder[StreamOf(c)] = c
             \/ \E v \in Rivals(c) : "create" \in fields[v] \/ v \in released
  <2>1. \A i \in 1..Len(todo) : todo[i] \in Allowed(released, ready)
    BY EachOf DEF ServicesInv, ScriptInv
  <2>2. ~ToMake(c, ProtocolOf(c))
    BY <2>1 DEF ToMake, Has, Allowed, Step, PidStep
  <2>3. QED
    BY <2>2 DEF ServicesInv, HomeInv
<1>2. "mailboxClient" \in Asking /\ "msgClient" \in Asking /\ "channelClient" \in Asking
  BY DEF Asking
<1>3. QED
  BY <1>1, <1>2 DEF AnswersComeHome, StreamOf, Rivals
-----------------------------------------------------------------------------
(* The codes of the answers of the custom protocol.                          *)
LEMMA CustomAnswers ==
  /\ AnswerTo(CustomStreamAdapter, Failed) = ErrCode
  /\ AnswerTo(CustomStreamAdapter, Aborted) = Silent
  /\ AnswerTo(CustomStreamAdapter, [Aborted EXCEPT !.err = TRUE]) = Silent
  /\ AnswerTo(CustomStreamAdapter, Returned("bytes")) = SuccCode
BY DEF AnswerTo, CustomStreamAdapter, Failed, Aborted, Returned, Done, GetRetCode, Data

CustomInv == CustomTypeOK /\ ServicesInv /\ SuccessIsHandled

LEMMA CustomStart == CustomInit => CustomInv
<1> SUFFICES ASSUME CustomInit
             PROVE  CustomInv
  OBVIOUS
<1>1. ServicesInv
  BY ServicesStart DEF CustomInit
<1>2. CustomTypeOK
  BY <1>1 DEF CustomInit, CustomTypeOK, ServicesInv, Stage
<1>3. SuccessIsHandled
  BY DEF CustomInit, SuccessIsHandled
<1>4. QED
  BY <1>1, <1>2, <1>3 DEF CustomInv

(* A request that ends: its answer is of one code, and success only if it is *)
(* among those that ran.                                                     *)
LEMMA Returning ==
  ASSUME CustomInv, NEW r \in Request, NEW o, Return(r, o),
         NEW c \in Int, AnswerTo(CustomStreamAdapter, o) = c,
         req[r].at # "idle", UNCHANGED <<serviceVars, server, spoken, client>>,
         \/ UNCHANGED ran /\ c # SuccCode
         \/ ran' = ran \cup {r}
  PROVE  CustomTypeOK' /\ SuccessIsHandled'
<1>1. /\ req' = [req EXCEPT ![r].at = "done"] /\ answer' = [answer EXCEPT ![r] = {c}]
  BY DEF Return
<1>2. ServicesTypeOK'
  BY DEF CustomInv, CustomTypeOK, ServicesTypeOK, serviceVars
<1>3. /\ req' \in [Request -> [at : Stage, pid : Pid \cup {"none"}, by : App \cup {"none"}]]
      /\ \A q \in Request : req'[q].at # "idle" => req'[q].pid \in Pid
  BY <1>1 DEF CustomInv, CustomTypeOK, Stage
<1>4. answer' \in [Request -> SUBSET Int] /\ ran' \subseteq Request
  BY <1>1 DEF CustomInv, CustomTypeOK
<1>5. CustomTypeOK'
  BY <1>2, <1>3, <1>4 DEF CustomInv, CustomTypeOK
<1>6. ASSUME NEW q \in Request, SuccCode \in answer'[q]
      PROVE  q \in ran'
  <2>1. CASE q = r
    BY <1>1, <1>6, <2>1 DEF CustomInv, CustomTypeOK
  <2>2. CASE q # r
    BY <1>1, <1>6, <2>2 DEF CustomInv, CustomTypeOK, SuccessIsHandled
  <2>3. QED
    BY <2>1, <2>2
<1>7. QED
  BY <1>5, <1>6 DEF SuccessIsHandled

LEMMA CustomStays == CustomInv /\ [CustomNext]_allVars => CustomInv'
<1> SUFFICES ASSUME CustomInv, [CustomNext]_allVars
             PROVE  CustomInv'
  OBVIOUS
<1> USE DEF CustomInv
<1>1. ASSUME UNCHANGED customVars, ServicesInv'
      PROVE  CustomInv'
  BY <1>1 DEF customVars, CustomTypeOK, SuccessIsHandled, ServicesInv
<1>2. ASSUME UNCHANGED serviceVars
      PROVE  ServicesInv'
  BY <1>2, ServicesRest DEF serviceVars
<1>3. CASE ServicesNext /\ UNCHANGED customVars
  BY <1>1, <1>3, ServicesStay
<1>4. CASE UNCHANGED allVars
  BY <1>1, <1>2, <1>4 DEF allVars
<1>5. ASSUME NEW p \in Pid, \/ \E h \in App : RegistServer(h, p)
                            \/ UnregistServer(p) \/ UnregistClient(p)
      PROVE  CustomInv'
  <2>1. UNCHANGED <<serviceVars, req, answer, ran>>
    BY <1>5 DEF RegistServer, UnregistServer, UnregistClient
  <2>2. ServicesInv'
    BY <1>2, <2>1
  <2>3. /\ server' \in [Pid -> App \cup {"none"}] /\ spoken' \subseteq Pid
        /\ client' \subseteq Pid
    BY <1>5 DEF RegistServer, UnregistServer, UnregistClient, CustomTypeOK
  <2>4. QED
    BY <2>1, <2>2, <2>3 DEF CustomTypeOK, ServicesInv, SuccessIsHandled
<1>6. ASSUME NEW p \in Pid, RegistClient(p)
      PROVE  CustomInv'
  <2>1. ServicesInv'
    BY <1>6, ServicesRest DEF RegistClient, Nil
  <2>2. client' \subseteq Pid /\ UNCHANGED <<server, spoken, req, answer, ran>>
    BY <1>6 DEF RegistClient, CustomTypeOK
  <2>3. QED
    BY <2>1, <2>2 DEF CustomTypeOK, ServicesInv, SuccessIsHandled
<1>7. ASSUME NEW r \in Request, NEW p \in Pid, SendRequest(r, p)
      PROVE  CustomInv'
  <2>1. ServicesInv' /\ UNCHANGED <<server, spoken, client, answer, ran>>
    BY <1>2, <1>7 DEF SendRequest
  <2> DEFINE Entry == [at : Stage, pid : Pid \cup {"none"}, by : App \cup {"none"}]
  <2>2. /\ req' = [req EXCEPT ![r].at = "sent", ![r].pid = p]
        /\ req \in [Request -> Entry]
    BY <1>7 DEF SendRequest, CustomTypeOK
  <2>3. req' \in [Request -> Entry]
    BY <2>2 DEF Stage
  <2>4. ASSUME NEW q \in Request, req'[q].at # "idle"
        PROVE  req'[q].pid \in Pid
    BY <2>2, <2>4 DEF CustomTypeOK
  <2>5. QED
    BY <2>1, <2>3, <2>4 DEF CustomTypeOK, ServicesInv, SuccessIsHandled
<1>8. ErrCode \in Int /\ Silent \in Int /\ SuccCode \in Int
      /\ ErrCode # SuccCode /\ Silent # SuccCode
  BY DEF ErrCode, Silent, SuccCode
<1>9. ASSUME NEW r \in Request, Begin(r) \/ Find(r) \/ HandleRequest(r)
      PROVE  CustomInv'
  <2>1. UNCHANGED <<serviceVars, server, spoken, client>> /\ req[r].at # "idle"
    BY <1>9 DEF Begin, Find, HandleRequest
  <2>2. ServicesInv'
    BY <1>2, <2>1
  <2>3. CASE UNCHANGED <<answer, ran>> /\ ~HandleRequest(r)
    <3>1. /\ req' \in [Request -> [at : Stage, pid : Pid \cup {"none"},
                                   by : App \cup {"none"}]]
          /\ \A q \in Request : req'[q].at # "idle" => req'[q].pid \in Pid
      BY <1>9, <2>3 DEF Begin, Find, Return, CustomTypeOK, Stage
    <3>2. QED
      BY <2>1, <2>2, <2>3, <3>1 DEF CustomTypeOK, ServicesInv, SuccessIsHandled
  <2>4. CASE UNCHANGED ran /\ Return(r, Aborted)
    BY <1>8, <2>1, <2>2, <2>4, CustomAnswers, Returning
  <2>5. CASE UNCHANGED ran /\ Return(r, Failed)
    BY <1>8, <2>1, <2>2, <2>5, CustomAnswers, Returning
  <2>6. CASE HandleRequest(r)
    <3>1. CASE Return(r, Returned("bytes")) /\ ran' = ran \cup {r}
      BY <1>8, <2>1, <2>2, <3>1, CustomAnswers, Returning
    <3>2. CASE Return(r, [Aborted EXCEPT !.err = TRUE]) /\ UNCHANGED ran
      BY <1>8, <2>1, <2>2, <3>2, CustomAnswers, Returning
    <3>3. QED
      BY <2>6, <3>1, <3>2 DEF HandleRequest
  <2>7. QED
    BY <1>9, <2>3, <2>4, <2>5, <2>6 DEF Begin, Find
<1>10. QED
  BY <1>3, <1>4, <1>5, <1>6, <1>7, <1>9 DEF CustomNext

LEMMA CustomInvariant == CustomSpec => []CustomInv
BY CustomStart, CustomStays, PTL DEF CustomSpec

(* The services and the custom protocol have the types their modules state,  *)
(* whatever the calls of the application and the messages.                   *)
THEOREM ServicesTypeCorrect == CustomSpec => []CustomTypeOK
<1>1. CustomInv => CustomTypeOK
  BY DEF CustomInv
<1>2. QED
  BY <1>1, CustomInvariant, PTL

(* mailbox/service.go:96-103, 661-664, customProtocol/client.go:75-79: a nil *)
(* protocol is used in no order of calls and messages but those that         *)
(* CrashHasCause names, for any number of calls.                             *)
THEOREM CrashesHaveCause == CustomSpec => []CrashHasCause
<1>1. CustomInv => CrashHasCause
  BY DEF CustomInv, ServicesInv
<1>2. QED
  BY <1>1, CustomInvariant, PTL

(* user.go:135-153, lightUserService.go:106-118, pubsub.go:72-93: what the   *)
(* services hold stays joined, but for what light users left.                *)
THEOREM HeldStaysOpen == CustomSpec => []HeldIsOpen
<1>1. CustomInv => HeldIsOpen
  BY HeldFollows DEF CustomInv
<1>2. QED
  BY <1>1, CustomInvariant, PTL

(* newStream.go:27-28, 75-76: answers come to the client that asks, unless a *)
(* service answering the same requests with its key was started.             *)
THEOREM AnswersReachHome == CustomSpec => []AnswersComeHome
<1>1. CustomInv => AnswersComeHome
  BY HomeFollows DEF CustomInv
<1>2. QED
  BY <1>1, CustomInvariant, PTL

(* customProtocol/service.go:164-192: success is answered only of a request  *)
(* that a handle took without an error.                                      *)
THEOREM SuccessWasHandled == CustomSpec => []SuccessIsHandled
<1>1. CustomInv => SuccessIsHandled
  BY DEF CustomInv
<1>2. QED
  BY <1>1, CustomInvariant, PTL
=============================================================================
