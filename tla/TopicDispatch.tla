--------------------------- MODULE TopicDispatch ---------------------------
(* One process: the topics it has joined, the targets its components share,  *)
(* and the dispatchers that hand what arrives on a topic to every component. *)
(* dmsg/common/pubsub/pubsub.go counts the users of a topic; common/user has *)
(* one Target per key, whose Pubsub is that of the last subscription made;   *)
(* service/common/baseService.go has one dispatcher per key, which feeds the *)
(* unbuffered channels of its consumers one after the other. A light user    *)
(* made without a topic has a copy of the shared Target, and closes the      *)
(* topic that others joined (lightUserService.go:86-118).                    *)
(* A call is one step up to where it waits for the network: the window of    *)
(* pubsub.go:48-64 and the data races on the maps are left out.              *)
EXTENDS Naturals, Sequences, FiniteSets

CONSTANTS
  Comps,        \* the components of the process: mailbox, msg, channel
  Quiet,        \* those that may have a light user without a topic
  Listing,      \* those with a PubsubList
  Keys,         \* topics: the public keys of users and channels
  Buffer,       \* messages gossipsub keeps for a slow subscriber
  MaxGens,      \* bound: subscriptions made on a key
  MaxLog,       \* bound: messages that reach a subscription of a key
  MaxConsumers, \* bound: WaitMessage calls for a key
  Threads       \* goroutines of the application that call a component

ASSUME BoundsAssumption ==
  /\ Buffer \in Nat \ {0} /\ MaxGens \in Nat /\ MaxLog \in Nat
  /\ MaxConsumers \in Nat
ASSUME CompsAssumption ==
  /\ IsFiniteSet(Comps) /\ IsFiniteSet(Threads)
  /\ Quiet \subseteq Comps /\ Listing \subseteq Comps

VARIABLES
  topicList,  \* [Keys -> Nat]: refCount of the topic, 0 when not in the map
  gen,        \* [Keys -> Nat]: subscriptions made so far; the last is gen[k]
  target,     \* [Keys -> Nat]: subscription in the shared Target's Pubsub
  log,        \* [Keys -> Seq(Nat)]: for each message, its subscription
  taken,      \* [Keys -> Nat]: last message the dispatcher took
  waiting,    \* [Keys -> Seq(Nat)]: messageChanList of the key
  disp,       \* [Keys -> record]: the goroutine of the key's entry
  consumers,  \* [Keys -> Seq(record)]: the consumer goroutines started
  asking,     \* [Keys -> set of <<component, thread>>]: calls that wait
  holders,    \* [Keys -> SUBSET Hold]: has it as user, or in PubsubList
  light,      \* [Keys -> SUBSET Comps]: has it as a user that never joined
  lost,       \* [Keys -> Nat]: history, list entries that were overwritten
  drift,      \* [Keys -> Nat]: history, counts taken by such a user's Close
  orphans     \* [Keys -> SUBSET Hold]: history, left with a closed topic

vars == <<topicList, gen, target, log, taken, waiting, disp, consumers,
          asking, holders, light, lost, drift, orphans>>
holdVars == <<asking, holders, light, lost, drift, orphans>>
topicVars == <<topicList, gen, target>>
dispatchVars == <<log, taken, waiting, disp, consumers>>

Hold == Comps \X {"user", "list"}
User(c) == <<c, "user">>
Listed(c) == <<c, "list">>

None == [at |-> "none", sub |-> 0, todo |-> <<>>]
WaitsOn(s) == [at |-> "next", sub |-> s, todo |-> <<>>]

(* An entry of waitMessageList lives exactly as long as its goroutine.       *)
HasEntry(k) == disp[k].at # "none"
Cancelled(k, s) == s < gen[k] \/ topicList[k] = 0
Inbox(k, s) == {i \in DOMAIN log[k] : i > taken[k] /\ log[k][i] = s}

Init ==
  /\ topicList = [k \in Keys |-> 0]
  /\ gen = [k \in Keys |-> 0]
  /\ target = [k \in Keys |-> 0]
  /\ log = [k \in Keys |-> <<>>]
  /\ taken = [k \in Keys |-> 0]
  /\ waiting = [k \in Keys |-> <<>>]
  /\ disp = [k \in Keys |-> None]
  /\ consumers = [k \in Keys |-> <<>>]
  /\ asking = [k \in Keys |-> {}]
  /\ holders = [k \in Keys |-> {}]
  /\ light = [k \in Keys |-> {}]
  /\ lost = [k \in Keys |-> 0]
  /\ drift = [k \in Keys |-> 0]
  /\ orphans = [k \in Keys |-> {}]

----------------------------------------------------------------------------
(* PubsubMgr and Target *)

(* Variant: a second user is handed the topic and not counted.               *)
SubscribeUncounted(k) ==
  /\ topicList' = [topicList EXCEPT ![k] = 1]
  /\ gen' = IF topicList[k] = 0 THEN [gen EXCEPT ![k] = @ + 1] ELSE gen

(* PubsubMgr.Subscribe: the first user joins, every other one is counted.    *)
Subscribe(k) ==
  /\ topicList' = [topicList EXCEPT ![k] = @ + 1]
  /\ gen' = IF topicList[k] = 0 THEN [gen EXCEPT ![k] = @ + 1] ELSE gen

(* NewTarget, then InitPubsub: the shared target gets the subscription that  *)
(* Subscribe returned, over the one it had.                                  *)
InitPubsub(k) ==
  /\ topicList[k] = 0 => gen[k] < MaxGens
  /\ Subscribe(k)
  /\ target' = [target EXCEPT ![k] = gen'[k]]

(* Target.Close, through PubsubMgr.Unsubscribe, once it is out of the holds  *)
(* hs: who takes the last count cancels the subscription, under whoever      *)
(* still holds it; of a topic that is not joined nothing is left to close.   *)
(* The target stays in targetList, whatever its RefCount.                    *)
Close(k, hs) ==
  /\ topicList' = IF topicList[k] = 0 THEN topicList
                  ELSE [topicList EXCEPT ![k] = @ - 1]
  /\ orphans' = [orphans EXCEPT ![k] = IF topicList[k] <= 1 THEN hs
                                       ELSE @ \cap hs]
  /\ UNCHANGED <<gen, target>>

----------------------------------------------------------------------------
(* BaseService.WaitMessage and the consumers *)

(* Variant: a new consumer takes the place of the others.                    *)
WaitMessageAlone(h, k) ==
  LET n == Len(consumers[k]) + 1
  IN /\ n <= MaxConsumers
     /\ disp' = IF HasEntry(k) THEN disp
                ELSE [disp EXCEPT ![k] = WaitsOn(target'[k])]
     /\ waiting' = [waiting EXCEPT ![k] = <<n>>]
     /\ consumers' = [consumers EXCEPT ![k] =
          Append(@, [hold |-> h, at |-> "select", got |-> <<>>,
                     sub |-> gen'[k], stale |-> FALSE])]

(* WaitMessage, called by HandlePubsubProtocol: a key without an entry gets  *)
(* one and a dispatcher, which waits on the subscription its target has now; *)
(* the new channel joins the entry, even one whose dispatcher is about to    *)
(* find its subscription cancelled ("stale").                                *)
WaitMessage(h, k) ==
  LET n == Len(consumers[k]) + 1
      stale == HasEntry(k) /\ disp[k].at = "next" /\ disp[k].sub < gen'[k]
  IN /\ n <= MaxConsumers
     /\ disp' = IF HasEntry(k) THEN disp
                ELSE [disp EXCEPT ![k] = WaitsOn(target'[k])]
     /\ waiting' = [waiting EXCEPT ![k] = Append(@, n)]
     /\ consumers' = [consumers EXCEPT ![k] =
          Append(@, [hold |-> h, at |-> "select", got |-> <<>>,
                     sub |-> gen'[k], stale |-> stale])]

(* A message reaches the process. Gossipsub drops it when the subscription's *)
(* buffer is full.                                                           *)
Arrive(k) ==
  /\ topicList[k] > 0
  /\ Len(log[k]) < MaxLog
  /\ Cardinality(Inbox(k, gen[k])) < Buffer
  /\ log' = [log EXCEPT ![k] = Append(@, gen[k])]
  /\ UNCHANGED <<topicVars, taken, waiting, disp, consumers, holdVars>>

(* WaitMsg returns a message: the channels to feed are those of this moment. *)
(* Of an unreadable message the PID is -1, and no error is returned.         *)
Take(k) ==
  /\ disp[k].at = "next"
  /\ \E i \in Inbox(k, disp[k].sub) :
       /\ \A j \in Inbox(k, disp[k].sub) : i <= j
       /\ taken' = [taken EXCEPT ![k] = i]
  /\ disp' = [disp EXCEPT ![k].at = "send", ![k].todo = waiting[k]]
  /\ UNCHANGED <<topicVars, log, waiting, consumers, holdVars>>

(* Variant: a busy consumer is passed over.                                  *)
SendOrSkip(k) ==
  /\ disp[k].at = "send"
  /\ disp[k].todo # <<>>
  /\ LET n == Head(disp[k].todo)
     IN consumers' = IF consumers[k][n].at # "select" THEN consumers
          ELSE [consumers EXCEPT
             ![k][n].at = "handle", ![k][n].got = Append(@, taken[k])]
  /\ disp' = [disp EXCEPT ![k].todo = Tail(@)]
  /\ UNCHANGED <<topicVars, log, taken, waiting, holdVars>>

(* c <- protocolData: the send ends when the consumer is at its select.      *)
Send(k) ==
  /\ disp[k].at = "send"
  /\ disp[k].todo # <<>>
  /\ LET n == Head(disp[k].todo)
     IN /\ consumers[k][n].at = "select"
        /\ consumers' = [consumers EXCEPT
             ![k][n].at = "handle", ![k][n].got = Append(@, taken[k])]
  /\ disp' = [disp EXCEPT ![k].todo = Tail(@)]
  /\ UNCHANGED <<topicVars, log, taken, waiting, holdVars>>

(* The next WaitMsg waits on the subscription the target has by then.        *)
Loop(k) ==
  /\ disp[k].at = "send"
  /\ disp[k].todo = <<>>
  /\ disp' = [disp EXCEPT ![k] = WaitsOn(target[k])]
  /\ UNCHANGED <<topicVars, log, taken, waiting, consumers, holdVars>>

(* WaitMsg fails once the cancelled subscription is drained: every channel   *)
(* of the entry is closed and the entry removed.                             *)
End(k) ==
  /\ disp[k].at = "next"
  /\ Cancelled(k, disp[k].sub)
  /\ Inbox(k, disp[k].sub) = {}
  /\ LET closed == {waiting[k][i] : i \in DOMAIN waiting[k]}
     IN consumers' = [consumers EXCEPT ![k] =
          [n \in DOMAIN consumers[k] |->
             IF n \in closed THEN [consumers[k][n] EXCEPT !.at =
                                    IF @ = "handle" THEN "last" ELSE "ended"]
                             ELSE consumers[k][n]]]
  /\ waiting' = [waiting EXCEPT ![k] = <<>>]
  /\ disp' = [disp EXCEPT ![k] = None]
  /\ UNCHANGED <<topicVars, log, taken, holdVars>>

(* The handler of the message returns and the consumer goes round its loop;  *)
(* it finds the channel closed if the dispatcher has ended meanwhile.        *)
Handle(k, n) ==
  /\ n \in DOMAIN consumers[k]
  /\ consumers[k][n].at \in {"handle", "last"}
  /\ consumers' = [consumers EXCEPT ![k][n].at =
                     IF @ = "handle" THEN "select" ELSE "ended"]
  /\ UNCHANGED <<topicVars, log, taken, waiting, disp, holdVars>>

----------------------------------------------------------------------------
(* The components *)

(* A component has one user, of whatever key (LightUser # nil).              *)
HasUser(c) == \E k \in Keys : User(c) \in holders[k] \/ c \in light[k]

(* SubscribeUser of the mailbox client and of a listening light user.        *)
SubscribeUser(c, k) ==
  /\ ~HasUser(c)
  /\ InitPubsub(k)
  /\ WaitMessage(User(c), k)
  /\ holders' = [holders EXCEPT ![k] = @ \cup {User(c)}]
  /\ UNCHANGED <<log, taken, asking, light, lost, drift, orphans>>

(* SubscribeUser without enablePubsub: a copy of the shared target, with the *)
(* subscription it has by then (one that has none cannot be closed, which is *)
(* in DmsgService).                                                          *)
SubscribeLight(c, k) ==
  /\ c \in Quiet
  /\ ~HasUser(c)
  /\ target[k] # 0
  /\ light' = [light EXCEPT ![k] = @ \cup {c}]
  /\ UNCHANGED <<topicVars, dispatchVars, asking, holders, lost, drift,
                 orphans>>

(* unsubscribeUser of such a user closes a topic that it never joined.       *)
UnsubscribeLight(c, k) ==
  /\ c \in light[k]
  /\ light' = [light EXCEPT ![k] = @ \ {c}]
  /\ Close(k, holders[k])
  /\ drift' = IF topicList[k] = 0 THEN drift ELSE [drift EXCEPT ![k] = @ + 1]
  /\ UNCHANGED <<dispatchVars, asking, holders, lost>>

(* SubscribePubsub up to createPubsubService, which waits for the servers.   *)
(* It looks at the list alone: a component may hold the key as user as well. *)
SubscribePubsub(c, t, k) ==
  /\ c \in Listing
  /\ Listed(c) \notin holders[k]
  /\ <<c, t>> \notin asking[k]
  /\ InitPubsub(k)
  /\ asking' = [asking EXCEPT ![k] = @ \cup {<<c, t>>}]
  /\ UNCHANGED <<dispatchVars, holders, light, lost, drift, orphans>>

(* No server took the proxy: the target is closed again.                     *)
SubscribeFails(c, t, k) ==
  /\ <<c, t>> \in asking[k]
  /\ asking' = [asking EXCEPT ![k] = @ \ {<<c, t>>}]
  /\ Close(k, holders[k])
  /\ UNCHANGED <<dispatchVars, holders, light, lost, drift>>

(* A server took it: the consumer starts and the entry goes into the list,   *)
(* over the entry of a call for the same key that ended first. The topic may *)
(* have been closed meanwhile.                                               *)
SubscribeEnds(c, t, k) ==
  /\ <<c, t>> \in asking[k]
  /\ asking' = [asking EXCEPT ![k] = @ \ {<<c, t>>}]
  /\ UNCHANGED topicVars
  /\ WaitMessage(Listed(c), k)
  /\ holders' = [holders EXCEPT ![k] = @ \cup {Listed(c)}]
  /\ lost' = IF Listed(c) \in holders[k] THEN [lost EXCEPT ![k] = @ + 1]
                                          ELSE lost
  /\ orphans' = [orphans EXCEPT ![k] =
       IF topicList[k] = 0 THEN @ \cup {Listed(c)} ELSE @ \ {Listed(c)}]
  /\ UNCHANGED <<log, taken, light, drift>>

(* UnsubscribePubsub, UnSubscribeUser. The consumer goes on as long as the   *)
(* topic is open.                                                            *)
Unsubscribe(h, k) ==
  /\ h \in holders[k]
  /\ holders' = [holders EXCEPT ![k] = @ \ {h}]
  /\ Close(k, holders'[k])
  /\ UNCHANGED <<dispatchVars, asking, light, lost, drift>>

Dispatch(k) == Take(k) \/ Send(k) \/ Loop(k) \/ End(k)

Next ==
  \/ \E k \in Keys : Arrive(k) \/ Dispatch(k)
  \/ \E k \in Keys : \E n \in 1..MaxConsumers : Handle(k, n)
  \/ \E h \in Hold, k \in Keys : Unsubscribe(h, k)
  \/ \E c \in Comps, k \in Keys :
       \/ SubscribeUser(c, k)
       \/ SubscribeLight(c, k)
       \/ UnsubscribeLight(c, k)
  \/ \E c \in Comps, t \in Threads, k \in Keys :
       \/ SubscribePubsub(c, t, k)
       \/ SubscribeFails(c, t, k)
       \/ SubscribeEnds(c, t, k)

(* Goroutines that can run do run, and a handler returns.                    *)
Fairness ==
  \A k \in Keys :
    /\ WF_vars(Dispatch(k))
    /\ \A n \in 1..MaxConsumers : WF_vars(Handle(k, n))

Spec == Init /\ [][Next]_vars
FairSpec == Spec /\ Fairness

----------------------------------------------------------------------------
(* Properties *)

Fed(k) == {waiting[k][i] : i \in DOMAIN waiting[k]}

(* Types, and one live goroutine for each entry of waitMessageList.          *)
TypeOK ==
  /\ topicList \in [Keys -> Nat]
  /\ gen \in [Keys -> Nat] /\ target \in [Keys -> Nat]
  /\ log \in [Keys -> Seq(Nat)] /\ taken \in [Keys -> Nat]
  /\ consumers \in [Keys ->
       Seq([hold : Hold, at : {"select", "handle", "last", "ended"},
            got : Seq(Nat), sub : Nat, stale : BOOLEAN])]
  /\ waiting \in [Keys -> Seq(Nat)]
  /\ disp \in [Keys -> [at : {"none", "next", "send"}, sub : Nat,
                       todo : Seq(Nat)]]
  /\ asking \in [Keys -> SUBSET (Comps \X Threads)]
  /\ holders \in [Keys -> SUBSET Hold] /\ orphans \in [Keys -> SUBSET Hold]
  /\ light \in [Keys -> SUBSET Comps]
  /\ lost \in [Keys -> Nat] /\ drift \in [Keys -> Nat]

Holding(k) ==
  Cardinality(holders[k]) + Cardinality(asking[k]) + lost[k]

(* pubsub.go:66, 81: whoever subscribes, fails, overlaps or leaves, a topic  *)
(* counts those that hold it, are about to, or were overwritten in a list.   *)
(* It never counts more, so that no topic leaks otherwise; and it counts     *)
(* less only by what users that never joined took away: without such a Close *)
(* no topic is closed under a holder.                                        *)
RefsMatchHolds ==
  \A k \in Keys :
    /\ topicList[k] <= Holding(k)
    /\ Holding(k) <= topicList[k] + drift[k]

(* baseService.go:97-136: who holds a key has a channel in the entry of the  *)
(* key. Exempt are who joined an entry whose dispatcher had not yet found    *)
(* its own subscription cancelled (then the channel may be closed), and who  *)
(* held the key when its topic was closed all the same: nothing tells them,  *)
(* not even when another user joins it again.                                *)
HolderIsFed ==
  \A k \in Keys : \A h \in holders[k] \ orphans[k] :
    \E n \in DOMAIN consumers[k] :
      /\ consumers[k][n].hold = h
      /\ consumers[k][n].sub = gen[k]
      /\ n \in Fed(k) \/ consumers[k][n].stale

SubOf(k, m) == IF m \in DOMAIN log[k] THEN log[k][m] ELSE gen[k]
Heard(k, m, n) ==
  /\ n \in DOMAIN consumers[k]
  /\ \E i \in DOMAIN consumers[k][n].got : consumers[k][n].got[i] = m

(* baseService.go:103-129: while the topic stays open, a message that waits  *)
(* on the dispatcher's subscription reaches every consumer of the entry,     *)
(* however busy the others are.                                              *)
MessagesAreHeard ==
  \A k \in Keys : \A m \in 1..MaxLog, n \in 1..MaxConsumers :
    (/\ disp[k].sub = gen[k] /\ m \in Inbox(k, gen[k]) /\ n \in Fed(k))
      ~> (Heard(k, m, n) \/ Cancelled(k, SubOf(k, m)))
============================================================================
