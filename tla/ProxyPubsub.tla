---------------------------- MODULE ProxyPubsub ----------------------------
(* dmsg/service/common/proxyPubsubService.go: a client that subscribes to a  *)
(* key (SubscribePubsub with createPubsubProxy) has one of the service peers *)
(* join the key's topic for it. A service peer lists the keys it has joined  *)
(* (PubsubList), up to a limit, and leaves each after some days             *)
(* (CleanRestPubsub). Nothing of the list is kept on disk. Each request is   *)
(* handled in a goroutine of its own: the list is looked at when it starts   *)
(* and written when it ends. A message that is never handled is a lost one.  *)
EXTENDS ProtocolAdapter, FiniteSets, FiniteSetsExt

CONSTANTS
  Clients,         \* peers whose applications subscribe to keys
  MsgClients,      \* clients of the msg component; others are the channel's
  Servers,         \* services of service peers, each with its own list
  MsgServers,      \* those of the msg component
  Keys,            \* public keys; a topic is named after one
  MaxPubsubCount,  \* the limit of a service peer's list
  KeepPubsubDay,   \* days an entry of a list is kept
  Wants,           \* [Clients -> SUBSET Keys]: what its application subscribes to
  Absent,          \* no entry
  MaxCalls,        \* bound: calls of SubscribePubsub
  MaxDay,          \* bound: days that pass
  MaxCrashes       \* bound: restarts of service peers

ASSUME ClientAssumption == MsgClients \subseteq Clients /\ MsgServers \subseteq Servers
ASSUME LimitAssumption == MaxPubsubCount \in Nat /\ KeepPubsubDay \in Nat \ {0}
ASSUME BoundAssumption ==
  MaxCalls \in Nat /\ MaxDay \in Nat /\ MaxCrashes \in Nat
ASSUME AbsentAssumption == Absent \notin Nat

VARIABLES
  list,      \* [Servers -> [Keys -> day of LastTimestamp, or Absent]]
  refs,      \* [Servers -> [Keys -> Nat]]: times the topic is joined
  handlers,  \* creates past the two checks: requests
  reqs,      \* create requests on their way: [c, k, s, n]
  answers,   \* their answers: [r, code, epoch]
  call,      \* [Clients -> [at, k, n, s, rest]]: SubscribePubsub of a client
  held,      \* [Clients -> SUBSET Keys]: the client's own PubsubList
  proxy,     \* history: [Clients -> [Keys -> [s, epoch] of the answer]]
  born,      \* history: [Servers -> [Keys -> day of the last insertion]]
  epoch,     \* [Servers -> Nat]: restarts
  day, calls

serverVars == <<list, refs, handlers, born, epoch>>
clientVars == <<call, held, proxy, calls>>
proxyVars == <<serverVars, clientVars, reqs, answers, day>>

Idle == [at |-> "idle", k |-> Absent, n |-> 0, s |-> Absent, rest |-> {}]
NoProxy == [s |-> Absent, epoch |-> 0]
Listed(s) == {k \in Keys : list[s][k] # Absent}
isAvailablePubsub(s) == Cardinality(Listed(s)) < MaxPubsubCount
Awaited(a) ==
  call[a.r.c].at = "asked" /\ call[a.r.c].n = a.r.n /\ call[a.r.c].s = a.r.s
ServersFor(c) == IF c \in MsgClients THEN MsgServers ELSE Servers \ MsgServers
AdapterOf(s) ==
  IF s \in MsgServers THEN CreateMsgPubsubAdapter ELSE CreateChannelAdapter
Answer(r, o) ==
  [r |-> r, code |-> AnswerTo(AdapterOf(r.s), o), epoch |-> epoch[r.s]]

ProxyInit ==
  /\ list = [s \in Servers |-> [k \in Keys |-> Absent]]
  /\ refs = [s \in Servers |-> [k \in Keys |-> 0]]
  /\ handlers = {} /\ reqs = {} /\ answers = {}
  /\ call = [c \in Clients |-> Idle]
  /\ held = [c \in Clients |-> {}]
  /\ proxy = [c \in Clients |-> [k \in Keys |-> NoProxy]]
  /\ born = [s \in Servers |-> [k \in Keys |-> 0]]
  /\ epoch = [s \in Servers |-> 0]
  /\ day = 0 /\ calls = 0

----------------------------------------------------------------------------
(* The service peer *)

(* Variant: a topic that is joined already is not counted again.            *)
JoinOncePubsubRequest(r) ==
  /\ reqs' = reqs \ {r}
  /\ \/ /\ ~isAvailablePubsub(r.s)
        /\ answers' = answers \cup {Answer(r, Failed)}
        /\ UNCHANGED <<refs, handlers>>
     \/ /\ isAvailablePubsub(r.s)
        /\ r.k \in Listed(r.s)
        /\ answers' = answers \cup {Answer(r, Coded(AlreadyExistCode))}
        /\ UNCHANGED <<refs, handlers>>
     \/ /\ isAvailablePubsub(r.s)
        /\ r.k \notin Listed(r.s)
        /\ refs' = [refs EXCEPT ![r.s][r.k] = 1]
        /\ handlers' = handlers \cup {r}
        /\ UNCHANGED answers
  /\ UNCHANGED <<list, born, epoch, clientVars, day>>

(* OnCreatePubsubRequest. The limit is looked at first, so that a full peer  *)
(* refuses a key it has.                                                     *)
OnCreatePubsubRequest(r) ==
  /\ reqs' = reqs \ {r}
  /\ \/ /\ ~isAvailablePubsub(r.s)
        /\ answers' = answers \cup {Answer(r, Failed)}
        /\ UNCHANGED <<refs, handlers>>
     \/ /\ isAvailablePubsub(r.s)
        /\ r.k \in Listed(r.s)
        /\ answers' = answers \cup {Answer(r, Coded(AlreadyExistCode))}
        /\ UNCHANGED <<refs, handlers>>
     \/ /\ isAvailablePubsub(r.s)
        /\ r.k \notin Listed(r.s)
        /\ refs' = [refs EXCEPT ![r.s][r.k] = @ + 1]
        /\ handlers' = handlers \cup {r}
        /\ UNCHANGED answers
  /\ UNCHANGED <<list, born, epoch, clientVars, day>>

(* SubscribePubsub at the service peer, after InitPubsub has joined the      *)
(* topic: the entry is written, over one written meanwhile.                  *)
InsertPubsub(r) ==
  /\ handlers' = handlers \ {r}
  /\ list' = [list EXCEPT ![r.s][r.k] = day]
  /\ born' = [born EXCEPT ![r.s][r.k] = day]
  /\ answers' = answers \cup {Answer(r, Done)}
  /\ UNCHANGED <<refs, epoch, clientVars, reqs, day>>

(* UnsubscribePubsub: Close leaves the topic once.                           *)
UnsubscribePubsub(s, k) ==
  /\ list' = [list EXCEPT ![s][k] = Absent]
  /\ refs' = [refs EXCEPT ![s][k] = @ - 1]

(* Variant: an entry of the day before is taken for an old one.              *)
CleanEarlyPubsub(s, k) ==
  /\ k \in Listed(s)
  /\ day - list[s][k] + 1 >= KeepPubsubDay
  /\ UnsubscribePubsub(s, k)
  /\ UNCHANGED <<handlers, born, epoch, clientVars, reqs, answers, day>>

(* Variant: an entry found old is not left if a create for the key is under  *)
(* way.                                                                      *)
CleanIdlePubsub(s, k) ==
  /\ k \in Listed(s)
  /\ day - list[s][k] >= KeepPubsubDay
  /\ \A r \in reqs : r.k # k
  /\ UnsubscribePubsub(s, k)
  /\ UNCHANGED <<handlers, born, epoch, clientVars, reqs, answers, day>>

(* CleanRestPubsub, one key of the list at a time. LastTimestamp is the time *)
(* of the insertion: no request for a key it has renews it.                  *)
CleanRestPubsub(s, k) ==
  /\ k \in Listed(s)
  /\ day - list[s][k] >= KeepPubsubDay
  /\ UnsubscribePubsub(s, k)
  /\ UNCHANGED <<handlers, born, epoch, clientVars, reqs, answers, day>>

Crash(s) ==
  /\ MapThenSumSet(LAMBDA t : epoch[t], Servers) < MaxCrashes
  /\ epoch' = [epoch EXCEPT ![s] = @ + 1]
  /\ list' = [list EXCEPT ![s] = [k \in Keys |-> Absent]]
  /\ refs' = [refs EXCEPT ![s] = [k \in Keys |-> 0]]
  /\ handlers' = {r \in handlers : r.s # s}
  /\ UNCHANGED <<born, clientVars, reqs, answers, day>>

NextDay ==
  /\ day < MaxDay
  /\ day' = day + 1
  /\ UNCHANGED <<serverVars, clientVars, reqs, answers>>

----------------------------------------------------------------------------
(* The client *)

(* SubscribePubsub of a key that is not in the list, up to the search for a  *)
(* service peer in createPubsubService.                                      *)
SubscribePubsub(c, k) ==
  /\ call[c].at = "idle" /\ calls < MaxCalls
  /\ k \in Wants[c] \ held[c]
  /\ calls' = calls + 1
  /\ call' = [call EXCEPT ![c] =
                [at |-> "pick", k |-> k, n |-> calls + 1,
                 s |-> Absent, rest |-> ServersFor(c)]]
  /\ UNCHANGED <<serverVars, held, proxy, reqs, answers, day>>

(* The next service peer is asked; one that cannot be reached is a lost      *)
(* request here.                                                             *)
CreateAsk(c, s) ==
  /\ call[c].at = "pick" /\ s \in call[c].rest
  /\ call' = [call EXCEPT ![c].at = "asked", ![c].s = s, ![c].rest = @ \ {s}]
  /\ reqs' = reqs \cup {[c |-> c, k |-> call[c].k, s |-> s, n |-> call[c].n]}
  /\ UNCHANGED <<serverVars, held, proxy, calls, answers, day>>

(* An answer with a code that is not negative ends the search, and the key   *)
(* is listed; another one goes on. No other one is listed in the meantime:   *)
(* an application makes its calls one after the other.                       *)
CreateAnswer(a) ==
  LET c == a.r.c IN
  /\ Awaited(a)
  /\ answers' = answers \ {a}
  /\ IF a.code >= 0
     THEN /\ call' = [call EXCEPT ![c] = Idle]
          /\ held' = [held EXCEPT ![c] = @ \cup {a.r.k}]
          /\ proxy' = [proxy EXCEPT ![c][a.r.k] =
                         [s |-> a.r.s, epoch |-> a.epoch]]
     ELSE /\ call' = [call EXCEPT ![c].at = "pick"]
          /\ UNCHANGED <<held, proxy>>
  /\ UNCHANGED <<serverVars, calls, reqs, day>>

(* After three seconds the search goes on; a late answer is not waited for.  *)
CreateTimeout(c) ==
  /\ call[c].at = "asked"
  /\ call' = [call EXCEPT ![c].at = "pick"]
  /\ UNCHANGED <<serverVars, held, proxy, calls, reqs, answers, day>>

(* No service peer is left: the topic is left again, the call fails.         *)
CreateNone(c) ==
  /\ call[c].at = "pick" /\ call[c].rest = {}
  /\ call' = [call EXCEPT ![c] = Idle]
  /\ UNCHANGED <<serverVars, held, proxy, calls, reqs, answers, day>>

(* UnsubscribePubsub at the client tells no service peer.                    *)
Unsubscribe(c, k) ==
  /\ k \in held[c]
  /\ held' = [held EXCEPT ![c] = @ \ {k}]
  /\ UNCHANGED <<serverVars, call, proxy, calls, reqs, answers, day>>

----------------------------------------------------------------------------
ServerStep(s) ==
  \/ \E r \in reqs : r.s = s /\ OnCreatePubsubRequest(r)
  \/ \E r \in handlers : r.s = s /\ InsertPubsub(r)
Clean(s) == \E k \in Keys : CleanRestPubsub(s, k)
ClientStep(c) ==
  \/ \E s \in Servers : CreateAsk(c, s)
  \/ CreateTimeout(c) \/ CreateNone(c)

ProxyNext ==
  \/ \E s \in Servers : ServerStep(s) \/ Clean(s) \/ Crash(s)
  \/ \E c \in Clients, k \in Keys : SubscribePubsub(c, k) \/ Unsubscribe(c, k)
  \/ \E c \in Clients : ClientStep(c)
  \/ \E a \in answers : CreateAnswer(a)
  \/ NextDay

ProxyStage == {"idle", "pick", "asked"}
Create == [c : Clients, k : Keys, s : Servers, n : 1..MaxCalls]

ProxyTypeOK ==
  /\ list \in [Servers -> [Keys -> 0..MaxDay \cup {Absent}]]
  /\ refs \in [Servers -> [Keys -> Nat]]
  /\ born \in [Servers -> [Keys -> 0..MaxDay]]
  /\ epoch \in [Servers -> Nat]
  /\ handlers \subseteq Create /\ reqs \subseteq Create
  /\ answers \subseteq [r : Create, code : {SuccCode, ErrCode}, epoch : Nat]
  /\ call \in [Clients -> [at : ProxyStage, k : Keys \cup {Absent}, n : 0..MaxCalls,
                          s : Servers \cup {Absent}, rest : SUBSET Servers]]
  /\ \A c \in Clients : call[c].at # "idle" => /\ call[c].k \in Keys \ held[c]
                                              /\ call[c].n > 0
  /\ held \in [Clients -> SUBSET Keys]
  /\ proxy \in [Clients -> [Keys -> [s : Servers \cup {Absent}, epoch : Nat]]]
  /\ day \in 0..MaxDay /\ calls \in 0..MaxCalls

(* proxyPubsubService.go:117-162, 75: a key in the list of a service peer is *)
(* a topic it has joined, and one being handled too: whatever creates of the *)
(* same key cross, no cleaning leaves a topic that is listed.                *)
ListedIsJoined ==
  \A s \in Servers, k \in Keys :
    k \in Listed(s) \/ (\E r \in handlers : r.s = s /\ r.k = k)
      => refs[s][k] > 0

(* proxyPubsubService.go:142-148, 237-249, 338-345: a key that a client has  *)
(* in its list is in the list of the service peer that answered, until that  *)
(* one restarts or the days to keep are over.                                *)
SubscribedIsBacked ==
  \A c \in Clients : \A k \in held[c] :
    LET p == proxy[c][k]
    IN \/ k \in Listed(p.s)
       \/ epoch[p.s] # p.epoch
       \/ day - born[p.s][k] >= KeepPubsubDay

(* proxyPubsubService.go:372-377: an entry whose days are over goes away,    *)
(* though no one unsubscribes it.                                            *)
StaleProxiesGo ==
  \A s \in Servers, k \in Keys :
    (k \in Listed(s) /\ day - list[s][k] >= KeepPubsubDay)
      ~> (k \notin Listed(s) \/ day - list[s][k] < KeepPubsubDay)
============================================================================
