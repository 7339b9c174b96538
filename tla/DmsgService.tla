---------------------------- MODULE DmsgService ----------------------------
(* The services of one process (tvnode/dmsg.go; light/dmsg.go and            *)
(* test/dmsg.go are the same): they are made, started, stopped and released  *)
(* by one goroutine, whose calls are here lists of steps (todo), while the   *)
(* goroutines that hand them their messages run (consumer). All use the key  *)
(* of one user, so that they share its Target and its topic, and stream      *)
(* protocols of one type share a response handler. What the services do      *)
(* with messages, and the lists of mailboxes and proxies, is in the other    *)
(* modules; a released service is not started again.                         *)
EXTENDS Naturals, Sequences, FiniteSets

CONSTANTS
  ListenMsg,  \* isListenMsg: the message client hears the user's topic
  MaxCalls    \* bound: calls of the application once all is made

ASSUME CallAssumption == ListenMsg \in BOOLEAN /\ MaxCalls \in Nat

VARIABLES
  todo,       \* steps left of the call under way
  ready,      \* CreateDmsgService has returned without an error
  fields,     \* [Svc -> SUBSET Protocol]: the protocols that are not nil
  handles,    \* [Svc -> SUBSET PID]: ProtocolHandleList
  responder,  \* [Stream -> Svc]: whose ResponseHandler the host calls
  user,       \* [Svc -> "nil", "light" or "listens"]
  topicRef,   \* [Topic -> Nat]: refCount of the topic, 0 when not joined
  consumer,   \* [Svc -> "none", "select" or the PID of a handle found]
  enable,     \* the services whose enable flag is set
  query,      \* queryPeerTarget: "nil", "target" (not subscribed), "joined",
              \* "closed"
  proxied,    \* the clients that have a proxy
  chanClosed, \* stopCleanRestResource of the mailbox service is closed
  released,   \* history: services of which Release was called
  stray,      \* history: times a user's topic was left by one that never
              \* joined it
  calls,
  crashed     \* None, or who met a nil pointer, and what was nil

serviceVars == <<todo, ready, fields, handles, responder, user, topicRef, consumer,
          enable, query, proxied, chanClosed, released, stray, calls, crashed>>

NoCrash == <<>>
Svc == {"mailboxService", "mailboxClient", "msgService", "msgClient",
        "channelService", "channelClient", "customService", "customClient"}
Protocol == {"mailbox", "create", "seek", "msg", "query"}
Pair == [seek |-> {"seekReq", "seekRes"}, msg |-> {"msgReq", "msgRes"},
         query |-> {"queryReq", "queryRes"}]
PID == UNION {Pair[p] : p \in DOMAIN Pair}
Stream == {"createMailbox", "createMsgPubsub", "createChannel"}
Topic == {"user", "proxy", "query"}

(* The PIDs under which a pubsub protocol is registered when it is made.     *)
Registers(s, p) ==
  CASE s = "mailboxService" /\ p = "seek" -> {"seekReq"}
    [] s = "mailboxService" /\ p = "msg" -> {"msgReq"}
    [] s = "mailboxClient" /\ p = "seek" -> {"seekRes"}
    [] s = "customClient" /\ p = "query" -> {"queryRes"}
    [] p \in {"msg", "query"} -> Pair[p]
    [] OTHER -> {}

(* Variant: the mailbox service makes its protocols with the user's key.     *)
AnswersWithKey(s, p) ==
  CASE s \in {"mailboxService", "mailboxClient"} /\ p = "mailbox" ->
         {"createMailbox"}
    [] s \in {"msgService", "msgClient"} /\ p = "create" -> {"createMsgPubsub"}
    [] s \in {"channelService", "channelClient"} /\ p = "create" ->
         {"createChannel"}
    [] OTHER -> {}

(* The response handler a stream protocol sets, under the type of the answer *)
(* and the key of the user. The mailbox service has its key from a field     *)
(* that nothing sets.                                                        *)
Answers(s, p) ==
  CASE s = "mailboxClient" /\ p = "mailbox" -> {"createMailbox"}
    [] s \in {"msgService", "msgClient"} /\ p = "create" -> {"createMsgPubsub"}
    [] s \in {"channelService", "channelClient"} /\ p = "create" ->
         {"createChannel"}
    [] OTHER -> {}

(* What the goroutine of a service reads, once it has found a handle. Those  *)
(* of msg and channel services read a copy that is never set to nil.         *)
Needs == [s \in Svc |->
  CASE s = "mailboxService" -> {"seek", "msg"}
    [] s = "mailboxClient" -> {"seek"}
    [] s = "customService" -> {"query"}
    [] OTHER -> {}]

TopicOf(s) == IF s = "customService" THEN "query" ELSE "user"
Holders(t) ==
  CASE t = "user" -> {s \in Svc : user[s] = "listens"}
    [] t = "proxy" -> proxied
    [] t = "query" -> {s \in {"customService"} : query = "joined"}

(* A step of the application, of service s: about the protocol x, if about   *)
(* any, and its PIDs, if those count.                                        *)
PidStep(s, do, x, pids) == [s |-> s, do |-> do, x |-> x, pids |-> pids]
Step(s, do, x) == PidStep(s, do, x, {})
Do(s, do) == Step(s, do, "none")
Unregist(s, x, pids) == PidStep(s, "unregist", x, pids)

-----------------------------------------------------------------------------
(* The calls *)

InitMailboxService(s) == <<Do(s, "listen"), Do(s, "open")>>

(* Loading the list, at the end, is in MailboxService.                       *)
StartMailboxService(s) ==
  <<Step(s, "make", "mailbox"), Step(s, "make", "seek"),
    Step(s, "make", "msg"), Do(s, "enable")>>

(* Variant: Stop drops the protocol that Release drops.                      *)
StopMailboxDrops(s) ==
  <<Do(s, "send"), Do(s, "disable"), Step(s, "clear", "seek")>>

StopMailboxService(s) == <<Do(s, "send"), Do(s, "disable")>>

(* The users' topics, left here too, are in MailboxService.                  *)
ReleaseMailboxService(s) ==
  StopMailboxService(s) \o
  <<Step(s, "clear", "mailbox"),
    Unregist(s, "seek", {"seekReq"}), Step(s, "clear", "seek"),
    Unregist(s, "msg", {"msgReq"}), Step(s, "clear", "msg"),
    Do(s, "leave"), Do(s, "closeChan")>>

InitMailboxClient(s) ==
  <<Do(s, "listen"), Step(s, "make", "mailbox"), Step(s, "make", "seek")>>

(* The PID given up is not the one that was registered.                      *)
ReleaseMailboxClient(s) ==
  <<Step(s, "clear", "mailbox"),
    Unregist(s, "seek", {"seekReq"}), Step(s, "clear", "seek"),
    Do(s, "leave")>>

(* ProxyPubsubService.Start of msg and channel, with the protocols before    *)
(* it: the user is set, and heard if listen.                                 *)
StartProxyPubsub(s, listen) ==
  <<Step(s, "make", "create"), Step(s, "make", "msg"),
    Do(s, IF listen THEN "listen" ELSE "light")>>

StartMsgService(s) == StartProxyPubsub(s, FALSE) \o <<Do(s, "enable")>>
StopMsgService(s) == <<Do(s, "disable")>>

(* The field is set to nil, and then used.                                   *)
ReleaseMsgService(s) ==
  <<Step(s, "clear", "create"), Unregist(s, "create", {}),
    Step(s, "clear", "msg"), Do(s, "disable")>>

InitMsgClient(s) == StartProxyPubsub(s, ListenMsg) \o <<Do(s, "enable")>>

(* The PIDs given up are those of the stream protocol; the user is not left. *)
ReleaseMsgClient(s) ==
  <<Unregist(s, "create", {}), Step(s, "clear", "msg"),
    Step(s, "clear", "create"), Do(s, "disable")>>

StartChannelService(s) == StartProxyPubsub(s, FALSE) \o <<Do(s, "enable")>>
StopChannelService(s) == <<Do(s, "disable")>>
InitChannelClient(s) == StartChannelService(s)

(* ProxyPubsubService.Stop: the user is left, and every channel, which is in *)
(* ProxyPubsub.                                                              *)
ReleaseChannel(s) ==
  <<Step(s, "clear", "create"),
    Unregist(s, "msg", Pair["msg"]), Step(s, "clear", "msg"),
    Do(s, "leaveLight"), Do(s, "disable")>>
ReleaseChannelService(s) == ReleaseChannel(s)
ReleaseChannelClient(s) == ReleaseChannel(s)

InitCustomService(s) == <<Do(s, "light")>>
StartCustomService(s) ==
  <<Step(s, "make", "query"), Do(s, "queryTarget"), Do(s, "enable")>>
StopCustomService(s) == <<Do(s, "stopChan"), Do(s, "disable")>>

(* Closing the target returns an error (the private key of a target is not   *)
(* its public key), with which Release ends: the user is never left.         *)
ReleaseCustomService(s) ==
  <<Unregist(s, "query", Pair["query"]), Step(s, "clear", "query")>>
    \o StopCustomService(s) \o <<Do(s, "leaveQuery")>>

InitCustomClient(s) == <<Do(s, "light"), Step(s, "make", "query")>>
ReleaseCustomClient(s) ==
  <<Unregist(s, "query", {"queryRes"}), Step(s, "clear", "query"),
    Do(s, "leaveLight")>>

(* DmsgService.Init, Start and Stop: one service after the other, up to the  *)
(* first error.                                                              *)
InitAll ==
  InitMailboxService("mailboxService") \o InitMailboxClient("mailboxClient")
    \o InitMsgClient("msgClient") \o InitChannelClient("channelClient")
    \o InitCustomService("customService") \o InitCustomClient("customClient")
    \o <<Do("", "ready")>>
StartAll ==
  StartMailboxService("mailboxService") \o StartMsgService("msgService")
    \o StartChannelService("channelService")
    \o StartCustomService("customService")
StopAll ==
  StopMailboxService("mailboxService") \o StopMsgService("msgService")
    \o StopChannelService("channelService")
    \o StopCustomService("customService")
Release(s) ==
  CASE s = "mailboxService" -> ReleaseMailboxService(s)
    [] s = "mailboxClient" -> ReleaseMailboxClient(s)
    [] s = "msgService" -> ReleaseMsgService(s)
    [] s = "msgClient" -> ReleaseMsgClient(s)
    [] s = "channelService" -> ReleaseChannelService(s)
    [] s = "channelClient" -> ReleaseChannelClient(s)
    [] s = "customService" -> ReleaseCustomService(s)
    [] s = "customClient" -> ReleaseCustomClient(s)

(* SetProxy and ClearProxy: MailboxClient keeps the target; MsgClient has a  *)
(* service peer join the topic as well, and leaves it if none does.          *)
SetProxy(s) ==
  <<Do(s, "join"), Do(s, IF s = "msgClient" THEN "create" ELSE "keep")>>
ClearProxy(s) == <<Do(s, "leaveProxy")>>
-----------------------------------------------------------------------------
ServicesInit ==
  /\ todo = InitAll /\ ready = FALSE
  /\ fields = [s \in Svc |-> {}] /\ handles = [s \in Svc |-> {}]
  /\ responder = [m \in Stream |-> "none"]
  /\ user = [s \in Svc |-> "nil"]
  /\ topicRef = [t \in Topic |-> 0]
  /\ consumer = [s \in Svc |-> "none"]
  /\ enable = {} /\ query = "nil" /\ proxied = {}
  /\ chanClosed = FALSE /\ released = {} /\ stray = 0 /\ calls = 0
  /\ crashed = NoCrash

(* The application is at step do of service s.                               *)
At(s, do) ==
  /\ crashed = NoCrash /\ todo # <<>>
  /\ Head(todo).do = do /\ Head(todo).s = s
Arg == Head(todo).x
Pids == Head(todo).pids
GoOn == todo' = Tail(todo) /\ UNCHANGED crashed
Error == todo' = <<>> /\ UNCHANGED crashed
Nil(s, x) == crashed' = <<s, x>> /\ UNCHANGED todo

JoinTopic(t) == topicRef' = [topicRef EXCEPT ![t] = @ + 1]
Leave(t) ==
  topicRef' = [topicRef EXCEPT ![t] = IF @ = 0 THEN 0 ELSE @ - 1]
-----------------------------------------------------------------------------
(* The steps *)

(* New...Protocol, if there is none: a stream protocol sets its response     *)
(* handler, the last one for an id counts; a pubsub protocol is registered   *)
(* next.                                                                     *)
Make(s) ==
  /\ At(s, "make")
  /\ IF Arg \in fields[s]
     THEN GoOn /\ UNCHANGED <<fields, responder>>
     ELSE /\ fields' = [fields EXCEPT ![s] = @ \cup {Arg}]
          /\ responder' = [m \in Stream |->
               IF m \in Answers(s, Arg) THEN s ELSE responder[m]]
          /\ todo' = <<PidStep(s, "regist", Arg, Registers(s, Arg))>> \o Tail(todo)
          /\ UNCHANGED crashed
  /\ UNCHANGED <<ready, handles, user, topicRef, consumer, enable, query,
                 proxied, chanClosed, released, stray, calls>>

RegistPubsubProtocol(s) ==
  /\ At(s, "regist")
  /\ handles' = [handles EXCEPT ![s] = @ \cup Pids]
  /\ GoOn
  /\ UNCHANGED <<ready, fields, responder, user, topicRef, consumer, enable,
                 query, proxied, chanClosed, released, stray, calls>>

(* The PIDs are asked of the protocol, which may be nil.                     *)
UnregistPubsubProtocol(s) ==
  /\ At(s, "unregist")
  /\ IF Arg \in fields[s]
     THEN handles' = [handles EXCEPT ![s] = @ \ Pids] /\ GoOn
     ELSE Nil(s, Arg) /\ UNCHANGED handles
  /\ UNCHANGED <<ready, fields, responder, user, topicRef, consumer, enable,
                 query, proxied, chanClosed, released, stray, calls>>

Clear(s) ==
  /\ At(s, "clear")
  /\ fields' = [fields EXCEPT ![s] = @ \ {Arg}]
  /\ GoOn
  /\ UNCHANGED <<ready, handles, responder, user, topicRef, consumer, enable,
                 query, proxied, chanClosed, released, stray, calls>>

(* SubscribeUser with a topic: Subscribe can fail; then a consumer starts.   *)
ListenToUser(s) ==
  /\ At(s, "listen")
  /\ \/ Error /\ UNCHANGED <<user, topicRef, consumer>>
     \/ /\ user[s] = "nil"
        /\ user' = [user EXCEPT ![s] = "listens"]
        /\ JoinTopic("user")
        /\ consumer' = [consumer EXCEPT ![s] = "select"]
        /\ GoOn
  /\ UNCHANGED <<ready, fields, handles, responder, enable, query, proxied,
                 chanClosed, released, stray, calls>>

(* SubscribeUser of LightUserService without a topic: a copy of the target,  *)
(* which has the subscription of the mailbox service by now.                 *)
SubscribeLightUser(s) ==
  /\ At(s, "light")
  /\ IF user[s] = "nil"
     THEN user' = [user EXCEPT ![s] = "light"] /\ GoOn
     ELSE Error /\ UNCHANGED user
  /\ UNCHANGED <<ready, fields, handles, responder, topicRef, consumer,
                 enable, query, proxied, chanClosed, released, stray, calls>>

(* UnSubscribeUser of the mailbox service and client.                        *)
UnsubscribeUser(s) ==
  /\ At(s, "leave")
  /\ IF user[s] = "nil"
     THEN Error /\ UNCHANGED <<user, topicRef>>
     ELSE user' = [user EXCEPT ![s] = "nil"] /\ Leave("user") /\ GoOn
  /\ UNCHANGED <<ready, fields, handles, responder, consumer, enable, query,
                 proxied, chanClosed, released, stray, calls>>

(* unsubscribeUser of LightUserService: what it leaves it may not have       *)
(* joined; an error is not looked at.                                        *)
UnsubscribeLightUser(s) ==
  /\ At(s, "leaveLight")
  /\ GoOn
  /\ IF user[s] = "nil"
     THEN UNCHANGED <<user, topicRef, stray>>
     ELSE /\ user' = [user EXCEPT ![s] = "nil"]
          /\ Leave("user")
          /\ stray' = IF topicRef["user"] > 0 THEN stray + 1 ELSE stray
  /\ UNCHANGED <<ready, fields, handles, responder, consumer, enable, query,
                 proxied, chanClosed, released, calls>>

(* CreateBadgerDB, then stopCleanRestResource is made.                       *)
OpenDatastore(s) ==
  /\ At(s, "open")
  /\ GoOn \/ Error
  /\ UNCHANGED <<ready, fields, handles, responder, user, topicRef, consumer,
                 enable, query, proxied, chanClosed, released, stray, calls>>

SetEnable(s) ==
  /\ At(s, "enable")
  /\ enable' = enable \cup {s}
  /\ GoOn
  /\ UNCHANGED <<ready, fields, handles, responder, user, topicRef, consumer,
                 query, proxied, chanClosed, released, stray, calls>>

ClearEnable(s) ==
  /\ At(s, "disable")
  /\ enable' = enable \ {s}
  /\ GoOn
  /\ UNCHANGED <<ready, fields, handles, responder, user, topicRef, consumer,
                 query, proxied, chanClosed, released, stray, calls>>

(* Nobody receives: the send is skipped, or panics on a closed channel.      *)
SendStop(s) ==
  /\ At(s, "send")
  /\ IF chanClosed THEN Nil(s, "stopCleanRestResource") ELSE GoOn
  /\ UNCHANGED <<ready, fields, handles, responder, user, topicRef, consumer,
                 enable, query, proxied, chanClosed, released, stray, calls>>

CloseStop(s) ==
  /\ At(s, "closeChan")
  /\ chanClosed' = TRUE
  /\ GoOn
  /\ UNCHANGED <<ready, fields, handles, responder, user, topicRef, consumer,
                 enable, query, proxied, released, stray, calls>>

(* The topic on which peers are asked for, in CustomProtocolService.Start:   *)
(* one target for good, joined or not.                                       *)
QueryTarget(s) ==
  /\ At(s, "queryTarget")
  /\ \/ query # "nil" /\ GoOn /\ UNCHANGED <<query, topicRef, consumer>>
     \/ /\ query = "nil" /\ query' = "target" /\ Error
        /\ UNCHANGED <<topicRef, consumer>>
     \/ /\ query = "nil" /\ query' = "joined" /\ GoOn
        /\ JoinTopic("query")
        /\ consumer' = [consumer EXCEPT ![s] = "select"]
  /\ UNCHANGED <<ready, fields, handles, responder, user, enable, proxied,
                 chanClosed, released, stray, calls>>

(* The stop is sent only if the consumer waits for it: it then ends.         *)
SendStopService(s) ==
  /\ At(s, "stopChan")
  /\ GoOn
  /\ consumer' = IF consumer[s] = "select"
                 THEN [consumer EXCEPT ![s] = "none"] ELSE consumer
  /\ UNCHANGED <<ready, fields, handles, responder, user, topicRef, enable,
                 query, proxied, chanClosed, released, stray, calls>>

(* Target.Close of a target without a subscription uses a nil pointer.       *)
LeaveQuery(s) ==
  /\ At(s, "leaveQuery")
  /\ IF query \in {"nil", "target"}
     THEN Nil(s, "queryPeerTarget") /\ UNCHANGED <<query, topicRef>>
     ELSE query' = "closed" /\ Leave("query") /\ Error
  /\ UNCHANGED <<ready, fields, handles, responder, user, consumer, enable,
                 proxied, chanClosed, released, stray, calls>>

JoinProxy(s) ==
  /\ At(s, "join")
  /\ \/ JoinTopic("proxy") /\ GoOn
     \/ Error /\ UNCHANGED topicRef
  /\ UNCHANGED <<ready, fields, handles, responder, user, consumer, enable,
                 query, proxied, chanClosed, released, stray, calls>>

KeepProxy(s) ==
  /\ At(s, "keep")
  /\ proxied' = proxied \cup {s}
  /\ GoOn
  /\ UNCHANGED <<ready, fields, handles, responder, user, topicRef, consumer,
                 enable, query, chanClosed, released, stray, calls>>

(* Variant: the topic is left by the search and by its caller.               *)
CreateProxyLeavesTwice(s) ==
  /\ At(s, "create")
  /\ \/ proxied' = proxied \cup {s} /\ GoOn /\ UNCHANGED topicRef
     \/ /\ topicRef' = [topicRef EXCEPT !["proxy"] = IF @ < 2 THEN 0 ELSE @ - 2]
        /\ Error /\ UNCHANGED proxied
  /\ UNCHANGED <<ready, fields, handles, responder, user, consumer, enable,
                 query, chanClosed, released, stray, calls>>

(* createPubsubService finds a service peer, or the topic is left again.     *)
CreateProxy(s) ==
  /\ At(s, "create")
  /\ \/ proxied' = proxied \cup {s} /\ GoOn /\ UNCHANGED topicRef
     \/ Leave("proxy") /\ Error /\ UNCHANGED proxied
  /\ UNCHANGED <<ready, fields, handles, responder, user, consumer, enable,
                 query, chanClosed, released, stray, calls>>

LeaveProxy(s) ==
  /\ At(s, "leaveProxy")
  /\ Leave("proxy")
  /\ proxied' = proxied \ {s}
  /\ GoOn
  /\ UNCHANGED <<ready, fields, handles, responder, user, consumer, enable,
                 query, chanClosed, released, stray, calls>>

(* CreateDmsgService returns.                                                *)
Ready ==
  /\ At("", "ready")
  /\ ready' = TRUE
  /\ GoOn
  /\ UNCHANGED <<fields, handles, responder, user, topicRef, consumer, enable,
                 query, proxied, chanClosed, released, stray, calls>>
-----------------------------------------------------------------------------
(* What the application calls *)

Idle == ready /\ todo = <<>> /\ crashed = NoCrash
MayCall == Idle /\ calls < MaxCalls

Call(script) ==
  /\ MayCall
  /\ todo' = script
  /\ calls' = calls + 1
  /\ UNCHANGED <<ready, fields, handles, responder, user, topicRef, consumer,
                 enable, query, proxied, chanClosed, stray, crashed>>

CallStart == released = {} /\ Call(StartAll) /\ UNCHANGED released
CallStop == Call(StopAll) /\ UNCHANGED released
CallRelease(s) == Call(Release(s)) /\ released' = released \cup {s}
CallSetProxy(s) ==
  /\ s \notin proxied
  /\ Call(SetProxy(s)) /\ UNCHANGED released
CallClearProxy(s) ==
  /\ s \in proxied
  /\ Call(ClearProxy(s)) /\ UNCHANGED released

(* CustomProtocolClient.QueryPeer: the target it asks for is one nobody ever *)
(* sets; the error comes with a nil request, which is then converted.        *)
QueryPeer ==
  /\ MayCall
  /\ calls' = calls + 1
  /\ Nil("customClient", "request")
  /\ UNCHANGED <<ready, fields, handles, responder, user, topicRef, consumer,
                 enable, query, proxied, chanClosed, released, stray>>
-----------------------------------------------------------------------------
(* The goroutines of the services: HandlePubsubProtocol *)

(* A message is taken off the channel, and its handle is found, or none is.  *)
(* A message for which none is found changes nothing.                        *)
Lookup(s, pid) ==
  /\ crashed = NoCrash
  /\ consumer[s] = "select" /\ topicRef[TopicOf(s)] > 0
  /\ pid \in handles[s]
  /\ consumer' = [consumer EXCEPT ![s] = pid]
  /\ UNCHANGED <<todo, ready, fields, handles, responder, user, topicRef,
                 enable, query, proxied, chanClosed, released, stray, calls,
                 crashed>>

(* The PIDs of the protocols are asked, and the handle called.               *)
Use(s) ==
  /\ crashed = NoCrash
  /\ consumer[s] \notin {"none", "select"}
  /\ consumer' = [consumer EXCEPT ![s] = "select"]
  /\ \/ Needs[s] \subseteq fields[s] /\ UNCHANGED crashed
     \/ \E f \in Needs[s] \ fields[s] : crashed' = <<s, f>>
  /\ UNCHANGED <<todo, ready, fields, handles, responder, user, topicRef,
                 enable, query, proxied, chanClosed, released, stray, calls>>

(* Nobody is left in the topic: the channel is closed.                       *)
ConsumerEnds(s) ==
  /\ crashed = NoCrash
  /\ consumer[s] = "select" /\ topicRef[TopicOf(s)] = 0
  /\ consumer' = [consumer EXCEPT ![s] = "none"]
  /\ UNCHANGED <<todo, ready, fields, handles, responder, user, topicRef,
                 enable, query, proxied, chanClosed, released, stray, calls,
                 crashed>>
-----------------------------------------------------------------------------
AppStep(s) ==
  \/ Make(s) \/ RegistPubsubProtocol(s) \/ UnregistPubsubProtocol(s)
  \/ Clear(s) \/ ListenToUser(s) \/ SubscribeLightUser(s)
  \/ UnsubscribeUser(s) \/ UnsubscribeLightUser(s) \/ OpenDatastore(s)
  \/ SetEnable(s) \/ ClearEnable(s) \/ SendStop(s) \/ CloseStop(s)
  \/ QueryTarget(s) \/ SendStopService(s) \/ LeaveQuery(s)
  \/ JoinProxy(s) \/ KeepProxy(s) \/ CreateProxy(s) \/ LeaveProxy(s)

Clients == {"mailboxClient", "msgClient"}

ServicesNext ==
  \/ \E s \in Svc : AppStep(s) \/ CallRelease(s)
  \/ Ready \/ CallStart \/ CallStop \/ QueryPeer
  \/ \E s \in Clients : CallSetProxy(s) \/ CallClearProxy(s)
  \/ \E s \in Svc : (\E p \in handles[s] : Lookup(s, p)) \/ Use(s)
                       \/ ConsumerEnds(s)

ServicesSpec == ServicesInit /\ [][ServicesNext]_serviceVars
-----------------------------------------------------------------------------
ServicesTypeOK ==
  /\ ready \in BOOLEAN /\ chanClosed \in BOOLEAN
  /\ fields \in [Svc -> SUBSET Protocol]
  /\ handles \in [Svc -> SUBSET PID]
  /\ responder \in [Stream -> Svc \cup {"none"}]
  /\ user \in [Svc -> {"nil", "light", "listens"}]
  /\ topicRef \in [Topic -> Nat]
  /\ consumer \in [Svc -> {"none", "select"} \cup PID]
  /\ enable \subseteq Svc /\ released \subseteq Svc /\ proxied \subseteq Clients
  /\ query \in {"nil", "target", "joined", "closed"}
  /\ stray \in Nat /\ calls \in 0..MaxCalls

(* mailbox/service.go:96-103, 661-664, customProtocol/client.go:75-79: no    *)
(* call and no message, in whatever order they come, uses a protocol that is *)
(* nil, but for three cases: a service is being released or was, a peer is   *)
(* queried, or a seek reaches the mailbox service in Start before its second *)
(* protocol is made.                                                         *)
CrashHasCause ==
  crashed # NoCrash =>
    \/ released # {}
    \/ crashed = <<"customClient", "request">>
    \/ /\ crashed = <<"mailboxService", "msg">>
       /\ todo # <<>> /\ Head(todo) = Step("mailboxService", "make", "msg")

(* user.go:135-153, lightUserService.go:106-118, pubsub.go:72-93: a topic    *)
(* that services of the process hold is not left while they hold it, but for *)
(* as many times as a light user was closed who had never joined it.         *)
HeldIsOpen ==
  \A t \in Topic :
    topicRef[t] + (IF t = "user" THEN stray ELSE 0) >= Cardinality(Holders(t))

(* newStream.go:27-28, 75-76: answers come to the client that asks, until a  *)
(* service that answers the same type of request is started with its key:    *)
(* from then on its handler gets them, and the client waits in vain. The     *)
(* mailbox service leaves its client alone.                                  *)
AnswersComeHome ==
  ready =>
    /\ responder["createMailbox"] = "mailboxClient"
    /\ responder["createMsgPubsub"] # "msgClient" =>
         "create" \in fields["msgService"] \/ "msgService" \in released
    /\ responder["createChannel"] # "channelClient" =>
         "create" \in fields["channelService"] \/ "channelService" \in released
=============================================================================
