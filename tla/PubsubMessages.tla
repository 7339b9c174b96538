--------------------------- MODULE PubsubMessages ---------------------------
(* dmsg/service/msg and dmsg/service/channel over ProxyPubsub: messages      *)
(* published on the topic of a key, and the answers of those who receive     *)
(* them, published on the topic of the sender's key. Who can publish on a    *)
(* topic, and who hears it, follows from the lists of ProxyPubsub. A copy    *)
(* that is never handled is a lost one; gossipsub gives each hearer one copy *)
(* at most, the publisher too.                                               *)
EXTENDS ProxyPubsub

CONSTANTS
  Own,         \* [Clients -> Keys]: the key of the user of a client
               \* only those of the msg component listen to it;
               \* a channel client may be of the same user
  MaxMsgs      \* bound: messages sent

ASSUME MessageAssumption == MaxMsgs \in Nat

VARIABLES
  sent,      \* messages: [from, dest, n]
  requests,  \* copies of messages on their way: [m, to]
  replies,   \* copies of answers: [m, by, to, code]
  received,  \* [Clients -> SUBSET messages]: handed to OnReceiveMsg
  unread,    \* history: [Clients -> SUBSET messages]: taken while the
             \* application had set no OnReceiveMsg
  responded, \* [Clients -> SUBSET [m, by]]: handed to OnRespondMsg
  enable     \* [Clients -> BOOLEAN]: not released

msgVars == <<sent, requests, replies, received, unread, responded, enable>>
vars == <<proxyVars, msgVars>>

(* WaitMessage: who has a goroutine for the messages of a topic.             *)
Hearers(k) ==
  {c \in Clients : k \in held[c] \/ (c \in MsgClients /\ Own[c] = k)}

(* GetPublishTarget of both components: the target of a subscribed key, or   *)
(* that of the user, LightUser.Target, whether or not it has a topic.        *)
GetPublishTarget(c, k) == k \in held[c] \/ k = Own[c]

(* The user's target has a topic when a msg client of the process listens to *)
(* the key.  Without one Publish panics: such a call is not made here, and   *)
(* an answer not given.                                                      *)
Publishes(c, k) ==
  /\ GetPublishTarget(c, k)
  /\ k \in held[c] \/ \E d \in MsgClients : Own[d] = k

Init ==
  /\ ProxyInit
  /\ sent = {} /\ requests = {} /\ replies = {}
  /\ received = [c \in Clients |-> {}]
  /\ unread = [c \in Clients |-> {}]
  /\ responded = [c \in Clients |-> {}]
  /\ enable = [c \in Clients |-> TRUE]

----------------------------------------------------------------------------
(* SendMsg: without a target the call fails and nothing is published.        *)
SendMsg(c, k) ==
  LET m == [from |-> c, dest |-> k, n |-> Cardinality(sent)] IN
  /\ m.n < MaxMsgs
  /\ Publishes(c, k)
  /\ sent' = sent \cup {m}
  /\ requests' = requests \cup {[m |-> m, to |-> d] : d \in Hearers(k)}
  /\ UNCHANGED <<proxyVars, replies, received, unread, responded, enable>>

(* The answer of d to m, with a code, on the topic of the sender's key;      *)
(* without a target none is sent.                                            *)
Reply(d, m, code) ==
  replies' = IF code # Silent /\ Publishes(d, Own[m.from])
             THEN replies \cup {[m |-> m, by |-> d, to |-> e, code |-> code] :
                                  e \in Hearers(Own[m.from])}
             ELSE replies

(* MsgBase.OnPubsubMsgRequest looks at nothing but enable: the sender's own  *)
(* message and one to another user are handed over as well.                  *)
MsgTakes(x) == x.to \in MsgClients /\ enable[x.to]

(* ChannelBase.OnPubsubMsgRequest takes what is for a channel it is still    *)
(* subscribed to, or for its own key.                                        *)
ChannelTakes(x) ==
  /\ x.to \notin MsgClients /\ enable[x.to]
  /\ x.m.dest \in held[x.to] \cup {Own[x.to]}

Takes(x) == MsgTakes(x) \/ ChannelTakes(x)

(* What the callback returns: the content the application gives, or the code *)
(* of its error; with no OnReceiveMsg set, no content, and no error either.  *)
(* A request that is not taken is aborted.                                   *)
Outcomes(x, set) ==
  IF ~Takes(x) THEN {Aborted}
  ELSE IF set THEN {Returned("bytes"), Coded(ErrCode)}
  ELSE {Returned("bytes")}

Received(x, set) ==
  /\ received' = IF Takes(x) /\ set
                 THEN [received EXCEPT ![x.to] = @ \cup {x.m}] ELSE received
  /\ unread' = IF Takes(x) /\ ~set
               THEN [unread EXCEPT ![x.to] = @ \cup {x.m}] ELSE unread

(* Variant: an aborted request is answered too.                              *)
HandleAnyRequest(x) ==
  /\ requests' = requests \ {x}
  /\ Received(x, TRUE) /\ Reply(x.to, x.m, SuccCode)
  /\ UNCHANGED <<proxyVars, sent, responded, enable>>

(* HandleRequestData of a pubsub protocol: the callback, then the answer the *)
(* adapter makes of what it returns.  The application calls SetOnReceiveMsg  *)
(* when it likes: the handlers run before it has, and whether one is set is  *)
(* a choice of the moment.                                                   *)
HandleRequestData(x) ==
  /\ requests' = requests \ {x}
  /\ \E set \in BOOLEAN :
        /\ Received(x, set)
        /\ \E o \in Outcomes(x, set) :
              Reply(x.to, x.m, AnswerTo(PubsubMsgAdapter, o))
  /\ UNCHANGED <<proxyVars, sent, responded, enable>>

(* OnPubsubMsgResponse of MsgBase and of ChannelBase look at the code, and   *)
(* not at who has sent the message.                                          *)
MsgHears(y) == y.to \in MsgClients /\ enable[y.to] /\ y.code = SuccCode
ChannelHears(y) == y.to \notin MsgClients /\ enable[y.to] /\ y.code = SuccCode

(* HandleResponseData, at everyone who hears the sender's key.               *)
HandleResponseData(y) ==
  /\ replies' = replies \ {y}
  /\ responded' = IF MsgHears(y) \/ ChannelHears(y)
       THEN [responded EXCEPT ![y.to] = @ \cup {[m |-> y.m, by |-> y.by]}]
       ELSE responded
  /\ UNCHANGED <<proxyVars, sent, requests, received, unread, enable>>

(* Release of a msg client clears enable; its goroutines, topics and list    *)
(* stay as they are.                                                         *)
Release(c) ==
  /\ c \in MsgClients /\ enable[c]
  /\ enable' = [enable EXCEPT ![c] = FALSE]
  /\ UNCHANGED <<proxyVars, sent, requests, replies, received, unread, responded>>

----------------------------------------------------------------------------
Next ==
  \/ ProxyNext /\ UNCHANGED msgVars
  \/ \E c \in Clients, k \in Keys : SendMsg(c, k)
  \/ \E x \in requests : HandleRequestData(x)
  \/ \E y \in replies : HandleResponseData(y)
  \/ \E c \in Clients : Release(c)

(* The goroutines of a client and of the cleaning go on by themselves; the   *)
(* network promises nothing.                                                 *)
Spec == Init /\ [][Next]_vars
FairSpec ==
  /\ Spec
  /\ \A c \in Clients : WF_vars(ClientStep(c) /\ UNCHANGED msgVars)
  /\ \A s \in Servers : WF_vars(Clean(s) /\ UNCHANGED msgVars)

----------------------------------------------------------------------------
(* Properties *)

(* Types; a key is subscribed by a client once at a time.                    *)
TypeOK ==
  /\ ProxyTypeOK
  /\ sent \subseteq [from : Clients, dest : Keys, n : 0..MaxMsgs - 1]
  /\ requests \subseteq [m : sent, to : Clients]
  /\ replies \subseteq [m : sent, by : Clients, to : Clients, code : {SuccCode, ErrCode}]
  /\ received \in [Clients -> SUBSET sent] /\ unread \in [Clients -> SUBSET sent]
  /\ responded \in [Clients -> SUBSET [m : sent, by : Clients]]
  /\ enable \in [Clients -> BOOLEAN]

(* msg/base.go:56-106, 108-164, channel/base.go:52-158: an answer that       *)
(* reaches an application is about a message that the application of the one *)
(* who answered was given, or that came when it had set no OnReceiveMsg: the *)
(* code answers success then as well, and nobody has the message.  Whatever  *)
(* else keeps a message from its receiver keeps the answer from its sender.  *)
RespondedWasReceived ==
  \A c \in Clients : \A y \in responded[c] : y.m \in received[y.by] \cup unread[y.by]
=============================================================================
