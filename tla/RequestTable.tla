---------------------------- MODULE RequestTable ----------------------------
(***************************************************************************)
(* Requests and their answers (dmsg/protocol/basic): the table in which a  *)
(* protocol object keeps what it has asked, the callers that wait for the  *)
(* answer on a channel, the peers that serve, the goroutines that handle   *)
(* what comes back, and the ticker that cleans the table.                  *)
(*                                                                         *)
(* An object here is what one client makes: its stream protocol object and *)
(* its pubsub protocol object, whose tables never list the same request.   *)
(* A stream request goes to one peer.  A pubsub request goes to all that   *)
(* listen to the topic, and each of them may answer.  All protocol objects *)
(* of one kind on a node answer to the same stream protocol id, for the    *)
(* node has one public key: the one made last gets the answers of all.     *)
(***************************************************************************)
EXTENDS Integers, FiniteSets

CONSTANTS
    StreamRequest,  \* requests over a stream, by their ids
    PubsubRequest,  \* requests over a topic
    Peer,           \* the peers that serve them
    Object,         \* protocol objects, made for clients of one node
    None

Request == StreamRequest \cup PubsubRequest

(* Ids are strings (uuid.New().String()), and never equal to an index.     *)
ASSUME IdsAreStrings == \A r \in Request : r \notin Int
ASSUME RequestAssumption ==
    /\ StreamRequest \cap PubsubRequest = {}
    /\ None \notin Object \cup Request

Answer == [req : Request, from : Peer]

VARIABLES
    made,       \* objects that exist
    registered, \* the object whose ResponseHandler the host calls
    table,      \* RequestInfoList of each object
    old,        \* requests made more than five minutes ago
    caller,     \* where the caller of each request is
    asker,      \* the object each request was made with
    got,        \* the answer its caller has received
    asked,      \* requests on their way: <<request, peer>>
    answers,    \* answers on their way
    handler,    \* handlers at work: [answer, obj, at, entry]
    told        \* callbacks that have run: [answer, obj, entry] (history)

callVars == <<caller, asker, got>>
netVars == <<asked, answers>>
handleVars == <<handler, told>>
vars == <<made, registered, table, old, callVars, netVars, handleVars>>

Ended == {"answered", "gaveUp", "refused"}

(* The entry is the request that Load has found, or None.                  *)
Telling == [answer : Answer, obj : Object, entry : Request \cup {None}]
Handler == [answer : Answer, obj : Object, at : {"arrived", "loaded", "told"},
            entry : Request \cup {None}]

TypeOK ==
    /\ made \subseteq Object
    /\ registered \in Object \cup {None}
    /\ table \in [Object -> SUBSET Request]
    /\ old \subseteq Request
    /\ caller \in [Request -> {"idle", "listed", "sent", "receiving"} \cup Ended]
    /\ asker \in [Request -> Object \cup {None}]
    /\ got \in [Request -> Answer \cup {None}]
    /\ asked \subseteq Request \X Peer
    /\ answers \subseteq Answer
    /\ handler \subseteq Handler
    /\ told \subseteq Telling

Init ==
    /\ made = {}
    /\ registered = None
    /\ table = [o \in Object |-> {}]
    /\ old = {}
    /\ caller = [r \in Request |-> "idle"]
    /\ asker = [r \in Request |-> None]
    /\ got = [r \in Request |-> None]
    /\ asked = {}
    /\ answers = {}
    /\ handler = {}
    /\ told = {}

-----------------------------------------------------------------------------
(* The objects.                                                            *)

(* New...Protocol: SetStreamHandler replaces the handler of the id.        *)
Register(o) ==
    /\ o \notin made
    /\ made' = made \cup {o}
    /\ registered' = o
    /\ UNCHANGED <<table, old, callVars, netVars, handleVars>>

(* Five minutes go by after a request was made.                            *)
Age(r) ==
    /\ caller[r] # "idle"
    /\ r \notin old
    /\ old' = old \cup {r}
    /\ UNCHANGED <<made, registered, table, callVars, netVars, handleVars>>

Stale(o) == table[o] \cap old

(* TickCleanRequest: the keys of stale requests are collected in a slice,  *)
(* and what is deleted are the indices of the slice.                       *)
TickCleanRequest(o) ==
    /\ o \in made
    /\ table' = [table EXCEPT ![o] = @ \ (0..(Cardinality(Stale(o)) - 1))]
    /\ UNCHANGED <<made, registered, old, callVars, netVars, handleVars>>

-----------------------------------------------------------------------------
(* The caller: Request of a StreamProtocol or of a PubsubProtocol.         *)

Call(r, at) == caller' = [caller EXCEPT ![r] = at]
Forget(r) == table' = [table EXCEPT ![asker[r]] = @ \ {r}]

(* GenRequestInfo fails before it has stored anything.                     *)
GenerateFails(r) ==
    /\ caller[r] = "idle"
    /\ made # {}
    /\ Call(r, "refused")
    /\ UNCHANGED <<made, registered, table, old, asker, got, netVars, handleVars>>

(* GenRequestInfo stores the request.                                      *)
GenRequestInfo(r, o) ==
    /\ caller[r] = "idle"
    /\ o \in made
    /\ table' = [table EXCEPT ![o] = @ \cup {r}]
    /\ asker' = [asker EXCEPT ![r] = o]
    /\ Call(r, "listed")
    /\ UNCHANGED <<made, registered, old, got, netVars, handleVars>>

(* The stream cannot be opened or written: the channel is closed, which no *)
(* one has seen yet, and the entry is deleted.  Whoever reads a stream     *)
(* that was not closed in order handles nothing.                           *)
StreamFails(r) ==
    /\ r \in StreamRequest
    /\ caller[r] = "listed"
    /\ Forget(r)
    /\ Call(r, "refused")
    /\ UNCHANGED <<made, registered, old, asker, got, netVars, handleVars>>

(* GetPublishTarget has no target: the entry stays.                        *)
NoTarget(r) ==
    /\ r \in PubsubRequest
    /\ caller[r] = "listed"
    /\ Call(r, "refused")
    /\ UNCHANGED <<made, registered, table, old, asker, got, netVars, handleVars>>

(* The request is on its way, to the one peer or to those that hear it.  A *)
(* publish that fails is not noticed: Target.Publish answers nil.          *)
Send(r) ==
    /\ caller[r] = "listed"
    /\ \E hearers \in SUBSET Peer :
         /\ r \in StreamRequest => Cardinality(hearers) <= 1
         /\ asked' = asked \cup {<<r, p>> : p \in hearers}
    /\ Call(r, "sent")
    /\ UNCHANGED <<made, registered, table, old, asker, got, answers, handleVars>>

(* Request loads its entry once more, for the channel it returns, and the  *)
(* caller receives on it.  Without the entry the conversion of what it     *)
(* loads would panic.  SendMsg does not receive at all.                    *)
Receive(r) ==
    /\ caller[r] = "sent"
    /\ r \in table[asker[r]]
    /\ \/ Call(r, "receiving")
       \/ r \in PubsubRequest /\ Call(r, "gaveUp")
    /\ UNCHANGED <<made, registered, table, old, asker, got, netVars, handleVars>>

(* Variant: a caller that gives up takes its entry with it.                *)
GiveUpAndForget(r) ==
    /\ caller[r] = "receiving"
    /\ Forget(r)
    /\ Call(r, "gaveUp")
    /\ UNCHANGED <<made, registered, old, asker, got, netVars, handleVars>>

(* The caller's timer runs out.                                            *)
GiveUp(r) ==
    /\ caller[r] = "receiving"
    /\ Call(r, "gaveUp")
    /\ UNCHANGED <<made, registered, table, old, asker, got, netVars, handleVars>>

-----------------------------------------------------------------------------
(* The peer that serves.                                                   *)

(* HandleRequestData: the callback answers, refuses with an error, which   *)
(* is an answer too (GetErrResponse), or wants none; and a request or an   *)
(* answer may be lost on the way, be refused by its signature, or cause a  *)
(* panic that is recovered.                                                *)
Serve(r, p) ==
    /\ <<r, p>> \in asked
    /\ asked' = asked \ {<<r, p>>}
    /\ \/ answers' = answers \cup {[req |-> r, from |-> p]}
       \/ answers' = answers
    /\ UNCHANGED <<made, registered, table, old, callVars, handleVars>>

-----------------------------------------------------------------------------
(* What comes back: HandleResponseData, of each object that hears it.      *)

Hearers(a) == IF a.req \in StreamRequest THEN {registered} ELSE made

(* A stream has a goroutine of its own; the answers on a topic come to     *)
(* each object one after the other.                                        *)
MayStart(h) ==
    h.answer.req \in PubsubRequest =>
        ~\E g \in handler : /\ g.obj = h.obj
                            /\ g.at # "arrived"
                            /\ g.answer.req \in PubsubRequest

(* The handler h goes on, with what it has found.                          *)
Step(h, at, entry) ==
    handler' = (handler \ {h}) \cup
        {[answer |-> h.answer, obj |-> h.obj, at |-> at, entry |-> entry]}

(* RequestInfoList.Load.                                                   *)
Found(h) == IF h.answer.req \in table[h.obj] THEN h.answer.req ELSE None

Arrive(a) ==
    /\ a \in answers
    /\ answers' = answers \ {a}
    /\ handler' = handler \cup
         {[answer |-> a, obj |-> o, at |-> "arrived", entry |-> None] : o \in Hearers(a)}
    /\ UNCHANGED <<made, registered, table, old, callVars, asked, told>>

(* The caller receives a.                                                  *)
Hear(a) ==
    /\ got' = [got EXCEPT ![a.req] = a]
    /\ Call(a.req, "answered")
    /\ UNCHANGED asker

(* The handler looks for the request that has been answered.               *)
Load(h) ==
    /\ h.at = "arrived"
    /\ MayStart(h)
    /\ Step(h, "loaded", Found(h))
    /\ UNCHANGED <<made, registered, table, old, callVars, netVars, told>>

Tell(h) == told' = told \cup {[answer |-> h.answer, obj |-> h.obj, entry |-> h.entry]}

(* CallResponseCallback, with the request or, when it is not known, with   *)
(* nil; that ends the handling of an answer whose request is not known.    *)
CallResponseCallback(h) ==
    /\ h.at = "loaded"
    /\ Tell(h)
    /\ IF h.entry # None THEN Step(h, "told", h.entry) ELSE handler' = handler \ {h}
    /\ UNCHANGED <<made, registered, table, old, callVars, netVars>>

(* Variant: the handler waits for the caller.                              *)
OfferWaits(h) ==
    /\ h.at = "told"
    /\ caller[h.answer.req] = "receiving"
    /\ Hear(h.answer)
    /\ handler' = handler \ {h}
    /\ UNCHANGED <<made, registered, table, old, netVars, told>>

(* The answer is offered to a caller that receives; no one waits for one   *)
(* that does not.  The entry stays, for the other answers of a topic.      *)
Offer(h) ==
    /\ h.at = "told"
    /\ IF caller[h.answer.req] = "receiving"
       THEN Hear(h.answer)
       ELSE UNCHANGED callVars
    /\ handler' = handler \ {h}
    /\ UNCHANGED <<made, registered, table, old, netVars, told>>

-----------------------------------------------------------------------------
CallerStep(r) ==
    \/ GenerateFails(r)
    \/ \E o \in Object : GenRequestInfo(r, o)
    \/ StreamFails(r)
    \/ NoTarget(r)
    \/ Send(r)
    \/ Receive(r)
    \/ GiveUp(r)

HandlerStep(h) ==
    \/ Load(h)
    \/ CallResponseCallback(h)
    \/ Offer(h)

Next ==
    \/ \E o \in Object : Register(o) \/ TickCleanRequest(o)
    \/ \E r \in Request : CallerStep(r) \/ Age(r)
    \/ \E r \in Request, p \in Peer : Serve(r, p)
    \/ \E a \in answers : Arrive(a)
    \/ \E h \in handler : HandlerStep(h)

(* Goroutines are scheduled and timers run out.  (The timer of             *)
(* releaseMailbox does not: its duration is multiplied by a second.  Its   *)
(* request is not among these.)  Nothing is assumed of the network.        *)
Fairness ==
    /\ \A r \in Request : WF_vars(StreamFails(r) \/ NoTarget(r) \/ Send(r) \/ Receive(r))
    /\ \A r \in Request : WF_vars(GiveUp(r))
    /\ \A o \in Object : WF_vars(TickCleanRequest(o))
    /\ \A o \in Object : WF_vars(\E h \in handler : h.obj = o /\ HandlerStep(h))

Spec == Init /\ [][Next]_vars /\ Fairness

-----------------------------------------------------------------------------
(* A request is listed until its caller has its channel: the answer may    *)
(* come, and be handled, before Request has returned, and Request, when it *)
(* fails as when it has sent, loads the entry without asking whether there *)
(* is one (streamProtocol.go, pubsubProtocol.go).                          *)
ListedUntilReturned ==
    \A r \in Request : caller[r] \in {"listed", "sent"} => r \in table[asker[r]]

(* Every answer that comes to the object that asked finds its request: the *)
(* second and third answer on a topic, and one that comes after its caller *)
(* gave up (protocol.go, "delete for mulit pubsub response").              *)
AnswersFindTheirRequest ==
    \A t \in told : t.obj = asker[t.answer.req] => t.entry = t.answer.req

(* When a caller has its answer, the callback has run for that answer and  *)
(* that request, on the object of the caller: seekMailbox reads what       *)
(* OnSeekMailboxResponse has written.                                      *)
ToldBeforeHeard ==
    \A r \in Request : got[r] # None =>
        [answer |-> got[r], obj |-> asker[r], entry |-> r] \in told

(* No answer holds up its handler, which on a topic is the one goroutine   *)
(* that hands an object its messages.                                      *)
AnswersAreHandled ==
    \A o \in Object :
        (\E h \in handler : h.obj = o) ~> (\A h \in handler : h.obj # o)
=============================================================================
