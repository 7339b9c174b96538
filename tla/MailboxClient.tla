--------------------------- MODULE MailboxClient ---------------------------
(* dmsg/service/mailbox/client.go: how a user finds or makes a mailbox among *)
(* the service peers, reads the one it knows as its own (ServicePeerID) and  *)
(* the others it was told of (UserMailboxPeers, "slivers"), and releases     *)
(* them.  The application makes one call at a time; the goroutine of         *)
(* handlePubsubProtocol handles the answers to a seek at the same time.      *)
(* Servers are MailboxService and MailboxStore seen from outside. A message  *)
(* on the network that is never handled is a lost one. The client is not one *)
(* that asks on behalf of another user (SetProxy).                           *)
EXTENDS ProtocolAdapter, Sequences, FiniteSets

CONSTANTS
  Servers,   \* service peers other than the host itself
  Msgs,      \* messages sent to the user, each once
  NoPeer,    \* ServicePeerID ""
  Timeouts,  \* the timeouts callers give, in seconds
  MaxCalls   \* bound: calls of the application

ASSUME BoundAssumption == Timeouts \subseteq Nat \ {0} /\ MaxCalls \in Nat
ASSUME NoneAssumption == NoPeer \notin Servers

VARIABLES
  box,       \* [Servers -> BOOLEAN]: the server has a mailbox of the user
  had,       \* SUBSET Servers: history, had one at some time
  kept,      \* [Servers -> SUBSET Msgs]: messages kept for the user
  sent,      \* SUBSET Msgs: messages published so far
  reqs,      \* requests on their way: [op, id, s]
  answers,   \* answers on their way: [op, id, s, code, page, more]
  master,    \* lightMailboxUser.ServicePeerID
  slivers,   \* lightMailboxUser.UserMailboxPeers
  calls,     \* number of calls made
  call       \* where the call is: [op, at, t, i, rest, due]; due is history,
             \* what the read under way has still to return

serverVars == <<box, had, kept, sent>>
netVars == <<reqs, answers>>
peerVars == <<master, slivers>>
callerVars == <<serverVars, netVars, peerVars, calls, call>>

Peer == Servers \cup {NoPeer}
Op == {"seek", "create", "read", "release"}
Idle ==
  [op |-> "none", at |-> "idle", t |-> 0, i |-> 0, rest |-> {}, due |-> {}]
InRange(q) == {q[i] : i \in DOMAIN q}

(* The id of the request that the call made last.                            *)
Id == <<calls, call.i>>
AnswerWith(r, adapter, o, page, more) ==
  [op |-> r.op, id |-> r.id, s |-> r.s, code |-> AnswerTo(adapter, o),
   page |-> page, more |-> more]
Answer(r, adapter, o) == AnswerWith(r, adapter, o, {}, FALSE)

(* An answer that nobody waits for any more changes nothing here, unless it  *)
(* is one to a seek: it is not kept.                                         *)
Awaited(a) == a.op = "seek" \/ a.id = Id
Send(a) == answers' = IF Awaited(a) THEN answers \cup {a} ELSE answers
GiveUp == answers' = {a \in answers : a.op = "seek"}

(* A client that starts remembers nothing; servers may have kept a mailbox   *)
(* for its user.                                                             *)
ClientInit ==
  /\ box \in [Servers -> BOOLEAN]
  /\ had = {s \in Servers : box[s]}
  /\ kept = [s \in Servers |-> {}]
  /\ sent = {}
  /\ reqs = {} /\ answers = {}
  /\ master = NoPeer /\ slivers = <<>>
  /\ calls = 0 /\ call = Idle

AskServer(op, n, i, s) ==
  reqs' = reqs \cup {[op |-> op, id |-> <<n, i>>, s |-> s]}

----------------------------------------------------------------------------
(* The servers, seen from outside *)

(* A message to the user is kept by every server that has its mailbox.       *)
Publish(m) ==
  /\ m \notin sent
  /\ sent' = sent \cup {m}
  /\ kept' = [s \in Servers |-> IF box[s] THEN kept[s] \cup {m} ELSE kept[s]]
  /\ UNCHANGED <<box, had, netVars, peerVars, calls, call>>

(* OnSeekMailboxRequest: a seek reaches the servers on the user's topic.     *)
(* One that no longer has the mailbox returns a code and an error.           *)
ServeSeek(r) ==
  /\ r.op = "seek"
  /\ reqs' = reqs \ {r}
  /\ LET o == IF box[r.s] THEN Done ELSE [Failed EXCEPT !.code = NoExistCode]
     IN Send(Answer(r, SeekMailboxAdapter, o))
  /\ UNCHANGED <<serverVars, peerVars, calls, call>>

(* OnCreateMailboxRequest: made or found, or refused because of the limit,   *)
(* which is looked at first, so that a mailbox that is there may be refused. *)
ServeCreate(r) ==
  /\ r.op = "create"
  /\ reqs' = reqs \ {r}
  /\ \E o \in {IF box[r.s] THEN Coded(AlreadyExistCode) ELSE Done, Failed} :
       /\ box' = [box EXCEPT ![r.s] = @ \/ ~o.err]
       /\ had' = IF o.err THEN had ELSE had \cup {r.s}
       /\ Send(Answer(r, CreateMailboxAdapter, o))
  /\ UNCHANGED <<kept, sent, peerVars, calls, call>>

(* The sliver, or in the end the master, that is being read.                 *)
IsSliver == call.i \in call.rest
Reading == IF IsSliver THEN slivers[call.i] ELSE master

Failing(r) ==
  /\ Send(Answer(r, ReadMailboxAdapter, Failed))
  /\ UNCHANGED <<kept, call>>

(* The page ends with the message that fills it, or with the last one. What  *)
(* is in it is deleted, but for the message that fills it and those whose    *)
(* deletion fails, which is only logged ("stays"); ExistData says whether    *)
(* there is more than the page. What is deleted for an earlier read is no    *)
(* longer due to the one under way.                                          *)
ServePage(r, page, stays) ==
  LET more == page # kept[r.s]
      deleted == page \ stays
  IN /\ more => stays # {}
     /\ Send(AnswerWith(r, ReadMailboxAdapter, Returned("page"), page, more))
     /\ kept' = [kept EXCEPT ![r.s] = @ \ deleted]
     /\ call' = IF call.op = "read" /\ r.s = Reading /\ r.id # Id
                THEN [call EXCEPT !.due = @ \ deleted] ELSE call

(* OnReadMailboxRequest, of a user without a mailbox or with one; the query  *)
(* of the datastore may fail.                                                *)
ServeRead(r) ==
  /\ r.op = "read"
  /\ reqs' = reqs \ {r}
  /\ \/ Failing(r)
     \/ /\ box[r.s]
        /\ \E page \in SUBSET kept[r.s] : \E stays \in SUBSET page :
             ServePage(r, page, stays)
  /\ UNCHANGED <<box, had, sent, peerVars, calls>>

(* OnReleaseMailboxRequest: the messages stay in the datastore.              *)
ServeRelease(r) ==
  /\ r.op = "release"
  /\ reqs' = reqs \ {r}
  /\ LET o == IF box[r.s] THEN Done ELSE Failed
     IN Send(Answer(r, ReleaseMailboxAdapter, o))
  /\ box' = [box EXCEPT ![r.s] = FALSE]
  /\ UNCHANGED <<had, kept, sent, peerVars, calls, call>>

----------------------------------------------------------------------------
(* CreateMailbox *)

(* seekMailbox publishes the seek. Those who may hear it have been on the    *)
(* user's topic.                                                             *)
CreateMailbox ==
  /\ call = Idle /\ calls < MaxCalls
  /\ calls' = calls + 1
  /\ call' = [Idle EXCEPT !.op = "create", !.at = "seek"]
  /\ reqs' = reqs \cup
       {[op |-> "seek", id |-> <<calls + 1, 0>>, s |-> s] : s \in had}
  /\ UNCHANGED <<serverVars, answers, peerVars>>

(* OnSeekMailboxResponse, then the answer is offered to seekMailbox, which   *)
(* takes the first one. An answer to an earlier seek is handled as well: the *)
(* table keeps the request for more answers.                                 *)
SeekAnswer(a) ==
  /\ a.op = "seek"
  /\ answers' = answers \ {a}
  /\ IF a.code # SuccCode THEN UNCHANGED peerVars
     ELSE IF master = NoPeer THEN master' = a.s /\ UNCHANGED slivers
     ELSE slivers' = Append(slivers, a.s) /\ UNCHANGED master
  /\ call' = IF call.at = "seek" /\ a.id = Id THEN Idle ELSE call
  /\ UNCHANGED <<serverVars, reqs, calls>>

(* No answer: createMailbox goes through the service peers.                  *)
SeekTimeout ==
  /\ call.at = "seek"
  /\ call' = [call EXCEPT !.at = "pick", !.rest = Servers]
  /\ UNCHANGED <<serverVars, netVars, peerVars, calls>>

(* The next server is asked. A request that cannot be sent is passed over:   *)
(* that is a lost one and CreateTimeout.                                     *)
CreateAsk(s) ==
  /\ call.at = "pick" /\ s \in call.rest
  /\ call' = [call EXCEPT !.i = @ + 1, !.rest = @ \ {s}, !.at = "made"]
  /\ AskServer("create", calls, call.i + 1, s)
  /\ UNCHANGED <<serverVars, answers, peerVars, calls>>

(* Variant: any answer is taken for a mailbox.                               *)
CreateAnswerAny(a) ==
  /\ a.op = "create" /\ call.at = "made" /\ a.id = Id
  /\ answers' = answers \ {a}
  /\ call' = Idle /\ master' = a.s
  /\ UNCHANGED <<serverVars, reqs, slivers, calls>>

(* Codes 0 and 1 end the search, and the answering peer becomes the master;  *)
(* any other goes on. A late answer changes nothing: nobody waits for it.    *)
CreateAnswer(a) ==
  /\ a.op = "create" /\ call.at = "made" /\ a.id = Id
  /\ answers' = answers \ {a}
  /\ IF a.code \in {SuccCode, AlreadyExistCode}
     THEN call' = Idle /\ master' = a.s
     ELSE call' = [call EXCEPT !.at = "pick"] /\ UNCHANGED master
  /\ UNCHANGED <<serverVars, reqs, slivers, calls>>

CreateTimeout ==
  /\ call.at = "made"
  /\ call' = [call EXCEPT !.at = "pick"]
  /\ GiveUp
  /\ UNCHANGED <<serverVars, reqs, peerVars, calls>>

(* No server is left, or the list of servers cannot be had: ServicePeerID is *)
(* overwritten with "", also when a late answer has set it meanwhile.        *)
CreateNone ==
  /\ call.at = "pick"
  /\ call.rest \in {{}, Servers}
  /\ call' = Idle
  /\ master' = NoPeer
  /\ UNCHANGED <<serverVars, netVars, slivers, calls>>

----------------------------------------------------------------------------
(* ReadMailbox *)

(* The range over UserMailboxPeers is over the slivers of this moment: rest  *)
(* is their number.                                                          *)
ReadMailbox ==
  /\ call = Idle /\ calls < MaxCalls /\ master # NoPeer
  /\ calls' = calls + 1
  /\ call' = [Idle EXCEPT !.op = "read", !.at = "next",
                          !.rest = 1..Len(slivers)]
  /\ UNCHANGED <<serverVars, netVars, peerVars>>

(* readMailbox asks the next sliver, in the end the master.                  *)
ReadAsk ==
  /\ call.at = "next"
  /\ LET j == call.i + 1
         s == IF j \in call.rest THEN slivers[j] ELSE master
     IN /\ call' = [call EXCEPT !.i = j, !.at = "read", !.due = kept[s]]
        /\ AskServer("read", calls, j, s)
  /\ UNCHANGED <<serverVars, answers, peerVars, calls>>

(* The loop of readMailbox goes round. The id may be that of the request     *)
(* before, of which nothing is left on the network.                          *)
ReadAskMore ==
  /\ call.at = "more"
  /\ call' = [call EXCEPT !.at = "read"]
  /\ AskServer("read", calls, call.i, Reading)
  /\ UNCHANGED <<serverVars, answers, peerVars, calls>>

(* A mailbox is done with: the next one, or the end of the call.             *)
ReadNext ==
  IF IsSliver THEN call' = [call EXCEPT !.at = "next", !.t = 0, !.due = {}]
  ELSE call' = Idle

(* Without an error a sliver is released after its read.                     *)
ReadSucceeds(a) ==
  IF IsSliver THEN call' = [call EXCEPT !.at = "release", !.due = @ \ a.page]
  ELSE ReadNext

(* Variant: ExistData is not looked at.                                      *)
ReadAnswerOnce(a) ==
  /\ a.op = "read" /\ call.at = "read" /\ a.id = Id
  /\ answers' = answers \ {a}
  /\ \/ ReadNext
     \/ a.code >= 0 /\ ReadSucceeds(a)
  /\ UNCHANGED <<serverVars, reqs, peerVars, calls>>

(* The answer the call waits for: an error, also of a key that does not      *)
(* parse, ends the read; a page after which there is more asks again. What   *)
(* OnReadMailboxResponse hands over, from late answers too, is followed in   *)
(* MailboxStore.                                                             *)
ReadAnswer(a) ==
  /\ a.op = "read" /\ call.at = "read" /\ a.id = Id
  /\ answers' = answers \ {a}
  /\ \/ ReadNext
     \/ /\ a.code >= 0 /\ a.more
        /\ call' = [call EXCEPT !.at = "more", !.due = @ \ a.page]
     \/ a.code >= 0 /\ ~a.more /\ ReadSucceeds(a)
  /\ UNCHANGED <<serverVars, reqs, peerVars, calls>>

(* Variant: a read that is not answered is asked again.                      *)
ReadTimeoutRetries ==
  /\ call.at = "read"
  /\ call' = [call EXCEPT !.at = "next", !.i = @ - 1, !.due = {}]
  /\ GiveUp
  /\ UNCHANGED <<serverVars, reqs, peerVars, calls>>

(* Every request has its own timer.                                          *)
ReadTimeout ==
  /\ call.at = "read"
  /\ ReadNext
  /\ GiveUp
  /\ UNCHANGED <<serverVars, reqs, peerVars, calls>>

(* releaseMailbox, for a sliver that has been read. Only here does the value *)
(* of the caller's timeout matter.                                           *)
ReleaseAsk ==
  /\ call.at = "release"
  /\ \E t \in Timeouts : call' = [call EXCEPT !.at = "released", !.t = t]
  /\ AskServer("release", calls, call.i, Reading)
  /\ UNCHANGED <<serverVars, answers, peerVars, calls>>

(* ReleaseMailbox: the master is released, read or not, and stays set.       *)
CallReleaseMailbox ==
  /\ call = Idle /\ calls < MaxCalls /\ master # NoPeer
  /\ calls' = calls + 1
  /\ \E t \in Timeouts :
       call' = [Idle EXCEPT !.op = "release", !.at = "released", !.t = t]
  /\ AskServer("release", calls + 1, 0, master)
  /\ UNCHANGED <<serverVars, answers, peerVars>>

ReleaseDone == IF call.op = "read" THEN ReadNext ELSE call' = Idle

ReleaseAnswer(a) ==
  /\ a.op = "release" /\ call.at = "released" /\ a.id = Id
  /\ answers' = answers \ {a}
  /\ ReleaseDone
  /\ UNCHANGED <<serverVars, reqs, peerVars, calls>>

(* time.Second * timeout, of a timeout that counts nanoseconds already: the  *)
(* product is taken mod 2^64 and read as signed. Counted in 10^15 ns (eleven *)
(* days), 2^64 is 18447 and 2^63 is 9223.                                    *)
Product(t) == (1000 * t) % 18447
Wait(t) == IF Product(t) > 9223 THEN Product(t) - 18447 ELSE Product(t)

(* A negative wait is over at once; any other one outlasts the application.  *)
ReleaseTimeout ==
  /\ call.at = "released"
  /\ Wait(call.t) < 0
  /\ ReleaseDone
  /\ GiveUp
  /\ UNCHANGED <<serverVars, reqs, peerVars, calls>>

----------------------------------------------------------------------------
Serve(r) == ServeSeek(r) \/ ServeCreate(r) \/ ServeRead(r) \/ ServeRelease(r)
Receive(a) ==
  SeekAnswer(a) \/ CreateAnswer(a) \/ ReadAnswer(a) \/ ReleaseAnswer(a)
Call == CreateMailbox \/ ReadMailbox \/ CallReleaseMailbox
Step ==
  \/ SeekTimeout \/ CreateTimeout \/ CreateNone
  \/ \E s \in Servers : CreateAsk(s)
  \/ ReadAsk \/ ReadAskMore \/ ReadTimeout \/ ReleaseAsk \/ ReleaseTimeout

ClientNext ==
  \/ \E m \in Msgs : Publish(m)
  \/ \E r \in reqs : Serve(r)
  \/ \E a \in answers : Receive(a)
  \/ Call \/ Step

(* A call goes on by itself; the network and the servers promise nothing.    *)
ClientSpec == ClientInit /\ [][ClientNext]_callerVars
FairClientSpec == ClientSpec /\ WF_callerVars(Step)

----------------------------------------------------------------------------
(* Properties *)

Stage == {"idle", "seek", "pick", "made", "next", "read", "more", "release",
          "released"}

(* Types. A call asks no more servers than it has.                           *)
ClientTypeOK ==
  /\ box \in [Servers -> BOOLEAN] /\ had \subseteq Servers
  /\ kept \in [Servers -> SUBSET Msgs] /\ sent \subseteq Msgs
  /\ reqs \subseteq [op : Op, id : Nat \X Nat, s : Servers]
  /\ answers \subseteq [op : Op, id : Nat \X Nat, s : Servers, code : Int,
                         page : SUBSET Msgs, more : BOOLEAN]
  /\ master \in Peer /\ slivers \in Seq(Servers)
  /\ calls \in 0..MaxCalls
  /\ call.at \in Stage /\ call.i \in Nat

(* client.go:300-307, 557-560: whatever answers come late, twice or from a   *)
(* server that refuses, the peers a user reads from are such as had a        *)
(* mailbox of the user.                                                      *)
KnownHadMailbox == InRange(slivers) \cup ({master} \ {NoPeer}) \subseteq had

(* client.go:134-137, 584-607, service.go:317-343: a sliver is released only *)
(* when every message that was in it when it was asked has been returned to  *)
(* the read, page after page, or deleted for an earlier one whose answer is  *)
(* late. What came in meanwhile, and what is still in it because it filled a *)
(* page or was not deleted, is released with it.                             *)
ReleasedWereRead ==
  call.op = "read" /\ call.at \in {"release", "released"} => call.due = {}

WaitsForRelease == call.at = "released" /\ Wait(call.t) > 0

(* A page after which there is more, of which nothing was deleted: one       *)
(* message fills it, or no deletion succeeds.                                *)
ServesInVain ==
  kept' = kept /\ \E a \in answers' \ answers : a.more

(* client.go:458-478, 565-567, 584-612: a call returns, with any answers     *)
(* lost or late, unless it waits for the answer to a release (:640), if the  *)
(* servers do not for ever serve pages of which they delete nothing.         *)
CallsReturn ==
  <>[][~ServesInVain]_callerVars =>
    (call.at # "idle" ~> (call.at = "idle" \/ WaitsForRelease))
============================================================================
