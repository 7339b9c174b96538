------------------------------- MODULE TvBase -------------------------------
(* The node and its peers (tvbase/tvbase.go, peer.go, event.go,            *)
(* rendezvous.go, mdns.go, common/protocol/nodeinfo.go): which peers are   *)
(* listed, with what status, and when the node looks for others.           *)
(*                                                                         *)
(* Every connect has a goroutine, which goes on to list the peer; the      *)
(* changes of libp2p's connections come one after the other to another     *)
(* one.  TvNode adds the process, which starts and ends all this.          *)
EXTENDS Naturals, Sequences, FiniteSets

CONSTANTS
    Peer,
    Boot,       \* cfg.Bootstrap.BootstrapPeers
    Light,      \* the peers whose node info says NodeType_Light
    Loop,       \* goroutines for DiscoverRendezvousPeers; bounds how many run
    MaxEvents   \* bound: changes of a connection not yet handled

ASSUME PeerAssumption == Boot \subseteq Peer /\ Light \subseteq Peer \ Boot
ASSUME LoopAssumption == Loop \cap {"bootstrap", "mdns"} = {}

VARIABLES
    online,         \* peers with a connection
    events,         \* EvtPeerConnectednessChanged on its way: [peer, status]
    servicePeerList, lightPeerList,     \* [Peer -> "none" or the ConnectStatus]
    isRendezvous, isDiscoverRendzvousing,
    late,           \* history: the flag of the search was set although the
                    \* node had met somebody
    node,           \* Start, then netCheck: "start", "idle", "bootstrap",
                    \* and "off" when no goroutine of it runs
    pc,             \* each loop of DiscoverRendezvousPeers
    met,            \* loops whose rendezvousPeerCount is not 0
    visit           \* goroutines of a connect: [peer, by, at]

lists == <<servicePeerList, lightPeerList>>
flags == <<isRendezvous, isDiscoverRendzvousing, late>>
search == <<pc, met>>
vars == <<online, events, lists, flags, node, search, visit>>

Status == {"none", "Connected", "NotConnected"}
Visitor == Loop \cup {"bootstrap", "mdns"}
Visit(p, by, at) == [peer |-> p, by |-> by, at |-> at]
Step(v, at) == visit' = (visit \ {v}) \cup {[v EXCEPT !.at = at]}
Leave(v) == visit' = visit \ {v}

(* No peer is known and nobody looks for one.                              *)
Rest ==
    /\ online = {} /\ events = <<>>
    /\ servicePeerList = [p \in Peer |-> "none"]
    /\ lightPeerList = [p \in Peer |-> "none"]
    /\ isDiscoverRendzvousing = FALSE /\ late = FALSE
    /\ pc = [l \in Loop |-> "off"]
    /\ met = {}

Bootstrap == {Visit(p, "bootstrap", "connect") : p \in Boot}

(* initPeer, and bootstrap of Start under way.                             *)
Init == Rest /\ isRendezvous = FALSE /\ node = "start" /\ visit = Bootstrap

IsExistConnectedPeer ==
    \E p \in Peer : "Connected" \in {servicePeerList[p], lightPeerList[p]}

-----------------------------------------------------------------------------
(* Connections (libp2p); the event is emitted in the order of the changes. *)

Emit(p, status) ==
    /\ Len(events) < MaxEvents
    /\ events' = Append(events, [peer |-> p, status |-> status])

Dialled(p) ==
    IF p \in online THEN UNCHANGED <<online, events>>
    ELSE online' = online \cup {p} /\ Emit(p, "Connected")

Inbound(p) ==
    /\ p \notin online
    /\ online' = online \cup {p} /\ Emit(p, "Connected")
    /\ UNCHANGED <<lists, flags, node, search, visit>>

Disconnect(p) ==
    /\ p \in online
    /\ online' = online \ {p} /\ Emit(p, "NotConnected")
    /\ UNCHANGED <<lists, flags, node, search, visit>>

(* Variant: only the end of a connection is noted.                         *)
TrySetPeerStatusDown(p, status) ==
    IF servicePeerList[p] # "none"
    THEN /\ servicePeerList' = [servicePeerList EXCEPT ![p] = "NotConnected"]
         /\ UNCHANGED lightPeerList
    ELSE /\ lightPeerList' = [lightPeerList EXCEPT
                                  ![p] = IF @ = "none" THEN @ ELSE "NotConnected"]
         /\ UNCHANGED servicePeerList

TrySetPeerStatus(p, status) ==
    IF servicePeerList[p] # "none"
    THEN /\ servicePeerList' = [servicePeerList EXCEPT ![p] = status]
         /\ UNCHANGED lightPeerList
    ELSE /\ lightPeerList' = [lightPeerList EXCEPT
                                  ![p] = IF @ = "none" THEN @ ELSE status]
         /\ UNCHANGED servicePeerList

(* handleNoNet of initRendezvous, which Start calls after bootstrap.       *)
HandleNoNet(status) ==
    isRendezvous' = (isRendezvous /\ ~(/\ status = "NotConnected"
                                       /\ node # "start"
                                       /\ ~IsExistConnectedPeer'))

(* NotifyConnected, NotifyNotConnected.                                    *)
Notify ==
    /\ events # <<>>
    /\ LET e == Head(events)
       IN  TrySetPeerStatus(e.peer, e.status) /\ HandleNoNet(e.status)
    /\ events' = Tail(events)
    /\ UNCHANGED <<online, isDiscoverRendzvousing, late, node, search, visit>>

-----------------------------------------------------------------------------
(* A connect and what follows it.                                          *)

ConnectFails(v) ==
    /\ v.at = "connect"
    /\ Leave(v)
    /\ UNCHANGED <<online, events, lists, flags, node, search>>

(* bootstrap lists the peer without asking; a loop counts it first.        *)
Connect(v) ==
    /\ v.at = "connect"
    /\ Dialled(v.peer)
    /\ Step(v, IF v.by = "bootstrap" THEN "service" ELSE "look")
    /\ met' = met \cup ({v.by} \cap Loop)
    /\ UNCHANGED <<lists, flags, node, pc>>

(* registPeerInfo: a peer that is listed is not asked again.               *)
RegistPeerInfo(v) ==
    /\ v.at = "look"
    /\ IF {servicePeerList[v.peer], lightPeerList[v.peer]} = {"none"}
       THEN Step(v, "ask") ELSE Leave(v)
    /\ UNCHANGED <<online, events, lists, flags, node, search>>

(* requestNodeInfo: the answer says which list.                            *)
NodeInfo(v) ==
    /\ v.at = "ask"
    /\ Step(v, IF v.peer \in Light THEN "light" ELSE "service")
    /\ UNCHANGED <<online, events, lists, flags, node, search>>

NodeInfoError(v) ==
    /\ v.at = "ask"
    /\ Leave(v)
    /\ UNCHANGED <<online, events, lists, flags, node, search>>

(* The timer fires while request reads the stream: nobody is left to take  *)
(* the stop signal, and the caller stays in its send.  That matters to the *)
(* loop that waits for it; nobody waits for a goroutine of mdns.           *)
NodeInfoTimeout(v) ==
    /\ v.at = "ask"
    /\ IF v.by \in Loop THEN Step(v, "hung") ELSE Leave(v)
    /\ UNCHANGED <<online, events, lists, flags, node, search>>

(* RegistServicePeer, RegistLightPeer: by now the peer may have gone.      *)
Regist(v) ==
    /\ v.at \in {"service", "light"}
    /\ IF v.at = "service"
       THEN /\ servicePeerList' = [servicePeerList EXCEPT ![v.peer] = "Connected"]
            /\ UNCHANGED lightPeerList
       ELSE /\ lightPeerList' = [lightPeerList EXCEPT ![v.peer] = "Connected"]
            /\ UNCHANGED servicePeerList
    /\ Leave(v)
    /\ UNCHANGED <<online, events, flags, node, search>>

(* mdns has found a peer, and its connect succeeds (one that fails leaves  *)
(* nothing); one at a time.                                                *)
HandlePeerFound(p) ==
    /\ \A v \in visit : v.by # "mdns"
    /\ Dialled(p)
    /\ visit' = visit \cup {Visit(p, "mdns", "look")}
    /\ UNCHANGED <<lists, flags, node, search>>

-----------------------------------------------------------------------------
(* DiscoverRendezvousPeers *)

Done(by) == \A v \in visit : v.by # by

Go == \E l \in Loop : pc[l] = "off" /\ pc' = [pc EXCEPT ![l] = "test"]

LoopTest(l) ==
    /\ pc[l] = "test"
    /\ pc' = [pc EXCEPT ![l] = IF isRendezvous THEN "off" ELSE "set"]
    /\ UNCHANGED <<online, events, lists, flags, node, met, visit>>

(* Another loop may have met somebody since the test.                      *)
LoopSet(l) ==
    /\ pc[l] = "set"
    /\ pc' = [pc EXCEPT ![l] = "find"]
    /\ isDiscoverRendzvousing' = TRUE
    /\ late' = (late \/ isRendezvous)
    /\ UNCHANGED <<online, events, lists, isRendezvous, node, met, visit>>


FindPeersError(l) ==
    /\ pc[l] = "find"
    /\ pc' = [pc EXCEPT ![l] = "test"]
    /\ UNCHANGED <<online, events, lists, flags, node, met, visit>>

FindPeers(l) ==
    /\ pc[l] = "find"
    /\ pc' = [pc EXCEPT ![l] = "connect"]
    /\ \E S \in SUBSET Peer : visit' = visit \cup {Visit(p, l, "connect") : p \in S}
    /\ UNCHANGED <<online, events, lists, flags, node, met>>

(* wg.Wait is over; without a peer the loop pauses until its ticker fires. *)
(* The count is of this round only, and not used any more.                 *)
Meet(l) ==
    /\ pc[l] = "connect" /\ Done(l)
    /\ pc' = [pc EXCEPT ![l] = "met"]
    /\ isRendezvous' = (isRendezvous \/ l \in met)
    /\ met' = met \ {l}
    /\ UNCHANGED <<online, events, lists, isDiscoverRendzvousing, late, node, visit>>

LoopOn(l) ==
    /\ pc[l] = "met"
    /\ isDiscoverRendzvousing' = FALSE /\ late' = FALSE
    /\ pc' = [pc EXCEPT ![l] = "test"]
    /\ UNCHANGED <<online, events, lists, isRendezvous, node, met, visit>>

-----------------------------------------------------------------------------
(* Start goes on after bootstrap.                                          *)
Start ==
    /\ node = "start" /\ Done("bootstrap")
    /\ node' = "idle"
    /\ Go
    /\ UNCHANGED <<online, events, lists, flags, met, visit>>

(* A tick of netCheck.                                                     *)
NetCheck ==
    /\ node = "idle" /\ ~IsExistConnectedPeer
    /\ node' = "bootstrap"
    /\ visit' = visit \cup Bootstrap
    /\ UNCHANGED <<online, events, lists, flags, search>>

(* ... and after its bootstrap.                                            *)
SearchAgain ==
    /\ node = "bootstrap" /\ Done("bootstrap")
    /\ node' = "idle"
    /\ IF isDiscoverRendzvousing THEN UNCHANGED <<isRendezvous, pc>>
       ELSE isRendezvous' = FALSE /\ Go
    /\ UNCHANGED <<online, events, lists, isDiscoverRendzvousing, late, met, visit>>

-----------------------------------------------------------------------------
VisitStep(v) ==
    Connect(v) \/ ConnectFails(v) \/ RegistPeerInfo(v) \/ NodeInfo(v)
    \/ NodeInfoError(v) \/ NodeInfoTimeout(v) \/ Regist(v)

LoopStep(l) ==
    LoopTest(l) \/ LoopSet(l) \/ FindPeersError(l) \/ FindPeers(l) \/ Meet(l) \/ LoopOn(l)

Next ==
    \/ \E p \in Peer : Inbound(p) \/ Disconnect(p) \/ HandlePeerFound(p)
    \/ Notify
    \/ \E v \in visit : VisitStep(v)
    \/ \E l \in Loop : LoopStep(l)
    \/ Start \/ NetCheck \/ SearchAgain

Spec == Init /\ [][Next]_vars

(* Goroutines are scheduled, dials and tickers come to an end.             *)
Fairness ==
    /\ WF_vars(Notify)
    /\ \A p \in Peer, by \in Visitor :
          WF_vars(\E v \in visit : v.peer = p /\ v.by = by /\ VisitStep(v))
    /\ \A l \in Loop : WF_vars(LoopStep(l))
    /\ WF_vars(Start) /\ WF_vars(NetCheck) /\ WF_vars(SearchAgain)

FairSpec == Spec /\ Fairness

-----------------------------------------------------------------------------
TypeOK ==
    /\ online \subseteq Peer
    /\ \A i \in 1..Len(events) : events[i] \in [peer : Peer, status : Status \ {"none"}]
    /\ servicePeerList \in [Peer -> Status] /\ lightPeerList \in [Peer -> Status]
    /\ {isRendezvous, isDiscoverRendzvousing, late} \subseteq BOOLEAN
    /\ node \in {"start", "idle", "bootstrap", "off"}
    /\ pc \in [Loop -> {"off", "test", "set", "find", "connect", "met"}]
    /\ met \subseteq Loop
    /\ visit \subseteq [peer : Peer, by : Visitor,
                        at : {"connect", "look", "ask", "service", "light", "hung"}]

(* event.go:69-96, peer.go:20-68: a connected peer that is listed as not   *)
(* connected has its event on the way, though a peer may be listed at any  *)
(* moment of its coming and going.  (The reverse does not hold: one that   *)
(* has gone between the question and the listing stays Connected.)         *)
ConnectedIsNoticed ==
    \A p \in online :
        "NotConnected" \in {servicePeerList[p], lightPeerList[p]} =>
            \E i \in 1..Len(events) : events[i] = [peer |-> p, status |-> "Connected"]

=============================================================================
