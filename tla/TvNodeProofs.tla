---------------------------- MODULE TvNodeProofs ----------------------------
(* Theorems of TvBase and TvNode, for any peers and lists of peers, any    *)
(* number of loops and events, and any settings.                           *)
EXTENDS TvNode, TLAPS

Event == [peer : Peer, status : {"Connected", "NotConnected"}]
EventInv == events \in Seq(Event)

(* A peer is listed, and about to be, in one list only.                    *)
ListInv ==
    /\ \A p \in Peer : /\ servicePeerList[p] # "none" => p \notin Light
                       /\ lightPeerList[p] # "none" => p \in Light
    /\ \A v \in visit : /\ v.at = "service" => v.peer \notin Light
                        /\ v.at = "light" => v.peer \in Light
                        /\ v.by = "bootstrap" => v.peer \in Boot

(* The end of a connection that is on again is followed by that event.     *)
LastInv ==
    \A i \in DOMAIN events :
        events[i].status = "NotConnected" /\ events[i].peer \in online =>
            \E j \in DOMAIN events :
                j > i /\ events[j] = [peer |-> events[i].peer, status |-> "Connected"]

NetInv == TypeOK /\ EventInv /\ ListInv /\ LastInv /\ ConnectedIsNoticed

(* There is a launch only of a node that is made, and the hook of netCheck *)
(* runs at its stop only while what it closes is open.                     *)
LaunchInv ==
    /\ main \in {"new", "make"} => launch = "none"
    /\ ~Ended /\ launch \in {"incompleteStart", "started", "stopping"}
         /\ started >= 6 => "netCheck" \in open

NodeInv == NodeTypeOK /\ NetInv /\ LaunchInv /\ PanicsAreEarly

-----------------------------------------------------------------------------
(* The events are those that TypeOK tells of.                              *)
LEMMA EventTypes ==
    ASSUME NEW es \in Seq(Event), NEW i \in 1..Len(es)
    PROVE  es[i] \in [peer : Peer, status : Status \ {"none"}]
<1>1. Event = [peer : Peer, status : Status \ {"none"}]
  BY DEF Event, Status
<1>2. es[i] \in Event
  OBVIOUS
<1> QED
  BY <1>1, <1>2

(* One event more, at the end.                                             *)
LEMMA EmitEffect ==
    ASSUME EventInv, NEW p \in Peer,
           NEW status \in {"Connected", "NotConnected"}, Emit(p, status)
    PROVE  /\ EventInv'
           /\ Len(events) \in Nat /\ Len(events') = Len(events) + 1
           /\ events'[Len(events) + 1] = [peer |-> p, status |-> status]
           /\ \A i \in 1..Len(events) : events'[i] = events[i]
<1> DEFINE e == [peer |-> p, status |-> status]
<1>1. e \in Event /\ events \in Seq(Event)
  BY DEF Event, EventInv
<1>2. events' = Append(events, e)
  BY DEF Emit
<1> HIDE DEF e
<1>3. /\ events' \in Seq(Event)
      /\ Len(events) \in Nat /\ Len(events') = Len(events) + 1
      /\ events'[Len(events) + 1] = e
      /\ \A i \in 1..Len(events) : events'[i] = events[i]
  BY <1>1, <1>2
<1> QED
  BY <1>3 DEF EventInv, e

(* A connection that comes up is noticed, and makes up for an end before.  *)
LEMMA ConnectionUp ==
    ASSUME NetInv, NEW p \in Peer, p \notin online, UNCHANGED lists,
           online' = online \cup {p}, Emit(p, "Connected")
    PROVE  EventInv' /\ LastInv' /\ ConnectedIsNoticed'
<1> DEFINE n == Len(events) + 1
<1>1. /\ EventInv'
      /\ n \in Nat \ {0} /\ Len(events') = n
      /\ events'[n] = [peer |-> p, status |-> "Connected"]
      /\ \A i \in 1..n - 1 : events'[i] = events[i]
  <2>1. /\ EventInv'
        /\ Len(events) \in Nat /\ Len(events') = n
        /\ events'[n] = [peer |-> p, status |-> "Connected"]
        /\ \A i \in 1..Len(events) : events'[i] = events[i]
    BY EmitEffect DEF NetInv
  <2>2. 1..Len(events) = 1..n - 1 /\ n \in Nat \ {0}
    BY <2>1
  <2> QED
    BY <2>1, <2>2
<1>2. DOMAIN events' = 1..n /\ DOMAIN events = 1..n - 1
  BY <1>1 DEF EventInv, NetInv
<1> HIDE DEF n
<1>3. LastInv'
  <2> SUFFICES ASSUME NEW i \in DOMAIN events',
                      events'[i].status = "NotConnected",
                      events'[i].peer \in online'
               PROVE  \E j \in DOMAIN events' :
                        j > i /\ events'[j] = [peer |-> events'[i].peer,
                                              status |-> "Connected"]
    BY DEF LastInv
  <2>1. i \in 1..n - 1
    BY <1>1, <1>2
  <2>2. CASE events'[i].peer = p
    BY <1>1, <1>2, <2>1, <2>2
  <2>3. CASE events'[i].peer # p
    <3>1. events'[i] = events[i] /\ events[i].peer \in online
      BY <1>1, <2>1, <2>3
    <3>2. PICK j \in DOMAIN events :
            j > i /\ events[j] = [peer |-> events[i].peer, status |-> "Connected"]
      BY <1>2, <2>1, <3>1 DEF NetInv, LastInv
    <3> QED
      BY <1>1, <1>2, <3>1, <3>2
  <2> QED
    BY <2>2, <2>3
<1>4. ConnectedIsNoticed'
  <2> SUFFICES ASSUME NEW q \in online',
                      "NotConnected" \in {servicePeerList[q], lightPeerList[q]}
               PROVE  \E i \in 1..Len(events') :
                        events'[i] = [peer |-> q, status |-> "Connected"]
    BY DEF ConnectedIsNoticed, lists
  <2>1. CASE q = p
    BY <1>1, <2>1
  <2>2. CASE q # p
    <3>1. PICK i \in 1..Len(events) :
            events[i] = [peer |-> q, status |-> "Connected"]
      BY <2>2 DEF NetInv, ConnectedIsNoticed
    <3>2. i \in 1..n - 1
      BY <3>1, <1>1 DEF n
    <3> QED
      BY <1>1, <3>1, <3>2
  <2> QED
    BY <2>1, <2>2
<1> QED
  BY <1>1, <1>3, <1>4

(* Of a peer that has gone nothing is asked.                               *)
LEMMA ConnectionDown ==
    ASSUME NetInv, NEW p \in Peer, Disconnect(p)
    PROVE  EventInv' /\ LastInv' /\ ConnectedIsNoticed'
<1> DEFINE n == Len(events) + 1
<1>0. online' = online \ {p} /\ Emit(p, "NotConnected") /\ UNCHANGED lists
  BY DEF Disconnect
<1>1. /\ EventInv'
      /\ n \in Nat \ {0} /\ Len(events') = n
      /\ events'[n] = [peer |-> p, status |-> "NotConnected"]
      /\ \A i \in 1..n - 1 : events'[i] = events[i]
  <2>1. /\ EventInv'
        /\ Len(events) \in Nat /\ Len(events') = n
        /\ events'[n] = [peer |-> p, status |-> "NotConnected"]
        /\ \A i \in 1..Len(events) : events'[i] = events[i]
    BY <1>0, EmitEffect DEF NetInv
  <2>2. 1..Len(events) = 1..n - 1 /\ n \in Nat \ {0}
    BY <2>1
  <2> QED
    BY <2>1, <2>2
<1>2. DOMAIN events' = 1..n /\ DOMAIN events = 1..n - 1
  BY <1>1 DEF EventInv, NetInv
<1> HIDE DEF n
<1>3. LastInv'
  <2> SUFFICES ASSUME NEW i \in DOMAIN events',
                      events'[i].status = "NotConnected",
                      events'[i].peer \in online'
               PROVE  \E j \in DOMAIN events' :
                        j > i /\ events'[j] = [peer |-> events'[i].peer,
                                              status |-> "Connected"]
    BY DEF LastInv
  <2>1. i \in 1..n - 1
    BY <1>0, <1>1, <1>2
  <2>2. events'[i] = events[i] /\ events[i].peer \in online
    BY <1>0, <1>1, <2>1
  <2>3. PICK j \in DOMAIN events :
          j > i /\ events[j] = [peer |-> events[i].peer, status |-> "Connected"]
    BY <1>2, <2>1, <2>2 DEF NetInv, LastInv
  <2> QED
    BY <1>1, <1>2, <2>2, <2>3
<1>4. ConnectedIsNoticed'
  <2> SUFFICES ASSUME NEW q \in online',
                      "NotConnected" \in {servicePeerList[q], lightPeerList[q]}
               PROVE  \E i \in 1..Len(events') :
                        events'[i] = [peer |-> q, status |-> "Connected"]
    BY <1>0 DEF ConnectedIsNoticed, lists
  <2>1. PICK i \in 1..Len(events) :
          events[i] = [peer |-> q, status |-> "Connected"]
    BY <1>0 DEF NetInv, ConnectedIsNoticed
  <2>2. i \in 1..n - 1
    BY <2>1, <1>1 DEF n
  <2> QED
    BY <1>1, <2>1, <2>2
<1> QED
  BY <1>1, <1>3, <1>4

(* A peer whose event is handled is in one list at most, so what is left   *)
(* of it is what its next event says.                                      *)
LEMMA TrySetEffect ==
    ASSUME TypeOK, ListInv, NEW p \in Peer,
           NEW status \in {"Connected", "NotConnected"},
           TrySetPeerStatus(p, status)
    PROVE  /\ servicePeerList' \in [Peer -> Status]
           /\ lightPeerList' \in [Peer -> Status]
           /\ \A q \in Peer : /\ servicePeerList'[q] # "none"
                                   <=> servicePeerList[q] # "none"
                              /\ lightPeerList'[q] # "none"
                                   <=> lightPeerList[q] # "none"
           /\ \A q \in Peer \ {p} : /\ servicePeerList'[q] = servicePeerList[q]
                                    /\ lightPeerList'[q] = lightPeerList[q]
           /\ status = "Connected" =>
                "NotConnected" \notin {servicePeerList'[p], lightPeerList'[p]}
<1>1. status \in Status /\ status # "none"
  BY DEF Status
<1>2. CASE servicePeerList[p] # "none"
  <2>1. lightPeerList[p] = "none"
    BY <1>2 DEF ListInv
  <2> QED
    BY <1>1, <1>2, <2>1 DEF TrySetPeerStatus, TypeOK
<1>3. CASE servicePeerList[p] = "none"
  BY <1>1, <1>3 DEF TrySetPeerStatus, TypeOK
<1> QED
  BY <1>2, <1>3

LEMMA NotifyKeeps ==
    ASSUME NetInv, Notify
    PROVE  NetInv'
<1> DEFINE e == Head(events)
<1>1. /\ events \in Seq(Event) /\ events # <<>>
      /\ events' = Tail(events) /\ online' = online
      /\ UNCHANGED <<isDiscoverRendzvousing, late, node, search, visit>>
      /\ TrySetPeerStatus(e.peer, e.status) /\ HandleNoNet(e.status)
  BY DEF Notify, NetInv, EventInv
<1>2. /\ e \in Event /\ e = events[1]
      /\ events' \in Seq(Event)
      /\ Len(events) \in Nat \ {0} /\ Len(events') = Len(events) - 1
      /\ \A i \in 1..Len(events') : events'[i] = events[i + 1]
  BY <1>1
<1>3. e.peer \in Peer /\ e.status \in {"Connected", "NotConnected"}
      /\ e = [peer |-> e.peer, status |-> e.status]
  BY <1>2 DEF Event
<1> DEFINE p == e.peer
<1>4. /\ servicePeerList' \in [Peer -> Status]
      /\ lightPeerList' \in [Peer -> Status]
      /\ \A q \in Peer : /\ servicePeerList'[q] # "none"
                              <=> servicePeerList[q] # "none"
                         /\ lightPeerList'[q] # "none"
                              <=> lightPeerList[q] # "none"
      /\ \A q \in Peer \ {p} : /\ servicePeerList'[q] = servicePeerList[q]
                               /\ lightPeerList'[q] = lightPeerList[q]
      /\ e.status = "Connected" =>
            "NotConnected" \notin {servicePeerList'[p], lightPeerList'[p]}
  BY <1>1, <1>3, TrySetEffect DEF NetInv
<1> HIDE DEF e
<1>5. EventInv'
  BY <1>2 DEF EventInv
<1>6. TypeOK'
  <2>1. \A i \in 1..Len(events)' : events'[i] \in [peer : Peer, status : Status \ {"none"}]
    BY <1>2, EventTypes
  <2>2. isRendezvous' \in BOOLEAN
    BY <1>1 DEF HandleNoNet
  <2> QED
    BY <1>1, <1>4, <2>1, <2>2 DEF NetInv, TypeOK, search
<1>7. ListInv'
  BY <1>1, <1>4 DEF NetInv, ListInv
<1>8. LastInv'
  <2> SUFFICES ASSUME NEW i \in DOMAIN events',
                      events'[i].status = "NotConnected",
                      events'[i].peer \in online'
               PROVE  \E j \in DOMAIN events' :
                        j > i /\ events'[j] = [peer |-> events'[i].peer,
                                              status |-> "Connected"]
    BY DEF LastInv
  <2>1. i \in 1..Len(events') /\ i + 1 \in DOMAIN events
    BY <1>1, <1>2
  <2>2. PICK j \in DOMAIN events :
          /\ j > i + 1
          /\ events[j] = [peer |-> events[i + 1].peer, status |-> "Connected"]
    BY <1>1, <1>2, <2>1 DEF NetInv, LastInv
  <2>3. j - 1 \in DOMAIN events' /\ j - 1 > i /\ events'[j - 1] = events[j]
    BY <1>1, <1>2, <2>1, <2>2
  <2> QED
    BY <1>2, <2>1, <2>2, <2>3
<1>9. ConnectedIsNoticed'
  <2> SUFFICES ASSUME NEW q \in online',
                      "NotConnected" \in {servicePeerList'[q], lightPeerList'[q]}
               PROVE  \E i \in 1..Len(events') :
                        events'[i] = [peer |-> q, status |-> "Connected"]
    BY DEF ConnectedIsNoticed
  <2>1. q \in Peer
    BY <1>1 DEF NetInv, TypeOK
  <2>2. PICK j \in 1..Len(events) :
          j > 1 /\ events[j] = [peer |-> q, status |-> "Connected"]
    <3>1. CASE q # p
      <4>1. PICK j \in 1..Len(events) :
              events[j] = [peer |-> q, status |-> "Connected"]
        BY <1>1, <1>4, <2>1, <3>1 DEF NetInv, ConnectedIsNoticed
      <4>2. j # 1
        BY <1>2, <3>1, <4>1
      <4> QED
        BY <4>1, <4>2
    <3>2. CASE q = p
      <4>1. e.status = "NotConnected"
        BY <1>3, <1>4, <3>2
      <4>2. 1 \in DOMAIN events
        BY <1>1, <1>2
      <4>3. PICK j \in DOMAIN events :
              j > 1 /\ events[j] = [peer |-> events[1].peer, status |-> "Connected"]
        BY <1>1, <1>2, <3>2, <4>1, <4>2 DEF NetInv, LastInv
      <4> QED
        BY <1>1, <1>2, <3>2, <4>3
    <3> QED
      BY <3>1, <3>2
  <2>3. j - 1 \in 1..Len(events') /\ events'[j - 1] = events[j]
    BY <1>2, <2>2
  <2> QED
    BY <2>2, <2>3
<1> QED
  BY <1>5, <1>6, <1>7, <1>8, <1>9 DEF NetInv

-----------------------------------------------------------------------------
(* What is kept when no connection and no list changes.                    *)
LEMMA QuietKeeps ==
    ASSUME NetInv, TypeOK', UNCHANGED <<online, events, lists>>,
           \A v \in visit' : \/ v \in visit
                            \/ /\ v.at = "service" => v.peer \notin Light
                               /\ v.at = "light" => v.peer \in Light
                               /\ v.by = "bootstrap" => v.peer \in Boot
    PROVE  NetInv'
<1>1. EventInv' /\ LastInv'
  BY DEF NetInv, EventInv, LastInv
<1>2. ListInv'
  BY DEF NetInv, ListInv, lists
<1>3. ConnectedIsNoticed'
  BY DEF NetInv, ConnectedIsNoticed, lists
<1> QED
  BY <1>1, <1>2, <1>3 DEF NetInv

(* A step of a visit, to a stage that its peer may reach.                  *)
LEMMA StepEffect ==
    ASSUME NetInv, NEW v \in visit, NEW at \in {"look", "ask", "service", "light", "hung"},
           Step(v, at),
           at = "service" => v.peer \notin Light,
           at = "light" => v.peer \in Light
    PROVE  /\ visit' \subseteq [peer : Peer, by : Visitor,
                   at : {"connect", "look", "ask", "service", "light", "hung"}]
           /\ \A w \in visit' : \/ w \in visit
                               \/ /\ w.at = "service" => w.peer \notin Light
                                  /\ w.at = "light" => w.peer \in Light
                                  /\ w.by = "bootstrap" => w.peer \in Boot
<1> DEFINE u == [v EXCEPT !.at = at]
<1>1. v \in [peer : Peer, by : Visitor,
              at : {"connect", "look", "ask", "service", "light", "hung"}]
  BY DEF NetInv, TypeOK
<1>2. /\ u \in [peer : Peer, by : Visitor,
                 at : {"connect", "look", "ask", "service", "light", "hung"}]
      /\ u.at = at /\ u.peer = v.peer /\ u.by = v.by
  BY <1>1
<1>3. visit' = (visit \ {v}) \cup {u}
  BY DEF Step
<1>4. v.by = "bootstrap" => v.peer \in Boot
  BY DEF NetInv, ListInv
<1> HIDE DEF u
<1> QED
  BY <1>2, <1>3, <1>4 DEF NetInv, TypeOK

LEMMA DialledKeeps ==
    ASSUME NetInv, NEW p \in Peer, Dialled(p), UNCHANGED lists
    PROVE  /\ EventInv' /\ LastInv' /\ ConnectedIsNoticed'
           /\ online' \subseteq Peer
<1>1. CASE p \in online
  BY <1>1 DEF Dialled, NetInv, EventInv, LastInv, ConnectedIsNoticed, lists, TypeOK
<1>2. CASE p \notin online
  BY <1>2, ConnectionUp DEF Dialled, NetInv, TypeOK
<1> QED
  BY <1>1, <1>2

LEMMA VisitKeeps ==
    ASSUME NetInv, NEW v \in visit, VisitStep(v)
    PROVE  NetInv'
<1>1. v \in [peer : Peer, by : Visitor,
              at : {"connect", "look", "ask", "service", "light", "hung"}]
  BY DEF NetInv, TypeOK
<1>2. ASSUME Leave(v), UNCHANGED <<online, events, lists, flags, node, search>>
      PROVE  NetInv'
  <2>1. TypeOK'
    BY <1>2 DEF Leave, NetInv, TypeOK, lists, flags, search
  <2> QED
    BY <1>2, <2>1, QuietKeeps DEF Leave
<1>3. ASSUME NEW at \in {"look", "ask", "service", "light", "hung"},
             Step(v, at),
             at = "service" => v.peer \notin Light,
             at = "light" => v.peer \in Light,
             UNCHANGED <<online, events, lists, flags, node, search>>
      PROVE  NetInv'
  <2>1. TypeOK'
    BY <1>3, StepEffect DEF NetInv, TypeOK, lists, flags, search
  <2> QED
    BY <1>3, <2>1, StepEffect, QuietKeeps
<1>4. CASE Connect(v)
  <2>1. v.by = "bootstrap" => v.peer \notin Light
    BY PeerAssumption DEF NetInv, ListInv
  <2> DEFINE at == IF v.by = "bootstrap" THEN "service" ELSE "look"
  <2>2. Step(v, at) /\ Dialled(v.peer) /\ UNCHANGED <<lists, flags, node, pc>>
        /\ met' = met \cup ({v.by} \cap Loop)
    BY <1>4 DEF Connect
  <2>3. /\ EventInv' /\ LastInv' /\ ConnectedIsNoticed'
        /\ online' \subseteq Peer
    BY <1>1, <2>2, DialledKeeps
  <2>4. /\ visit' \subseteq [peer : Peer, by : Visitor,
                at : {"connect", "look", "ask", "service", "light", "hung"}]
        /\ \A w \in visit' : \/ w \in visit
                            \/ /\ w.at = "service" => w.peer \notin Light
                               /\ w.at = "light" => w.peer \in Light
                               /\ w.by = "bootstrap" => w.peer \in Boot
    BY <2>1, <2>2, StepEffect
  <2>5. \A i \in 1..Len(events)' : events'[i] \in [peer : Peer, status : Status \ {"none"}]
    BY <2>3, EventTypes DEF EventInv
  <2>6. TypeOK'
    BY <2>2, <2>3, <2>4, <2>5 DEF NetInv, TypeOK, lists, flags
  <2>7. ListInv'
    BY <2>2, <2>4 DEF NetInv, ListInv, lists
  <2> QED
    BY <2>3, <2>6, <2>7 DEF NetInv
<1>5. CASE ConnectFails(v) \/ NodeInfoError(v)
  BY <1>2, <1>5 DEF ConnectFails, NodeInfoError
<1>6. CASE RegistPeerInfo(v)
  BY <1>2, <1>3, <1>6 DEF RegistPeerInfo
<1>7. CASE NodeInfo(v)
  BY <1>3, <1>7 DEF NodeInfo
<1>8. CASE NodeInfoTimeout(v)
  BY <1>2, <1>3, <1>8 DEF NodeInfoTimeout
<1>9. CASE Regist(v)
  <2>1. /\ Leave(v)
        /\ UNCHANGED <<online, events, flags, node, search>>
        /\ v.at \in {"service", "light"}
    BY <1>9 DEF Regist
  <2>2. /\ servicePeerList' \in [Peer -> Status]
        /\ lightPeerList' \in [Peer -> Status]
        /\ \A q \in Peer :
             /\ servicePeerList'[q] # "none" => q \notin Light
             /\ lightPeerList'[q] # "none" => q \in Light
             /\ servicePeerList'[q] \in {servicePeerList[q], "Connected"}
             /\ lightPeerList'[q] \in {lightPeerList[q], "Connected"}
    <3>1. CASE v.at = "service"
      <4>1. v.peer \notin Light
        BY <3>1 DEF NetInv, ListInv
      <4> QED
        BY <1>1, <1>9, <3>1, <4>1 DEF Regist, NetInv, ListInv, TypeOK, Status
    <3>2. CASE v.at = "light"
      <4>1. v.peer \in Light
        BY <3>2 DEF NetInv, ListInv
      <4> QED
        BY <1>1, <1>9, <3>2, <4>1 DEF Regist, NetInv, ListInv, TypeOK, Status
    <3> QED
      BY <2>1, <3>1, <3>2
  <2>3. TypeOK'
    BY <2>1, <2>2 DEF Leave, NetInv, TypeOK, flags, search
  <2>4. ListInv'
    BY <2>1, <2>2 DEF Leave, NetInv, ListInv
  <2>5. EventInv' /\ LastInv'
    BY <2>1 DEF NetInv, EventInv, LastInv
  <2>6. ConnectedIsNoticed'
    <3> SUFFICES ASSUME NEW q \in online,
                        "NotConnected" \in {servicePeerList'[q], lightPeerList'[q]}
                 PROVE  \E i \in 1..Len(events) :
                          events[i] = [peer |-> q, status |-> "Connected"]
      BY <2>1 DEF ConnectedIsNoticed
    <3>1. q \in Peer
      BY DEF NetInv, TypeOK
    <3>2. "NotConnected" \in {servicePeerList[q], lightPeerList[q]}
      BY <2>2, <3>1
    <3> QED
      BY <3>2 DEF NetInv, ConnectedIsNoticed
  <2> QED
    BY <2>3, <2>4, <2>5, <2>6 DEF NetInv
<1> QED
  BY <1>4, <1>5, <1>6, <1>7, <1>8, <1>9 DEF VisitStep

LEMMA ConnectionsKeep ==
    ASSUME NetInv, NEW p \in Peer,
           Inbound(p) \/ Disconnect(p) \/ HandlePeerFound(p)
    PROVE  NetInv'
<1> DEFINE Kept == /\ EventInv' /\ LastInv' /\ ConnectedIsNoticed'
                   /\ online' \subseteq Peer
<1>1. ASSUME Kept, UNCHANGED <<lists, flags, node, search, visit>>
      PROVE  NetInv'
  <2>1. \A i \in 1..Len(events)' : events'[i] \in [peer : Peer, status : Status \ {"none"}]
    BY <1>1, EventTypes DEF EventInv
  <2>2. TypeOK'
    BY <1>1, <2>1 DEF NetInv, TypeOK, lists, flags, search
  <2>3. ListInv'
    BY <1>1 DEF NetInv, ListInv, lists
  <2> QED
    BY <1>1, <2>2, <2>3 DEF NetInv
<1>2. CASE Inbound(p)
  <2>1. Kept
    BY <1>2, ConnectionUp DEF Inbound, NetInv, TypeOK
  <2> QED
    BY <1>1, <1>2, <2>1 DEF Inbound
<1>3. CASE Disconnect(p)
  <2>1. Kept
    BY <1>3, ConnectionDown DEF Disconnect, NetInv, TypeOK
  <2> QED
    BY <1>1, <1>3, <2>1 DEF Disconnect
<1>4. CASE HandlePeerFound(p)
  <2>1. Kept
    BY <1>4, DialledKeeps DEF HandlePeerFound
  <2>2. \A i \in 1..Len(events)' : events'[i] \in [peer : Peer, status : Status \ {"none"}]
    BY <2>1, EventTypes DEF EventInv
  <2>3. visit' = visit \cup {Visit(p, "mdns", "look")}
    BY <1>4 DEF HandlePeerFound
  <2>4. /\ Visit(p, "mdns", "look") \in
              [peer : Peer, by : Visitor,
               at : {"connect", "look", "ask", "service", "light", "hung"}]
        /\ Visit(p, "mdns", "look").at = "look"
        /\ Visit(p, "mdns", "look").by = "mdns"
    BY DEF Visit, Visitor
  <2>5. TypeOK'
    <3> HIDE DEF Kept
    <3>1. online' \subseteq Peer
      BY <2>1 DEF Kept
    <3> QED
      BY <1>4, <2>2, <2>3, <2>4, <3>1
      DEF HandlePeerFound, NetInv, TypeOK, lists, flags, search
  <2>6. ListInv'
    BY <1>4, <2>3, <2>4 DEF HandlePeerFound, NetInv, ListInv, lists
  <2> QED
    BY <2>1, <2>5, <2>6 DEF NetInv
<1> QED
  BY <1>2, <1>3, <1>4

(* The peers that a search has found, and those of the bootstrap list, are *)
(* connected first.                                                        *)
LEMMA FoundTypes ==
    ASSUME NEW S \in SUBSET Peer, NEW by \in Visitor
    PROVE  \A v \in {Visit(p, by, "connect") : p \in S} :
              /\ v \in [peer : Peer, by : Visitor,
                        at : {"connect", "look", "ask", "service", "light", "hung"}]
              /\ v.at = "connect" /\ v.by = by /\ v.peer \in S
BY DEF Visit

LEMMA LoopKeeps ==
    ASSUME NetInv, NEW l \in Loop, LoopStep(l)
    PROVE  NetInv'
<1> USE DEF flags, search
<1>1. CASE FindPeers(l)
  <2>1. PICK S \in SUBSET Peer :
          visit' = visit \cup {Visit(p, l, "connect") : p \in S}
    BY <1>1 DEF FindPeers
  <2> DEFINE V == {Visit(p, l, "connect") : p \in S}
  <2>2. l \in Visitor /\ l # "bootstrap"
    BY LoopAssumption DEF Visitor
  <2>3. \A v \in V :
          /\ v \in [peer : Peer, by : Visitor,
                    at : {"connect", "look", "ask", "service", "light", "hung"}]
          /\ v.at = "connect" /\ v.by # "bootstrap"
    BY <2>2, FoundTypes
  <2> HIDE DEF V
  <2>4. visit' = visit \cup V
    BY <2>1 DEF V
  <2>5. TypeOK'
    BY <1>1, <2>3, <2>4 DEF FindPeers, NetInv, TypeOK, lists
  <2> QED
    BY <1>1, <2>3, <2>4, <2>5, QuietKeeps DEF FindPeers
<1>2. CASE LoopTest(l) \/ LoopSet(l) \/ FindPeersError(l) \/ Meet(l) \/ LoopOn(l)
  <2>1. UNCHANGED <<online, events, lists, node, visit>>
    BY <1>2 DEF LoopTest, LoopSet, FindPeersError, Meet, LoopOn
  <2>2. /\ pc' \in [Loop -> {"off", "test", "set", "find", "connect", "met"}]
        /\ met' \subseteq Loop
        /\ {isRendezvous, isDiscoverRendzvousing, late}' \subseteq BOOLEAN
    BY <1>2 DEF LoopTest, LoopSet, FindPeersError, Meet, LoopOn, NetInv, TypeOK
  <2>3. TypeOK'
    BY <2>1, <2>2 DEF NetInv, TypeOK, lists
  <2> QED
    BY <2>1, <2>3, QuietKeeps
<1> QED
  BY <1>1, <1>2 DEF LoopStep

LEMMA BootstrapTypes ==
    \A v \in Bootstrap :
        /\ v \in [peer : Peer, by : Visitor,
                  at : {"connect", "look", "ask", "service", "light", "hung"}]
        /\ v.at = "connect" /\ v.by = "bootstrap" /\ v.peer \in Boot
<1>1. Boot \in SUBSET Peer /\ "bootstrap" \in Visitor
  BY PeerAssumption DEF Visitor
<1> QED
  BY <1>1, FoundTypes DEF Bootstrap

LEMMA StartKeeps ==
    ASSUME NetInv, Start \/ NetCheck \/ SearchAgain
    PROVE  NetInv'
<1> USE DEF flags, search
<1>1. UNCHANGED <<online, events, lists>>
  BY DEF Start, NetCheck, SearchAgain
<1>2. visit' = visit \/ visit' = visit \cup Bootstrap
  BY DEF Start, NetCheck, SearchAgain
<1>3. visit' \subseteq [peer : Peer, by : Visitor,
                at : {"connect", "look", "ask", "service", "light", "hung"}]
  BY <1>2, BootstrapTypes DEF NetInv, TypeOK
<1>4. /\ node' \in {"start", "idle", "bootstrap", "off"}
      /\ pc' \in [Loop -> {"off", "test", "set", "find", "connect", "met"}]
      /\ met' \subseteq Loop
      /\ {isRendezvous, isDiscoverRendzvousing, late}' \subseteq BOOLEAN
  BY DEF Start, NetCheck, SearchAgain, Go, NetInv, TypeOK
<1>5. TypeOK'
  BY <1>1, <1>3, <1>4 DEF NetInv, TypeOK, lists
<1> QED
  BY <1>1, <1>2, <1>5, BootstrapTypes, QuietKeeps

LEMMA NetStep == NetInv /\ [Next]_vars => NetInv'
<1> SUFFICES ASSUME NetInv, [Next]_vars PROVE NetInv'
  OBVIOUS
<1>1. CASE UNCHANGED vars
  <2>1. TypeOK'
    BY <1>1 DEF vars, lists, flags, search, NetInv, TypeOK
  <2> QED
    BY <1>1, <2>1, QuietKeeps DEF vars
<1> QED
  BY <1>1, ConnectionsKeep, NotifyKeeps, VisitKeeps, LoopKeeps, StartKeeps
  DEF Next

(* With nobody known, nothing is to be noticed.                            *)
LEMMA RestInv ==
    ASSUME Rest, isRendezvous \in BOOLEAN,
           node \in {"start", "idle", "bootstrap", "off"},
           visit \subseteq Bootstrap
    PROVE  NetInv
<1>1. TypeOK
  <2>1. visit \subseteq [peer : Peer, by : Visitor,
                at : {"connect", "look", "ask", "service", "light", "hung"}]
    BY BootstrapTypes
  <2>2. \A i \in 1..Len(events) :
          events[i] \in [peer : Peer, status : Status \ {"none"}]
    BY DEF Rest
  <2>3. {isRendezvous, isDiscoverRendzvousing, late} \subseteq BOOLEAN
    BY DEF Rest
  <2>4. /\ servicePeerList \in [Peer -> Status]
        /\ lightPeerList \in [Peer -> Status]
    BY DEF Rest, Status
  <2>5. pc \in [Loop -> {"off", "test", "set", "find", "connect", "met"}]
    BY DEF Rest
  <2> QED
    BY <2>1, <2>2, <2>3, <2>4, <2>5 DEF Rest, TypeOK
<1>2. EventInv /\ LastInv /\ ConnectedIsNoticed
  BY DEF Rest, EventInv, LastInv, ConnectedIsNoticed
<1>3. ListInv
  BY BootstrapTypes DEF Rest, ListInv
<1> QED
  BY <1>1, <1>2, <1>3 DEF NetInv

LEMMA NetInvariance == Spec => []NetInv
<1>1. Init => NetInv
  BY RestInv DEF Init
<1> QED
  BY <1>1, NetStep, PTL DEF Spec

-----------------------------------------------------------------------------
(* TvNode: most of its steps are steps of the network, or end it.          *)

LEMMA HookNames ==
    /\ Len(Hooks) = 7
    /\ \A i \in 1..7 : Hooks[i] = "netCheck" <=> i = 6
    /\ \A i \in 1..7 : Hooks[i] \in {Hooks[j] : j \in 1..Len(Hooks)}
    /\ Host \subseteq {Hooks[j] : j \in 1..Len(Hooks)}
    /\ Hooks[6] = "netCheck"
BY DEF Hooks, Host

LEMMA NetEndsKeeps ==
    ASSUME NetInv, NetEnds
    PROVE  NetInv'
<1>1. /\ Rest'
      /\ isRendezvous' \in BOOLEAN
      /\ node' = "off" /\ visit' = {}
  BY DEF NetEnds, Rest, NetInv, TypeOK
<1>2. TypeOK'
  <2>1. \A i \in 1..Len(events)' :
          events'[i] \in [peer : Peer, status : Status \ {"none"}]
    BY <1>1 DEF Rest
  <2>2. {isRendezvous, isDiscoverRendzvousing, late}' \subseteq BOOLEAN
    BY <1>1 DEF Rest
  <2>3. /\ servicePeerList' \in [Peer -> Status]
        /\ lightPeerList' \in [Peer -> Status]
    BY <1>1 DEF Rest, Status
  <2>4. pc' \in [Loop -> {"off", "test", "set", "find", "connect", "met"}]
    BY <1>1 DEF Rest
  <2> QED
    BY <1>1, <2>1, <2>2, <2>3, <2>4 DEF Rest, TypeOK
<1>3. EventInv' /\ LastInv' /\ ConnectedIsNoticed'
  BY <1>1 DEF Rest, EventInv, LastInv, ConnectedIsNoticed
<1>4. ListInv'
  BY <1>1 DEF Rest, ListInv
<1> QED
  BY <1>2, <1>3, <1>4 DEF NetInv

LEMMA NodeInitInv == NodeInit => NodeInv
<1> SUFFICES ASSUME NodeInit PROVE NodeInv
  OBVIOUS
<1>1. NetInv
  BY RestInv DEF NodeInit
<1>2. NodeTypeOK
  BY <1>1, HookNames DEF NodeInit, NetInv, NodeTypeOK
<1>3. LaunchInv /\ PanicsAreEarly
  BY DEF NodeInit, LaunchInv, PanicsAreEarly
<1> QED
  BY <1>1, <1>2, <1>3 DEF NodeInv

(* A step of the process alone, or with the network.                       *)
LEMMA ExitKeeps ==
    ASSUME NodeInv, NEW how \in {"off", "panic"}, Exit(how),
           how = "panic" => launch = "none"
    PROVE  NodeInv'
<1>1. NetInv'
  BY NetEndsKeeps DEF Exit, NodeInv
<1>2. NodeTypeOK'
  BY <1>1 DEF Exit, NodeInv, NodeTypeOK, NetInv
<1>3. LaunchInv' /\ PanicsAreEarly'
  BY DEF Exit, NodeInv, LaunchInv, PanicsAreEarly, Ended
<1> QED
  BY <1>1, <1>2, <1>3 DEF NodeInv

LEMMA NetSame ==
    ASSUME NetInv, UNCHANGED vars
    PROVE  NetInv'
BY NetStep

LEMMA StopEffect ==
    ASSUME NodeInv, NEW by \in {"rollback", "handler", "main"}, Stop(by)
    PROVE  /\ NetInv'
           /\ started' = started
           /\ stopper' \in {"none", "rollback", "handler", "main"}
           /\ \/ launch' = launch
              \/ launch \in {"started", "incompleteStart"} /\ launch' = "stopping"
<1>1. CASE launch \in {"started", "incompleteStart"}
  BY <1>1, NetEndsKeeps DEF Stop, NodeInv
<1>2. CASE launch \notin {"started", "incompleteStart"}
  BY <1>2, NetSame DEF Stop, NodeInv, NodeTypeOK
<1> QED
  BY <1>1, <1>2

LEMMA MainKeeps ==
    ASSUME NodeInv, ~Ended, MainStep \/ WaitFails
    PROVE  NodeInv'
<1> USE DEF NodeInv, NodeTypeOK, LaunchInv, PanicsAreEarly, Ended
<1>1. ASSUME NEW at \in {"make", "serve", "regist", "wait", "run"},
             MainGoes(at), at = "make" => launch = "none"
      PROVE  NodeInv'
  <2>1. NetInv'
    BY <1>1, NetSame DEF MainGoes
  <2> QED
    BY <1>1, <2>1 DEF MainGoes, NetInv
<1>2. CASE NewTvbase
  BY <1>1, <1>2 DEF NewTvbase
<1>3. CASE InitHost
  <2>1. NetInv'
    BY <1>3, NetSame DEF InitHost
  <2> QED
    BY <1>3, <2>1, HookNames DEF InitHost, NetInv
<1>4. CASE InitHostError \/ InitHostPanics \/ InitDmsgPubsubError \/ WaitFails
           \/ Return
  BY <1>4, ExitKeeps
  DEF InitHostError, InitHostPanics, InitDmsgPubsubError, WaitFails, Return
<1>5. CASE InitFx
  <2>1. /\ main' = "start" /\ launch' = "stopped"
        /\ UNCHANGED <<online, events, lists, flags, search>>
        /\ UNCHANGED <<started, stopper, handler, open>>
        /\ node' \in {node, "start"} /\ visit' \in {visit, Bootstrap}
    BY <1>5 DEF InitFx
  <2>2. visit' \subseteq [peer : Peer, by : Visitor,
                at : {"connect", "look", "ask", "service", "light", "hung"}]
    BY <2>1, BootstrapTypes DEF NetInv, TypeOK
  <2>3. TypeOK'
    BY <2>1, <2>2 DEF NetInv, TypeOK, lists, flags, search
  <2>4. NetInv'
    BY <2>1, <2>3, BootstrapTypes, QuietKeeps
  <2> QED
    BY <2>1, <2>4 DEF NetInv
<1>6. CASE StartCancelled
  <2>1. NetInv'
    BY <1>6, NetSame DEF StartCancelled
  <2> QED
    BY <1>6, <2>1 DEF StartCancelled, NetInv
<1>7. CASE WaitRendezvous
  BY <1>1, <1>7 DEF WaitRendezvous
<1>8. CASE StartDmsgService
  BY <1>1, <1>8 DEF StartDmsgService
<1>9. CASE StartDmsgServiceError
  BY <1>9, StopEffect DEF StartDmsgServiceError, NetInv
<1> QED
  BY <1>2, <1>3, <1>4, <1>5, <1>6, <1>7, <1>8, <1>9 DEF MainStep

(* The hook of netCheck closes what is closed already only if it runs for  *)
(* the second time, or without its start.                                  *)
LEMMA LaunchKeeps ==
    ASSUME NodeInv, ~Ended, LaunchStep
    PROVE  NodeInv'
<1> USE DEF NodeInv, NodeTypeOK, LaunchInv, PanicsAreEarly, Ended
<1>1. ASSUME NEW n \in 0..7, NEW state \in {"started", "incompleteStart"},
             StartTo(n, state)
      PROVE  NodeInv'
  <2>1. NetInv'
    BY <1>1, NetSame DEF StartTo
  <2>2. n >= 6 => "netCheck" \in open'
    <3>1. n >= 6 => 6 \in 5..n
      OBVIOUS
    <3> QED
      BY <1>1, <3>1, HookNames DEF StartTo
  <2>3. open' \subseteq {Hooks[i] : i \in 1..Len(Hooks)}
    <3>1. 5..n \subseteq 1..Len(Hooks)
      BY HookNames
    <3> QED
      BY <1>1, <3>1 DEF StartTo
  <2>4. main \notin {"new", "make"}
    BY <1>1 DEF StartTo
  <2> QED
    BY <1>1, <2>1, <2>2, <2>3, <2>4, HookNames DEF StartTo, NetInv
<1>2. CASE StartHooks
  BY <1>1, <1>2, HookNames DEF StartHooks
<1>3. CASE MdnsStartError
  BY <1>1, <1>3 DEF MdnsStartError
<1>4. CASE StartIsCut
  <2>1. PICK n \in 0..6 : StartTo(n, "incompleteStart")
    BY <1>4, HookNames DEF StartIsCut
  <2> QED
    BY <1>1, <2>1
<1>5. CASE Rollback
  <2>1. CASE Cancelled
    <3>1. NetInv'
      BY <1>5, <2>1, NetSame DEF Rollback
    <3> QED
      BY <1>5, <2>1, <3>1 DEF Rollback, NetInv
  <2>2. CASE ~Cancelled
    <3>1. Stop("rollback") /\ UNCHANGED <<main, handler, open>>
      BY <1>5, <2>2 DEF Rollback
    <3> QED
      BY <3>1, StopEffect DEF NetInv
  <2> QED
    BY <2>1, <2>2
<1>6. CASE StopHook
  <2>1. ~(Hooks[started] = "netCheck" /\ "netCheck" \notin open)
    BY <1>6, HookNames DEF StopHook
  <2>2. /\ started' = started - 1 /\ started > 0 /\ launch = "stopping"
        /\ open' = open \ {Hooks[started]}
        /\ UNCHANGED <<vars, main, launch, stopper, handler>>
    BY <1>6, <2>1 DEF StopHook
  <2>3. NetInv'
    BY <2>2, NetSame
  <2>4. started' >= 6 => started = 7
    BY <2>2, HookNames
  <2>5. started = 7 => Hooks[started] # "netCheck"
    BY HookNames
  <2>6. started' \in 0..Len(Hooks)
    BY <2>2, HookNames
  <2> QED
    BY <2>2, <2>3, <2>4, <2>5, <2>6, HookNames DEF NetInv
<1>7. CASE Stopped
  <2>1. NetInv'
    BY <1>7, NetSame DEF Stopped
  <2> QED
    BY <1>7, <2>1 DEF Stopped, NetInv
<1> QED
  BY <1>2, <1>3, <1>4, <1>5, <1>6, <1>7 DEF LaunchStep

LEMMA SignalKeeps ==
    ASSUME NodeInv, (~Ended /\ HandlerStop) \/ Interrupt
    PROVE  NodeInv'
<1> USE DEF NodeInv, NodeTypeOK, LaunchInv, PanicsAreEarly, Ended
<1>1. CASE Interrupt
  <2>1. CASE handler = "none"
    <3>1. NetInv'
      BY <1>1, <2>1, NetEndsKeeps DEF Interrupt
    <3> QED
      BY <1>1, <2>1, <3>1 DEF Interrupt, NetInv
  <2>2. CASE handler # "none"
    BY <1>1, <2>2, ExitKeeps DEF Interrupt
  <2> QED
    BY <2>1, <2>2
<1>2. CASE ~Ended /\ HandlerStop
  <2>1. CASE launch = "none"
    BY <1>2, <2>1, ExitKeeps DEF HandlerStop
  <2>2. CASE launch # "none"
    <3>1. /\ Stop("handler") /\ handler' = "done" /\ UNCHANGED <<main, open>>
      BY <1>2, <2>2 DEF HandlerStop
    <3> QED
      BY <3>1, StopEffect DEF NetInv
  <2> QED
    BY <2>1, <2>2
<1> QED
  BY <1>1, <1>2

LEMMA NetNextKeeps ==
    ASSUME NodeInv, NetNext
    PROVE  NodeInv'
<1> USE DEF NodeInv, NodeTypeOK, LaunchInv, PanicsAreEarly, Ended
<1>1. ASSUME NetInv', UNCHANGED process
      PROVE  NodeInv'
  BY <1>1 DEF process, NetInv
<1>2. ASSUME NEW p \in Peer,
             Quiet(Inbound(p)) \/ Quiet(Disconnect(p)) \/ Quiet(HandlePeerFound(p))
      PROVE  NodeInv'
  BY <1>1, <1>2, ConnectionsKeep DEF Quiet
<1>3. ASSUME NEW v \in visit, Quiet(VisitStep(v)) PROVE NodeInv'
  BY <1>1, <1>3, VisitKeeps DEF Quiet
<1>4. ASSUME NEW l \in Loop,
             \/ Quiet(LoopTest(l)) \/ Quiet(LoopSet(l)) \/ Quiet(FindPeersError(l))
             \/ Quiet(FindPeers(l)) \/ Quiet(LoopOn(l))
      PROVE  NodeInv'
  BY <1>1, <1>4, LoopKeeps DEF Quiet, LoopStep
<1>5. ASSUME Quiet(NetCheck) \/ Quiet(SearchAgain) PROVE NodeInv'
  BY <1>1, <1>5, StartKeeps DEF Quiet
<1>6. ASSUME NetInv', main' = main \/ (main = "wait" /\ main' = "serve"),
             UNCHANGED <<launch, started, stopper, handler, open>>
      PROVE  NodeInv'
  BY <1>6 DEF NetInv
<1>7. CASE Told
  <2>1. CASE \E l \in Loop : Meet(l) /\ Tell(l \in met)
    BY <1>6, <2>1, LoopKeeps DEF LoopStep, Tell
  <2>2. CASE Notify /\ Tell(/\ Head(events).status = "NotConnected"
                           /\ node # "start" /\ ~IsExistConnectedPeer')
    BY <1>6, <2>2, NotifyKeeps DEF Tell
  <2> QED
    BY <1>7, <2>1, <2>2 DEF Told
<1>8. CASE NodeStart
  <2>1. NetInv'
    BY <1>8, StartKeeps DEF NodeStart
  <2> QED
    BY <1>8, <2>1 DEF NodeStart, NetInv
<1> QED
  BY <1>2, <1>3, <1>4, <1>5, <1>7, <1>8 DEF NetNext

LEMMA NodeStep == NodeInv /\ [NodeNext]_nodeVars => NodeInv'
<1> SUFFICES ASSUME NodeInv, [NodeNext]_nodeVars PROVE NodeInv'
  OBVIOUS
<1>1. CASE UNCHANGED nodeVars
  <2>1. NetInv'
    BY <1>1, NetSame DEF nodeVars, NodeInv
  <2> QED
    BY <1>1, <2>1
    DEF nodeVars, process, NodeInv, NodeTypeOK, LaunchInv, PanicsAreEarly,
        Ended, NetInv
<1>2. CASE NodeNext
  BY <1>2, NetNextKeeps, MainKeeps, LaunchKeeps, SignalKeeps DEF NodeNext
<1> QED
  BY <1>1, <1>2

LEMMA NodeInvariance == NodeSpec => []NodeInv
BY NodeInitInv, NodeStep, PTL DEF NodeSpec

-----------------------------------------------------------------------------
(* Every variable of the node, its peers and its loops has its type.       *)
THEOREM TypeCorrect == NodeSpec => []NodeTypeOK
<1>1. NodeInv => NodeTypeOK
  BY DEF NodeInv
<1> QED
  BY <1>1, NodeInvariance, PTL

(* event.go:69-96, peer.go:20-68: a connected peer that is listed as not   *)
(* connected has its event on the way, in the life of the network and with *)
(* the starts, stops and signals of the process around it.                 *)
THEOREM Noticed == Spec => []ConnectedIsNoticed
<1>1. NetInv => ConnectedIsNoticed
  BY DEF NetInv
<1> QED
  BY <1>1, NetInvariance, PTL

THEOREM NoticedByNode == NodeSpec => []ConnectedIsNoticed
<1>1. NodeInv => ConnectedIsNoticed
  BY DEF NodeInv, NetInv
<1> QED
  BY <1>1, NodeInvariance, PTL

(* tvbase.go:130-132, 186-201: no hook is run for the second time, whoever *)
(* stops the node and when: only a node that is not made yet panics.       *)
THEOREM EarlyPanics == NodeSpec => []PanicsAreEarly
<1>1. NodeInv => PanicsAreEarly
  BY DEF NodeInv
<1> QED
  BY <1>1, NodeInvariance, PTL
=============================================================================
