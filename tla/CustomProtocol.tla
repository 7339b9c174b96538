--------------------------- MODULE CustomProtocol ---------------------------
(* dmsg/service/customProtocol in the process of DmsgService: the protocols  *)
(* applications register at the service, and the requests of clients for     *)
(* them. Each request is handled in a goroutine of its own, while protocols  *)
(* are registered and services started, stopped and released. A request that *)
(* is never handled is a lost one.                                           *)
EXTENDS DmsgService, ProtocolAdapter

CONSTANTS
  Pid,      \* custom protocol ids
  App,      \* applications that handle the requests of a protocol
  Request   \* requests

ASSUME CustomAssumption == "none" \notin App

VARIABLES
  server,   \* [Pid -> App or "none"]: serverStreamProtocolList
  spoken,   \* protocol ids whose stream handler the host has: it keeps them
  client,   \* clientStreamProtocolList: the protocol ids of the client
  req,      \* [Request -> [at, pid, by]]: by is the handle found
  answer,   \* [Request -> SUBSET codes]: code of the answer, or none
  ran       \* history: requests a handle took without an error

customVars == <<server, spoken, client, req, answer, ran>>
allVars == <<serviceVars, customVars>>

Stage == {"idle", "sent", "begun", "looked", "done"}

CustomInit ==
  /\ ServicesInit
  /\ server = [p \in Pid |-> "none"] /\ spoken = {} /\ client = {}
  /\ req = [r \in Request |-> [at |-> "idle", pid |-> "none", by |-> "none"]]
  /\ answer = [r \in Request |-> {}]
  /\ ran = {}

(* RegistServer; a protocol that is registered is not replaced.              *)
RegistServer(h, p) ==
  /\ Idle
  /\ server[p] = "none"
  /\ server' = [server EXCEPT ![p] = h]
  /\ spoken' = spoken \cup {p}
  /\ UNCHANGED <<serviceVars, client, req, answer, ran>>

(* UnregistServer: the host goes on to hand requests in.                     *)
UnregistServer(p) ==
  /\ Idle
  /\ server[p] # "none"
  /\ server' = [server EXCEPT ![p] = "none"]
  /\ UNCHANGED <<serviceVars, spoken, client, req, answer, ran>>

(* RegistClient: the list of a client that was released is nil, and cannot   *)
(* be written.                                                               *)
RegistClient(p) ==
  /\ Idle
  /\ p \notin client
  /\ IF "customClient" \in released /\ user["customClient"] = "nil"
     THEN Nil("customClient", "clientStreamProtocolList") /\ UNCHANGED client
     ELSE client' = client \cup {p} /\ UNCHANGED <<todo, crashed>>
  /\ UNCHANGED <<ready, fields, handles, responder, user, topicRef, consumer,
                 enable, query, proxied, chanClosed, released, stray, calls,
                 server, spoken, req, answer, ran>>

UnregistClient(p) ==
  /\ Idle
  /\ p \in client
  /\ client' = client \ {p}
  /\ UNCHANGED <<serviceVars, server, spoken, req, answer, ran>>

(* CustomProtocolClient.Request: a stream is opened, if the host knows the   *)
(* protocol.                                                                 *)
SendRequest(r, p) ==
  /\ Idle
  /\ req[r].at = "idle"
  /\ p \in client /\ "customClient" \notin released
  /\ p \in spoken
  /\ req' = [req EXCEPT ![r].at = "sent", ![r].pid = p]
  /\ UNCHANGED <<serviceVars, server, spoken, client, answer, ran>>

-----------------------------------------------------------------------------
(* HandleRequestData of the stream protocol, through OnCustomRequest *)

Return(r, o) ==
  /\ req' = [req EXCEPT ![r].at = "done"]
  /\ answer' = [answer EXCEPT ![r] = {AnswerTo(CustomStreamAdapter, o)}]

Begin(r) ==
  /\ crashed = NoCrash
  /\ req[r].at = "sent"
  /\ IF "customService" \in enable
     THEN req' = [req EXCEPT ![r].at = "begun"] /\ UNCHANGED answer
     ELSE Return(r, Aborted)
  /\ UNCHANGED <<serviceVars, server, spoken, client, ran>>

Find(r) ==
  /\ crashed = NoCrash
  /\ req[r].at = "begun"
  /\ IF server[req[r].pid] # "none"
     THEN /\ req' = [req EXCEPT ![r].at = "looked",
                                ![r].by = server[req[r].pid]]
          /\ UNCHANGED answer
     ELSE Return(r, Failed)
  /\ UNCHANGED <<serviceVars, server, spoken, client, ran>>

(* HandleRequest, of the application: its error aborts, and its code never   *)
(* gets into the answer.                                                     *)
HandleRequest(r) ==
  /\ crashed = NoCrash
  /\ req[r].at = "looked"
  /\ \/ Return(r, Returned("bytes")) /\ ran' = ran \cup {r}
     \/ Return(r, [Aborted EXCEPT !.err = TRUE]) /\ UNCHANGED ran
  /\ UNCHANGED <<serviceVars, server, spoken, client>>

-----------------------------------------------------------------------------
CustomNext ==
  \/ ServicesNext /\ UNCHANGED customVars
  \/ \E p \in Pid : \/ \E h \in App : RegistServer(h, p)
                    \/ UnregistServer(p) \/ RegistClient(p) \/ UnregistClient(p)
  \/ \E r \in Request : \/ \E p \in Pid : SendRequest(r, p)
                        \/ Begin(r) \/ Find(r) \/ HandleRequest(r)

CustomSpec == CustomInit /\ [][CustomNext]_allVars

CustomTypeOK ==
  /\ ServicesTypeOK
  /\ server \in [Pid -> App \cup {"none"}]
  /\ spoken \subseteq Pid /\ client \subseteq Pid /\ ran \subseteq Request
  /\ req \in [Request -> [at : Stage, pid : Pid \cup {"none"},
                         by : App \cup {"none"}]]
  /\ \A r \in Request : req[r].at # "idle" => req[r].pid \in Pid
  /\ answer \in [Request -> SUBSET Int]

(* customProtocol/service.go:164-192, customStream.go: an answer that says   *)
(* success is for a request that a handle the application had registered     *)
(* took, without an error: not one that found no handle, or a stopped        *)
(* service, whatever was registered, removed, started and stopped meanwhile. *)
SuccessIsHandled ==
  \A r \in Request : SuccCode \in answer[r] => r \in ran
=============================================================================
