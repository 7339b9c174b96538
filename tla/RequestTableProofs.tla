------------------------- MODULE RequestTableProofs -------------------------
(***************************************************************************)
(* Theorems of RequestTable, for every set of requests, peers and objects. *)
(***************************************************************************)
EXTENDS RequestTable, TLAPS

(* Where the caller of a request that peers may know of is.                *)
Out == {"sent", "receiving", "answered", "gaveUp"}

(* An object that exists is registered.                                    *)
SomeRegistered == made # {} => registered \in made

(* What was not refused is listed, by the object that asked.               *)
EntryStays ==
    \A r \in Request : caller[r] \notin {"idle", "refused"} =>
        /\ asker[r] \in made
        /\ r \in table[asker[r]]

(* No other object lists it.                                               *)
OneLister == \A r \in Request, o \in Object : r \in table[o] => asker[r] = o

NotYetAsked == \A r \in Request : caller[r] = "idle" => asker[r] = None

GotIsAnswered == \A r \in Request : got[r] # None => caller[r] = "answered"

(* Whatever is on its way, handled or told is about a request that is out. *)
AboutRequests ==
    /\ \A x \in asked : caller[x[1]] \in Out
    /\ \A a \in answers : caller[a.req] \in Out
    /\ \A h \in handler : caller[h.answer.req] \in Out
    /\ \A t \in told : caller[t.answer.req] \in Out

(* A handler past its Load knows the request if its object asked, and only *)
(* then; past its callback it has told what it knows.                      *)
Knows(h) ==
    /\ h.at # "arrived" =>
         h.entry = IF h.obj = asker[h.answer.req] THEN h.answer.req ELSE None
    /\ h.at = "told" =>
         /\ h.entry = h.answer.req
         /\ [answer |-> h.answer, obj |-> h.obj, entry |-> h.entry] \in told

HandlersKnow == \A h \in handler : Knows(h)

IInv ==
    /\ TypeOK
    /\ SomeRegistered
    /\ EntryStays
    /\ OneLister
    /\ NotYetAsked
    /\ GotIsAnswered
    /\ AboutRequests
    /\ HandlersKnow
    /\ AnswersFindTheirRequest
    /\ ToldBeforeHeard
-----------------------------------------------------------------------------
(* The initial states satisfy the invariant.                               *)
LEMMA InitInv == Init => IInv
BY DEF Init, IInv, TypeOK, SomeRegistered, EntryStays, OneLister, NotYetAsked,
       GotIsAnswered, AboutRequests, HandlersKnow, AnswersFindTheirRequest,
       ToldBeforeHeard

(* What a handler knows does not change with the steps of others.          *)
LEMMA KnowsKept ==
    ASSUME NEW h, Knows(h),
           asker'[h.answer.req] = asker[h.answer.req],
           told \subseteq told'
    PROVE  Knows(h)'
<1>1. h.at # "arrived" =>
        h.entry = IF h.obj = asker'[h.answer.req] THEN h.answer.req ELSE None
  BY DEF Knows
<1>2. h.at = "told" =>
        /\ h.entry = h.answer.req
        /\ [answer |-> h.answer, obj |-> h.obj, entry |-> h.entry] \in told'
  BY DEF Knows
<1>3. QED
  BY <1>1, <1>2 DEF Knows

LEMMA HandlersKnowKept ==
    ASSUME HandlersKnow,
           \A h \in handler : asker'[h.answer.req] = asker[h.answer.req],
           told \subseteq told'
    PROVE  \A h \in handler : Knows(h)'
<1>1. \A h \in handler : Knows(h)
  BY DEF HandlersKnow
<1>2. QED
  BY <1>1, KnowsKept

-----------------------------------------------------------------------------
(* Each action preserves the invariant, conjunct by conjunct.              *)
LEMMA RegisterInv ==
    ASSUME IInv, NEW o \in Object, Register(o)
    PROVE  IInv'
<1> USE RequestAssumption
         DEF IInv, TypeOK, Register, callVars, netVars, handleVars
<1>1. TypeOK'
  OBVIOUS
<1>2. SomeRegistered'
  BY DEF SomeRegistered
<1>3. EntryStays'
  BY DEF EntryStays
<1>4. OneLister'
  BY DEF OneLister
<1>5. NotYetAsked'
  BY DEF NotYetAsked
<1>6. GotIsAnswered'
  BY DEF GotIsAnswered
<1>7. AboutRequests'
  BY DEF AboutRequests, Out
<1>8. HandlersKnow'
  BY HandlersKnowKept DEF HandlersKnow
<1>9. AnswersFindTheirRequest'
  BY DEF AnswersFindTheirRequest
<1>10. ToldBeforeHeard'
  BY DEF ToldBeforeHeard
<1>11. QED
  BY <1>1, <1>2, <1>3, <1>4, <1>5, <1>6, <1>7, <1>8, <1>9, <1>10

LEMMA TickCleanRequestInv ==
    ASSUME IInv, NEW o \in Object, TickCleanRequest(o)
    PROVE  IInv'
<1> USE RequestAssumption, IdsAreStrings
         DEF IInv, TypeOK, TickCleanRequest, callVars, netVars, handleVars
<1>1. TypeOK'
  OBVIOUS
<1>2. SomeRegistered'
  BY DEF SomeRegistered
<1>3. EntryStays'
  BY DEF EntryStays
<1>4. OneLister'
  BY DEF OneLister
<1>5. NotYetAsked'
  BY DEF NotYetAsked
<1>6. GotIsAnswered'
  BY DEF GotIsAnswered
<1>7. AboutRequests'
  BY DEF AboutRequests, Out
<1>8. HandlersKnow'
  BY HandlersKnowKept DEF HandlersKnow
<1>9. AnswersFindTheirRequest'
  BY DEF AnswersFindTheirRequest
<1>10. ToldBeforeHeard'
  BY DEF ToldBeforeHeard
<1>11. QED
  BY <1>1, <1>2, <1>3, <1>4, <1>5, <1>6, <1>7, <1>8, <1>9, <1>10

LEMMA AgeInv ==
    ASSUME IInv, NEW r \in Request, Age(r)
    PROVE  IInv'
<1> USE RequestAssumption DEF IInv, TypeOK, Age, callVars, netVars, handleVars
<1>1. TypeOK'
  OBVIOUS
<1>2. SomeRegistered'
  BY DEF SomeRegistered
<1>3. EntryStays'
  BY DEF EntryStays
<1>4. OneLister'
  BY DEF OneLister
<1>5. NotYetAsked'
  BY DEF NotYetAsked
<1>6. GotIsAnswered'
  BY DEF GotIsAnswered
<1>7. AboutRequests'
  BY DEF AboutRequests, Out
<1>8. HandlersKnow'
  BY HandlersKnowKept DEF HandlersKnow
<1>9. AnswersFindTheirRequest'
  BY DEF AnswersFindTheirRequest
<1>10. ToldBeforeHeard'
  BY DEF ToldBeforeHeard
<1>11. QED
  BY <1>1, <1>2, <1>3, <1>4, <1>5, <1>6, <1>7, <1>8, <1>9, <1>10

LEMMA GenerateFailsInv ==
    ASSUME IInv, NEW r \in Request, GenerateFails(r)
    PROVE  IInv'
<1> USE RequestAssumption
         DEF IInv, TypeOK, GenerateFails, Call, netVars, handleVars
<1>1. TypeOK'
  BY DEF Answer, Handler, Telling, Ended, Request
<1>2. SomeRegistered'
  BY DEF SomeRegistered
<1>3. EntryStays'
  BY DEF EntryStays
<1>4. OneLister'
  BY DEF OneLister
<1>5. NotYetAsked'
  BY DEF NotYetAsked
<1>6. GotIsAnswered'
  BY DEF GotIsAnswered
<1>7. AboutRequests'
  BY DEF AboutRequests, Out
<1>8. HandlersKnow'
  BY HandlersKnowKept DEF HandlersKnow
<1>9. AnswersFindTheirRequest'
  BY DEF AnswersFindTheirRequest
<1>10. ToldBeforeHeard'
  BY DEF ToldBeforeHeard
<1>11. QED
  BY <1>1, <1>2, <1>3, <1>4, <1>5, <1>6, <1>7, <1>8, <1>9, <1>10

LEMMA GenRequestInfoInv ==
    ASSUME IInv, NEW r \in Request, NEW o \in Object, GenRequestInfo(r, o)
    PROVE  IInv'
<1> USE RequestAssumption
         DEF IInv, TypeOK, GenRequestInfo, Call, netVars, handleVars
<1>1. TypeOK'
  OBVIOUS
<1>2. SomeRegistered'
  BY DEF SomeRegistered
<1>3. EntryStays'
  BY DEF EntryStays
<1>4. OneLister'
  BY DEF OneLister, NotYetAsked
<1>5. NotYetAsked'
  BY DEF NotYetAsked
<1>6. GotIsAnswered'
  BY DEF GotIsAnswered
<1>7. AboutRequests'
  BY DEF AboutRequests, Out
<1>8. HandlersKnow'
  <2>1. \A h \in handler : asker'[h.answer.req] = asker[h.answer.req]
    BY DEF AboutRequests, Out, Handler, Answer
  <2>2. QED
    BY <2>1, HandlersKnowKept DEF HandlersKnow
<1>9. AnswersFindTheirRequest'
  BY DEF AnswersFindTheirRequest, AboutRequests, Out
<1>10. ToldBeforeHeard'
  BY DEF ToldBeforeHeard, GotIsAnswered
<1>11. QED
  BY <1>1, <1>2, <1>3, <1>4, <1>5, <1>6, <1>7, <1>8, <1>9, <1>10

LEMMA StreamFailsInv ==
    ASSUME IInv, NEW r \in Request, StreamFails(r)
    PROVE  IInv'
<1> USE RequestAssumption
         DEF IInv, TypeOK, StreamFails, Call, Forget, netVars, handleVars
<1>1. TypeOK'
  BY DEF Answer, Handler, Telling, Ended, Request
<1>2. SomeRegistered'
  BY DEF SomeRegistered
<1>3. EntryStays'
  BY DEF EntryStays
<1>4. OneLister'
  BY DEF OneLister
<1>5. NotYetAsked'
  BY DEF NotYetAsked
<1>6. GotIsAnswered'
  BY DEF GotIsAnswered
<1>7. AboutRequests'
  BY DEF AboutRequests, Out
<1>8. HandlersKnow'
  BY HandlersKnowKept DEF HandlersKnow
<1>9. AnswersFindTheirRequest'
  BY DEF AnswersFindTheirRequest
<1>10. ToldBeforeHeard'
  BY DEF ToldBeforeHeard
<1>11. QED
  BY <1>1, <1>2, <1>3, <1>4, <1>5, <1>6, <1>7, <1>8, <1>9, <1>10

LEMMA NoTargetInv ==
    ASSUME IInv, NEW r \in Request, NoTarget(r)
    PROVE  IInv'
<1> USE RequestAssumption DEF IInv, TypeOK, NoTarget, Call, netVars, handleVars
<1>1. TypeOK'
  BY DEF Answer, Handler, Telling, Ended, Request
<1>2. SomeRegistered'
  BY DEF SomeRegistered
<1>3. EntryStays'
  BY DEF EntryStays
<1>4. OneLister'
  BY DEF OneLister
<1>5. NotYetAsked'
  BY DEF NotYetAsked
<1>6. GotIsAnswered'
  BY DEF GotIsAnswered
<1>7. AboutRequests'
  BY DEF AboutRequests, Out
<1>8. HandlersKnow'
  BY HandlersKnowKept DEF HandlersKnow
<1>9. AnswersFindTheirRequest'
  BY DEF AnswersFindTheirRequest
<1>10. ToldBeforeHeard'
  BY DEF ToldBeforeHeard
<1>11. QED
  BY <1>1, <1>2, <1>3, <1>4, <1>5, <1>6, <1>7, <1>8, <1>9, <1>10

LEMMA SendInv ==
    ASSUME IInv, NEW r \in Request, Send(r)
    PROVE  IInv'
<1> USE RequestAssumption DEF IInv, TypeOK, Send, Call, handleVars
<1>1. TypeOK'
  OBVIOUS
<1>2. SomeRegistered'
  BY DEF SomeRegistered
<1>3. EntryStays'
  BY DEF EntryStays
<1>4. OneLister'
  BY DEF OneLister
<1>5. NotYetAsked'
  BY DEF NotYetAsked
<1>6. GotIsAnswered'
  BY DEF GotIsAnswered
<1>7. AboutRequests'
  BY DEF AboutRequests, Out
<1>8. HandlersKnow'
  BY HandlersKnowKept DEF HandlersKnow
<1>9. AnswersFindTheirRequest'
  BY DEF AnswersFindTheirRequest
<1>10. ToldBeforeHeard'
  BY DEF ToldBeforeHeard
<1>11. QED
  BY <1>1, <1>2, <1>3, <1>4, <1>5, <1>6, <1>7, <1>8, <1>9, <1>10

LEMMA ReceiveInv ==
    ASSUME IInv, NEW r \in Request, Receive(r)
    PROVE  IInv'
<1> USE RequestAssumption DEF IInv, TypeOK, Receive, Call, netVars, handleVars
<1>1. TypeOK'
  BY DEF Answer, Handler, Telling, Ended, Request
<1>2. SomeRegistered'
  BY DEF SomeRegistered
<1>3. EntryStays'
  BY DEF EntryStays
<1>4. OneLister'
  BY DEF OneLister
<1>5. NotYetAsked'
  BY DEF NotYetAsked
<1>6. GotIsAnswered'
  BY DEF GotIsAnswered
<1>7. AboutRequests'
  BY DEF AboutRequests, Out, Handler, Telling, Answer
<1>8. HandlersKnow'
  BY HandlersKnowKept DEF HandlersKnow
<1>9. AnswersFindTheirRequest'
  BY DEF AnswersFindTheirRequest
<1>10. ToldBeforeHeard'
  BY DEF ToldBeforeHeard
<1>11. QED
  BY <1>1, <1>2, <1>3, <1>4, <1>5, <1>6, <1>7, <1>8, <1>9, <1>10

LEMMA GiveUpInv ==
    ASSUME IInv, NEW r \in Request, GiveUp(r)
    PROVE  IInv'
<1> USE RequestAssumption DEF IInv, TypeOK, GiveUp, Call, netVars, handleVars
<1>1. TypeOK'
  BY DEF Answer, Handler, Telling, Ended, Request
<1>2. SomeRegistered'
  BY DEF SomeRegistered
<1>3. EntryStays'
  BY DEF EntryStays
<1>4. OneLister'
  BY DEF OneLister
<1>5. NotYetAsked'
  BY DEF NotYetAsked
<1>6. GotIsAnswered'
  BY DEF GotIsAnswered
<1>7. AboutRequests'
  BY DEF AboutRequests, Out
<1>8. HandlersKnow'
  BY HandlersKnowKept DEF HandlersKnow
<1>9. AnswersFindTheirRequest'
  BY DEF AnswersFindTheirRequest
<1>10. ToldBeforeHeard'
  BY DEF ToldBeforeHeard
<1>11. QED
  BY <1>1, <1>2, <1>3, <1>4, <1>5, <1>6, <1>7, <1>8, <1>9, <1>10

LEMMA ServeInv ==
    ASSUME IInv, NEW r \in Request, NEW p \in Peer, Serve(r, p)
    PROVE  IInv'
<1> USE RequestAssumption DEF IInv, TypeOK, Serve, callVars, handleVars
<1>1. TypeOK'
  BY DEF Answer, Handler, Telling, Ended, Request
<1>2. SomeRegistered'
  BY DEF SomeRegistered
<1>3. EntryStays'
  BY DEF EntryStays
<1>4. OneLister'
  BY DEF OneLister
<1>5. NotYetAsked'
  BY DEF NotYetAsked
<1>6. GotIsAnswered'
  BY DEF GotIsAnswered
<1>7. AboutRequests'
  BY DEF AboutRequests, Out
<1>8. HandlersKnow'
  BY HandlersKnowKept DEF HandlersKnow
<1>9. AnswersFindTheirRequest'
  BY DEF AnswersFindTheirRequest
<1>10. ToldBeforeHeard'
  BY DEF ToldBeforeHeard
<1>11. QED
  BY <1>1, <1>2, <1>3, <1>4, <1>5, <1>6, <1>7, <1>8, <1>9, <1>10

LEMMA ArriveInv ==
    ASSUME IInv, NEW a \in answers, Arrive(a)
    PROVE  IInv'
<1> USE RequestAssumption DEF IInv, TypeOK, Arrive, Hearers, callVars
<1>1. TypeOK'
  <2>1. a \in Answer /\ asker[a.req] \in made
    BY DEF AboutRequests, Out, EntryStays, Answer
  <2>2. Hearers(a) \subseteq Object
    BY <2>1 DEF SomeRegistered
  <2>3. \A o \in Object :
          [answer |-> a, obj |-> o, at |-> "arrived", entry |-> None] \in Handler
    BY <2>1 DEF Handler
  <2>4. handler' \subseteq Handler
    BY <2>2, <2>3
  <2>5. QED
    BY <2>4
<1>2. SomeRegistered'
  BY DEF SomeRegistered
<1>3. EntryStays'
  BY DEF EntryStays
<1>4. OneLister'
  BY DEF OneLister
<1>5. NotYetAsked'
  BY DEF NotYetAsked
<1>6. GotIsAnswered'
  BY DEF GotIsAnswered
<1>7. AboutRequests'
  BY DEF AboutRequests, Out
<1>8. HandlersKnow'
  <2>1. \A h \in handler : Knows(h)'
    BY HandlersKnowKept
  <2>2. \A h \in handler' \ handler : Knows(h)'
    BY DEF Knows
  <2>3. QED
    BY <2>1, <2>2 DEF HandlersKnow
<1>9. AnswersFindTheirRequest'
  BY DEF AnswersFindTheirRequest
<1>10. ToldBeforeHeard'
  BY DEF ToldBeforeHeard
<1>11. QED
  BY <1>1, <1>2, <1>3, <1>4, <1>5, <1>6, <1>7, <1>8, <1>9, <1>10

LEMMA LoadInv ==
    ASSUME IInv, NEW h \in handler, Load(h)
    PROVE  IInv'
<1> USE RequestAssumption DEF IInv, TypeOK, Load, Step, callVars, netVars
<1>1. TypeOK'
  <2> DEFINE g == [answer |-> h.answer, obj |-> h.obj, at |-> "loaded",
                   entry |-> Found(h)]
  <2>1. Found(h) \in Request \cup {None}
    BY DEF Found, Handler, Answer
  <2>2. g \in Handler
    BY <2>1 DEF Handler
  <2>3. QED
    BY <2>2
<1>2. SomeRegistered'
  BY DEF SomeRegistered
<1>3. EntryStays'
  BY DEF EntryStays
<1>4. OneLister'
  BY DEF OneLister
<1>5. NotYetAsked'
  BY DEF NotYetAsked
<1>6. GotIsAnswered'
  BY DEF GotIsAnswered
<1>7. AboutRequests'
  BY DEF AboutRequests, Out
<1>8. HandlersKnow'
  <2> DEFINE g == [answer |-> h.answer, obj |-> h.obj, at |-> "loaded",
                   entry |-> Found(h)]
  <2>1. caller[h.answer.req] \in Out /\ h.answer.req \in Request /\ h.obj \in Object
    BY DEF AboutRequests, Handler, Answer
  <2>2. h.answer.req \in table[h.obj] <=> h.obj = asker[h.answer.req]
    BY <2>1 DEF Out, EntryStays, OneLister
  <2>3. Knows(g)'
    BY <2>2 DEF Knows, Found
  <2>4. \A k \in handler : Knows(k)'
    BY HandlersKnowKept
  <2>5. QED
    BY <2>3, <2>4 DEF HandlersKnow, Found
<1>9. AnswersFindTheirRequest'
  BY DEF AnswersFindTheirRequest
<1>10. ToldBeforeHeard'
  BY DEF ToldBeforeHeard
<1>11. QED
  BY <1>1, <1>2, <1>3, <1>4, <1>5, <1>6, <1>7, <1>8, <1>9, <1>10

LEMMA CallResponseCallbackInv ==
    ASSUME IInv, NEW h \in handler, CallResponseCallback(h)
    PROVE  IInv'
<1> USE RequestAssumption
         DEF IInv, TypeOK, CallResponseCallback, Tell, Step, callVars, netVars
<1>1. TypeOK'
  <2> DEFINE g == [answer |-> h.answer, obj |-> h.obj, at |-> "told",
                   entry |-> h.entry]
  <2>1. g \in Handler
    BY DEF Handler
  <2>2. [answer |-> h.answer, obj |-> h.obj, entry |-> h.entry] \in Telling
    BY DEF Handler, Telling
  <2>3. handler' \subseteq Handler /\ told' \subseteq Telling
    BY <2>1, <2>2
  <2>4. QED
    BY <2>3
<1>2. SomeRegistered'
  BY DEF SomeRegistered
<1>3. EntryStays'
  BY DEF EntryStays
<1>4. OneLister'
  BY DEF OneLister
<1>5. NotYetAsked'
  BY DEF NotYetAsked
<1>6. GotIsAnswered'
  BY DEF GotIsAnswered
<1>7. AboutRequests'
  BY DEF AboutRequests, Out
<1>8. HandlersKnow'
  <2> DEFINE g == [answer |-> h.answer, obj |-> h.obj, at |-> "told",
                   entry |-> h.entry]
  <2>1. Knows(h)
    BY DEF HandlersKnow
  <2>2. h.entry # None => Knows(g)'
    BY <2>1 DEF Knows
  <2>3. \A k \in handler : Knows(k)'
    BY HandlersKnowKept
  <2>4. QED
    BY <2>2, <2>3 DEF HandlersKnow
<1>9. AnswersFindTheirRequest'
  <2> DEFINE t == [answer |-> h.answer, obj |-> h.obj, entry |-> h.entry]
  <2>1. t.obj = asker[t.answer.req] => t.entry = t.answer.req
    BY DEF HandlersKnow, Knows
  <2>2. told' = told \cup {t}
    OBVIOUS
  <2>3. QED
    BY <2>1, <2>2 DEF AnswersFindTheirRequest
<1>10. ToldBeforeHeard'
  BY DEF ToldBeforeHeard
<1>11. QED
  BY <1>1, <1>2, <1>3, <1>4, <1>5, <1>6, <1>7, <1>8, <1>9, <1>10

LEMMA OfferInv ==
    ASSUME IInv, NEW h \in handler, Offer(h)
    PROVE  IInv'
<1> USE RequestAssumption
         DEF IInv, TypeOK, Offer, Hear, Call, callVars, netVars
<1>1. TypeOK'
  BY DEF Answer, Handler, Telling, Ended, Request
<1>2. SomeRegistered'
  BY DEF SomeRegistered
<1>3. EntryStays'
  BY DEF EntryStays
<1>4. OneLister'
  BY DEF OneLister
<1>5. NotYetAsked'
  BY DEF NotYetAsked
<1>6. GotIsAnswered'
  BY DEF GotIsAnswered
<1>7. AboutRequests'
  BY DEF AboutRequests, Out, Handler, Telling, Answer
<1>8. HandlersKnow'
  <2>1. \A k \in handler : Knows(k)'
    BY HandlersKnowKept
  <2>2. QED
    BY <2>1 DEF HandlersKnow
<1>9. AnswersFindTheirRequest'
  BY DEF AnswersFindTheirRequest
<1>10. ToldBeforeHeard'
  <2>1. h.answer.req \in Request /\ h.obj \in Object
    BY DEF Handler, Answer
  <2>2. /\ h.entry = h.answer.req
        /\ [answer |-> h.answer, obj |-> h.obj, entry |-> h.entry] \in told
    BY DEF HandlersKnow, Knows
  <2>3. h.obj = asker[h.answer.req]
    BY <2>1, <2>2 DEF HandlersKnow, Knows
  <2>4. QED
    BY <2>1, <2>2, <2>3 DEF ToldBeforeHeard
<1>11. QED
  BY <1>1, <1>2, <1>3, <1>4, <1>5, <1>6, <1>7, <1>8, <1>9, <1>10

-----------------------------------------------------------------------------
LEMMA CallerStepInv ==
    ASSUME IInv, NEW r \in Request, CallerStep(r)
    PROVE  IInv'
BY GenerateFailsInv, GenRequestInfoInv, StreamFailsInv, NoTargetInv, SendInv,
   ReceiveInv, GiveUpInv DEF CallerStep

LEMMA HandlerStepInv ==
    ASSUME IInv, NEW h \in handler, HandlerStep(h)
    PROVE  IInv'
BY LoadInv, CallResponseCallbackInv, OfferInv DEF HandlerStep

LEMMA StutterInv ==
    ASSUME IInv, UNCHANGED vars
    PROVE  IInv'
<1> USE DEF vars, callVars, netVars, handleVars, IInv
<1>1. TypeOK'
  BY DEF TypeOK
<1>2. SomeRegistered' /\ EntryStays' /\ OneLister' /\ NotYetAsked' /\ GotIsAnswered'
  BY DEF SomeRegistered, EntryStays, OneLister, NotYetAsked, GotIsAnswered
<1>3. AboutRequests'
  BY DEF AboutRequests
<1>4. HandlersKnow'
  BY HandlersKnowKept DEF HandlersKnow
<1>5. AnswersFindTheirRequest' /\ ToldBeforeHeard'
  BY DEF AnswersFindTheirRequest, ToldBeforeHeard
<1>6. QED
  BY <1>1, <1>2, <1>3, <1>4, <1>5

(* The invariant is inductive.                                             *)
LEMMA NextInv == IInv /\ [Next]_vars => IInv'
<1> SUFFICES ASSUME IInv, [Next]_vars PROVE IInv'
  OBVIOUS
<1>1. ASSUME NEW o \in Object, Register(o) \/ TickCleanRequest(o) PROVE IInv'
  BY <1>1, RegisterInv, TickCleanRequestInv
<1>2. ASSUME NEW r \in Request, CallerStep(r) \/ Age(r) PROVE IInv'
  BY <1>2, CallerStepInv, AgeInv
<1>3. ASSUME NEW r \in Request, NEW p \in Peer, Serve(r, p) PROVE IInv'
  BY <1>3, ServeInv
<1>4. ASSUME NEW a \in answers, Arrive(a) PROVE IInv'
  BY <1>4, ArriveInv
<1>5. ASSUME NEW h \in handler, HandlerStep(h) PROVE IInv'
  BY <1>5, HandlerStepInv
<1>6. QED
  BY <1>1, <1>2, <1>3, <1>4, <1>5, StutterInv DEF Next

LEMMA Invariance == Spec => []IInv
BY InitInv, NextInv, PTL DEF Spec

(* The state of the objects, callers and handlers is of its type.          *)
THEOREM TypeCorrect == Spec => []TypeOK
BY Invariance, PTL DEF IInv

(* Between the first store of a request and the load of its entry nothing  *)
(* that runs beside Request removes the entry: the conversion of what is   *)
(* loaded does not panic, however fast the answer comes and however old    *)
(* the entry is when the ticker cleans (streamProtocol.go).                *)
THEOREM ListedFirst == Spec => []ListedUntilReturned
<1>1. IInv => ListedUntilReturned
  BY DEF IInv, EntryStays, ListedUntilReturned
<1>2. QED
  BY Invariance, <1>1, PTL

(* No answer of the object that asked is handled as one of an unknown      *)
(* request, the late ones and the later ones of a topic included           *)
(* (HandleResponseData).                                                   *)
THEOREM AnswersKnown == Spec => []AnswersFindTheirRequest
<1>1. IInv => AnswersFindTheirRequest
  BY DEF IInv
<1>2. QED
  BY Invariance, <1>1, PTL

(* A caller never has an answer before the callback of its own object has  *)
(* run for it (HandleResponseData, OnSeekMailboxResponse).                 *)
THEOREM ToldFirst == Spec => []ToldBeforeHeard
<1>1. IInv => ToldBeforeHeard
  BY DEF IInv
<1>2. QED
  BY Invariance, <1>1, PTL
=============================================================================
