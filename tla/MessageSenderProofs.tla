------------------------ MODULE MessageSenderProofs ------------------------
(***************************************************************************)
(* Proofs about MessageSender, for any number of calls.  The inductive     *)
(* invariant says who holds a lock, that only the holder has something on  *)
(* the stream, and that whoever found a sender that is still valid found   *)
(* the one in strmap.                                                      *)
(***************************************************************************)
EXTENDS MessageSender, TLAPS

(* A call that has begun has a sender; the one that makes it has its own.  *)
Senders ==
    \A c \in Call :
        /\ pc[c] # "idle" => ms[c] \in Call
        /\ pc[c] \in {"first", "prepFirst", "failed"} => ms[c] = c

(* A lock is with the one call that is between Lock and Unlock.            *)
Locks ==
    \A c, m \in Call : lk[m] = c <=> pc[c] \in Holding /\ ms[c] = m

(* Only the holder's request or its answer is on the stream.               *)
OnStream(m, c) ==
    /\ lk[m] = c
    /\ pc[c] = "read"
    /\ \/ ask[m] = <<c>> /\ ans[m] = <<>>
       \/ ask[m] = <<>> /\ ans[m] = <<c>>

Streams ==
    \A m \in Call :
        \/ ask[m] = <<>> /\ ans[m] = <<>>
        \/ \E c \in Call : OnStream(m, c)

(* A sender becomes invalid when the call that made it fails, and then has *)
(* no stream; one that is valid is the one in strmap.                      *)
Valid ==
    \A c \in Call :
        /\ pc[c] \in {"idle", "first", "prepFirst"} => ~invalid[c]
        /\ pc[c] = "failed" => invalid[c]
        /\ invalid[c] => stream[c] = "nil"
        /\ pc[c] # "idle" /\ ~invalid[ms[c]] => strmap = ms[c]

(* How often a request was served so far.                                  *)
Tried(c) == IF retry[c] THEN 1 ELSE 0

Counts ==
    \A c \in Call :
        /\ pc[c] \in {"idle", "first", "prepFirst", "failed", "lock"} =>
              served[c] = 0 /\ ~retry[c]
        /\ pc[c] \in {"prep", "write"} => served[c] <= Tried(c)
        /\ pc[c] = "read" /\ ask[ms[c]] # <<>> => served[c] <= Tried(c)

IInv ==
    /\ TypeOK /\ Senders /\ Locks /\ Streams /\ Valid /\ Counts
    /\ AnswersAreOwn /\ ServedOnce /\ StreamsAreKept /\ InvalidIsLeaving


-----------------------------------------------------------------------------
LEMMA InitInv == Init => IInv
BY CallAssumption
DEF Init, IInv, TypeOK, Senders, Locks, Holding, Streams, Valid, Counts, Tried,
    AnswersAreOwn, ServedOnce, StreamsAreKept, InvalidIsLeaving

LEMMA Update ==
  ASSUME NEW S, NEW f \in [Call -> S], NEW m \in Call, NEW v \in S
  PROVE  [f EXCEPT ![m] = v] \in [Call -> S]
OBVIOUS

LEMMA FindInv ==
  ASSUME IInv, NEW c \in Call, Find(c)
  PROVE  IInv'
<1> USE CallAssumption DEF IInv
<1>1. /\ strmap \in Call \cup {None} /\ strmap' \in Call
      /\ pc \in [Call -> {"idle", "first", "failed", "lock"} \cup Holding \cup Returned]
      /\ ms \in [Call -> Call \cup {None}]
      /\ pc[c] = "idle"
      /\ ms' = [ms EXCEPT ![c] = strmap']
      /\ pc' = [pc EXCEPT ![c] = IF strmap = None THEN "first" ELSE "lock"]
      /\ strmap' = IF strmap = None THEN c ELSE strmap
      /\ UNCHANGED <<stream, ask, ans, invalid, singleMes, lk, retry, got, served>>
  BY DEF Find, Goto, TypeOK, streams
<1>2. TypeOK'
  BY <1>1 DEF TypeOK
<1>3. Senders'
  BY <1>1 DEF Senders
<1>4. Locks'
  BY <1>1 DEF Locks, Holding
<1>5. Streams'
  BY <1>1 DEF Streams, OnStream
<1>6. Valid'
  BY <1>1 DEF Valid, StreamsAreKept, Senders
<1>7. Counts'
  BY <1>1 DEF Counts, Tried
<1>8. AnswersAreOwn' /\ ServedOnce' /\ StreamsAreKept'
  BY <1>1 DEF AnswersAreOwn, ServedOnce, StreamsAreKept
<1>9. InvalidIsLeaving'
  BY <1>1 DEF InvalidIsLeaving, Valid
<1>10. QED
  BY <1>2, <1>3, <1>4, <1>5, <1>6, <1>7, <1>8, <1>9

LEMMA LockInv ==
  ASSUME IInv, NEW c \in Call, Lock(c)
  PROVE  IInv'
<1> USE CallAssumption DEF IInv
<1>1. /\ pc[c] \in {"first", "lock"} /\ ms[c] \in Call /\ lk[ms[c]] = None
      /\ pc \in [Call -> {"idle", "first", "failed", "lock"} \cup Holding \cup Returned]
      /\ lk \in [Call -> Call \cup {None}]
      /\ lk' = [lk EXCEPT ![ms[c]] = c]
      /\ pc' = [pc EXCEPT ![c] = IF pc[c] = "first" THEN "prepFirst" ELSE "prep"]
      /\ UNCHANGED <<strmap, stream, ask, ans, invalid, singleMes, ms, retry, got, served>>
  BY DEF Lock, Goto, TypeOK, Senders, streams
<1>2. TypeOK'
  BY <1>1 DEF TypeOK, Holding, Returned
<1>3. Senders'
  BY <1>1 DEF Senders, Holding
<1>4. Locks'
  BY SMTT(30), <1>1 DEF Locks, Holding, TypeOK
<1>5. Streams'
  BY <1>1 DEF Streams, OnStream
<1>6. Valid'
  BY <1>1 DEF Valid, StreamsAreKept, Senders
<1>7. Counts'
  BY <1>1 DEF Counts, Tried
<1>8. AnswersAreOwn' /\ ServedOnce'
  BY <1>1 DEF AnswersAreOwn, ServedOnce
<1>9. StreamsAreKept'
  BY <1>1 DEF StreamsAreKept
<1>10. InvalidIsLeaving'
  BY <1>1 DEF InvalidIsLeaving
<1>11. QED
  BY <1>2, <1>3, <1>4, <1>5, <1>6, <1>7, <1>8, <1>9, <1>10

LEMMA WriteInv ==
  ASSUME IInv, NEW c \in Call, Write(c)
  PROVE  IInv'
<1> USE CallAssumption DEF IInv
<1> DEFINE m == ms[c]
<1>1. /\ pc[c] = "write" /\ m \in Call /\ lk[m] = c
      /\ pc \in [Call -> {"idle", "first", "failed", "lock"} \cup Holding \cup Returned]
      /\ pc' = [pc EXCEPT ![c] = "read"]
      /\ UNCHANGED <<strmap, stream, ans, invalid, singleMes, lk, ms, retry, got, served>>
  BY DEF Write, Goto, TypeOK, Senders, Locks, Holding
<1>2. ask \in [Call -> Seq(Call)] /\ <<c>> \in Seq(Call)
  BY DEF TypeOK
<1>3. ask[m] = <<>> /\ ans[m] = <<>>
  BY <1>1 DEF Streams, OnStream
<1>4. ask' = ask \/ ask' = [ask EXCEPT ![m] = <<c>>]
  BY <1>1, <1>2, <1>3 DEF Write
<1>5. ask' \in [Call -> Seq(Call)]
  BY <1>1, <1>2, <1>4, Update
<1>6. \A n \in Call : n # m => ask'[n] = ask[n]
  BY <1>1, <1>2, <1>4
<1>7. ask'[m] \in {<<>>, <<c>>}
  BY <1>1, <1>2, <1>3, <1>4
<1> HIDE DEF m
<1>8. TypeOK'
  BY <1>1, <1>5 DEF TypeOK, Holding, Returned
<1>9. Senders' /\ Locks'
  BY <1>1 DEF Senders, Locks, Holding, m
<1>10. Streams'
  <2> SUFFICES ASSUME NEW n \in Call
               PROVE  \/ ask'[n] = <<>> /\ ans'[n] = <<>>
                      \/ \E d \in Call : OnStream(n, d)'
    BY DEF Streams
  <2>1. CASE n = m
    BY <1>1, <1>3, <1>7, <2>1 DEF OnStream
  <2>2. CASE n # m
    BY <1>1, <1>6, <2>2 DEF Streams, OnStream, m
  <2>3. QED
    BY <2>1, <2>2
<1>11. Counts'
  BY <1>1, <1>6 DEF Counts, Tried, Senders, Locks, Holding, m
<1>12. Valid' /\ AnswersAreOwn' /\ ServedOnce' /\ StreamsAreKept' /\ InvalidIsLeaving'
  BY <1>1 DEF Valid, AnswersAreOwn, ServedOnce, StreamsAreKept, InvalidIsLeaving
<1>13. QED
  BY <1>8, <1>9, <1>10, <1>11, <1>12

LEMMA ServeInv ==
  ASSUME IInv, NEW m \in Call, Serve(m)
  PROVE  IInv'
<1> USE CallAssumption DEF IInv
<1>1. PICK c \in Call : OnStream(m, c) /\ ask[m] = <<c>> /\ ans[m] = <<>>
  BY DEF Serve, Streams, OnStream
<1>2. /\ pc[c] = "read" /\ ms[c] = m /\ lk[m] = c
      /\ served \in [Call -> Nat]
  BY <1>1 DEF OnStream, Locks, TypeOK
<1>3. /\ ask \in [Call -> Seq(Call)] /\ ans \in [Call -> Seq(Call)]
      /\ <<>> \in Seq(Call) /\ <<c>> \in Seq(Call)
  BY DEF TypeOK
<1>4. /\ served' = [served EXCEPT ![c] = @ + 1]
      /\ ask' = [ask EXCEPT ![m] = <<>>]
      /\ ans' = [ans EXCEPT ![m] = <<c>>]
      /\ UNCHANGED <<strmap, stream, invalid, singleMes, lk, pc, ms, retry, got>>
  BY <1>1, <1>3 DEF Serve
<1>5. ask' \in [Call -> Seq(Call)] /\ ans' \in [Call -> Seq(Call)]
  BY <1>3, <1>4, Update
<1>6. served' \in [Call -> Nat] /\ served'[c] = served[c] + 1
  BY <1>2, <1>4
<1>7. \A n \in Call : n # m => ask'[n] = ask[n] /\ ans'[n] = ans[n]
  BY <1>3, <1>4
<1>8. ask'[m] = <<>> /\ ans'[m] = <<c>>
  BY <1>3, <1>4
<1>9. \A d \in Call : d # c => served'[d] = served[d]
  BY <1>2, <1>4
<1>10. UNCHANGED <<strmap, stream, invalid, singleMes, lk, pc, ms, retry, got>>
  BY <1>4
<1>11. ask[m] # <<>>
  BY <1>1
<1>12. TypeOK'
  BY <1>5, <1>6, <1>10 DEF TypeOK
<1>13. Streams'
  <2> SUFFICES ASSUME NEW n \in Call
               PROVE  \/ ask'[n] = <<>> /\ ans'[n] = <<>>
                      \/ \E d \in Call : OnStream(n, d)'
    BY DEF Streams
  <2>1. CASE n = m
    BY <1>2, <1>8, <1>10, <2>1 DEF OnStream
  <2>2. CASE n # m
    BY <1>7, <1>10, <2>2 DEF Streams, OnStream
  <2>3. QED
    BY <2>1, <2>2
<1>14. Counts'
  BY <1>2, <1>7, <1>8, <1>9, <1>10 DEF Counts, Tried, Senders, Locks, Holding
<1>15. ServedOnce'
  BY <1>2, <1>6, <1>9, <1>10, <1>11 DEF ServedOnce, Counts, Tried
<1>16. Senders' /\ Locks' /\ Valid' /\ AnswersAreOwn' /\ StreamsAreKept' /\ InvalidIsLeaving'
  BY <1>10 DEF Senders, Locks, Valid, AnswersAreOwn, StreamsAreKept, InvalidIsLeaving
<1>17. QED
  BY <1>12, <1>13, <1>14, <1>15, <1>16

LEMMA EndInv ==
  ASSUME IInv, NEW m \in Call, End(m)
  PROVE  IInv'
<1> USE CallAssumption DEF IInv
<1>1. /\ stream \in [Call -> {"nil", "open", "dead"}]
      /\ stream[m] = "open"
      /\ stream' = [stream EXCEPT ![m] = "dead"]
      /\ ask' = [ask EXCEPT ![m] = <<>>]
      /\ ans' = ans \/ ans' = [ans EXCEPT ![m] = <<>>]
      /\ UNCHANGED <<strmap, invalid, singleMes, lk, pc, ms, retry, got, served>>
  BY DEF End, TypeOK
<1>2. /\ ask \in [Call -> Seq(Call)] /\ ans \in [Call -> Seq(Call)]
      /\ <<>> \in Seq(Call)
  BY DEF TypeOK
<1>3. TypeOK'
  <2>1. /\ [ask EXCEPT ![m] = <<>>] \in [Call -> Seq(Call)]
        /\ [ans EXCEPT ![m] = <<>>] \in [Call -> Seq(Call)]
    BY <1>2, Update
  <2>2. stream' \in [Call -> {"nil", "open", "dead"}]
    BY <1>1
  <2>3. QED
    BY <1>1, <1>2, <2>1, <2>2 DEF TypeOK
<1>4. Streams'
  BY SMTT(30), <1>1, <1>2 DEF Streams, OnStream
<1>5. Counts'
  BY <1>1, <1>2 DEF Counts, Tried, Senders, TypeOK, Holding
<1>6. Senders' /\ Locks' /\ AnswersAreOwn' /\ ServedOnce' /\ InvalidIsLeaving'
  BY <1>1 DEF Senders, Locks, AnswersAreOwn, ServedOnce, InvalidIsLeaving
<1>7. Valid' /\ StreamsAreKept'
  BY <1>1 DEF Valid, StreamsAreKept
<1>8. QED
  BY <1>3, <1>4, <1>5, <1>6, <1>7

LEMMA ForgetInv ==
  ASSUME IInv, NEW c \in Call, Forget(c)
  PROVE  IInv'
<1> USE CallAssumption DEF IInv
<1>1. /\ pc[c] = "failed" /\ ms[c] = c /\ invalid[c] /\ stream[c] = "nil"
      /\ pc \in [Call -> {"idle", "first", "failed", "lock"} \cup Holding \cup Returned]
      /\ ms \in [Call -> Call \cup {None}]
      /\ strmap \in Call \cup {None}
      /\ UNCHANGED <<stream, ask, ans, invalid, singleMes, lk, retry, got, served>>
  BY DEF Forget, TypeOK, Senders, Valid, streams
<1>2. CASE strmap \in {None, c}
  <2>1. strmap' = None /\ pc' = [pc EXCEPT ![c] = "error"] /\ ms' = ms
    BY <1>1, <1>2 DEF Forget, Goto
  <2>2. TypeOK'
    BY <1>1, <2>1 DEF TypeOK, Returned
  <2>3. Senders' /\ Locks'
    BY <1>1, <2>1 DEF Senders, Locks, Holding
  <2>4. Streams'
    BY <1>1, <2>1 DEF Streams, OnStream
  <2>5. Valid'
    BY <1>1, <1>2, <2>1 DEF Valid, Senders
  <2>6. Counts'
    BY <1>1, <2>1 DEF Counts, Tried
  <2>7. StreamsAreKept'
    BY <1>1, <1>2, <2>1 DEF StreamsAreKept
  <2>8. AnswersAreOwn' /\ ServedOnce' /\ InvalidIsLeaving'
    BY <1>1, <2>1 DEF AnswersAreOwn, ServedOnce, InvalidIsLeaving
  <2>9. QED
    BY <2>2, <2>3, <2>4, <2>5, <2>6, <2>7, <2>8
<1>3. CASE strmap \notin {None, c}
  <2>1. /\ strmap' = strmap /\ strmap \in Call
        /\ pc' = [pc EXCEPT ![c] = "lock"]
        /\ ms' = [ms EXCEPT ![c] = strmap]
    BY <1>1, <1>3 DEF Forget, Goto
  <2>2. TypeOK'
    BY <1>1, <2>1 DEF TypeOK
  <2>3. Senders' /\ Locks'
    BY <1>1, <2>1 DEF Senders, Locks, Holding
  <2>4. Streams'
    BY <1>1, <2>1 DEF Streams, OnStream
  <2>5. Valid'
    BY <1>1, <2>1 DEF Valid
  <2>6. Counts'
    BY <1>1, <2>1 DEF Counts, Tried
  <2>7. StreamsAreKept' /\ AnswersAreOwn' /\ ServedOnce'
    BY <1>1, <2>1 DEF StreamsAreKept, AnswersAreOwn, ServedOnce
  <2>8. InvalidIsLeaving'
    BY <1>1, <1>3, <2>1 DEF InvalidIsLeaving
  <2>9. QED
    BY <2>2, <2>3, <2>4, <2>5, <2>6, <2>7, <2>8
<1>4. QED
  BY <1>2, <1>3

LEMMA PrepFirstInv ==
  ASSUME IInv, NEW c \in Call, PrepFirst(c)
  PROVE  IInv'
<1> USE CallAssumption DEF IInv
<1>1. /\ pc[c] = "prepFirst" /\ ms[c] = c /\ lk[c] = c /\ ~invalid[c] /\ strmap = c
      /\ pc \in [Call -> {"idle", "first", "failed", "lock"} \cup Holding \cup Returned]
      /\ lk \in [Call -> Call \cup {None}]
      /\ lk' = [lk EXCEPT ![c] = None]
      /\ ask[c] = <<>> /\ ans[c] = <<>>
      /\ stream \in [Call -> {"nil", "open", "dead"}]
      /\ ask \in [Call -> Seq(Call)] /\ ans \in [Call -> Seq(Call)]
      /\ UNCHANGED <<strmap, singleMes, ms, retry, got, served>>
  <2>1. pc[c] = "prepFirst" /\ ms[c] = c /\ ~invalid[c] /\ strmap = c /\ lk[c] = c
    BY DEF PrepFirst, Senders, Valid, Locks, Holding
  <2>2. ask[c] = <<>> /\ ans[c] = <<>>
    BY <2>1 DEF Streams, OnStream
  <2>3. QED
    BY <2>1, <2>2 DEF PrepFirst, Unlock, TypeOK
<1>2. CASE Prepared(c) /\ Goto(c, "lock") /\ UNCHANGED invalid
  <2>1. /\ pc' = [pc EXCEPT ![c] = "lock"]
        /\ stream' = [stream EXCEPT ![c] = IF @ = "nil" THEN "open" ELSE @]
        /\ UNCHANGED <<ask, ans, invalid>>
    BY <1>2 DEF Prepared, Goto
  <2>2. TypeOK'
    BY <1>1, <2>1 DEF TypeOK
  <2>3. Senders' /\ Locks'
    BY <1>1, <2>1 DEF Senders, Locks, Holding
  <2>4. Streams'
    BY <1>1, <2>1 DEF Streams, OnStream
  <2>5. Valid'
    BY <1>1, <2>1 DEF Valid
  <2>6. Counts'
    BY <1>1, <2>1 DEF Counts, Tried
  <2>7. StreamsAreKept' /\ AnswersAreOwn' /\ ServedOnce' /\ InvalidIsLeaving'
    BY <1>1, <2>1 DEF StreamsAreKept, AnswersAreOwn, ServedOnce, InvalidIsLeaving
  <2>8. QED
    BY <2>2, <2>3, <2>4, <2>5, <2>6, <2>7
<1>3. CASE invalid' = [invalid EXCEPT ![c] = TRUE] /\ Drop(c) /\ Goto(c, "failed")
  <2>1. /\ pc' = [pc EXCEPT ![c] = "failed"]
        /\ invalid' = [invalid EXCEPT ![c] = TRUE] /\ invalid \in [Call -> BOOLEAN]
        /\ stream' = [stream EXCEPT ![c] = "nil"]
        /\ ask' = ask /\ ans' = ans
    BY <1>1, <1>3 DEF Drop, Goto, TypeOK
  <2>2. TypeOK'
    BY <1>1, <2>1 DEF TypeOK
  <2>3. Senders'
    BY <1>1, <2>1 DEF Senders
  <2>4. Streams'
    BY <1>1, <2>1 DEF Streams, OnStream
  <2>5. Valid'
    BY <1>1, <2>1 DEF Valid, Senders
  <2>6. Counts'
    BY <1>1, <2>1 DEF Counts, Tried
  <2>7. StreamsAreKept' /\ AnswersAreOwn' /\ ServedOnce' /\ InvalidIsLeaving'
    BY <1>1, <2>1 DEF StreamsAreKept, AnswersAreOwn, ServedOnce, InvalidIsLeaving
  <2>8. Locks'
    BY <1>1, <2>1 DEF Locks, Holding
  <2>9. QED
    BY <2>2, <2>3, <2>4, <2>5, <2>6, <2>7, <2>8
<1>4. QED
  BY <1>1, <1>2, <1>3 DEF PrepFirst

LEMMA PrepInv ==
  ASSUME IInv, NEW c \in Call, Prep(c)
  PROVE  IInv'
<1> USE CallAssumption DEF IInv
<1> DEFINE m == ms[c]
<1>1. /\ pc[c] = "prep" /\ m \in Call /\ lk[m] = c
      /\ pc \in [Call -> {"idle", "first", "failed", "lock"} \cup Holding \cup Returned]
      /\ lk \in [Call -> Call \cup {None}]
      /\ stream \in [Call -> {"nil", "open", "dead"}]
      /\ ask \in [Call -> Seq(Call)] /\ ans \in [Call -> Seq(Call)]
      /\ UNCHANGED <<strmap, invalid, singleMes, ms, retry, got, served>>
  BY DEF Prep, TypeOK, Senders, Locks, Holding
<1>2. ask[m] = <<>> /\ ans[m] = <<>>
  BY <1>1 DEF Streams, OnStream
<1>3. CASE Prepared(m) /\ Goto(c, "write") /\ UNCHANGED lk
  <2>1. /\ pc' = [pc EXCEPT ![c] = "write"]
        /\ ~invalid[m]
        /\ stream' = [stream EXCEPT ![m] = IF @ = "nil" THEN "open" ELSE @]
        /\ UNCHANGED <<ask, ans, lk>>
    BY <1>3 DEF Prepared, Goto
  <2>2. strmap = m
    BY <1>1, <2>1 DEF Valid
  <2> HIDE DEF m
  <2>3. TypeOK'
    BY <1>1, <2>1 DEF TypeOK, Holding
  <2>4. Senders' /\ Locks'
    BY <1>1, <2>1 DEF Senders, Locks, Holding
  <2>5. Streams'
    BY <1>1, <2>1 DEF Streams, OnStream
  <2>6. Valid'
    BY <1>1, <2>1 DEF Valid, m
  <2>7. Counts'
    BY <1>1, <2>1 DEF Counts, Tried
  <2>8. StreamsAreKept'
    BY <1>1, <2>1, <2>2 DEF StreamsAreKept
  <2>9. AnswersAreOwn' /\ ServedOnce' /\ InvalidIsLeaving'
    BY <1>1, <2>1 DEF AnswersAreOwn, ServedOnce, InvalidIsLeaving
  <2>10. QED
    BY <2>3, <2>4, <2>5, <2>6, <2>7, <2>8, <2>9
<1>4. CASE Goto(c, "error") /\ Unlock(c) /\ UNCHANGED streams
  <2>1. /\ pc' = [pc EXCEPT ![c] = "error"]
        /\ lk' = [lk EXCEPT ![m] = None]
        /\ UNCHANGED <<stream, ask, ans>>
    BY <1>4 DEF Unlock, Goto, streams
  <2> HIDE DEF m
  <2>2. TypeOK'
    BY <1>1, <2>1 DEF TypeOK, Returned
  <2>3. Senders'
    BY <1>1, <2>1 DEF Senders
  <2>4. Locks'
    BY <1>1, <2>1 DEF Locks, Holding, m
  <2>5. Streams'
    BY <1>1, <1>2, <2>1 DEF Streams, OnStream
  <2>6. Valid'
    BY <1>1, <2>1 DEF Valid, m
  <2>7. Counts'
    BY <1>1, <2>1 DEF Counts, Tried
  <2>8. StreamsAreKept' /\ AnswersAreOwn' /\ ServedOnce' /\ InvalidIsLeaving'
    BY <1>1, <2>1 DEF StreamsAreKept, AnswersAreOwn, ServedOnce, InvalidIsLeaving
  <2>9. QED
    BY <2>2, <2>3, <2>4, <2>5, <2>6, <2>7, <2>8
<1>5. QED
  BY <1>3, <1>4 DEF Prep

(* Drop empties a stream and keeps the types and what is known of streams.  *)
LEMMA Dropped ==
  ASSUME IInv, NEW m \in Call, Drop(m)
  PROVE  /\ stream' \in [Call -> {"nil", "open", "dead"}]
         /\ ask' \in [Call -> Seq(Call)] /\ ans' \in [Call -> Seq(Call)]
         /\ stream'[m] = "nil" /\ ask'[m] = <<>> /\ ans'[m] = <<>>
         /\ \A n \in Call : n # m => /\ stream'[n] = stream[n]
                                     /\ ask'[n] = ask[n] /\ ans'[n] = ans[n]
<1>1. /\ stream \in [Call -> {"nil", "open", "dead"}]
      /\ ask \in [Call -> Seq(Call)] /\ ans \in [Call -> Seq(Call)]
      /\ <<>> \in Seq(Call)
  BY DEF IInv, TypeOK
<1>2. /\ stream' = [stream EXCEPT ![m] = "nil"]
      /\ ask' = [ask EXCEPT ![m] = <<>>]
      /\ ans' = [ans EXCEPT ![m] = <<>>]
  BY DEF Drop
<1>3. ask' \in [Call -> Seq(Call)]
  BY <1>1, <1>2, Update
<1>4. ans' \in [Call -> Seq(Call)]
  BY <1>1, <1>2, Update
<1>5. QED
  BY <1>1, <1>2, <1>3, <1>4

(* After a call has let its stream go, or emptied it, what is known of the  *)
(* streams of the others holds on.                                          *)
LEMMA StreamsAfter ==
  ASSUME IInv, NEW c \in Call, NEW m \in Call, ms[c] = m, lk[m] = c,
         UNCHANGED ms,
         \A d \in Call : d # c => pc'[d] = pc[d],
         \A n \in Call : n # m => lk'[n] = lk[n],
         ask'[m] = <<>>, ans'[m] = <<>>,
         \A n \in Call : n # m => ask'[n] = ask[n] /\ ans'[n] = ans[n]
  PROVE  Streams'
<1> SUFFICES ASSUME NEW n \in Call, n # m
             PROVE  \/ ask'[n] = <<>> /\ ans'[n] = <<>>
                    \/ \E d \in Call : OnStream(n, d)'
  BY DEF Streams
<1>1. CASE ask[n] = <<>> /\ ans[n] = <<>>
  BY <1>1
<1>2. CASE \E d \in Call : OnStream(n, d)
  <2>1. PICK d \in Call : OnStream(n, d)
    BY <1>2
  <2>2. d # c
    BY <2>1 DEF OnStream, IInv, Locks
  <2>3. QED
    BY <2>1, <2>2 DEF OnStream
<1>3. QED
  BY <1>1, <1>2 DEF IInv, Streams

LEMMA FailInv ==
  ASSUME IInv, NEW c \in Call, pc[c] \in {"write", "read"}, Fail(c)
  PROVE  IInv'
<1> USE CallAssumption DEF IInv
<1> DEFINE m == ms[c]
<1>1. /\ pc[c] \in {"write", "read"} /\ m \in Call /\ lk[m] = c
      /\ pc \in [Call -> {"idle", "first", "failed", "lock"} \cup Holding \cup Returned]
      /\ lk \in [Call -> Call \cup {None}]
      /\ retry \in [Call -> BOOLEAN]
      /\ UNCHANGED <<strmap, invalid, singleMes, ms, got, served>>
  BY DEF Fail, TypeOK, Senders, Locks, Holding
<1>2. /\ stream' \in [Call -> {"nil", "open", "dead"}]
      /\ ask' \in [Call -> Seq(Call)] /\ ans' \in [Call -> Seq(Call)]
      /\ stream'[m] = "nil" /\ ask'[m] = <<>> /\ ans'[m] = <<>>
      /\ \A n \in Call : n # m => /\ stream'[n] = stream[n]
                                  /\ ask'[n] = ask[n] /\ ans'[n] = ans[n]
  BY <1>1, Dropped DEF Fail
<1>3. \/ /\ retry[c] /\ UNCHANGED retry
         /\ pc' = [pc EXCEPT ![c] = "error"]
         /\ lk' = [lk EXCEPT ![m] = None]
      \/ /\ ~retry[c] /\ retry' = [retry EXCEPT ![c] = TRUE]
         /\ pc' = [pc EXCEPT ![c] = "prep"]
         /\ UNCHANGED lk
  BY DEF Fail, Goto, Unlock
<1>4. /\ pc' \in [Call -> {"idle", "first", "failed", "lock"} \cup Holding \cup Returned]
      /\ lk' \in [Call -> Call \cup {None}]
      /\ retry' \in [Call -> BOOLEAN]
      /\ \A d \in Call : d # c => pc'[d] = pc[d] /\ retry'[d] = retry[d]
      /\ \/ retry[c] /\ retry'[c] /\ pc'[c] = "error"
         \/ ~retry[c] /\ retry'[c] /\ pc'[c] = "prep"
  <2>1. CASE retry[c]
    BY <1>1, <1>3, <2>1 DEF Holding, Returned
  <2>2. CASE ~retry[c]
    BY <1>1, <1>3, <2>2 DEF Holding, Returned
  <2>3. QED
    BY <2>1, <2>2
<1>5. Streams'
  <2>1. /\ \A d \in Call : d # c => pc'[d] = pc[d]
        /\ \A n \in Call : n # m => lk'[n] = lk[n]
    BY <1>1, <1>3
  <2>2. QED
    BY <1>1, <1>2, <2>1, StreamsAfter
<1> HIDE DEF m
<1>6. TypeOK'
  BY <1>1, <1>2, <1>4 DEF TypeOK
<1>7. Senders'
  BY <1>1, <1>3 DEF Senders
<1>8. Locks'
  BY <1>1, <1>3 DEF Locks, Holding, m
<1>9. Valid' /\ StreamsAreKept'
  <2>1. \A d \in Call : stream'[d] \in {"nil", stream[d]}
    BY <1>2
  <2>2. Valid'
    BY <1>1, <1>4, <2>1 DEF Valid
  <2>3. StreamsAreKept'
    BY <1>1, <2>1 DEF StreamsAreKept
  <2>4. QED
    BY <2>2, <2>3
<1>10. Counts'
  BY ZenonT(40), <1>1, <1>2, <1>4 DEF Counts, Tried, ServedOnce, Senders
<1>11. ServedOnce'
  <2>1. served \in [Call -> Nat]
    BY DEF TypeOK
  <2>2. QED
    BY <1>1, <1>4, <2>1 DEF ServedOnce
<1>12. AnswersAreOwn' /\ InvalidIsLeaving'
  BY <1>1, <1>3 DEF AnswersAreOwn, InvalidIsLeaving
<1>13. QED
  BY <1>5, <1>6, <1>7, <1>8, <1>9, <1>10, <1>11, <1>12

LEMMA ReadInv ==
  ASSUME IInv, NEW c \in Call, Read(c)
  PROVE  IInv'
<1> USE CallAssumption DEF IInv
<1> DEFINE m == ms[c]
<1>1. /\ pc[c] = "read" /\ m \in Call /\ lk[m] = c
      /\ pc \in [Call -> {"idle", "first", "failed", "lock"} \cup Holding \cup Returned]
      /\ lk \in [Call -> Call \cup {None}]
      /\ retry \in [Call -> BOOLEAN]
      /\ pc' = [pc EXCEPT ![c] = "done"]
      /\ lk' = [lk EXCEPT ![m] = None]
      /\ UNCHANGED <<strmap, invalid, ms, retry, served>>
  BY DEF Read, Goto, Unlock, TypeOK, Senders, Locks, Holding
<1>2. ask[m] = <<>> /\ ans[m] = <<c>>
  BY <1>1 DEF Read, Streams, OnStream
<1>3. got' = [got EXCEPT ![c] = c]
  <2>1. got' = [got EXCEPT ![c] = Head(ans[m])]
    BY DEF Read
  <2>2. Head(<<c>>) = c
    OBVIOUS
  <2>3. QED
    BY <1>2, <2>1, <2>2
<1>4. /\ stream' \in [Call -> {"nil", "open", "dead"}]
      /\ ask' \in [Call -> Seq(Call)] /\ ans' \in [Call -> Seq(Call)]
      /\ singleMes' \in [Call -> Nat]
      /\ stream'[m] \in {"nil", stream[m]} /\ ask'[m] = <<>> /\ ans'[m] = <<>>
      /\ \A n \in Call : n # m => /\ stream'[n] = stream[n]
                                  /\ ask'[n] = ask[n] /\ ans'[n] = ans[n]
  <2>1. CASE singleMes[m] > StreamReuseTries
    <3>1. Drop(m) /\ UNCHANGED singleMes
      BY <2>1 DEF Read
    <3>2. QED
      BY <1>1, <3>1, Dropped DEF TypeOK
  <2>2. CASE ~(singleMes[m] > StreamReuseTries)
    <3>1. /\ ans' = [ans EXCEPT ![m] = Tail(ans[m])]
          /\ singleMes' = [singleMes EXCEPT ![m] = IF retry[c] THEN @ + 1 ELSE @]
          /\ UNCHANGED <<stream, ask>>
      BY <2>2 DEF Read
    <3>2. Tail(ans[m]) = <<>> /\ <<>> \in Seq(Call)
      BY <1>2
    <3>3. /\ ask \in [Call -> Seq(Call)] /\ ans \in [Call -> Seq(Call)]
          /\ stream \in [Call -> {"nil", "open", "dead"}]
          /\ singleMes \in [Call -> Nat]
      BY DEF TypeOK
    <3>4. ans' \in [Call -> Seq(Call)]
      BY <1>1, <3>1, <3>2, <3>3, Update
    <3>5. singleMes' \in [Call -> Nat]
      BY <1>1, <3>1, <3>3
    <3>6. QED
      BY <1>1, <1>2, <3>1, <3>2, <3>3, <3>4, <3>5
  <2>3. QED
    BY <2>1, <2>2
<1>5. Streams'
  <2>1. /\ \A d \in Call : d # c => pc'[d] = pc[d]
        /\ \A n \in Call : n # m => lk'[n] = lk[n]
    BY <1>1
  <2>2. QED
    BY ZenonT(40), <1>1, <1>4, <2>1, StreamsAfter
<1> HIDE DEF m
<1>6. TypeOK'
  BY <1>1, <1>3, <1>4 DEF TypeOK, Returned
<1>7. Senders'
  BY <1>1 DEF Senders
<1>8. Locks'
  BY <1>1 DEF Locks, Holding, m
<1>9. Valid' /\ StreamsAreKept'
  BY <1>1, <1>4 DEF Valid, StreamsAreKept
<1>10. Counts'
  BY <1>1, <1>4 DEF Counts, Tried, Senders
<1>11. AnswersAreOwn'
  BY <1>1, <1>3 DEF AnswersAreOwn, TypeOK
<1>12. ServedOnce' /\ InvalidIsLeaving'
  BY <1>1 DEF ServedOnce, InvalidIsLeaving
<1>13. QED
  BY <1>5, <1>6, <1>7, <1>8, <1>9, <1>10, <1>11, <1>12

-----------------------------------------------------------------------------
LEMMA StepInv == IInv /\ [Next]_vars => IInv'
<1> SUFFICES ASSUME IInv, [Next]_vars
             PROVE  IInv'
  OBVIOUS
<1>1. ASSUME NEW c \in Call, SendRequest(c)
      PROVE  IInv'
  <2>1. (WriteError(c) \/ ReadError(c)) => pc[c] \in {"write", "read"} /\ Fail(c)
    BY DEF WriteError, ReadError
  <2>2. QED
    BY <1>1, <2>1, PrepInv, WriteInv, ReadInv, FailInv DEF SendRequest
<1>2. CASE UNCHANGED vars
  BY <1>2 DEF vars, streams, IInv, TypeOK, Senders, Locks, Streams, OnStream, Valid, Counts,
              Tried, AnswersAreOwn, ServedOnce, StreamsAreKept, InvalidIsLeaving
<1>3. QED
  BY <1>1, <1>2, FindInv, LockInv, PrepFirstInv, ForgetInv, ServeInv, EndInv DEF Next

THEOREM Invariance == Spec => []IInv
BY InitInv, StepInv, PTL DEF Spec

(* Every variable stays in its type.                                        *)
THEOREM TypeCorrect == Spec => []TypeOK
<1>1. IInv => TypeOK
  BY DEF IInv
<1>2. QED
  BY <1>1, Invariance, PTL

(* However many calls share the sender, and however its streams fail, a     *)
(* call that returns with an answer has the answer to its own request.      *)
THEOREM OwnAnswers == Spec => []AnswersAreOwn
<1>1. IInv => AnswersAreOwn
  BY DEF IInv
<1>2. QED
  BY <1>1, Invariance, PTL

(* A request is handled twice at most, and once if it was not tried again.  *)
THEOREM AtMostTwice == Spec => []ServedOnce
<1>1. IInv => ServedOnce
  BY DEF IInv
<1>2. QED
  BY <1>1, Invariance, PTL

(* No stream is left open at a sender that has left strmap.                 *)
THEOREM NoStreamForgotten == Spec => []StreamsAreKept
<1>1. IInv => StreamsAreKept
  BY DEF IInv
<1>2. QED
  BY <1>1, Invariance, PTL

(* An invalid sender is in strmap only until its maker has removed it.      *)
THEOREM InvalidLeaves == Spec => []InvalidIsLeaving
<1>1. IInv => InvalidIsLeaving
  BY DEF IInv
<1>2. QED
  BY <1>1, Invariance, PTL
=============================================================================
