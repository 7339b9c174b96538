--------------------------- MODULE MessageSender ---------------------------
(***************************************************************************)
(* The message sender the DKVS puts its records with (dkvs/kaddht): one    *)
(* peerMessageSender, with one stream, for all the calls to a peer.        *)
(*                                                                         *)
(* One peer is modelled: strmap has one entry, and smlk is held only while *)
(* it is looked at.  Each call is a goroutine of putKeyToNetNode that puts *)
(* one record (SendRequest).  The sender a call makes bears its name.      *)
(* Nobody cancels the contexts of these calls, and nobody calls            *)
(* OnDisconnect or SendMessage, so these are left out.                     *)
(***************************************************************************)
EXTENDS Naturals, Sequences

CONSTANTS Call, StreamReuseTries, None

ASSUME CallAssumption == None \notin Call
ASSUME TriesAssumption == StreamReuseTries \in Nat

VARIABLES
    strmap,     \* the peer's sender, or None
    stream,     \* the stream of a sender: "nil", "open", or "dead" when
                \* the peer has ended it
    ask, ans,   \* what is on the stream to the peer, and back from it
    invalid,    \* the sender may not be used again
    singleMes,  \* the retries of a sender that succeeded
    lk,         \* the call that holds a sender's lock
    pc, ms,     \* where a call is, and its sender
    retry,      \* the call has failed once
    got,        \* the request whose answer the call returned with
    served      \* how often the peer has handled the call's request

streams == <<stream, ask, ans>>
vars == <<strmap, streams, invalid, singleMes, lk, pc, ms, retry, got, served>>

Holding == {"prepFirst", "prep", "write", "read"}
Returned == {"done", "error"}

TypeOK ==
    /\ strmap \in Call \cup {None}
    /\ stream \in [Call -> {"nil", "open", "dead"}]
    /\ ask \in [Call -> Seq(Call)] /\ ans \in [Call -> Seq(Call)]
    /\ invalid \in [Call -> BOOLEAN]
    /\ singleMes \in [Call -> Nat]
    /\ lk \in [Call -> Call \cup {None}]
    /\ pc \in [Call -> {"idle", "first", "failed", "lock"} \cup Holding \cup Returned]
    /\ ms \in [Call -> Call \cup {None}]
    /\ retry \in [Call -> BOOLEAN]
    /\ got \in [Call -> Call \cup {None}]
    /\ served \in [Call -> Nat]

Init ==
    /\ strmap = None
    /\ stream = [c \in Call |-> "nil"]
    /\ ask = [c \in Call |-> <<>>] /\ ans = [c \in Call |-> <<>>]
    /\ invalid = [c \in Call |-> FALSE]
    /\ singleMes = [c \in Call |-> 0]
    /\ lk = [c \in Call |-> None]
    /\ pc = [c \in Call |-> "idle"]
    /\ ms = [c \in Call |-> None]
    /\ retry = [c \in Call |-> FALSE]
    /\ got = [c \in Call |-> None]
    /\ served = [c \in Call |-> 0]

Goto(c, l) == pc' = [pc EXCEPT ![c] = l]

-----------------------------------------------------------------------------
(* The stream of a sender.                                                 *)

(* Reset or Close: nothing more is read from it.                           *)
Drop(m) ==
    /\ stream' = [stream EXCEPT ![m] = "nil"]
    /\ ask' = [ask EXCEPT ![m] = <<>>]
    /\ ans' = [ans EXCEPT ![m] = <<>>]

(* prep goes on with a stream, the old one or a new one...                 *)
Prepared(m) ==
    /\ ~invalid[m]
    /\ stream' = [stream EXCEPT ![m] = IF @ = "nil" THEN "open" ELSE @]
    /\ UNCHANGED <<ask, ans>>

(* ...or fails: the sender is invalid, or NewStream returns an error.      *)
Unprepared(m) == invalid[m] \/ stream[m] = "nil"

-----------------------------------------------------------------------------
(* messageSenderForPeer.                                                   *)

Find(c) ==
    /\ pc[c] = "idle"
    /\ IF strmap = None
          THEN /\ strmap' = c
               /\ ms' = [ms EXCEPT ![c] = c]
               /\ Goto(c, "first")
          ELSE /\ ms' = [ms EXCEPT ![c] = strmap]
               /\ Goto(c, "lock")
               /\ UNCHANGED strmap
    /\ UNCHANGED <<streams, invalid, singleMes, lk, retry, got, served>>

(* The lock of a sender, for prepOrInvalidate and for SendRequest.         *)
Lock(c) ==
    /\ pc[c] \in {"first", "lock"}
    /\ lk[ms[c]] = None
    /\ lk' = [lk EXCEPT ![ms[c]] = c]
    /\ Goto(c, IF pc[c] = "first" THEN "prepFirst" ELSE "prep")
    /\ UNCHANGED <<strmap, streams, invalid, singleMes, ms, retry, got, served>>

Unlock(c) == lk' = [lk EXCEPT ![ms[c]] = None]

(* Variant: prepOrInvalidate does not invalidate.                          *)
PrepFirstOnly(c) ==
    /\ pc[c] = "prepFirst"
    /\ \/ Prepared(ms[c]) /\ Goto(c, "lock")
       \/ Unprepared(ms[c]) /\ Drop(ms[c]) /\ Goto(c, "failed")
    /\ Unlock(c)
    /\ UNCHANGED <<strmap, invalid, singleMes, ms, retry, got, served>>

PrepFirst(c) ==
    /\ pc[c] = "prepFirst"
    /\ \/ /\ Prepared(ms[c])
          /\ Goto(c, "lock")
          /\ UNCHANGED invalid
       \/ /\ Unprepared(ms[c])
          /\ invalid' = [invalid EXCEPT ![ms[c]] = TRUE]
          /\ Drop(ms[c])
          /\ Goto(c, "failed")
    /\ Unlock(c)
    /\ UNCHANGED <<strmap, singleMes, ms, retry, got, served>>

(* The sender is out of the map unless another has taken its place; then   *)
(* the call goes on with that one.                                         *)
Forget(c) ==
    /\ pc[c] = "failed"
    /\ IF strmap \in {None, ms[c]}
          THEN strmap' = None /\ Goto(c, "error") /\ UNCHANGED ms
          ELSE ms' = [ms EXCEPT ![c] = strmap] /\ Goto(c, "lock") /\ UNCHANGED strmap
    /\ UNCHANGED <<streams, invalid, singleMes, lk, retry, got, served>>

-----------------------------------------------------------------------------
(* peerMessageSender.SendRequest, under the lock.                          *)

Prep(c) ==
    /\ pc[c] = "prep"
    /\ \/ Prepared(ms[c]) /\ Goto(c, "write") /\ UNCHANGED lk
       \/ Unprepared(ms[c]) /\ Goto(c, "error") /\ Unlock(c) /\ UNCHANGED streams
    /\ UNCHANGED <<strmap, invalid, singleMes, ms, retry, got, served>>

(* Variant: the stream is kept.                                            *)
FailKeeps(c) ==
    /\ UNCHANGED streams
    /\ IF retry[c]
          THEN Goto(c, "error") /\ Unlock(c) /\ UNCHANGED retry
          ELSE Goto(c, "prep") /\ retry' = [retry EXCEPT ![c] = TRUE] /\ UNCHANGED lk
    /\ UNCHANGED <<strmap, invalid, singleMes, ms, got, served>>

(* Variant: it is tried again and again.                                   *)
FailAgain(c) ==
    /\ Drop(ms[c])
    /\ Goto(c, "prep")
    /\ retry' = [retry EXCEPT ![c] = TRUE]
    /\ UNCHANGED <<strmap, invalid, singleMes, lk, ms, got, served>>

(* A write or a read that fails resets the stream; it is tried once more.  *)
Fail(c) ==
    /\ Drop(ms[c])
    /\ IF retry[c]
          THEN Goto(c, "error") /\ Unlock(c) /\ UNCHANGED retry
          ELSE Goto(c, "prep") /\ retry' = [retry EXCEPT ![c] = TRUE] /\ UNCHANGED lk
    /\ UNCHANGED <<strmap, invalid, singleMes, ms, got, served>>

(* What is written to a stream the peer has closed may go unheard.         *)
Write(c) ==
    /\ pc[c] = "write"
    /\ ask' = IF stream[ms[c]] = "open"
                 THEN [ask EXCEPT ![ms[c]] = Append(@, c)]
                 ELSE ask
    /\ Goto(c, "read")
    /\ UNCHANGED <<strmap, stream, ans, invalid, singleMes, lk, ms, retry, got, served>>

WriteError(c) ==
    /\ pc[c] = "write"
    /\ stream[ms[c]] = "dead"
    /\ Fail(c)

(* A sender that had to retry too often closes its stream after each call. *)
Read(c) ==
    LET m == ms[c] IN
    /\ pc[c] = "read"
    /\ ans[m] # <<>>
    /\ got' = [got EXCEPT ![c] = Head(ans[m])]
    /\ IF singleMes[m] > StreamReuseTries
          THEN Drop(m) /\ UNCHANGED singleMes
          ELSE /\ ans' = [ans EXCEPT ![m] = Tail(@)]
               /\ singleMes' = [singleMes EXCEPT ![m] = IF retry[c] THEN @ + 1 ELSE @]
               /\ UNCHANGED <<stream, ask>>
    /\ Goto(c, "done") /\ Unlock(c)
    /\ UNCHANGED <<strmap, invalid, ms, retry, served>>

(* The timer of ctxReadMsg, an answer that cannot be read, or the end of   *)
(* the stream.                                                             *)
ReadError(c) ==
    /\ pc[c] = "read"
    /\ Fail(c)

-----------------------------------------------------------------------------
(* The peer.                                                               *)

Serve(m) ==
    /\ stream[m] = "open"
    /\ ask[m] # <<>>
    /\ served' = [served EXCEPT ![Head(ask[m])] = @ + 1]
    /\ ans' = [ans EXCEPT ![m] = Append(@, Head(ask[m]))]
    /\ ask' = [ask EXCEPT ![m] = Tail(@)]
    /\ UNCHANGED <<strmap, stream, invalid, singleMes, lk, pc, ms, retry, got>>

(* It closes the stream, and its last answer can be read yet, or resets it.*)
End(m) ==
    /\ stream[m] = "open"
    /\ stream' = [stream EXCEPT ![m] = "dead"]
    /\ ask' = [ask EXCEPT ![m] = <<>>]
    /\ ans' \in {ans, [ans EXCEPT ![m] = <<>>]}
    /\ UNCHANGED <<strmap, invalid, singleMes, lk, pc, ms, retry, got, served>>

-----------------------------------------------------------------------------
SendRequest(c) ==
    Prep(c) \/ Write(c) \/ WriteError(c) \/ Read(c) \/ ReadError(c)

Next ==
    \/ \E c \in Call : Find(c) \/ Lock(c) \/ PrepFirst(c) \/ Forget(c) \/ SendRequest(c)
    \/ \E m \in Call : Serve(m) \/ End(m)

Spec == Init /\ [][Next]_vars

(* NewStream returns, and the timer of a read fires; the lock is a channel,*)
(* which serves its senders in turn.  The peer owes nothing.               *)
FairSpec ==
    /\ Spec
    /\ \A c \in Call :
          /\ SF_vars(Lock(c))
          /\ WF_vars(PrepFirst(c) \/ Forget(c) \/ SendRequest(c))

-----------------------------------------------------------------------------
(* What the sender guarantees.                                             *)

(* Calls share one stream, and an answer says nothing of its request: a    *)
(* call that gave up an answer must not leave it to the next call.         *)
AnswersAreOwn == \A c \in Call : pc[c] = "done" => got[c] = c

(* The peer handles a request once, and a second time only when the first  *)
(* answer could not be read.                                               *)
ServedOnce == \A c \in Call : served[c] <= IF retry[c] THEN 2 ELSE 1

(* A sender that is no longer in strmap has no stream, even when other     *)
(* calls found it before: no stream is left open that nobody will use, and *)
(* there is one stream to the peer at most.                                *)
StreamsAreKept == \A m \in Call : stream[m] # "nil" => strmap = m

(* A sender that failed to open is on its way out of strmap, so the calls  *)
(* that come after its removal try the peer again.                         *)
InvalidIsLeaving ==
    \A m \in Call : strmap = m /\ invalid[m] => pc[m] = "failed"
=============================================================================
