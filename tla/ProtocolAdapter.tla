-------------------------- MODULE ProtocolAdapter --------------------------
(* What becomes of the outcome of a callback (dmsg/protocol): the callback   *)
(* of a service returns data, a code, whether to abort, and an error; the    *)
(* adapter of the message type makes an answer of it, and the protocol sends *)
(* that, an error answer, or nothing. The adapters differ in the data they   *)
(* can put into an answer. Encoding and signatures are taken to work.        *)
EXTENDS Integers

SuccCode == 0
ErrCode == -1
AlreadyExistCode == 1
NoExistCode == 2

(* The data a callback returns: nil, []byte or *ReadMailRequestParam.        *)
Data == {"nil", "bytes", "page"}

Done == [data |-> "nil", code |-> SuccCode, abort |-> FALSE, err |-> FALSE]
Coded(code) == [Done EXCEPT !.code = code]
Returned(data) == [Done EXCEPT !.data = data]
Failed == [Done EXCEPT !.err = TRUE]
Aborted == [Done EXCEPT !.abort = TRUE]

(* No answer is sent.                                                        *)
Silent == 100

-----------------------------------------------------------------------------
(* An adapter's InitResponse: the data it can cast, and the data with which  *)
(* it returns a response, cast or not.                                       *)

CreateMailboxAdapter == [casts |-> Data, fills |-> Data]
ReleaseMailboxAdapter == [casts |-> Data, fills |-> Data]
SeekMailboxAdapter == [casts |-> Data, fills |-> Data]
ReadMailboxAdapter == [casts |-> {"page"}, fills |-> Data]
CreateMsgPubsubAdapter == [casts |-> Data, fills |-> Data]
CreateChannelAdapter == [casts |-> Data, fills |-> Data]
CustomStreamAdapter == [casts |-> {"bytes"}, fills |-> Data]
PubsubMsgAdapter == [casts |-> {"nil", "bytes"}, fills |-> {"nil", "bytes"}]

(* GetRetCode gets the two values of the callback as one argument, a slice,  *)
(* and looks for a second one: every answer InitResponse makes has the code  *)
(* NewSuccRetCode gives it, whatever the callback's was.                     *)
GetRetCode(o) == SuccCode

(* Variant: an error is not told from another outcome.                       *)
AnswerToAny(a, o) == IF o.abort THEN Silent ELSE GetRetCode(o)

(* HandleRequestData of a stream or pubsub protocol: an abort is silent, an  *)
(* error of the callback or of InitResponse is answered with ErrCode if an   *)
(* answer can be made without data (GetErrResponse, SetRetCode).             *)
AnswerTo(a, o) ==
  IF o.abort THEN Silent
  ELSE IF ~o.err /\ o.data \in a.casts THEN GetRetCode(o)
  ELSE IF "nil" \in a.fills THEN ErrCode
  ELSE Silent
=============================================================================
