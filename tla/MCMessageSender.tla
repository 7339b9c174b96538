--------------------------- MODULE MCMessageSender ---------------------------
(* Instances of MessageSender for TLC.                                     *)
EXTENDS MessageSender
=============================================================================
