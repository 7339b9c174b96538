--------------------------- MODULE MCDmsgService ---------------------------
(* The calls of one application, and the requests of one client.             *)
EXTENDS CustomProtocol

(* The node hears the messages of its user: the default of tvnode.           *)
Listens == TRUE
=============================================================================
