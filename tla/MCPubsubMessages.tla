-------------------------- MODULE MCPubsubMessages --------------------------
(* PubsubMessages with a msg client and a channel client of one user, which  *)
(* subscribe to the user's key and to another one, of a channel or of a user *)
(* who is away, at a service with room for one.                              *)
EXTENDS PubsubMessages, TLC
CONSTANTS c1, c2, k1, k2
MCOwn == (c1 :> k1) @@ (c2 :> k1)
MCWants == (c1 :> {k1, k2}) @@ (c2 :> {k2})
=============================================================================
