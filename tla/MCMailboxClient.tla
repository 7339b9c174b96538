-------------------------- MODULE MCMailboxClient --------------------------
(* MailboxClient with two servers, so that a search goes on to a second one. *)
EXTENDS MailboxClient
============================================================================
