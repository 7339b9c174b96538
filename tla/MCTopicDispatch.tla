-------------------------- MODULE MCTopicDispatch --------------------------
(* TopicDispatch on one key: keys share no state.                            *)
EXTENDS TopicDispatch
============================================================================
