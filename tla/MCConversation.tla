--------------------------- MODULE MCConversation ---------------------------
(***************************************************************************)
(* A small instance of Conversation: one user, the application as the      *)
(* other speaker, two calls of the context, a paginator of three pages     *)
(* sent by up to two handlers.                                             *)
(***************************************************************************)
EXTENDS Conversation

MCOthers == {Bot}
=============================================================================
