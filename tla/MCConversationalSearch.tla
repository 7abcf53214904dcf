------------------------ MODULE MCConversationalSearch ------------------------
(***************************************************************************)
(* Model-checking ConversationalSearch.                                     *)
(***************************************************************************)
EXTENDS ConversationalSearch
=============================================================================
