---------------------------- MODULE MCChatStream ----------------------------
(* Both endpoints, three retries of a Responses request, one loading answer. *)
EXTENDS ChatStream

MCModes     == {"chat", "responses"}
=============================================================================
