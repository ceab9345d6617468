---------------------------- MODULE MCChatClient ----------------------------
(* Instance of ChatClient for TLC.                                         *)
EXTENDS ChatClient, TLC
=============================================================================
