--------------------------- MODULE MCChatSession ----------------------------
(* Instances of ChatSession for TLC.                                        *)
EXTENDS ChatSession

CONSTANTS w1, w2
MCWorkers == {w1, w2}
=============================================================================
