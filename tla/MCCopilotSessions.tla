------------------------- MODULE MCCopilotSessions --------------------------
(* Two sessions.                                                            *)
EXTENDS CopilotSessions

MCSessions == 1..2
=============================================================================
