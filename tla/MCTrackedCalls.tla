--------------------------- MODULE MCTrackedCalls ---------------------------
(* Two calls whose label is cut inside a character, beside serve.          *)
EXTENDS TrackedCalls, TLC

MCCalls  == 1..2
MCLabel  == <<"cut label", "cut label">>
MCStored == "cut label" :> "replaced" @@ "transcripts" :> "transcripts"
=============================================================================
