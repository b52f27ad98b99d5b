---------------------------- MODULE MCTranscripts ---------------------------
(* Two transcripts of three lines and one, one response each. *)
EXTENDS Transcripts

MCRequests == {"req1", "req2"}
MCTitles   == {"draft", "final"}
MCFileOf   == [r \in MCRequests |-> IF r = "req1" THEN 1 ELSE 2]
MCMaxLines == [f \in 1..2 |-> IF f = 1 THEN 3 ELSE 1]
=============================================================================
