----------------------------- MODULE MCDelegate -----------------------------
(* Two delegates, two buckets of the Gemini group around one of the other. *)
EXTENDS Delegate

MCBucketOf == <<"gemini", "other", "gemini">>
=============================================================================
