------------------------------ MODULE MCExport ------------------------------
(* Two calls under one label, beside serve, and export-vm.                 *)
EXTENDS Export, TLC

MCCalls  == 1..2
MCLabel  == <<"round1", "round1">>
MCStored == "round1" :> "round1" @@ "transcripts" :> "transcripts"
=============================================================================
