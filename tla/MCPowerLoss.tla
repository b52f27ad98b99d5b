---------------------------- MODULE MCPowerLoss -----------------------------
(* Two events of one series and one of another, on a machine without UPS.  *)
EXTENDS PowerLoss

MCEvents   == 1..3
MCSeriesOf == <<"input_tokens", "input_tokens", "output_tokens">>
MCTs       == <<1, 2, 2>>
=============================================================================
