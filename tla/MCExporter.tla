----------------------------- MODULE MCExporter -----------------------------
(* Three events, two of them in one series and written in either order.    *)
EXTENDS Exporter

MCEvents   == 1..3
MCSeriesOf == <<"input_tokens", "input_tokens", "output_tokens">>
MCTs       == <<1, 2, 2>>
=============================================================================
