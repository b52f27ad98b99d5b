----------------------------- MODULE MCScraper ------------------------------
(* The instance of MCExporter, with a scraper.                             *)
EXTENDS Scraper

MCEvents   == 1..3
MCSeriesOf == <<"input_tokens", "input_tokens", "output_tokens">>
MCTs       == <<1, 2, 2>>
=============================================================================
