------------------------------- MODULE Scraper ------------------------------
(***************************************************************************)
(* The exporter with a reader of its /metrics endpoint.  MetricsHandler    *)
(* runs in a goroutine of its own, beside the ingest loop, for as long as  *)
(* serve does; the reader (VictoriaMetrics, rate()) outlives every restart *)
(* and remembers what it read.                                             *)
(***************************************************************************)
EXTENDS Exporter

VARIABLE seen   \* the value of each series at the last scrape

\* Mutant of Scrape: the accumulator's totals are served, as they are.
ScrapeAccumulator ==
    /\ mode = "serve"
    /\ seen' = acc
    /\ UNCHANGED vars

\* /metrics: Snapshot copies the index under the mutex that AppendBatch
\* holds from its first line to its fsync.
Scrape ==
    /\ mode = "serve" /\ pc # "append"
    /\ seen' = last
    /\ UNCHANGED vars

ScraperInit == Init /\ seen = Zero

ScraperNext == (Next /\ UNCHANGED seen) \/ Scrape

ScraperSpec == ScraperInit /\ [][ScraperNext]_<<vars, seen>>

\* The exporter is as fair as ever; nobody has to scrape it.
ScraperLiveSpec == ScraperSpec /\ Fairness

\* A scraper of /metrics never sees a counter go down, in one process or
\* across any restarts: a drop would be read by rate() as a counter reset.
ScrapesNeverDrop ==
    [][\A e \in Events : seen'[e] >= seen[e]]_<<vars, seen>>

\* What was scraped is never more than the log can give back, unless a batch
\* is being written: nothing is shown before it is stored.
ScrapedIsStored == \A e \in Events : seen[e] =< counted[e]
=============================================================================
