------------------------------- MODULE Export -------------------------------
(***************************************************************************)
(* export-vm: a third kind of process on the samples log.  It reads the    *)
(* whole log while serve and tracked calls append to it, and posts every   *)
(* sample with its timestamp to VictoriaMetrics, which answers queries by  *)
(* timestamp, not in the order of the log.                                 *)
(*                                                                         *)
(* VictoriaMetrics is external: a set of samples, in which one that comes  *)
(* again changes nothing.  A post that fails may have been carried out for *)
(* any part of the series; the command ends, and may be run again.         *)
(***************************************************************************)
EXTENDS TrackedCalls, Functions

VARIABLES
    vm,         \* the samples VictoriaMetrics holds
    exported    \* the calls that were recorded when a successful export read

export == <<vm, exported>>

\* Mutant of Sample: the timestamp of the newest call, as a scrape would have it.
SampleNow(r) == [series |-> r.series, total |-> r.total,
                 ts |-> Cardinality({c \in Calls : started[c] > 0})]

Sample(r) == [series |-> r.series, ts |-> r.ts, total |-> r.total]

\* Mutant of AllSamples: the first line that does not decode ends the reading.
UntilUnreadable ==
    {Sample(log[i]) : i \in {j \in 1..Len(log) : \A k \in 1..j : log[k].ok}}

\* AllSamples: the file as it is now, without the lines that do not decode.
AllSamples == {Sample(r) : r \in {s \in Range(log) : s.ok}}

ExportInit ==
    /\ Init
    /\ vm = {} /\ exported = {}

\* WriteLines: a line for each series, with its whole history.
WriteLines(samples) ==
    [s \in {x.series : x \in samples} |-> {x \in samples : x.series = s}]

\* Import: VictoriaMetrics has taken every line, or it cannot be reached or
\* reports an error, and has taken any of the lines or none.
Import(lines) ==
    \E taken \in SUBSET DOMAIN lines :
        /\ vm' = vm \cup UNION {lines[s] : s \in taken}
        /\ \/ /\ taken = DOMAIN lines
              /\ exported' = exported \cup {c \in Calls : pc[c] = "recorded"}
           \/ UNCHANGED exported

\* runExportVM.  The log is only appended to, so that what was read does not
\* depend on what others write before the post is answered: one step.
RunExportVM ==
    /\ Import(WriteLines(AllSamples))
    /\ UNCHANGED vars

ExportNext == (Next /\ UNCHANGED export) \/ RunExportVM

ExportSpec == ExportInit /\ [][ExportNext]_<<vars, export>>

-----------------------------------------------------------------------------
\* What the calls of a label had used by the time a call began, its own usage
\* included.
UsedBy(c) ==
    Cardinality({d \in Recorded(Stored[Label[c]]) :
                    started[d] =< started[c] /\ tokens[d] = 1})

\* The history in VictoriaMetrics is true: at the timestamp of a call, a series
\* has the usage of the calls that had begun by then, whatever was read between
\* two writes of other processes, sent twice or taken in part.  This needs
\* calls that come one after the other: of two that overlap, the one that began
\* first may be recorded last, and its higher total gets the earlier timestamp.
HistoryIsTrue ==
    ~clash /\ ~overlap =>
        \A x \in vm, c \in Calls :
            x.series[1] = Stored[Label[c]] /\ x.ts = started[c]
            => x.total = UsedBy(c)

\* The samples of a call in one of its series, among these.
Of(c, type, samples) ==
    {x \in samples : x.series = <<Stored[Label[c]], type>> /\ x.ts = started[c]}

\* Nothing is missing from it: after a successful export each call that was in
\* the log when it was read is in VictoriaMetrics, in every series, although
\* lines around it may be torn and earlier exports may have failed halfway.
\* Only what another process had made unreadable is not.
HistoryIsComplete ==
    \A c \in exported : \A type \in {"input", "output"} :
        \/ Of(c, type, vm) # {}
        \/ clash /\ Of(c, type, {r \in Range(log) : r.ok}) = {}
=============================================================================
