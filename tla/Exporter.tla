------------------------------ MODULE Exporter ------------------------------
(***************************************************************************)
(* The pipeline of aitokens-exporter: transcripts are read behind a        *)
(* checkpoint, their usage deltas become running totals in the             *)
(* accumulator, the totals are appended to samples.log, and then the       *)
(* checkpoint is saved.  One process at a time runs it, either the         *)
(* one-shot `backfill` or the long-running `serve`; it may fail or die at  *)
(* any step and be started again.                                          *)
(*                                                                         *)
(* Data abstraction.  An event is one usage delta that a transcript holds: *)
(* it belongs to one counter series and carries its own timestamp.  The    *)
(* value of a counter is the number of times each event's delta has been   *)
(* added to it, a function in [Events -> Nat], so that a property of these *)
(* counts is a property of the totals for every choice of the deltas.  A   *)
(* checkpoint (file cursors, read sessions) is the set of events that lie  *)
(* behind it.  Gauges carry no running total and are left out.             *)
(***************************************************************************)
EXTENDS Naturals, Sequences, FiniteSets

CONSTANTS
    Events,     \* the usage deltas the transcripts will ever hold
    SeriesOf,   \* the counter series of each event (metric and labels)
    Ts,         \* the timestamp each event carries
    Faults,     \* what the environment may do to the exporter
    MaxFaults   \* how many times it may do so (bounds the model)

FaultKinds == {"crash", "tear", "write_error", "fsync_error",
               "save_error", "collect_error", "force"}

ASSUME EventsAssumption == IsFiniteSet(Events)
ASSUME TsAssumption == Ts \in [Events -> Nat]
ASSUME FaultsAssumption == Faults \subseteq FaultKinds /\ MaxFaults \in Nat

VARIABLES
    written,    \* events present in the transcripts on disk
    log,        \* lines of samples.log
    open,       \* the last line of samples.log has no newline yet
    cpDisk,     \* ingest_state.json: events behind its cursors
    backfilled, \* ingest_state.json: BackfillCompletedAt is set
    mode,       \* the subcommand that is running, or "down"
    pc,         \* where runCycle (or runBackfill) is
    acc,        \* metrics.Accumulator.totals
    last,       \* tsdbstore.Store.last
    cp,         \* the checkpoint.State held in memory
    samples,    \* the batch handed to AppendBatch
    flushed,    \* how many of its lines have reached the file
    sticky,     \* bufio.Writer keeps the first write error for good
    faults      \* how many faults have happened

disk   == <<log, open, cpDisk, backfilled>>
memory == <<mode, pc, acc, last, cp, samples, flushed, sticky>>
vars   == <<written, disk, memory, faults>>

-----------------------------------------------------------------------------
(* Counters, log lines and the replay of a log.                            *)

Counts == [Events -> Nat]
Zero   == [e \in Events |-> 0]
Line   == [ok : BOOLEAN, event : Events, counts : Counts]

SameSeries(d, e) == SeriesOf[d] = SeriesOf[e]

\* The last readable line of a series, as a set: empty when it has none.
Latest(lines, e) ==
    {i \in 1..Len(lines) :
        /\ lines[i].ok /\ SameSeries(lines[i].event, e)
        /\ \A j \in (i + 1)..Len(lines) :
              ~(lines[j].ok /\ SameSeries(lines[j].event, e))}

\* The last-value index after reading lines on top of an index.
Index(base, lines) ==
    [e \in Events |->
        IF Latest(lines, e) = {} THEN base[e]
        ELSE lines[CHOOSE i \in Latest(lines, e) : TRUE].counts[e]]

\* replay: what Open rebuilds; unreadable lines are skipped.
Replay(lines) == Index(Zero, lines)

\* Mutant of Sorted: the batch stays in the order the readers met it.
Unsorted(S) ==
    {q \in [1..Cardinality(S) -> S] : \A e \in S : \E i \in DOMAIN q : q[i] = e}

\* The batches a set of events can be sorted into: by timestamp, ties in any
\* order (the order in which the readers met them).
Sorted(S) ==
    {q \in [1..Cardinality(S) -> S] :
        /\ \A e \in S : \E i \in DOMAIN q : q[i] = e
        /\ \A i, j \in DOMAIN q : i < j => q[i] # q[j] /\ Ts[q[i]] =< Ts[q[j]]}

\* Apply, once per raw sample of the batch: the totals it leaves behind ...
Totals(a, q) ==
    [e \in Events |-> IF \E i \in DOMAIN q : q[i] = e THEN a[e] + 1 ELSE a[e]]

\* ... and the sample it returns for each, the running total so far.
ApplyAll(a, q) ==
    [i \in DOMAIN q |->
        [ok |-> TRUE,
         event |-> q[i],
         counts |-> [e \in Events |->
            IF SameSeries(e, q[i])
            THEN IF \E j \in 1..i : q[j] = e THEN a[e] + 1 ELSE a[e]
            ELSE 0]]]

\* The events of the batch in hand.
Batch == {samples[i].event : i \in 1..Len(samples)}

\* An unterminated last line that more bytes were appended to.
Spoil(lines) == [lines EXCEPT ![Len(lines)].ok = FALSE]

-----------------------------------------------------------------------------
Init ==
    /\ written = {}
    /\ log = <<>> /\ open = FALSE /\ cpDisk = {} /\ backfilled = FALSE
    /\ mode = "down" /\ pc = "wait" /\ acc = Zero /\ last = Zero /\ cp = {}
    /\ samples = <<>> /\ flushed = 0 /\ sticky = FALSE
    /\ faults = 0

\* The process is gone, and with it everything it held in memory.
Exit ==
    /\ mode' = "down" /\ pc' = "wait" /\ acc' = Zero /\ last' = Zero
    /\ cp' = {} /\ samples' = <<>> /\ flushed' = 0 /\ sticky' = FALSE

Fault(kind) ==
    /\ kind \in Faults
    /\ faults < MaxFaults
    /\ faults' = faults + 1

\* Mutant of Abandon: the position in the batch survives the failure.
AbandonKeepsPosition ==
    IF mode = "backfill" THEN Exit
    ELSE pc' = "wait" /\ samples' = <<>> /\ UNCHANGED <<mode, acc, cp, flushed>>

\* A failed step: must() ends a backfill, runCycle logs and returns; the
\* accumulator keeps whatever ApplyAll has added to it.
Abandon ==
    IF mode = "backfill" THEN Exit
    ELSE /\ pc' = "wait" /\ samples' = <<>> /\ flushed' = 0
         /\ UNCHANGED <<mode, acc, cp>>

(***************************************************************************)
(* The environment: Claude Code or Copilot writes an event, in any order   *)
(* of timestamps (a transcript may be discovered late).                    *)
(***************************************************************************)
WriteTranscript(e) ==
    /\ e \notin written
    /\ written' = written \cup {e}
    /\ UNCHANGED <<disk, memory, faults>>

\* Mutants of RunServe: the accumulator is not seeded; the index is not rebuilt.
RunServeUnseeded ==
    /\ mode = "down" /\ backfilled
    /\ mode' = "serve" /\ pc' = "collect"
    /\ last' = Replay(log) /\ acc' = Zero /\ cp' = cpDisk
    /\ UNCHANGED <<written, disk, samples, flushed, sticky, faults>>

RunServeUnreplayed ==
    /\ mode = "down" /\ backfilled
    /\ mode' = "serve" /\ pc' = "collect"
    /\ last' = Zero /\ acc' = Replay(log) /\ cp' = cpDisk
    /\ UNCHANGED <<written, disk, samples, flushed, sticky, faults>>

\* runServe: Open replays the log, the checkpoint is loaded, and the
\* accumulator is seeded from the store; refuses without a backfill.
RunServe ==
    /\ mode = "down" /\ backfilled
    /\ mode' = "serve" /\ pc' = "collect"
    /\ last' = Replay(log) /\ acc' = Replay(log) /\ cp' = cpDisk
    /\ UNCHANGED <<written, disk, samples, flushed, sticky, faults>>

\* Mutant of StartBackfill: the accumulator is seeded as in runServe.
StartBackfillSeeded ==
    /\ mode = "down"
    /\ mode' = "backfill" /\ pc' = "collect"
    /\ last' = Replay(log) /\ acc' = Replay(log) /\ cp' = {}
    /\ UNCHANGED <<written, disk, samples, flushed, sticky>>

\* runBackfill up to the collection: the accumulator starts from nothing and
\* so do the cursors, whatever the store and the checkpoint hold.
StartBackfill ==
    /\ mode = "down"
    /\ mode' = "backfill" /\ pc' = "collect"
    /\ last' = Replay(log) /\ acc' = Zero /\ cp' = {}
    /\ UNCHANGED <<written, disk, samples, flushed, sticky>>

RunBackfill   == ~backfilled /\ StartBackfill /\ UNCHANGED faults
ForceBackfill == backfilled /\ StartBackfill /\ Fault("force")

\* The subcommand: over a completed backfill it needs --force.
Backfill == IF backfilled THEN ForceBackfill ELSE RunBackfill

\* Mutant of Tick: the loop gives up after the first failure.
TickUntilFailure ==
    /\ mode = "serve" /\ pc = "wait" /\ faults = 0
    /\ pc' = "collect"
    /\ UNCHANGED <<written, disk, mode, acc, last, cp, samples, flushed,
                   sticky, faults>>

\* The ticker fires; the first cycle of a process does not wait for it.
Tick ==
    /\ mode = "serve" /\ pc = "wait"
    /\ pc' = "collect"
    /\ UNCHANGED <<written, disk, mode, acc, last, cp, samples, flushed,
                   sticky, faults>>

\* Mutant of Collect: the checkpoint is saved before the batch is appended.
CollectSavesFirst ==
    /\ mode # "down" /\ pc = "collect"
    /\ \E q \in Sorted(written \ cp) :
          /\ samples' = ApplyAll(acc, q)
          /\ acc' = Totals(acc, q)
    /\ pc' = "append"
    /\ cpDisk' = written
    /\ UNCHANGED <<written, log, open, backfilled, mode, last, cp, flushed,
                   sticky, faults>>

\* collectRawSamples, sortByTimestamp and ApplyAll: the whole delta since the
\* checkpoint; the totals are raised before anything is stored.  Once the
\* writer holds an error no total of this process is stored or served again,
\* and the totals are no longer followed (they would grow in every cycle).
Collect ==
    /\ mode # "down" /\ pc = "collect"
    /\ \E q \in Sorted(written \ cp) :
          /\ samples' = ApplyAll(acc, q)
          /\ acc' = IF sticky THEN acc ELSE Totals(acc, q)
    /\ pc' = "append"
    /\ UNCHANGED <<written, disk, mode, last, cp, flushed, sticky, faults>>

\* A reader or the quota poll fails: the cycle has changed nothing.
CollectFails ==
    /\ mode # "down" /\ pc = "collect"
    /\ Fault("collect_error")
    /\ Abandon
    /\ IF mode = "backfill" THEN TRUE ELSE UNCHANGED <<last, sticky>>
    /\ UNCHANGED <<written, disk>>

\* One more line of the batch reaches the file.  O_APPEND puts it right after
\* an unterminated line when there is one: neither can then be read.
AppendLine ==
    /\ pc = "append" /\ ~sticky /\ flushed < Len(samples)
    /\ log' = IF open THEN Spoil(log)
              ELSE Append(log, samples[flushed + 1])
    /\ open' = FALSE
    /\ flushed' = flushed + 1
    /\ UNCHANGED <<written, cpDisk, backfilled, mode, pc, acc, last, cp,
                   samples, sticky, faults>>

\* Mutant of AppendDone: the index is not brought up to date.
AppendDoneKeepsIndex ==
    /\ pc = "append" /\ ~sticky /\ flushed = Len(samples)
    /\ pc' = "save"
    /\ UNCHANGED <<written, disk, mode, acc, last, cp, samples, flushed,
                   sticky, faults>>

\* Flush and fsync succeed: the index holds the batch, AppendBatch returns.
AppendDone ==
    /\ pc = "append" /\ ~sticky /\ flushed = Len(samples)
    /\ last' = Index(last, samples)
    /\ pc' = "save"
    /\ UNCHANGED <<written, disk, mode, acc, cp, samples, flushed, sticky,
                   faults>>

\* What a write that stops halfway leaves of the next line: nothing, a
\* fragment, or all of it but the newline.
StopsHalfway ==
    \/ UNCHANGED <<log, open>>
    \/ /\ "tear" \in Faults
       /\ pc = "append" /\ ~sticky /\ flushed < Len(samples)
       /\ open' = TRUE
       /\ IF open THEN log' = Spoil(log)
          ELSE \E whole \in BOOLEAN :
                  log' = Append(log, [samples[flushed + 1] EXCEPT !.ok = whole])

\* write(2) fails while the buffer drains.  The index already holds every
\* sample that was put in the buffer, and the writer keeps the error.
WriteFails ==
    /\ pc = "append" /\ ~sticky /\ flushed < Len(samples)
    /\ Fault("write_error")
    /\ StopsHalfway
    /\ Abandon
    /\ IF mode = "backfill" THEN TRUE
       ELSE /\ \E n \in flushed..Len(samples) :
                  last' = Index(last, SubSeq(samples, 1, n))
            /\ sticky' = TRUE
    /\ UNCHANGED <<written, cpDisk, backfilled>>

\* Every later AppendBatch of the process fails at once with that error.
AppendRefused ==
    /\ pc = "append" /\ sticky
    /\ Abandon
    /\ UNCHANGED <<written, disk, last, sticky, faults>>

\* The lines are in the file and in the index, but fsync reports an error.
FsyncFails ==
    /\ pc = "append" /\ ~sticky /\ flushed = Len(samples)
    /\ Fault("fsync_error")
    /\ Abandon
    /\ IF mode = "backfill" THEN TRUE
       ELSE last' = Index(last, samples) /\ UNCHANGED sticky
    /\ UNCHANGED <<written, disk>>

\* Mutants of SaveCheckpoint: the next cycle starts from the old checkpoint;
\* the new checkpoint holds only what this cycle has read.
SaveCheckpointKeepsCp ==
    /\ pc = "save"
    /\ cpDisk' = cp \cup Batch
    /\ backfilled' = TRUE
    /\ IF mode = "backfill" THEN Exit
       ELSE /\ pc' = "wait" /\ samples' = <<>> /\ flushed' = 0
            /\ UNCHANGED <<mode, cp, acc, last, sticky>>
    /\ UNCHANGED <<written, log, open, faults>>

SaveCheckpointForgets ==
    /\ pc = "save"
    /\ cpDisk' = Batch
    /\ backfilled' = TRUE
    /\ IF mode = "backfill" THEN Exit
       ELSE /\ cp' = Batch
            /\ pc' = "wait" /\ samples' = <<>> /\ flushed' = 0
            /\ UNCHANGED <<mode, acc, last, sticky>>
    /\ UNCHANGED <<written, log, open, faults>>

\* cp = result.NewCheckpoint; checkpoint.Save.  A backfill marks itself
\* complete in the same file and its process ends.
SaveCheckpoint ==
    /\ pc = "save"
    /\ cpDisk' = cp \cup Batch
    /\ backfilled' = TRUE
    /\ IF mode = "backfill" THEN Exit
       ELSE /\ cp' = cp \cup Batch
            /\ pc' = "wait" /\ samples' = <<>> /\ flushed' = 0
            /\ UNCHANGED <<mode, acc, last, sticky>>
    /\ UNCHANGED <<written, log, open, faults>>

\* Save fails: the file keeps its old contents, the memory has moved on.
SaveFails ==
    /\ pc = "save"
    /\ Fault("save_error")
    /\ IF mode = "backfill" THEN Exit
       ELSE /\ cp' = cp \cup Batch
            /\ pc' = "wait" /\ samples' = <<>> /\ flushed' = 0
            /\ UNCHANGED <<mode, acc, last, sticky>>
    /\ UNCHANGED <<written, disk>>

\* SIGINT or SIGTERM is noticed between two cycles.
Stop ==
    /\ mode = "serve" /\ pc = "wait"
    /\ Exit
    /\ UNCHANGED <<written, disk, faults>>

\* The process dies (kill, log.Fatalf of the HTTP goroutine, out of memory).
Crash ==
    /\ mode # "down"
    /\ Fault("crash")
    /\ StopsHalfway
    /\ Exit
    /\ UNCHANGED <<written, cpDisk, backfilled>>

-----------------------------------------------------------------------------
Cycle == Tick \/ Collect \/ AppendLine \/ AppendDone \/ AppendRefused
         \/ SaveCheckpoint

Next ==
    \/ \E e \in Events : WriteTranscript(e)
    \/ RunServe \/ Backfill
    \/ Cycle
    \/ CollectFails \/ WriteFails \/ FsyncFails \/ SaveFails
    \/ Stop \/ Crash

Spec == Init /\ [][Next]_vars

(***************************************************************************)
(* The first cycle of serve runs at once and the ticker starts each of the *)
(* others; nothing in runCycle waits for anything.  bin/aitokensexporter   *)
(* runs backfill until it has completed and then serve, and systemd        *)
(* restarts it on failure.  No fairness for the transcripts or the faults. *)
(***************************************************************************)
Fairness == WF_vars(Cycle) /\ WF_vars(RunServe \/ RunBackfill)

LiveSpec == Spec /\ Fairness

-----------------------------------------------------------------------------
\* The type invariant.
TypeOK ==
    /\ written \subseteq Events /\ cpDisk \subseteq Events /\ cp \subseteq Events
    /\ log \in Seq(Line) /\ samples \in Seq(Line)
    /\ open \in BOOLEAN /\ backfilled \in BOOLEAN /\ sticky \in BOOLEAN
    /\ mode \in {"down", "serve", "backfill"}
    /\ pc \in {"wait", "collect", "append", "save"}
    /\ acc \in Counts /\ last \in Counts
    /\ flushed \in 0..Len(samples)
    /\ faults \in Nat

counted == Replay(log)

\* No lost usage: an event that lies behind the checkpoint on disk, and will
\* not be read again, is in the total its series has after a replay of the
\* log.  Append comes before save in every path through runCycle and
\* runBackfill, and no failure in between may move the cursor past an event.
CheckpointIsCounted == \A e \in cpDisk : counted[e] >= 1

\* Bounded overcount: each crash, failed append or failed save makes the
\* exporter count an event at most once more, however these combine with
\* restarts, seeding and rebuilt backfills; a run without faults counts each
\* event once.
OvercountIsBounded == \A e \in Events : counted[e] =< 1 + faults

\* After a completed backfill the total of a series, as the next process will
\* replay it, never goes down: what Seed and SeedAccumulator exist for.
TotalsNeverDrop ==
    [][backfilled => \A e \in Events : counted'[e] >= counted[e]]_vars

\* Between two batches the index that serves /metrics is what a replay of the
\* log would rebuild: a restart shows a scraper the values it last saw.
IndexMatchesLog ==
    mode = "serve" /\ pc # "append" => last = counted

\* A backfill that has appended its batch leaves every event it read counted
\* exactly once, whatever crashes, repeats and earlier totals came before it:
\* the fresh accumulator replaces the totals instead of adding to them.  The
\* comment on Backfill says of running it twice that it "would double-count into
\* the same series"; that is not what the code does, as long as an event keeps
\* its series (SeriesOf is constant here: a session may be renamed).
BackfillCountsOnce ==
    mode = "backfill" /\ pc = "save" => \A e \in Batch : counted[e] = 1

\* The readable lines of each series are in timestamp order.
LogInOrder ==
    \A i, j \in 1..Len(log) :
        i < j /\ log[i].ok /\ log[j].ok /\ SameSeries(log[i].event, log[j].event)
        => Ts[log[i].event] =< Ts[log[j].event]

\* The readable lines of each series never go down along the log, which is
\* the order in which export-vm sends them.
LogNeverDrops ==
    \A i, j \in 1..Len(log) :
        i < j /\ log[i].ok /\ log[j].ok /\ SameSeries(log[i].event, log[j].event)
        => \A e \in Events : log[i].counts[e] =< log[j].counts[e]

\* The first, undisturbed backfill writes each series in timestamp order and
\* with growing totals: one sort over all sources, then one pass.
FirstBackfillInOrder ==
    (mode = "backfill" /\ faults = 0) => LogInOrder /\ LogNeverDrops

\* Every event that a transcript holds is eventually behind the checkpoint
\* on disk, and then counted.
EventuallyCounted ==
    \A e \in Events : e \in written ~> e \in cpDisk /\ counted[e] >= 1

\* What the exporter promises, as a specification that it implements: the
\* totals of a replay are the ledger's, the checkpoint confirms.
Ledger == INSTANCE Ledger WITH confirmed <- cpDisk, opened <- backfilled

LedgerSpec == Ledger!Spec
=============================================================================
