# ai-tokens-tracker: a TLA+ model of the exporter

`aitokens-exporter` reads the token usage that Claude Code and Copilot CLI leave
in local transcripts, turns it into Prometheus counters and keeps their history
in an append-only log.  This directory holds TLA+ modules of that pipeline, the
TLC configurations that check them on small instances, and theorems about them
that TLAPS checks for every value of the constants.

    tlc -workers 2 -config Core.cfg MCExporter        # one run
    for m in *Proofs.tla; do tlapm $m; done           # the proofs

All paths below are relative to `exporter/` unless they say otherwise.

## 1. The system

| Part | State it keeps | Operations | Talks to |
|---|---|---|---|
| `cmd/aitokens-exporter` `serve` | the checkpoint in memory, the accumulator, the store | first cycle at once, then one per tick; stops between two cycles | readers, store, checkpoint, HTTP goroutine |
| `cmd/aitokens-exporter` `backfill` | none that survives, except through the checkpoint | one pass over everything, from empty cursors and a fresh accumulator | the same |
| `internal/ingest` | none | `collectRawSamples`, `sortByTimestamp`, `Backfill`, `Incremental` | the two readers and the quota poll, accumulator, store |
| `internal/metrics` | `Accumulator.totals` per series | `SeedByKey`, `Apply`, `ApplyAll`; series identity | store (seeding), ingest |
| `internal/tsdbstore` | `samples.log`; the index `last`; the `bufio.Writer` with its sticky error | `Open`/`replay`, `AppendBatch`, `SeedAccumulator`, `Snapshot`, `AllSamples` | ingest, `/metrics`, `export-vm` |
| `internal/checkpoint` | `ingest_state.json` | `Load`, `Save` (temporary file, rename) | serve, backfill |
| `adapters/claudecode` | none: byte cursors in, byte cursors out | `ReadNewEvents` over every transcript | transcripts that Claude Code appends to meanwhile |
| `adapters/copilot` | none: read-set in, read-set out | `ReadNewEvents` over every session directory | Copilot's `events.jsonl`, `workspace.yaml` |
| `adapters/agycli`, `internal/modelpolicy` | none | `FetchQuota`, `RunAgyTask`, `ChooseModel` | the `agy` binary |
| `adapters/tracker`, `track`, `delegate` | the log, from a process of their own | run a task, `recordTaskCall` | the log that `serve` also writes |
| `internal/httpapi` | none | `/metrics` from `Snapshot`, `/-/healthy` | scrapers |
| `internal/vmimport` | none | groups the log by series and posts it | VictoriaMetrics |
| `bin/aitokensexporter`, `systemd/` | none | backfill unless completed, then serve; restart on failure | |

What is hard here is not any single function.  It is that a cycle moves four
pieces of state one after the other (accumulator, log, index, checkpoint), that
it can fail or die between any two of them, that the next cycle or the next
process starts from a different mixture of old and new, and that other programs
write the transcripts, and scrape the index, at the same time.  `PROJECT.json`
lists these hazards at their lines, each with the properties that watch it.

What makes each part correct:

- *pipeline*: no usage behind the checkpoint is missing from the totals; usage
  is overcounted only by faults and by no more than one per fault; everything
  in a transcript is eventually counted;
- *store*: the totals a restart replays never drop; the index is what a replay
  would give; each series is in order along the log;
- *backfill*: repeating it does not add to what is there;
- *scrapes*: a counter never goes down for a reader that outlives restarts;
- *tracked calls*: processes that share the log never count a token twice, and
  lose one only when they overlap;
- *export*: the history in VictoriaMetrics is the log's, complete after every
  successful export and true at the timestamp of each call;
- *delegate and quota*: a delegate comes to an end, with a record or an error,
  whatever agy does; the gauge and the choice of the model follow the same
  bucket;
- *power failures*: whichever checkpoint comes back, the log holds what it covers;
- *Copilot reader*: a session marked as read is in the log, with all its usage
  unless it was resumed later; each one that shuts down gets there;
- *transcript reader*: no line is read twice and none is passed over, whatever
  Claude Code is writing meanwhile; sessions carry their title.

## 2. The modules

| Module | Models | Composed with |
|---|---|---|
| `Exporter` | serve, backfill, ingest, accumulator, store and checkpoint as one pipeline with faults and restarts | refines `Ledger` |
| `Ledger` | what the exporter promises to a reader of its totals | |
| `Scraper` | `/metrics` and a scraper that remembers | extends `Exporter` |
| `Transcripts` | the Claude Code reader against transcripts being written | refines one step of `Exporter` informally: `EndCycle` is append and save |
| `CopilotSessions` | the Copilot reader against sessions being written, with its read-set in the cycle, in memory and on disk | refines the same step |
| `PowerLoss` | the exporter on a machine that may lose power: what of the log and which checkpoint come back | extends `Exporter` |
| `TrackedCalls` | `track` and `delegate` processes and serve on one log | takes serve's pipeline as one step per write |
| `Export` | `export-vm` on that log, and what VictoriaMetrics then holds | extends `TrackedCalls` |
| `Delegate` | the quota polls of serve and of delegates, the choice of the model, the task and its timeout, against agy | its `Record` is `TrackedCalls`' `OpenStore` and `RecordCall` or `DropCall`, its `CycleFails` one of `Exporter`'s `CollectFails` |
| `ExporterProofs`, `IndexProofs`, `PowerLossProofs`, `TranscriptProofs`, `CopilotProofs`, `TrackedProofs`, `ExportProofs`, `DelegateProofs` | theorems | extend the modules they are about |
| `MCExporter`, `MCScraper`, `MCPowerLoss`, `MCTranscripts`, `MCCopilotSessions`, `MCTrackedCalls`, `MCExport`, `MCDelegate` | constants for TLC | |

### Exporter

An *event* is one usage delta in a transcript.  Nothing in the code depends on
how large a delta is, so the value of a counter is kept as the number of times
each event's delta is in it, a function in `[Events -> Nat]`: a statement about
these counts is a statement about the totals for every choice of deltas.  A
checkpoint is the set of events behind its cursors.  A line of the log carries
its event's series and the running totals of that series; a line that a torn
write spoiled has `ok = FALSE` and is skipped by `Replay`, as `replay` skips
what does not decode.  Gauges carry no state from sample to sample and are left
out.

| Code | Model |
|---|---|
| `ingest_state.json` | `cpDisk`, `backfilled` |
| `samples.log`, its unterminated tail | `log`, `open` |
| `Accumulator.totals`, `Store.last`, `cp`, the batch | `acc`, `last`, `cp`, `samples` |
| lines of the batch already in the file; `bufio.Writer.err` | `flushed`, `sticky` |
| `runServe` (open, load, seed, refuse without a backfill) | `RunServe` |
| `runBackfill` up to the collection, with or without `--force` | `Backfill`: `RunBackfill`, `ForceBackfill` |
| `ticker.C`, the immediate first cycle | `Tick`, `pc = "collect"` after a start |
| `collectRawSamples`, `sortByTimestamp`, `ApplyAll` | `Collect`, `CollectFails` |
| `AppendBatch`, line by line, flush, fsync | `AppendLine`, `AppendDone`, `WriteFails`, `AppendRefused`, `FsyncFails` |
| `cp = result.NewCheckpoint`; `checkpoint.Save` | `SaveCheckpoint`, `SaveFails` |
| `must`, `return` from `runCycle` | `Abandon` |
| SIGTERM between cycles; death at any step | `Stop`, `Crash` |

The order of the code is the order of the model: the accumulator is raised
before the append, the in-memory checkpoint moves before the save, the index
moves before the flush (`WriteFails` leaves any prefix of the batch in it).

Choices worth knowing:

- `Collect` is one step.  The readers run one after the other, but each event is
  read once and a later event of the same cycle is simply in the next batch; the
  interleaving inside one scan is the subject of `Transcripts`.
- The series of an event is a constant (`SeriesOf`).  In the code `session_name` is
  one of its labels (`internal/metrics/series.go`), so that a session renamed
  between two backfills has a second set of series, beside the first.
- One line reaches the file per `AppendLine`.  The real writer drains 4 KiB at a
  time, which is a coarser choice of the same interruption points; `tear` adds
  the points inside a line: a fragment, or all of it but its newline.
- A crash is the death of the process, not of the machine: what `write(2)` has
  accepted survives, fsync or not.  `PowerLoss` adds the machine.
- One exporter process runs at a time, as `internal/tsdbstore/store.go:42-43`
  requires.  `track` and `delegate` break that: `TrackedCalls` is about them.
- Once `sticky` is set no later total of the process reaches the log or the
  index, so `Collect` stops following them: they would grow for ever.
- `Exit` forgets the whole memory; the `defer store.Close()` of a stopping serve
  has nothing left to flush because `Stop` happens between two batches.

### PowerLoss

`AppendBatch` syncs the log before it returns; `Save` writes a temporary file and
renames it, and syncs nothing.  So a power failure leaves of the log what the
last fsync saw and any part of what was written since (`LeavesLog`), and of the
checkpoint any file saved since the last failure, the one before them, or an
empty one, because a rename may reach the disk before the data of the file it
renames (`images`).  An empty checkpoint is one `Load` cannot parse: from then
on neither serve nor backfill starts, until somebody deletes the file
(`DeleteCheckpoint`).  Everything else is `Exporter`, unchanged.  `harmed` says
that a line was torn or a backfill forced, for which `TornTail` shows what is
lost without any power failure.

Totals that a scraper has seen may drop over a power failure, because the index
moves before the fsync; `ScrapesNeverDrop` is not claimed here.

### Ledger

Three variables: totals, confirmed events, and whether the history is complete.
Before it is opened the totals may be rewritten (`Build`); afterwards they only
grow (`Raise`), and only counted events are confirmed (`Confirm`).  The
refinement maps the totals to `Replay(log)`, what the next process will seed
from, `confirmed` to the checkpoint on disk, and `opened` to `backfilled`.

### Scraper

`Scrape` copies the index while no batch is being appended, which is what the
mutex of `Store` allows, and `seen` outlives the exporter's restarts.

### Transcripts

Lines have a fixed width, a content and a newline, and bytes are counted as
`readNewEventsFromFile` counts them: every token one byte more than it has.
Claude Code starts a line, may stop after some of its bytes (`Pieces`), and may
finish it at any later time, also between the visits of two files in one cycle.
A whole content without its newline decodes, a shorter piece does not.  A cycle
visits the files in order (`ReadFile`), and then either keeps events and
offsets together (`EndCycle`) or nothing (`FailCycle`).  What can come between
storing and saving is `Exporter`'s subject.  One session per file is assumed for
the titles, and response lines all carry usage and a valid timestamp.

### CopilotSessions

A session is its directory, the number of its shutdown lines and the number of
its names so far, so that "which shutdown line counts" and "which name it got"
are comparisons of numbers.  A line that is not complete does not decode, and the
next cycle reads the file from its start again, so a line is written in one
step.  The cycle visits the listed directories in order, the title first
(`ReadTitle`), then the transcript (`ReadSession`), and the CLI and its user act
between any two of these.  The read-set exists three times, as in the code:
`newRead` of the cycle, `read` of the loop, `saved` on disk.  `CycleFails` is
everything that ends a cycle without its append (a transcript or line that
cannot be read, the Claude Code reader, the quota poll, the append itself),
`SaveFails` leaves the loop ahead of the disk, and `Restart` goes back to it.  An
append that fails or dies may have left any of its lines in the log, after a
failed fsync all of them (`LeavesLines`); the session then counts as stored and
will be stored again.  `Backfill` reads with an empty read-set instead of `read`:
that pass is `StartBackfill` of `Exporter`.

`ReadTitle` may find no title although the session has one: `parseTitle` ignores a
`workspace.yaml` that it cannot read or decode, for instance while the CLI
rewrites it, and the session is marked and stored all the same, without its name,
for good.  `untitled` remembers the sessions of which that is so in this cycle.

What holds is `StoresNothingStale`: the last shutdown that was there when the
cycle began, and the name if it could be read.  A session that is resumed *after*
it was read is never read again, and its later usage is not counted.
`OnlyResumedIsShort` says that this is the only way to fall short: the log has all
the usage of a session in the loop's read-set exactly if it was not shut down
again since (`resumed`, an observation), whatever failed or died between reading
and storing it.  A name given after the session was read has no effect, although
`adapters/copilot/reader.go:61-64` reads the title on every visit for that case:
only the events of the same cycle are joined with it.

### TrackedCalls

Each call is a process: it reads the clock and starts its task (`StartTask`),
waits for it (`RunTask`), opens the store and seeds an accumulator (`OpenStore`),
appends one batch in one `write(2)` (`RecordCall`), and may fail or die before
that.  Its lines carry the time its task *began* (`started`).  serve starts with a
replay and appends batches of its own series, in one write or in two, parted
anywhere: its batches may exceed the 4 KiB buffer.  Processes are kept apart by
`O_APPEND` only, so a write can land in the middle of another's line; then both
lines are spoiled (`Joined`).  `clash` records that two processes have got into
each other's way: one appended between another's seeding and append in the same
series, or behind half a line.  `overlap` says that two calls of a label were
ever under way at once.

A label is cut after 200 bytes, which may leave half a character.  Memory keys
the series by the label as it is, JSON by what `json.Marshal` makes of it:
`Stored` maps the one to the other, and is the identity for every label that is
valid UTF-8.  It is the only place where the text of a series key matters here.

| Code | Model |
|---|---|
| `RunCopilotTask`, `RunAgyTask` up to the start of the process | `StartTask` |
| the same from there (an ERROR call counts zero tokens) | `RunTask` |
| `recordTaskCall`: `Open`, `SeedAccumulator` | `OpenStore` |
| `recordTaskCall`: `ApplyAll`, `AppendBatch` | `RecordCall`, `DropCall` |
| serve's automatic drain of the buffer, then `Flush` | `FirstWrite`, `SecondWrite` |

### Export

`export-vm` reads the whole file (`AllSamples`, which skips what does not
decode), groups it by series (`WriteLines`) and posts it (`Import`).
VictoriaMetrics is a set of samples: one that comes again changes nothing.  A
post may fail after any of its lines, one per series, were taken, and the command
may be run again, any number of times.  The log is only appended to, so that
reading and posting are one step.

### Delegate

agy keeps a level of quota per bucket and lists the buckets in an order of its
own (`BucketOf`).  `Snapshots` is what `FetchQuota` makes of an answer: one
snapshot per bucket; a field it does not find is zero, groups it does not find
are none, and neither is an error.  Two pieces of code fold the buckets of a
group into one value: `ChooseModel` keeps the last, and the index keeps the last
of equal series (`Gauges`).  agy may hang, on an exhausted quota for ever; only
the 30 s of a poll and the timeout of a task end such a call, and not even they
while a child that agy left behind holds its standard output open (`held`):
`execCommandRunner` kills the process it started, and `Output` goes on waiting for
the end of the output, because neither `WaitDelay` nor a process group is used.

| Code | Model |
|---|---|
| `FetchQuota` | `Snapshots`, `CyclePolled` / `Polled`, `CycleFails` / `PollFails` |
| `ChooseModel`; `UsageSnapshotSample` into the index | `ChooseModel`; `Gauges` |
| `RunAgyTask`: an answer, an error or the timeout | `TaskAnswers`, `TaskFails` |
| `must(recordTaskCall(...))`: a record, or the end without one | `Record` |
| the command is killed; agy's children | `Kill`; `LeaveChild`, `ChildEnds` |

## 3. What the runs check

Bounds: three events, two of which share a series and have different timestamps
while the third shares a timestamp with one of them.  That is the smallest
instance with an order within a series, a tie, and an independent series.  Two
faults suffice for "a fault, and another while recovering from it"; `Core` takes
three.  Restarts, stops and cycles are not bounded at all.  In `Copilot` two
sessions give an order of visits, two shutdowns a resumed session, and two upsets
a second one while the read-sets differ.  In `Tracked` two calls of one label can
overtake each other and tear serve's lines, and a second batch is what puts
right what the first one lost; two labels are two copies of this, and exports are
not bounded.  In `Delegate` the Gemini group has a bucket
before and one behind the other group's, which is the smallest order in which
"first", "last" and "lowest" differ; levels are empty, low and full.  `Upsets`
takes two faults of any kind: a power failure and what it interrupts or is
followed by.

| Run | Instance | Shows |
|---|---|---|
| `Core` | all faults but torn writes and `--force`, up to 3 | types; `CheckpointIsCounted`; `TotalsNeverDrop`; `FirstBackfillInOrder`; `BackfillCountsOnce`; the pipeline implements `Ledger` |
| `Upsets` | every fault, power failures included, up to 2 | `OvercountIsBounded`: at most one more count per fault; `CheckpointSurvivesPower` |
| `Live` | crashes, failed fsyncs, saves and collections, up to 2; fair; with a scraper | `EventuallyCounted`, `IndexMatchesLog`, `ScrapesNeverDrop`, `ScrapedIsStored` |
| `Reader` | two transcripts of three lines and one, two titles, one failed cycle, lines written whole or without their newline | `NoLineTwice`, `NoLinePassedOver`, `OneEventPerScan`, `EventuallyStored`, `FreshReadIsNamed` |
| `Copilot` | two sessions with up to two shutdowns and a name each, dated or not, names readable or not, up to two upsets; fair | `ReadIsStored`, `StoredOncePerUpset`, `StoresNothingStale`, `OnlyResumedIsShort`, `EventuallyStored` |
| `Tracked` | two calls of one label, serve with up to two batches and any number of restarts and exports | `NeverOvercounted`, `ExactWithoutClash`, `BatchRestoresTotals`, `HistoryIsTrue`, `HistoryIsComplete` |
| `Delegate` | two delegates and serve, three buckets, quota spent and refilled by others, a field renamed, children left behind, stores that fail, commands killed; fair | `GaugeDecides`, `DelegateEnds` |

Failed writes are missing from `Live`, torn lines and `--force` from `Core`, and
short pieces from `Reader`, because the properties do not hold with them:

- after a failed `write(2)` the writer refuses every later batch (`StuckWriter`),
  and the index, updated before the flush, serves totals that the log does not
  hold and that the next process takes back;
- a torn line spoils the record appended behind it (`TornTail`);
- a forced backfill lowers totals that repeated counting had raised, and one
  that dies halfway leaves confirmed events out of them;
- a piece of a line is consumed by the cursor (`TornLine`).

More limits are in the model without a run of their own, some of them against
what the repository says:

- A batch whose append or save failed is counted again by the next cycle, because
  the accumulator was raised before; `cmd/aitokens-exporter/main.go:266-267` calls
  that "a harmless reprocessed batch".  `OvercountIsBounded` is the exact promise
  that remains.
- `internal/ingest/ingest.go:107-109` says of a backfill that "running it twice
  would double-count into the same series".  It would not: the accumulator is
  fresh and a replay keeps the last line of a series, so that the totals are
  replaced and not added to (`BackfillCountsOnce`, which is checked and proved for
  backfills that died and ran again, and proved for forced ones).  What the second
  run does is to let the counters fall along the log.  And a session that was
  renamed in between leaves its old series in the log beside the new one: a sum
  over all series does count it twice then, outside this model.
- A Copilot session whose `workspace.yaml` cannot be read or decoded when the cycle
  comes by is stored without its name and not visited for its usage again;
  reading the title "on every visit" (`adapters/copilot/reader.go:61-64`) does not
  make up for it.
- "A hard timeout on every invocation" (`internal/adapters/agycli/runner.go:31`)
  does not hold while a child of agy keeps the standard output open: a delegate
  waits for it, and serve ingests nothing meanwhile.  `DelegateEnds` excepts it.
- A task is run, paid for and not recorded if `recordTaskCall` fails or the command
  is killed (`cmd/aitokens-exporter/main.go:177`), or if agy's answer does not
  decode.
- A response whose blocks are read by two cycles counts twice, although
  `internal/adapters/claudecode/reader_test.go:11-12` wants a split response to
  count once.  `OneEventPerScan` is what holds.
- What `track` appends is not on the `/metrics` of a running serve before its next
  restart: the index learns only of its own batches.
- A copilot that dies leaves the empty usage file that was made for it; parsing it
  fails and the call is not recorded, which
  `internal/adapters/tracker/copilot.go:117-119` rules out.
- Two calls of a label that overlap may be recorded in the opposite order of
  their timestamps, so that the lines posted for a series are not in order, as
  `internal/vmimport/vmimport.go:34-36` takes for granted.  `HistoryIsTrue` is
  about calls one after the other.
- `ChooseModel` looks at the last Gemini bucket only, and never at the group it
  falls back on.  If agy renames its groups, it sees no snapshot and takes
  Gemini, while the gauge keeps its last value: `GaugeDecides` is stated for
  changes of the other fields.
- An event discovered late is appended behind younger ones of its series, so that
  the log is in timestamp order (`LogInOrder`) only after the first backfill.
- A backfill that died before its save runs again onto its own lines: it counts
  right (`BackfillCountsOnce`), but the counters fall along the log
  (`LogNeverDrops` holds for an undisturbed one only).
- A cycle that starts behind the title line of a Claude Code session stores its
  events without a name, which is why `FreshReadIsNamed` speaks of transcripts
  read in one go.

The runs that are expected to fail check one statement each of the repository's
own documentation or tests against what the code does:

| Run | Statement | What happens |
|---|---|---|
| `StuckWriter` | "treat the whole batch as unconfirmed and retry" (`internal/tsdbstore/store.go:139-140`) | the writer keeps its error; no retry of the process can succeed |
| `TornTail` | a torn line only concerns "the record currently being appended" (`internal/tsdbstore/store.go:83-84`) | the next record is glued to it and lost although confirmed |
| `TornLine` | "+1 for the newline the scanner strips" (`internal/adapters/claudecode/reader.go:177`) | there was no newline; both halves of the line are consumed as malformed |
| `CutLabel` | a tracked call is "seeded from the store's own current state so the running counters aren't reset" (`cmd/aitokens-exporter/main.go:82-84`) | a label cut inside a character is another label in the log: every call of it starts from zero |
| `SilentSchema` | if agy changes the schema of `/usage`, "a coleta falha alto" (`README.md:160-161` of the repository) | a field that is missing decodes as zero and is stored as the remaining quota |

Every property of a passing run has a mutant: a definition changed the way a
plausible bug in that code would change it, which makes TLC find the property
violated.  They are listed in `PROJECT.json` and stand before the definitions
they mutate.

## 4. Fairness

`Exporter!Fairness` has two parts.  `WF(Cycle)`: the first cycle of serve runs at
once, the ticker starts every other one, and no step of a cycle waits for
anything but the operating system (the quota poll has a timeout of 30 s,
`internal/adapters/agycli/runner.go:65`).  `WF(RunServe \/ RunBackfill)`: the
wrapper `bin/aitokensexporter` runs the backfill unless it has completed and then
serve, and `systemd/ai-tokens-exporter.service` restarts it five seconds after a
failure.  A service stopped by hand exits cleanly and is not restarted by that
unit: for it, the fairness says that somebody starts it again, at the latest the
next login (`WantedBy=default.target`); without that nothing can be counted.
Faults and transcripts have no fairness: nothing has to fail and nothing has to
be written.  `Transcripts!Spec` is fair to the reader and not to Claude Code: a
started line may stay unfinished for ever.  `CopilotSessions!Spec` is fair to the
cycle for the same reasons, and `TrackedCalls`, `Export` and `PowerLoss` need no
fairness.

`Delegate!Fairness` is about timeouts only: agy owes no answer, neither to a poll
(30 s, `internal/adapters/agycli/runner.go:65`) nor to a task, and the steps that
are fair are the ones in which a timeout ends the call and the one that records
it or fails to.  The timeouts kill the process that was started and no other, so
these steps wait while a child holds the output, and nothing says that a child
ends: `ChildEnds` is not fair.

## 5. What is proved

For any finite set of events, any series and timestamps, and any number of faults:

| Theorem | States | Assumes |
|---|---|---|
| `ExporterProofs!TypeCorrect` | `Spec => []TypeOK` | nothing |
| `ExporterProofs!NoUsageLost` | `Spec => []CheckpointIsCounted` | no torn write, no `--force` |
| `ExporterProofs!TotalsGrow` | `Spec => TotalsNeverDrop` | the same |
| `ExporterProofs!ImplementsLedger` | `Spec => LedgerSpec` | the same |
| `ExporterProofs!OvercountBounded` | `Spec => []OvercountIsBounded` | nothing |
| `IndexProofs!IndexIsTheLog` | `Spec => []IndexMatchesLog` | no torn write, no failed write |
| `IndexProofs!NothingShownUnstored` | `ScraperSpec => []ScrapedIsStored` | the same, no `--force` |
| `IndexProofs!ScrapesGrow` | `ScraperSpec => ScrapesNeverDrop` | the same, no `--force` |
| `IndexProofs!BackfillIsExact` | `Spec => []BackfillCountsOnce` | no torn write |
| `IndexProofs!FirstBackfillIsSorted` | `Spec => []FirstBackfillInOrder` | nothing |
| `PowerLossProofs!NothingLostWithPower` | `PowerSpec => []CheckpointSurvivesPower` | nothing; the property excuses a log with a torn line or a forced backfill |
| `PowerLossProofs!OvercountBoundedWithPower` | `PowerSpec => []OvercountIsBounded` | nothing |

for any transcripts, requests, titles and widths of a line:

| Theorem | States | Assumes |
|---|---|---|
| `TranscriptProofs!ReaderTypeCorrect` | `Spec => []TypeOK` | nothing |
| `TranscriptProofs!NoLineIsReadTwice` | `Spec => []NoLineTwice` | nothing |
| `TranscriptProofs!AScanCountsOnce` | `Spec => OneEventPerScan` | nothing |
| `TranscriptProofs!NoLineIsPassedOver` | `Spec => []NoLinePassedOver` | a write stops before a newline or nowhere |
| `TranscriptProofs!AFreshReadIsNamed` | `Spec => FreshReadIsNamed` | nothing |

for any set of Copilot sessions and any bounds on what is written and fails:

| Theorem | States | Assumes |
|---|---|---|
| `CopilotProofs!CopilotTypeCorrect` | `Spec => []TypeOK` | nothing |
| `CopilotProofs!MarkedSessionsAreStored` | `Spec => []ReadIsStored` | nothing |
| `CopilotProofs!StoredAgainOnlyByUpset` | `Spec => []StoredOncePerUpset` | nothing |
| `CopilotProofs!NothingStaleIsStored` | `Spec => []StoresNothingStale` | nothing; the property excuses a name that could not be read |
| `CopilotProofs!NothingElseIsShort` | `Spec => []OnlyResumedIsShort` | nothing |

and for any number of tracked calls and of delegates, any labels and any buckets:

| Theorem | States | Assumes |
|---|---|---|
| `TrackedProofs!TrackedTypeCorrect` | `Spec => []TypeOK` | nothing |
| `TrackedProofs!NothingCountedTwice` | `Spec => []NeverOvercounted` | nothing |
| `TrackedProofs!BatchesRestoreTotals` | `Spec => []BatchRestoresTotals` | nothing |
| `TrackedProofs!CallsAreExact` | `Spec => []ExactWithoutClash` | no label is cut inside a character (`Uncut`) |
| `ExportProofs!LinesStay` | `Spec => [][KeepsLines(log, log')]_vars` | nothing |
| `ExportProofs!HistoryNeverLies` | `ExportSpec => []HistoryIsTrue` | `Uncut` |
| `ExportProofs!NothingIsMissing` | `ExportSpec => []HistoryIsComplete` | nothing |
| `DelegateProofs!DelegateTypeCorrect` | `Spec => []TypeOK` | nothing |
| `DelegateProofs!GaugeAgrees` | `Spec => []GaugeDecides` | agy keeps the name of its groups |

The exclusions are needed: `TornTail` shows the first false with torn writes, a
forced backfill may lower a total that repeated counting had raised, `StuckWriter`
and `TornLine` are the next two, and `CutLabel` is why tracked calls are exact
only under `Uncut`: a label of at most 200 bytes, or one whose 200th byte ends a
character, satisfies it.  "Nothing" means the modules' own `ASSUME`s,
which every run evaluates.

*Safety.*  `CheckpointIsCounted` alone is not inductive: the checkpoint moves one
step after the append, and the append was computed from an accumulator two steps
before.  `SafeInv` carries what links them:

- `TypeInv`, types and the shape of the memory between two batches;
- `Lifecycle`, which mode, `pc` and history go together;
- `BatchClimbs`, the totals along a batch only grow within each series, so that
  its last line per series is the one with everything in it;
- `SeededAhead`, the accumulator of a serve process is never behind the log;
- `ConfirmedIsCounted`, what is confirmed on disk or in memory is in the log, and
  what the batch holds is in its lines.

TLC checked it as an invariant of `Core` first.  The log side rests on lemmas
about `Index` and `Replay`: what one more line does to the latest line of each
series, and that replaying a log with a batch behind it is the batch's index over
the replay.  The refinement follows from `SafeInv`
with one case per action: a line of a backfill is `Build`, a line of serve is
`Raise`, a save is `Confirm`, everything else stutters.

*Power.*  `Durable` says that the log begins with what was synced, and that each
checkpoint a failure may bring back is counted in *every* prefix of the log that
may come back with it, not only in the whole of it.  That is where the order of
fsync and `Save` enters: when a save adds an image, no prefix but the whole log
is left (`pc = "save"` implies that all of it is synced).

*Index and scrapes.*  In the middle of a batch the index is ahead of the log and
the log is ahead of the index of the last batch; `IndexInv` says which lines of
the batch make the difference.  `SeenInv` adds what a scraper has seen.

*Backfill.*  `OnceInv`: the batch of a backfill was built from nothing, so that a
line of it which has reached the log counts its events once, whatever lines lie
before it.  `FirstInv`: as long as nothing has failed, the log *is* the part of
the batch written so far.

*Overcount.*  `OvercountInv` bounds every counter there is, in the log, the
index, the accumulator and the batch at hand, by `1 + faults` for an event that
some cursor has passed and by `faults` for one that may still be read.  A step
that lets an event be read again is a fault, and that is where the bound grows.
A power failure (`DiskInv`) brings back a part of the log whose lines carry the
totals they always had, readable or not, and a checkpoint of events that were
written; it may make an event be read again, but it is a fault itself.

*Claude Code transcripts.*  `NoLineTwice` needs the lines an event came from, not
their number: `BehindInv` bounds the events of a response by its lines in front of
the cursor, and `CycleInv` says that what a cycle has found lies between the
cursor and its offset, at most once for each response; so the two sets are
disjoint and their union is bounded again.  `NoLinePassedOver` rests on
`BoundaryInv`, that cursors and offsets stay on the boundaries of lines, which is
what the miscounted newline preserves as long as a write stops nowhere else, and
on `CoverInv`, that what the cycle moves behind the cursor is found.
`FreshReadIsNamed` needs neither: from the beginning of a file a cursor may end a
byte behind the last line, but never behind one that is yet to be written, so that
the titles behind it are those that were scanned (`NameInv`).

*Copilot sessions.*  `ReadIsStored` is not inductive, because a cycle marks a
session long before it stores it.  `MarkedIsFound` says that what a cycle has
marked beyond the loop is exactly what it has found, so that the append stores
it; `StoredIsPaid` that a session outside the loop's read-set still has an
upset to its credit; `FoundIsCurrent` compares what was read with `atStart`.
`OnlyResumedIsShort` is about what is stored, and a cycle reads long before it
stores: `ShortIfResumed` says the same of what it has in hand, and that the
read-set on disk is never ahead of the loop's.  A failed append leaves lines only
of sessions that the loop has not read (`LeavesUnread`), which is why they disturb
neither.
That a cycle has a next session at all rests on the well-foundedness of the
natural numbers (`Smallest`).

*Tracked calls.*  A torn line may become readable again when its second half
arrives, and a call may append totals it read long before.  `CoveredInv`
therefore speaks of every line, readable or not, and of every seeded accumulator:
each is covered by the usage of calls that are already recorded.  Appending raises
the total and the number of recorded calls together.

`BatchRestoresTotals` follows serve through its two writes.  `WriterInv` says that
what is left of a batch carries the accumulator's totals, and that an open last line
is the first record left; `RestoredInv` that every series of serve is either still to
be written or already what a replay gives, unless the batch was split.  Steps of
others keep every line (`KeepsLines`), and theirs belong to other series.
`ExactInv` turns the upper bound of `CoveredInv` into an equality as long as there
is no clash: for what a replay gives, and for what a call that has opened the store
was seeded with.

*Export.*  `KeepsLines` is also why one step for reading and posting is enough: a
line never moves and never changes its record, so that what was posted is still in
the log (`VmInv`).  `ClockInv` tells calls apart by their timestamps and `LineInv`
gives every line its call.  A line is then true at its time (`TrueInv`) because the
call that writes it is the newest of its label and no other is under way
(`AloneInv`), and because its seed was exact (`ExactInv`).  Completeness needs that
the lines of a recorded call can be read without a clash (`ReadableInv`), and that
only a clash makes one unreadable later (`ExportedInv`).

*Delegate.*  `GaugeInv`: the gauge is the last Gemini snapshot of the answer it
came from, or was never written; agy's answer changes only in steps that make it
stale.

*Model-checked only.*  Liveness (`EventuallyCounted`, `EventuallyStored` of both
readers, `DelegateEnds`) needs fairness and `ENABLED`, which the prover does not
handle.  Every invariant and every action property of a passing run is stated by a
theorem; those about `TrackedCalls` hold beside `export-vm` too, because its steps
leave the variables of that module alone (`ExportOnlyReads`).  Facts about data of every size that would need an induction principle over an
operator are out of the prover's reach; none of the theorems needs one, because
`Index` and `ApplyAll` are defined by quantifiers and not by recursion.

## 6. Plan

Done, in this order: `Exporter` with `Ledger`, their theorems, `Scraper`,
`Transcripts`, `TrackedCalls`, `CopilotSessions` and its theorems; `PowerLoss`,
`Export`, `Delegate`, labels and overlap in `TrackedCalls`, and the theorems about
the index, backfills, scrapes, transcripts, tracked calls and delegates; then those
about batches beside tracked calls, exact calls, the exported history, names of
sessions and the overcount on a machine that loses power.  Next:

1. `Collect` of `Exporter` refined into the two readers, so that one
   composition runs from a transcript line to a total, with the refinement proved.
2. A backfill started by hand while serve is running, which nothing prevents: the
   two have a checkpoint and an accumulator each.

Not modelled, and why:

- the text formats, HTTP, dashboards, plugin, skills and installation scripts keep
  no state of their own;
- two label sets whose keys collide because the key is built without escaping
  (`internal/metrics/series.go`) would need texts; a series is a model value;
- `CacheCreationMeasured` and the thinking tokens are further series of the kinds
  that are modelled;
- a tracked `copilot -p` may also leave a session that the Copilot reader finds:
  the two go to series with different `source` labels, and whether a reader adds
  them up is up to the dashboard.
