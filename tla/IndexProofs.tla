---------------------------- MODULE IndexProofs -----------------------------
(* Theorems about the index that serves /metrics, its scrapers, and what a  *)
(* backfill leaves in the log.                                              *)
EXTENDS Scraper, ExporterProofs

-----------------------------------------------------------------------------
(* The index.  A torn line is the only thing that can part it from the log  *)
(* while its writer works: the line after it is lost to a replay.           *)

\* The index of a process whose writer works is a replay of the log; while a
\* batch is appended it lacks the lines that are in the file already.
IndexInv ==
    /\ TypeInv /\ open = FALSE
    /\ \A i \in 1..Len(samples) : samples[i].ok
    /\ mode # "serve" => ~sticky
    /\ "write_error" \notin Faults => ~sticky
    /\ mode # "down" /\ ~sticky =>
          \A e \in Events :
             counted[e] = IF pc = "append" THEN Index(last, SubSeq(samples, 1, flushed))[e]
                          ELSE last[e]

\* Of no lines an index remains what it was.
LEMMA IndexOfNothing ==
    ASSUME NEW base \in Counts, NEW lines, NEW e \in Events
    PROVE  Index(base, SubSeq(lines, 1, 0))[e] = base[e]
<1>1. SubSeq(lines, 1, 0) = <<>> /\ Len(<<>>) = 0
    BY SubSeqEmpty, EmptySeq
<1>2. Latest(SubSeq(lines, 1, 0), e) = {}
    BY <1>1 DEF Latest
<1>3. QED
    BY <1>2 DEF Index

\* What the log holds of each event is a number.
LEMMA CountedType == (TypeInv => counted \in Counts) /\ (TypeInv' => counted' \in Counts)
BY ZeroType, IndexType DEF counted, Replay, TypeInv, TypeOK

\* A process that is not running, or whose batch is over with the log and the
\* index as they were, satisfies it.
LEMMA IndexAtRest ==
    ASSUME IndexInv, TypeInv', UNCHANGED <<log, open, last, sticky>>, samples' = <<>>,
           pc' # "append", pc # "append", mode' = mode
    PROVE  IndexInv'
<1>1. Len(samples') = 0
    BY EmptySeq
<1>2. counted' = counted
    BY DEF counted
<1>3. QED
    BY <1>1, <1>2 DEF IndexInv

\* A process that ends takes its index with it.
LEMMA IndexAtExit ==
    ASSUME IndexInv, TypeInv', Exit, open' = FALSE
    PROVE  IndexInv'
<1>1. samples' = <<>> /\ mode' = "down" /\ sticky' = FALSE
    BY DEF Exit
<1>2. Len(samples') = 0
    BY <1>1, EmptySeq
<1>3. QED
    BY <1>1, <1>2 DEF IndexInv

\* IndexInv over the steps.
LEMMA IndexNext ==
    ASSUME "tear" \notin Faults, IndexInv, [Next]_vars
    PROVE  IndexInv'
<1> USE DEF disk, memory
<1>1. TypeInv /\ TypeInv' /\ open = FALSE
    BY NextType DEF IndexInv
<1>2. /\ samples \in Seq(Line) /\ flushed \in 0..Len(samples) /\ log \in Seq(Line)
      /\ last \in Counts /\ counted \in Counts /\ Len(samples) \in Nat
    BY <1>1, CountedType, LenProperties DEF TypeInv, TypeOK
<1>3. /\ pc \in {"wait", "collect"} => samples = <<>> /\ flushed = 0
      /\ mode = "down" => pc = "wait"
    BY <1>1 DEF TypeInv, BetweenBatches
<1>4. ASSUME NEW e \in Events, WriteTranscript(e) PROVE IndexInv'
    BY <1>1, <1>4 DEF WriteTranscript, IndexInv, counted
<1>5. CASE RunServe \/ StartBackfill
    <2>1. /\ UNCHANGED <<log, open, samples, sticky>> /\ last' = Replay(log)
          /\ pc' = "collect" /\ mode = "down"
        BY <1>5 DEF RunServe, StartBackfill
    <2>2. ~sticky'
        BY <2>1 DEF IndexInv
    <2>3. \A e \in Events : counted'[e] = last'[e]
        BY <2>1 DEF counted
    <2>4. QED
        BY <1>1, <2>1, <2>2, <2>3 DEF IndexInv
<1>6. CASE Tick
    BY <1>1, <1>3, <1>6 DEF Tick, IndexInv, counted
<1>7. CASE Collect
    <2>1. PICK q \in Sorted(written \ cp) : samples' = ApplyAll(acc, q)
        BY <1>7 DEF Collect
    <2>2. written \ cp \in SUBSET Events /\ acc \in Counts
        BY <1>1 DEF TypeInv, TypeOK
    <2>3. \A i \in 1..Len(samples') : samples'[i].ok
        BY <2>1, <2>2, ApplyAllClimbs DEF Climbs
    <2>4. /\ UNCHANGED <<log, open, last, mode, sticky, flushed>> /\ pc' = "append"
          /\ pc = "collect" /\ flushed = 0
        BY <1>3, <1>7 DEF Collect
    <2>5. \A e \in Events : Index(last, SubSeq(samples', 1, 0))[e] = last[e]
        BY <1>2, IndexOfNothing
    <2>6. counted' = counted
        BY <2>4 DEF counted
    <2>7. QED
        BY <1>1, <2>3, <2>4, <2>5, <2>6 DEF IndexInv
<1>8. CASE AppendLine
    <2> DEFINE n == flushed + 1
               line == samples[n]
    <2>1. /\ log' = Append(log, line) /\ flushed' = n /\ open' = FALSE
          /\ UNCHANGED <<samples, last, mode, pc, sticky>> /\ pc = "append" /\ ~sticky
          /\ flushed < Len(samples)
        BY <1>1, <1>8 DEF AppendLine
    <2>2. n \in 1..Len(samples) /\ line \in Line /\ line.ok /\ flushed \in Nat
        <3>1. n \in 1..Len(samples) /\ flushed \in Nat
            BY <1>2, <2>1
        <3>2. QED
            BY <1>2, <3>1, ElementOfSeq DEF IndexInv
    <2>3. /\ SubSeq(samples, 1, flushed) \in Seq(Line)
          /\ SubSeq(samples, 1, n) = Append(SubSeq(samples, 1, flushed), line)
        <3>1. SubSeq(samples, 1, n) = SubSeq(samples, 1, n - 1) \o <<line>>
            BY <1>2, <2>2, SubSeqRecursiveSecond
        <3>2. n - 1 = flushed
            BY <2>2
        <3>3. SubSeq(samples, 1, flushed) \in Seq(Line)
            BY <1>1, <1>2, BatchType
        <3>4. QED
            BY <2>2, <3>1, <3>2, <3>3, AppendIsConcat
    <2>4. ASSUME NEW e \in Events, mode # "down"
          PROVE  counted'[e] = Index(last, SubSeq(samples, 1, n))[e]
        <3>1. counted'[e] = IF SameSeries(line.event, e) THEN line.counts[e]
                            ELSE counted[e]
            BY <1>2, <2>1, <2>2, ReplayAppend DEF counted
        <3>2. Index(last, SubSeq(samples, 1, n))[e] =
                 IF SameSeries(line.event, e) THEN line.counts[e]
                 ELSE Index(last, SubSeq(samples, 1, flushed))[e]
            <4>1. Index(last, Append(SubSeq(samples, 1, flushed), line))[e] =
                     IF SameSeries(line.event, e) THEN line.counts[e]
                     ELSE Index(last, SubSeq(samples, 1, flushed))[e]
                BY <2>2, <2>3, IndexAppend
            <4>2. QED
                BY <2>3, <4>1
        <3>3. counted[e] = Index(last, SubSeq(samples, 1, flushed))[e]
            BY <2>1, <2>4 DEF IndexInv
        <3>4. QED
            BY <3>1, <3>2, <3>3
    <2> HIDE DEF n, line
    <2>5. QED
        BY <1>1, <2>1, <2>4 DEF IndexInv
<1>9. SubSeq(samples, 1, Len(samples)) = samples
    BY <1>2, SubSeqFull
<1>10. CASE AppendDone
    <2>1. /\ UNCHANGED <<log, open, samples, mode, sticky>> /\ last' = Index(last, samples)
          /\ pc' = "save" /\ pc = "append" /\ flushed = Len(samples)
        BY <1>10 DEF AppendDone
    <2>2. counted' = counted
        BY <2>1 DEF counted
    <2>3. QED
        BY <1>1, <1>9, <2>1, <2>2 DEF IndexInv
<1>11. CASE AppendRefused
    <2>1. mode = "serve" /\ sticky
        BY <1>11 DEF AppendRefused, IndexInv
    <2>2. UNCHANGED <<log, open, sticky, mode>> /\ samples' = <<>>
        BY <1>11, <2>1 DEF AppendRefused, Abandon
    <2>3. Len(samples') = 0
        BY <2>2, EmptySeq
    <2>4. QED
        BY <1>1, <2>1, <2>2, <2>3 DEF IndexInv
<1>12. CASE SaveCheckpoint \/ SaveFails
    <2>1. CASE mode = "backfill"
        BY <1>1, <1>12, <2>1, IndexAtExit DEF SaveCheckpoint, SaveFails
    <2>2. CASE mode # "backfill"
        BY <1>1, <1>12, <2>2, IndexAtRest DEF SaveCheckpoint, SaveFails
    <2>3. QED
        BY <2>1, <2>2
<1>13. CASE CollectFails
    <2>1. CASE mode = "backfill"
        BY <1>1, <1>13, <2>1, IndexAtExit DEF CollectFails, Abandon
    <2>2. CASE mode # "backfill"
        BY <1>1, <1>13, <2>2, IndexAtRest DEF CollectFails, Abandon
    <2>3. QED
        BY <2>1, <2>2
<1>14. ASSUME StopsHalfway PROVE open' = FALSE
    BY <1>1, <1>14 DEF StopsHalfway
<1>15. CASE WriteFails
    <2>1. CASE mode = "backfill"
        BY <1>1, <1>14, <1>15, <2>1, IndexAtExit DEF WriteFails, Abandon
    <2>2. CASE mode # "backfill"
        <3>1. mode' = mode /\ samples' = <<>> /\ sticky' /\ open' = FALSE /\ mode = "serve"
              /\ "write_error" \in Faults
            BY <1>1, <1>3, <1>14, <1>15, <2>2
            DEF WriteFails, Abandon, Fault, TypeInv, TypeOK
        <3>2. Len(samples') = 0
            BY <3>1, EmptySeq
        <3>3. QED
            BY <1>1, <3>1, <3>2 DEF IndexInv
    <2>3. QED
        BY <2>1, <2>2
<1>16. CASE FsyncFails
    <2>1. CASE mode = "backfill"
        BY <1>1, <1>16, <2>1, IndexAtExit DEF FsyncFails, Abandon
    <2>2. CASE mode # "backfill"
        <3>1. /\ UNCHANGED <<log, open, mode, sticky>> /\ last' = Index(last, samples)
              /\ pc' = "wait" /\ pc = "append" /\ flushed = Len(samples)
              /\ samples' = <<>>
            BY <1>16, <2>2 DEF FsyncFails, Abandon
        <3>2. counted' = counted /\ Len(samples') = 0
            BY <3>1, EmptySeq DEF counted
        <3>3. ASSUME NEW e \in Events, mode # "down", ~sticky
              PROVE  counted'[e] = last'[e]
            BY <1>9, <3>1, <3>2, <3>3 DEF IndexInv
        <3>4. QED
            BY <1>1, <3>1, <3>2, <3>3 DEF IndexInv
    <2>3. QED
        BY <2>1, <2>2
<1>17. CASE Stop \/ Crash
    BY <1>1, <1>14, <1>17, IndexAtExit DEF Stop, Crash
<1>18. CASE UNCHANGED vars
    BY <1>1, <1>18 DEF vars, IndexInv, counted
<1>19. QED
    BY <1>4, <1>5, <1>6, <1>7, <1>8, <1>10, <1>11, <1>12, <1>13, <1>15, <1>16, <1>17, <1>18
    DEF Next, Cycle, Backfill, RunBackfill, ForceBackfill

\* The machine starts with nothing running.
LEMMA IndexInit == Init => IndexInv
<1> SUFFICES ASSUME Init PROVE IndexInv
    OBVIOUS
<1>1. samples = <<>> /\ Len(<<>>) = 0
    BY EmptySeq DEF Init
<1>2. QED
    BY <1>1, InitType DEF Init, IndexInv

\* The index is right between two batches.
LEMMA IndexIsReplay == IndexInv /\ "write_error" \notin Faults => IndexMatchesLog
<1> SUFFICES ASSUME IndexInv, "write_error" \notin Faults, mode = "serve", pc # "append"
             PROVE  last = counted
    BY DEF IndexMatchesLog
<1>1. last \in Counts /\ counted \in Counts
    BY CountedType DEF IndexInv, TypeInv, TypeOK
<1>2. \A e \in Events : last[e] = counted[e]
    BY DEF IndexInv
<1>3. QED
    BY <1>1, <1>2 DEF Counts

\* What /metrics serves between two batches is what the next process will find
\* in the log, however many cycles, restarts and forced backfills came before.
THEOREM IndexIsTheLog ==
    ASSUME "tear" \notin Faults, "write_error" \notin Faults
    PROVE  Spec => []IndexMatchesLog
<1>1. IndexInv /\ [Next]_vars => IndexInv'
    BY IndexNext
<1>2. IndexInv => IndexMatchesLog
    BY IndexIsReplay
<1>3. QED
    BY <1>1, <1>2, IndexInit, PTL DEF Spec

-----------------------------------------------------------------------------
(* The scrapers.                                                            *)

\* What was seen is in the log, and nothing was seen before a backfill.
SeenInv ==
    /\ SafeInv /\ IndexInv
    /\ ~backfilled => seen = Zero
    /\ ScrapedIsStored /\ seen \in Counts

\* No step of the exporter lowers a total once a backfill has completed.
LEMMA NextRaises ==
    ASSUME Reliable, SafeInv, SafeInv', [Next]_vars, backfilled, NEW e \in Events
    PROVE  counted'[e] >= counted[e]
<1>1. counted[e] \in Nat /\ counted'[e] \in Nat
    BY CountedType DEF SafeInv, Counts
<1>2. [Ledger!Next]_(Ledger!ledger)
    BY NextLedger
<1>3. CASE Ledger!Build \/ Ledger!Raise
    BY <1>3 DEF Ledger!Build, Ledger!Raise
<1>4. CASE Ledger!Confirm \/ UNCHANGED Ledger!ledger
    <2>1. counted' = counted
        BY <1>4 DEF Ledger!Confirm, Ledger!ledger
    <2>2. QED
        BY <1>1, <2>1
<1>5. QED
    BY <1>2, <1>3, <1>4 DEF Ledger!Next

\* A completed backfill stays one.
LEMMA StaysBackfilled == SafeInv /\ [Next]_vars /\ backfilled => backfilled'
<1> SUFFICES ASSUME SafeInv, [Next]_vars, backfilled PROVE backfilled'
    OBVIOUS
<1> USE DEF disk, vars
<1>1. CASE \/ RunServe \/ Backfill \/ Tick \/ Collect \/ AppendLine \/ AppendDone
           \/ AppendRefused
    BY <1>1 DEF RunServe, Backfill, RunBackfill, ForceBackfill, StartBackfill, Tick,
       Collect, AppendLine, AppendDone, AppendRefused
<1>2. CASE \/ SaveCheckpoint \/ CollectFails \/ WriteFails \/ FsyncFails \/ SaveFails
           \/ Stop \/ Crash \/ UNCHANGED vars
    BY <1>2 DEF SaveCheckpoint, CollectFails, WriteFails, FsyncFails, SaveFails, Stop, Crash
<1>3. CASE \E e \in Events : WriteTranscript(e)
    BY <1>3 DEF WriteTranscript
<1>4. QED
    BY <1>1, <1>2, <1>3 DEF Next, Cycle

\* SeenInv over the steps of the exporter and of its scraper.
LEMMA SeenNext ==
    ASSUME Reliable, "write_error" \notin Faults, SeenInv, [ScraperNext]_<<vars, seen>>
    PROVE  SeenInv' /\ \A e \in Events : seen'[e] >= seen[e]
<1>1. [Next]_vars
    BY DEF ScraperNext, Scrape
<1>2. SafeInv' /\ IndexInv'
    BY <1>1, NextSafe, IndexNext DEF SeenInv, Reliable
<1>3. counted \in Counts /\ counted' \in Counts /\ seen \in Counts
    BY <1>2, CountedType DEF SeenInv, SafeInv
<1>4. CASE UNCHANGED seen
    <2>1. CASE backfilled
        <3>1. backfilled'
            BY <1>1, <2>1, StaysBackfilled DEF SeenInv
        <3>2. \A e \in Events : counted'[e] >= counted[e]
            BY <1>1, <1>2, <2>1, NextRaises DEF SeenInv
        <3>3. \A e \in Events : seen'[e] =< counted'[e] /\ seen'[e] >= seen[e]
            BY <1>3, <1>4, <3>2 DEF SeenInv, ScrapedIsStored, Counts
        <3>4. ScrapedIsStored'
            BY <3>3 DEF ScrapedIsStored
        <3>5. QED
            BY <1>2, <1>3, <1>4, <3>1, <3>3, <3>4 DEF SeenInv
    <2>2. CASE ~backfilled
        <3>1. seen = Zero /\ seen' = Zero
            BY <1>4, <2>2 DEF SeenInv
        <3>2. \A e \in Events : seen'[e] =< counted'[e] /\ seen'[e] >= seen[e]
            BY <1>3, <3>1 DEF Zero, Counts
        <3>3. ScrapedIsStored'
            BY <3>2 DEF ScrapedIsStored
        <3>4. QED
            BY <1>2, <1>3, <1>4, <3>1, <3>2, <3>3 DEF SeenInv
    <2>3. QED
        BY <2>1, <2>2
<1>5. CASE Scrape
    <2>1. /\ seen' = last /\ mode = "serve" /\ pc # "append"
          /\ UNCHANGED <<vars, log, backfilled>>
        BY <1>5 DEF Scrape, vars, disk
    <2>2. last = counted /\ backfilled
        BY <2>1, IndexIsReplay DEF SeenInv, IndexMatchesLog, SafeInv, Lifecycle
    <2>3. counted' = counted
        BY <2>1 DEF counted
    <2>4. \A e \in Events : seen'[e] =< counted'[e] /\ seen'[e] >= seen[e]
        BY <1>3, <2>1, <2>2, <2>3 DEF SeenInv, ScrapedIsStored, Counts
    <2>5. ScrapedIsStored' /\ backfilled' /\ seen' \in Counts
        BY <1>3, <2>1, <2>2, <2>4 DEF ScrapedIsStored
    <2>6. QED
        BY <1>2, <2>4, <2>5 DEF SeenInv
<1>6. QED
    BY <1>4, <1>5 DEF ScraperNext

\* SeenInv is an invariant as long as the writer works.
LEMMA SeenCorrect ==
    ASSUME Reliable, "write_error" \notin Faults
    PROVE  ScraperSpec => []SeenInv
<1>1. ScraperInit => SeenInv
    <2> SUFFICES ASSUME ScraperInit PROVE SeenInv
        OBVIOUS
    <2>1. SafeInv /\ IndexInv /\ seen = Zero
        BY InitSafe, IndexInit DEF ScraperInit
    <2>2. counted \in Counts
        BY <2>1, CountedType DEF SafeInv
    <2>3. ScrapedIsStored
        BY <2>1, <2>2 DEF ScrapedIsStored, Zero, Counts
    <2>4. QED
        BY <2>1, <2>3, ZeroType DEF SeenInv
<1>2. SeenInv /\ [ScraperNext]_<<vars, seen>> => SeenInv'
    BY SeenNext
<1>3. QED
    BY <1>1, <1>2, PTL DEF ScraperSpec

\* Nothing is shown before it is stored: what a scraper saw, a replay of the
\* log gives back, unless a line is torn, a write fails or a backfill is forced.
THEOREM NothingShownUnstored ==
    ASSUME "tear" \notin Faults, "force" \notin Faults, "write_error" \notin Faults
    PROVE  ScraperSpec => []ScrapedIsStored
<1>1. Reliable
    BY DEF Reliable
<1>2. SeenInv => ScrapedIsStored
    BY DEF SeenInv
<1>3. QED
    BY <1>1, <1>2, SeenCorrect, PTL

\* For the same faults a scraper never sees a counter drop, whatever cycles and
\* restarts lie between two of its visits.
THEOREM ScrapesGrow ==
    ASSUME "tear" \notin Faults, "force" \notin Faults, "write_error" \notin Faults
    PROVE  ScraperSpec => ScrapesNeverDrop
<1>1. Reliable
    BY DEF Reliable
<1>2. ScraperSpec => []SeenInv
    BY <1>1, SeenCorrect
<1>3. SeenInv /\ [ScraperNext]_<<vars, seen>>
      => [\A e \in Events : seen'[e] >= seen[e]]_<<vars, seen>>
    BY <1>1, SeenNext
<1>4. QED
    BY <1>2, <1>3, PTL DEF ScraperSpec, ScrapesNeverDrop

-----------------------------------------------------------------------------
(* What a backfill leaves in the log.                                       *)

\* In these lines a series counts each of its events so far exactly once.
Ones(lines) ==
    \A i \in 1..Len(lines) :
        /\ lines[i].ok
        /\ \A j \in 1..i : SameSeries(lines[j].event, lines[i].event) =>
              lines[i].counts[lines[j].event] = 1

\* A backfill starts from nothing, and what it has appended is counted once.
OnceInv ==
    /\ TypeInv /\ open = FALSE
    /\ pc = "save" => flushed = Len(samples)
    /\ mode = "backfill" =>
          /\ pc = "collect" => acc = Zero
          /\ Ones(samples)
          /\ \A j \in 1..flushed : counted[samples[j].event] = 1

\* Applied to nothing, a batch counts each of its events once.
LEMMA ApplyAllOnce ==
    ASSUME NEW S \in SUBSET Events, NEW q \in Sorted(S)
    PROVE  Ones(ApplyAll(Zero, q))
<1> DEFINE lines == ApplyAll(Zero, q)
<1>1. q \in Seq(Events) /\ DOMAIN q = 1..Len(q) /\ Len(q) \in Nat
    BY SortedType
<1>2. Len(lines) = Len(q)
    BY ApplyType, ZeroType
<1>3. ASSUME NEW i \in 1..Len(q)
      PROVE  /\ lines[i].ok /\ lines[i].event = q[i] /\ q[i] \in Events
             /\ \A e \in Events :
                   lines[i].counts[e] =
                      IF SameSeries(e, q[i])
                      THEN IF \E j \in 1..i : q[j] = e THEN Zero[e] + 1 ELSE Zero[e]
                      ELSE 0
    BY <1>1 DEF ApplyAll
<1>4. ASSUME NEW i \in 1..Len(q), NEW j \in 1..i,
             SameSeries(lines[j].event, lines[i].event)
      PROVE  lines[i].counts[lines[j].event] = 1
    <2>1. j \in 1..Len(q)
        BY <1>1
    <2>2. SameSeries(q[j], q[i]) /\ q[j] \in Events /\ lines[j].event = q[j]
        BY <1>3, <1>4, <2>1
    <2>3. Zero[q[j]] = 0
        BY <2>2 DEF Zero
    <2>4. QED
        BY <1>3, <2>2, <2>3
<1>5. QED
    BY <1>2, <1>3, <1>4 DEF Ones

\* One more line of a backfill leaves what it has appended counted once.
LEMMA AppendLineOnce ==
    ASSUME OnceInv, mode = "backfill", AppendLine
    PROVE  \A j \in 1..(flushed + 1) : counted'[samples[j].event] = 1
<1> DEFINE n == flushed + 1
           line == samples[n]
<1>1. /\ log' = Append(log, line) /\ flushed < Len(samples)
    BY DEF AppendLine, OnceInv
<1>2. /\ samples \in Seq(Line) /\ flushed \in 0..Len(samples) /\ log \in Seq(Line)
      /\ Len(samples) \in Nat
    BY LenProperties DEF OnceInv, TypeInv, TypeOK
<1>3. n \in 1..Len(samples) /\ flushed \in Nat
    BY <1>1, <1>2
<1>4. ASSUME NEW j \in 1..Len(samples)
      PROVE  samples[j] \in Line /\ samples[j].event \in Events
    <2>1. samples[j] \in Line
        BY <1>2, ElementOfSeq
    <2>2. QED
        BY <2>1 DEF Line
<1>5. line \in Line /\ line.ok
    BY <1>3, <1>4 DEF OnceInv, Ones
<1>6. \A e \in Events : counted'[e] = IF SameSeries(line.event, e) THEN line.counts[e]
                                      ELSE counted[e]
    BY <1>1, <1>2, <1>5, ReplayAppend DEF counted
<1>7. ASSUME NEW j \in 1..n PROVE counted'[samples[j].event] = 1
    <2>1. j \in 1..Len(samples) /\ samples[j].event \in Events
        BY <1>3, <1>4
    <2>2. CASE SameSeries(line.event, samples[j].event)
        <3>1. SameSeries(samples[j].event, line.event)
            BY <2>2 DEF SameSeries
        <3>2. line.counts[samples[j].event] = 1
            BY <1>3, <3>1 DEF OnceInv, Ones
        <3>3. QED
            BY <1>6, <2>1, <2>2, <3>2
    <2>3. CASE ~SameSeries(line.event, samples[j].event)
        <3>1. j # n
            BY <2>3 DEF SameSeries
        <3>2. j \in 1..flushed
            BY <1>3, <3>1
        <3>3. QED
            BY <1>6, <2>1, <2>3, <3>2 DEF OnceInv
    <2>4. QED
        BY <2>2, <2>3
<1>8. QED
    BY <1>7

\* OnceInv over the steps.
LEMMA OnceNext ==
    ASSUME "tear" \notin Faults, OnceInv, [Next]_vars
    PROVE  OnceInv'
<1> USE DEF disk, memory
<1>1. TypeInv /\ TypeInv' /\ open = FALSE
    BY NextType DEF OnceInv
<1>2. /\ pc \in {"wait", "collect"} => samples = <<>> /\ flushed = 0
      /\ mode = "down" => pc = "wait"
      /\ Len(<<>>) = 0
    BY <1>1, EmptySeq DEF TypeInv, BetweenBatches
<1>3. ASSUME NEW e \in Events, WriteTranscript(e) PROVE OnceInv'
    BY <1>1, <1>3 DEF WriteTranscript, OnceInv, counted
<1>4. CASE RunServe
    BY <1>1, <1>4 DEF RunServe, OnceInv
<1>5. CASE StartBackfill
    <2>1. /\ samples' = <<>> /\ flushed' = 0 /\ acc' = Zero /\ pc' = "collect"
          /\ open' = FALSE
        BY <1>1, <1>2, <1>5 DEF StartBackfill
    <2>2. Len(samples') = 0
        BY <1>2, <2>1
    <2>3. QED
        BY <1>1, <2>1, <2>2 DEF OnceInv, Ones
<1>6. CASE Tick
    BY <1>1, <1>6 DEF Tick, OnceInv
<1>7. CASE Collect
    <2>1. PICK q \in Sorted(written \ cp) : samples' = ApplyAll(acc, q)
        BY <1>7 DEF Collect
    <2>2. written \ cp \in SUBSET Events
        BY <1>1 DEF TypeInv, TypeOK
    <2>3. /\ UNCHANGED <<open, mode, flushed>> /\ pc' = "append"
          /\ pc = "collect" /\ flushed = 0
        BY <1>2, <1>7 DEF Collect
    <2>4. mode = "backfill" => Ones(samples')
        BY <2>1, <2>2, <2>3, ApplyAllOnce DEF OnceInv
    <2>5. QED
        BY <1>1, <2>3, <2>4 DEF OnceInv
<1>8. CASE AppendLine
    <2>1. /\ flushed' = flushed + 1 /\ open' = FALSE
          /\ UNCHANGED <<samples, mode, pc>> /\ pc = "append"
        BY <1>8 DEF AppendLine
    <2>2. mode = "backfill" => \A j \in 1..(flushed + 1) : counted'[samples[j].event] = 1
        BY <1>8, AppendLineOnce
    <2>3. QED
        BY <1>1, <2>1, <2>2 DEF OnceInv
<1>9. CASE AppendDone
    BY <1>1, <1>9 DEF AppendDone, OnceInv, counted
<1>10. ASSUME StopsHalfway PROVE open' = FALSE
    BY <1>1, <1>10 DEF StopsHalfway
<1>11. ASSUME mode' # "backfill", open' = FALSE, pc' # "save" PROVE OnceInv'
    BY <1>1, <1>11 DEF OnceInv
<1>12. CASE AppendRefused \/ CollectFails \/ FsyncFails
    BY <1>1, <1>11, <1>12 DEF AppendRefused, CollectFails, FsyncFails, Abandon, Exit
<1>13. CASE SaveCheckpoint \/ SaveFails
    BY <1>1, <1>11, <1>13 DEF SaveCheckpoint, SaveFails, Exit
<1>14. CASE WriteFails \/ Stop \/ Crash
    BY <1>1, <1>10, <1>11, <1>14 DEF WriteFails, Stop, Crash, Abandon, Exit
<1>15. CASE UNCHANGED vars
    BY <1>1, <1>15 DEF vars, OnceInv, counted
<1>16. QED
    BY <1>3, <1>4, <1>5, <1>6, <1>7, <1>8, <1>9, <1>12, <1>13, <1>14, <1>15
    DEF Next, Cycle, Backfill, RunBackfill, ForceBackfill

\* A backfill counts each event it read once, whatever lines of earlier ones,
\* of serve or of a forced repetition it finds in the log.
THEOREM BackfillIsExact ==
    ASSUME "tear" \notin Faults
    PROVE  Spec => []BackfillCountsOnce
<1>1. Init => OnceInv
    BY InitType DEF Init, OnceInv
<1>2. OnceInv /\ [Next]_vars => OnceInv'
    BY OnceNext
<1>3. OnceInv => BackfillCountsOnce
    BY DEF OnceInv, BackfillCountsOnce, Batch
<1>4. QED
    BY <1>1, <1>2, <1>3, PTL DEF Spec

-----------------------------------------------------------------------------
\* The lines of a batch are in the order of their timestamps.
InOrder(lines) ==
    \A i, j \in 1..Len(lines) : i < j => Ts[lines[i].event] =< Ts[lines[j].event]

\* Until something fails, the log before the first completed backfill is what
\* that one has appended so far.
FirstInv ==
    /\ TypeInv
    /\ faults = 0 =>
          /\ open = FALSE /\ ~sticky
          /\ mode = "backfill" =>
                /\ ~backfilled
                /\ log = SubSeq(samples, 1, flushed)
                /\ Climbs(samples) /\ InOrder(samples)
          /\ mode # "backfill" /\ ~backfilled => mode = "down" /\ log = <<>>

\* The batch that is made of sorted events is in order.
LEMMA ApplyAllInOrder ==
    ASSUME NEW a \in Counts, NEW S \in SUBSET Events, NEW q \in Sorted(S)
    PROVE  InOrder(ApplyAll(a, q))
<1>1. q \in Seq(Events) /\ DOMAIN q = 1..Len(q) /\ Len(q) \in Nat
    BY SortedType
<1>2. Len(ApplyAll(a, q)) = Len(q)
    BY ApplyType
<1>3. \A i \in 1..Len(q) : ApplyAll(a, q)[i].event = q[i]
    BY <1>1 DEF ApplyAll
<1>4. \A i, j \in 1..Len(q) : i < j => Ts[q[i]] =< Ts[q[j]]
    BY <1>1 DEF Sorted
<1>5. QED
    BY <1>2, <1>3, <1>4 DEF InOrder

\* FirstInv over the steps.
LEMMA FirstNext == FirstInv /\ [Next]_vars => FirstInv'
<1> SUFFICES ASSUME FirstInv, [Next]_vars PROVE FirstInv'
    OBVIOUS
<1> USE DEF disk, memory
<1>1. TypeInv /\ TypeInv' /\ faults \in Nat
    BY NextType DEF FirstInv, TypeInv, TypeOK
<1>2. /\ pc \in {"wait", "collect"} => samples = <<>> /\ flushed = 0
      /\ mode = "down" => pc = "wait"
      /\ Len(<<>>) = 0 /\ mode \in {"down", "serve", "backfill"}
    BY <1>1, EmptySeq DEF TypeInv, TypeOK, BetweenBatches
<1>3. ASSUME faults' = faults + 1 PROVE FirstInv'
    BY <1>1, <1>3 DEF FirstInv
<1>4. CASE CollectFails \/ WriteFails \/ FsyncFails \/ SaveFails \/ Crash \/ ForceBackfill
    BY <1>3, <1>4 DEF CollectFails, WriteFails, FsyncFails, SaveFails, Crash,
       ForceBackfill, Fault
<1>5. ASSUME NEW e \in Events, WriteTranscript(e) PROVE FirstInv'
    BY <1>1, <1>5 DEF WriteTranscript, FirstInv
<1>6. CASE RunServe \/ Tick
    BY <1>1, <1>2, <1>6 DEF RunServe, Tick, FirstInv
<1>7. CASE RunBackfill
    <2>1. /\ samples' = <<>> /\ flushed' = 0 /\ mode' = "backfill" /\ mode = "down"
          /\ UNCHANGED <<log, open, backfilled, sticky, faults>> /\ ~backfilled
        BY <1>2, <1>7 DEF RunBackfill, StartBackfill
    <2>2. Len(samples') = 0 /\ SubSeq(samples', 1, 0) = <<>>
        BY <1>2, <2>1, SubSeqEmpty
    <2>3. Climbs(samples') /\ InOrder(samples')
        BY <2>2 DEF Climbs, InOrder
    <2>4. QED
        BY <1>1, <2>1, <2>2, <2>3 DEF FirstInv
<1>8. CASE Collect
    <2>1. PICK q \in Sorted(written \ cp) : samples' = ApplyAll(acc, q)
        BY <1>8 DEF Collect
    <2>2. written \ cp \in SUBSET Events /\ acc \in Counts
        BY <1>1 DEF TypeInv, TypeOK
    <2>3. Climbs(samples') /\ InOrder(samples')
        BY <2>1, <2>2, ApplyAllClimbs, ApplyAllInOrder
    <2>4. /\ UNCHANGED <<log, open, backfilled, mode, flushed, sticky, faults>>
          /\ flushed = 0
        BY <1>2, <1>8 DEF Collect
    <2>5. SubSeq(samples', 1, 0) = <<>> /\ SubSeq(samples, 1, 0) = <<>>
        BY SubSeqEmpty
    <2>6. QED
        BY <1>1, <2>3, <2>4, <2>5 DEF FirstInv
<1>9. CASE AppendLine
    <2>1. /\ flushed' = flushed + 1 /\ open' = FALSE /\ flushed < Len(samples)
          /\ UNCHANGED <<samples, mode, sticky, faults, backfilled>> /\ mode # "down"
          /\ ~open => log' = Append(log, samples[flushed + 1])
        BY <1>2, <1>9 DEF AppendLine
    <2>2. /\ samples \in Seq(Line) /\ flushed + 1 \in 1..Len(samples) /\ flushed \in Nat
          /\ SubSeq(samples, 1, flushed) \in Seq(Line)
        BY <1>1, <2>1, BatchType DEF TypeInv, TypeOK
    <2>3. SubSeq(samples, 1, flushed + 1)
             = Append(SubSeq(samples, 1, flushed), samples[flushed + 1])
        <3>1. SubSeq(samples, 1, flushed + 1)
                 = SubSeq(samples, 1, flushed + 1 - 1) \o <<samples[flushed + 1]>>
            BY <2>2, SubSeqRecursiveSecond
        <3>2. flushed + 1 - 1 = flushed /\ samples[flushed + 1] \in Line
            BY <2>2, ElementOfSeq
        <3>3. QED
            BY <2>2, <3>1, <3>2, AppendIsConcat
    <2>4. QED
        BY <1>1, <2>1, <2>3 DEF FirstInv
<1>10. CASE AppendDone
    BY <1>1, <1>10 DEF AppendDone, FirstInv
<1>11. CASE AppendRefused
    BY <1>1, <1>11 DEF AppendRefused, FirstInv
<1>12. CASE SaveCheckpoint
    BY <1>1, <1>12 DEF SaveCheckpoint, Exit, FirstInv
<1>13. CASE Stop
    BY <1>1, <1>13 DEF Stop, Exit, FirstInv
<1>14. CASE UNCHANGED vars
    BY <1>1, <1>14 DEF vars, FirstInv
<1>15. QED
    BY <1>4, <1>5, <1>6, <1>7, <1>8, <1>9, <1>10, <1>11, <1>12, <1>13, <1>14
    DEF Next, Cycle, Backfill

\* The first backfill, if nothing disturbs it, writes each series in the order
\* of its timestamps and with growing totals, for any events.
THEOREM FirstBackfillIsSorted == Spec => []FirstBackfillInOrder
<1>1. Init => FirstInv
    BY InitType DEF Init, FirstInv
<1>2. FirstInv => FirstBackfillInOrder
    <2> SUFFICES ASSUME FirstInv, mode = "backfill", faults = 0
                 PROVE  LogInOrder /\ LogNeverDrops
        BY DEF FirstBackfillInOrder
    <2>1. /\ samples \in Seq(Line) /\ flushed \in 0..Len(samples) /\ Len(samples) \in Nat
          /\ SubSeq(samples, 1, flushed) \in Seq(Line)
        BY BatchType, LenProperties DEF FirstInv, TypeInv, TypeOK
    <2>2. log = SubSeq(samples, 1, flushed) /\ Climbs(samples) /\ InOrder(samples)
        BY DEF FirstInv
    <2>3. Len(log) = flushed /\ \A i \in 1..Len(log) : log[i] = samples[i]
        BY <2>1, <2>2
    <2>4. \A i \in 1..Len(log) : i \in 1..Len(samples)
        BY <2>1, <2>3
    <2>5. LogInOrder
        BY <2>2, <2>3, <2>4 DEF LogInOrder, InOrder
    <2>6. LogNeverDrops
        <3>1. ASSUME NEW i \in 1..Len(log), NEW j \in 1..Len(log), i < j
              PROVE  i \in 1..j
            BY <2>1, <2>3, <3>1
        <3>2. QED
            BY <2>2, <2>3, <2>4, <3>1 DEF LogNeverDrops, Climbs
    <2>7. QED
        BY <2>5, <2>6
<1>3. QED
    BY <1>1, <1>2, FirstNext, PTL DEF Spec
=============================================================================
