--------------------------- MODULE ExporterProofs ---------------------------
(* Theorems about Exporter, for every set of events, series, timestamps    *)
(* and number of faults.                                                   *)
EXTENDS Exporter, FiniteSetTheorems, SequenceTheorems, TLAPS

-----------------------------------------------------------------------------
(* The operators.                                                          *)

\* The index built from counters and readable lines is made of counters.
LEMMA IndexType ==
    ASSUME NEW base \in Counts, NEW lines \in Seq(Line)
    PROVE  Index(base, lines) \in Counts
<1>1. ASSUME NEW e \in Events, Latest(lines, e) # {}
      PROVE  lines[CHOOSE i \in Latest(lines, e) : TRUE].counts[e] \in Nat
    <2> DEFINE k == CHOOSE i \in Latest(lines, e) : TRUE
    <2>1. k \in Latest(lines, e)
        BY <1>1
    <2>2. k \in 1..Len(lines)
        BY <2>1 DEF Latest
    <2>3. lines[k] \in Line
        BY <2>2, ElementOfSeq
    <2>4. QED
        BY <2>3 DEF Line, Counts
<1>2. \A e \in Events : base[e] \in Nat
    BY DEF Counts
<1>3. QED
    BY <1>1, <1>2 DEF Index, Counts

\* A sorted batch is a finite sequence of the events it was made from.
LEMMA SortedType ==
    ASSUME NEW S \in SUBSET Events, NEW q \in Sorted(S)
    PROVE  /\ q \in Seq(S) /\ DOMAIN q = 1..Len(q)
           /\ \A e \in S : \E i \in 1..Len(q) : q[i] = e
<1>1. IsFiniteSet(S)
    BY EventsAssumption, FS_Subset
<1>2. Cardinality(S) \in Nat
    BY <1>1, FS_CardinalityType
<1>3. q \in [1..Cardinality(S) -> S]
    BY DEF Sorted
<1>4. q \in Seq(S) /\ DOMAIN q = 1..Len(q)
    BY <1>2, <1>3
<1>5. QED
    BY <1>4 DEF Sorted

\* What Apply does to the totals, and the samples it returns, have the types
\* of totals and of log lines.
LEMMA ApplyType ==
    ASSUME NEW a \in Counts, NEW S \in SUBSET Events, NEW q \in Sorted(S)
    PROVE  /\ Totals(a, q) \in Counts
           /\ ApplyAll(a, q) \in Seq(Line)
           /\ Len(ApplyAll(a, q)) = Len(q)
<1>1. q \in Seq(Events) /\ DOMAIN q = 1..Len(q) /\ Len(q) \in Nat
    BY SortedType
<1>2. Totals(a, q) \in Counts
    BY DEF Totals, Counts
<1>3. ASSUME NEW i \in 1..Len(q)
      PROVE  ApplyAll(a, q)[i] \in Line
    BY <1>1, <1>3 DEF ApplyAll, Line, Counts
<1>4. ApplyAll(a, q) \in [1..Len(q) -> Line]
    BY <1>1, <1>3 DEF ApplyAll
<1>5. QED
    BY <1>1, <1>2, <1>4

-----------------------------------------------------------------------------
(* Type correctness.  Between two batches nothing of a batch is left, which*)
(* is what keeps flushed within the batch when the next one is collected.  *)

BetweenBatches ==
    /\ pc \in {"wait", "collect"} => samples = <<>> /\ flushed = 0
    /\ mode = "down" => pc = "wait"

TypeInv == TypeOK /\ BetweenBatches

\* An empty accumulator is a total per event.
LEMMA ZeroType == Zero \in Counts
BY DEF Zero, Counts

\* The machine starts with variables of their types.
LEMMA InitType == Init => TypeInv
<1> SUFFICES ASSUME Init PROVE TypeInv
    OBVIOUS
<1>1. <<>> \in Seq(Line) /\ Len(<<>>) = 0
    BY EmptySeq
<1>2. 0 \in 0..Len(<<>>)
    BY <1>1
<1>3. TypeOK
    BY <1>1, <1>2, ZeroType DEF Init, TypeOK
<1>4. BetweenBatches
    BY DEF Init, BetweenBatches
<1>5. QED
    BY <1>3, <1>4 DEF TypeInv

\* The end of a process leaves memory of the right types.
LEMMA ExitType ==
    ASSUME Exit
    PROVE  /\ cp' \subseteq Events /\ samples' \in Seq(Line)
           /\ sticky' \in BOOLEAN /\ mode' = "down" /\ pc' = "wait"
           /\ acc' \in Counts /\ last' \in Counts
           /\ samples' = <<>> /\ flushed' = 0
<1>1. <<>> \in Seq(Line)
    BY EmptySeq
<1>2. QED
    BY <1>1, ZeroType DEF Exit

\* So does a failed step, whatever becomes of the index and the writer.
LEMMA AbandonType ==
    ASSUME TypeInv, Abandon, mode # "down"
    PROVE  /\ cp' \subseteq Events /\ samples' \in Seq(Line)
           /\ mode' \in {"down", "serve", "backfill"} /\ pc' = "wait"
           /\ acc' \in Counts /\ samples' = <<>> /\ flushed' = 0
<1>1. <<>> \in Seq(Line)
    BY EmptySeq
<1>2. CASE mode = "backfill"
    BY <1>2, ExitType DEF Abandon
<1>3. CASE mode # "backfill"
    BY <1>1, <1>3 DEF Abandon, TypeInv, TypeOK
<1>4. QED
    BY <1>2, <1>3

\* A spoiled line is a line.
LEMMA SpoilType ==
    ASSUME NEW lines \in Seq(Line)
    PROVE  Spoil(lines) \in Seq(Line)
<1>1. CASE lines = <<>>
    <2>1. Len(lines) = 0 /\ DOMAIN lines = {}
        BY <1>1
    <2>2. Spoil(lines) = [i \in {} |-> lines[i]]
        BY <2>1 DEF Spoil
    <2>3. lines = [i \in {} |-> lines[i]]
        BY <2>1
    <2>4. QED
        BY <2>2, <2>3
<1>2. CASE lines # <<>>
    <2>1. Len(lines) \in 1..Len(lines) /\ lines[Len(lines)] \in Line
        BY <1>2, EmptySeq, ElementOfSeq
    <2>2. [lines[Len(lines)] EXCEPT !.ok = FALSE] \in Line
        BY <2>1 DEF Line
    <2>3. QED
        BY <2>1, <2>2, ExceptSeq DEF Spoil
<1>3. QED
    BY <1>1, <1>2

\* And a torn line is still a line.
LEMMA StopsHalfwayType ==
    ASSUME TypeInv, StopsHalfway
    PROVE  log' \in Seq(Line) /\ open' \in BOOLEAN
<1>1. CASE UNCHANGED <<log, open>>
    BY <1>1 DEF TypeInv, TypeOK
<1>2. CASE ~UNCHANGED <<log, open>>
    <2>1. pc = "append" /\ flushed < Len(samples) /\ open' = TRUE
        BY <1>2 DEF StopsHalfway
    <2>2. flushed + 1 \in 1..Len(samples) /\ samples[flushed + 1] \in Line
        BY <2>1, ElementOfSeq DEF TypeInv, TypeOK
    <2>3. CASE open
        <3>1. log' = Spoil(log)
            BY <1>2, <2>3 DEF StopsHalfway
        <3>2. QED
            BY <2>1, <3>1, SpoilType DEF TypeInv, TypeOK
    <2>4. CASE ~open
        <3>1. PICK whole \in BOOLEAN :
                  log' = Append(log, [samples[flushed + 1] EXCEPT !.ok = whole])
            BY <1>2, <2>4 DEF StopsHalfway
        <3>2. [samples[flushed + 1] EXCEPT !.ok = whole] \in Line
            BY <2>2 DEF Line
        <3>3. QED
            BY <2>1, <3>1, <3>2 DEF TypeInv, TypeOK
    <2>5. QED
        BY <2>3, <2>4
<1>3. QED
    BY <1>1, <1>2

\* What has been put in the buffer is a sequence of lines, and so is the log
\* with the next of them.
LEMMA BatchType ==
    ASSUME TypeInv
    PROVE  /\ \A n \in flushed..Len(samples) : SubSeq(samples, 1, n) \in Seq(Line)
           /\ flushed < Len(samples) =>
                 /\ flushed + 1 \in 0..Len(samples)
                 /\ samples[flushed + 1] \in Line
<1>1. flushed \in 0..Len(samples) /\ samples \in Seq(Line)
    BY DEF TypeInv, TypeOK
<1>2. ASSUME NEW n \in flushed..Len(samples)
      PROVE  SubSeq(samples, 1, n) \in Seq(Line)
    <2>1. n \in Int /\ 1 \in Int /\ \A i \in 1..n : i \in 1..Len(samples)
        BY <1>1
    <2>2. \A i \in 1..n : samples[i] \in Line
        BY <1>1, <2>1, ElementOfSeq
    <2>3. QED
        BY <2>1, <2>2, SubSeqProperties
<1>3. flushed < Len(samples) =>
          /\ flushed + 1 \in 0..Len(samples)
          /\ samples[flushed + 1] \in Line
    <2>1. flushed < Len(samples) => flushed + 1 \in 1..Len(samples)
        BY <1>1
    <2>2. QED
        BY <1>1, <2>1, ElementOfSeq
<1>4. QED
    BY <1>2, <1>3

\* The type invariant and BetweenBatches are preserved by every action.
LEMMA NextType == TypeInv /\ [Next]_vars => TypeInv'
<1> SUFFICES ASSUME TypeInv, [Next]_vars PROVE TypeInv'
    OBVIOUS
<1> USE DEF TypeInv, TypeOK, BetweenBatches, disk, memory
<1>1. ASSUME NEW e \in Events, WriteTranscript(e) PROVE TypeInv'
    BY <1>1 DEF WriteTranscript
<1>2. CASE RunServe
    BY <1>2, ZeroType, IndexType DEF RunServe, Replay
<1>3. ASSUME StartBackfill, faults' \in Nat PROVE TypeInv'
    BY <1>3, ZeroType, IndexType DEF StartBackfill, Replay
<1>4. CASE RunBackfill
    BY <1>3, <1>4 DEF RunBackfill
<1>5. CASE ForceBackfill
    BY <1>3, <1>5 DEF ForceBackfill, Fault
<1>6. CASE Tick
    BY <1>6 DEF Tick
<1>7. CASE Collect
    <2>1. PICK q \in Sorted(written \ cp) :
              samples' = ApplyAll(acc, q)
              /\ acc' = IF sticky THEN acc ELSE Totals(acc, q)
        BY <1>7 DEF Collect
    <2>2. written \ cp \in SUBSET Events
        OBVIOUS
    <2>3. samples' \in Seq(Line) /\ acc' \in Counts
        BY <2>1, <2>2, ApplyType
    <2>4. flushed' = 0 /\ 0 \in 0..Len(samples') /\ pc' = "append" /\ mode' # "down"
        BY <1>7, <2>3, LenProperties DEF Collect
    <2>5. QED
        BY <1>7, <2>3, <2>4 DEF Collect
<1>8. CASE AppendLine
    <2>1. samples[flushed + 1] \in Line /\ flushed' \in 0..Len(samples)
        BY <1>8, BatchType DEF AppendLine
    <2>2. log' \in Seq(Line)
        BY <1>8, <2>1, SpoilType DEF AppendLine
    <2>3. QED
        BY <1>8, <2>1, <2>2 DEF AppendLine
<1>9. CASE AppendDone
    BY <1>9, IndexType DEF AppendDone
<1>10. CASE AppendRefused
    <2>1. CASE mode = "down"
        BY <1>10, <2>1 DEF AppendRefused
    <2>2. CASE mode # "down"
        BY <1>10, <2>2, AbandonType, EmptySeq DEF AppendRefused
    <2>3. QED
        BY <2>1, <2>2
<1>10a. Batch \subseteq Events
    <2>1. \A i \in 1..Len(samples) : samples[i] \in Line
        BY ElementOfSeq
    <2>2. QED
        BY <2>1 DEF Batch, Line
<1>11. ASSUME pc = "save", faults' \in Nat, UNCHANGED <<written, log, open>>,
              cpDisk' \subseteq Events, backfilled' \in BOOLEAN,
              IF mode = "backfill" THEN Exit
              ELSE /\ cp' = cp \cup Batch
                   /\ pc' = "wait" /\ samples' = <<>> /\ flushed' = 0
                   /\ UNCHANGED <<mode, acc, last, sticky>>
       PROVE  TypeInv'
    <2>2. <<>> \in Seq(Line) /\ 0 \in 0..Len(<<>>)
        BY EmptySeq
    <2>3. CASE mode = "backfill"
        BY <1>11, <2>2, <2>3, ExitType
    <2>4. CASE mode # "backfill"
        BY <1>11, <1>10a, <2>2, <2>4
    <2>5. QED
        BY <2>3, <2>4
<1>13. CASE SaveCheckpoint
    BY <1>10a, <1>11, <1>13 DEF SaveCheckpoint
<1>14. CASE SaveFails
    BY <1>11, <1>14 DEF SaveFails, Fault
<1>15. ASSUME mode # "down", Abandon, faults' \in Nat,
              log' \in Seq(Line), open' \in BOOLEAN,
              mode = "backfill" \/ (last' \in Counts /\ sticky' \in BOOLEAN),
              UNCHANGED <<written, cpDisk, backfilled>>
       PROVE  TypeInv'
    <2>1. <<>> \in Seq(Line) /\ 0 \in 0..Len(<<>>)
        BY EmptySeq
    <2>2. last' \in Counts /\ sticky' \in BOOLEAN
        BY <1>15, ExitType DEF Abandon
    <2>3. QED
        BY <1>15, <2>1, <2>2, AbandonType
<1>16. CASE CollectFails
    BY <1>15, <1>16 DEF CollectFails, Fault
<1>17. CASE WriteFails
    <2>1. log' \in Seq(Line) /\ open' \in BOOLEAN
        BY <1>17, StopsHalfwayType DEF WriteFails
    <2>2. mode = "backfill" \/ (last' \in Counts /\ sticky' \in BOOLEAN)
        BY <1>17, BatchType, IndexType DEF WriteFails
    <2>3. mode # "down" /\ Abandon /\ faults' \in Nat
        BY <1>17 DEF WriteFails, Fault
    <2>4. UNCHANGED <<written, cpDisk, backfilled>>
        BY <1>17 DEF WriteFails
    <2>5. QED
        BY <1>15, <2>1, <2>2, <2>3, <2>4
<1>18. CASE FsyncFails
    <2>1. mode = "backfill" \/ (last' \in Counts /\ sticky' \in BOOLEAN)
        BY <1>18, IndexType DEF FsyncFails
    <2>2. mode # "down" /\ Abandon /\ faults' \in Nat
        BY <1>18 DEF FsyncFails, Fault
    <2>3. UNCHANGED <<written, disk>>
        BY <1>18 DEF FsyncFails
    <2>4. QED
        BY <1>15, <2>1, <2>2, <2>3
<1>19. ASSUME Exit, log' \in Seq(Line), open' \in BOOLEAN, faults' \in Nat,
              UNCHANGED <<written, cpDisk, backfilled>>
       PROVE  TypeInv'
    <2>1. 0 \in 0..Len(<<>>)
        BY EmptySeq
    <2>2. QED
        BY <1>19, <2>1, ExitType
<1>20. CASE Stop
    BY <1>19, <1>20 DEF Stop
<1>21. CASE Crash
    BY <1>19, <1>21, StopsHalfwayType DEF Crash, Fault
<1>22. CASE UNCHANGED vars
    BY <1>22 DEF vars
<1>23. QED
    BY <1>1, <1>2, <1>4, <1>5, <1>6, <1>7, <1>8, <1>9, <1>10, <1>13, <1>14,
       <1>16, <1>17, <1>18, <1>20, <1>21, <1>22 DEF Next, Cycle, Backfill

\* Type correctness: every variable keeps its type, and no batch outlives its
\* cycle, in every behaviour, with any faults.
THEOREM TypeCorrect == Spec => []TypeOK
<1>1. TypeInv => TypeOK
    BY DEF TypeInv
<1>2. QED
    BY <1>1, InitType, NextType, PTL DEF Spec

-----------------------------------------------------------------------------
(* The last-value index and the accumulator.                               *)

\* Appending a readable line gives its series the line's value, and leaves
\* every other series as it was.
LEMMA IndexAppend ==
    ASSUME NEW base, NEW lines \in Seq(Line), NEW l \in Line, l.ok, NEW e \in Events
    PROVE  Index(base, Append(lines, l))[e] =
              IF SameSeries(l.event, e) THEN l.counts[e] ELSE Index(base, lines)[e]
<1> DEFINE longer == Append(lines, l)
           n == Len(lines)
<1>1. /\ n \in Nat /\ Len(longer) = n + 1 /\ longer[n + 1] = l
      /\ \A i \in 1..n : longer[i] = lines[i]
    BY AppendProperties, LenProperties
<1>2. CASE SameSeries(l.event, e)
    <2>1. Latest(longer, e) = {n + 1}
        BY <1>1, <1>2 DEF Latest
    <2>2. (CHOOSE i \in Latest(longer, e) : TRUE) = n + 1 /\ Latest(longer, e) # {}
        BY <2>1
    <2>3. QED
        BY <1>1, <1>2, <2>2 DEF Index
<1>3. CASE ~SameSeries(l.event, e)
    <2>1. Latest(longer, e) \subseteq Latest(lines, e)
        <3>1. ASSUME NEW i \in Latest(longer, e) PROVE i \in Latest(lines, e)
            <4>1. i \in 1..(n + 1) /\ i # n + 1
                BY <1>1, <1>3, <3>1 DEF Latest
            <4>2. \A j \in (i + 1)..n : j \in (i + 1)..(n + 1) /\ longer[j] = lines[j]
                BY <1>1, <4>1
            <4>3. i \in 1..n /\ longer[i] = lines[i]
                BY <1>1, <4>1
            <4>4. QED
                BY <1>1, <3>1, <4>2, <4>3 DEF Latest
        <3>2. QED
            BY <3>1
    <2>2. Latest(lines, e) \subseteq Latest(longer, e)
        <3>1. ASSUME NEW i \in Latest(lines, e) PROVE i \in Latest(longer, e)
            <4>1. i \in 1..n /\ i \in 1..(n + 1) /\ longer[i] = lines[i]
                BY <1>1, <3>1 DEF Latest
            <4>2. \A j \in (i + 1)..(n + 1) :
                      j = n + 1 \/ (j \in (i + 1)..n /\ longer[j] = lines[j])
                BY <1>1, <4>1
            <4>3. QED
                BY <1>1, <1>3, <3>1, <4>1, <4>2 DEF Latest
        <3>2. QED
            BY <3>1
    <2>3. Latest(longer, e) = Latest(lines, e)
        BY <2>1, <2>2
    <2>4. CASE Latest(lines, e) = {}
        BY <1>3, <2>3, <2>4 DEF Index
    <2>5. CASE Latest(lines, e) # {}
        <3> DEFINE k == CHOOSE i \in Latest(lines, e) : TRUE
        <3>1. k \in 1..n
            BY <2>5 DEF Latest
        <3>2. longer[k] = lines[k]
            BY <1>1, <3>1
        <3>3. Index(base, lines)[e] = lines[k].counts[e]
            BY <2>5 DEF Index
        <3>4. Index(base, longer)[e] =
                  longer[CHOOSE i \in Latest(longer, e) : TRUE].counts[e]
            BY <2>3, <2>5 DEF Index
        <3>5. (CHOOSE i \in Latest(longer, e) : TRUE) = k
            BY <2>3
        <3>6. QED
            BY <1>3, <3>2, <3>3, <3>4, <3>5
    <2>6. QED
        BY <2>4, <2>5
<1>4. QED
    BY <1>2, <1>3

\* The same for a replay of the log.
LEMMA ReplayAppend ==
    ASSUME NEW lines \in Seq(Line), NEW l \in Line, l.ok, NEW e \in Events
    PROVE  Replay(Append(lines, l))[e] =
              IF SameSeries(l.event, e) THEN l.counts[e] ELSE Replay(lines)[e]
BY IndexAppend DEF Replay

\* A batch climbs: within a series a later sample is nowhere below an earlier
\* one, counts the events of both, starts from the totals before the batch
\* and ends at most at the totals after it.
Climbs(lines) ==
    \A i \in 1..Len(lines) :
        /\ lines[i].ok
        /\ \A j \in 1..i : SameSeries(lines[j].event, lines[i].event) =>
              /\ lines[i].counts[lines[j].event] >= 1
              /\ \A e \in Events : lines[j].counts[e] =< lines[i].counts[e]

\* The lines of a batch climb: each series goes up from the total it had and
\* stays below the total it ends with.
LEMMA ApplyAllClimbs ==
    ASSUME NEW a \in Counts, NEW S \in SUBSET Events, NEW q \in Sorted(S)
    PROVE  /\ Climbs(ApplyAll(a, q))
           /\ \A i \in 1..Len(ApplyAll(a, q)) : \A e \in Events :
                 LET line == ApplyAll(a, q)[i]
                 IN  /\ line.counts[e] =< Totals(a, q)[e]
                     /\ SameSeries(line.event, e) => a[e] =< line.counts[e]
           /\ \A e \in Events : a[e] =< Totals(a, q)[e]
<1> DEFINE lines == ApplyAll(a, q)
<1>1. q \in Seq(Events) /\ DOMAIN q = 1..Len(q) /\ Len(q) \in Nat
    BY SortedType
<1>2. Len(lines) = Len(q)
    BY ApplyType
<1>3. ASSUME NEW i \in 1..Len(q)
      PROVE  /\ lines[i].ok /\ lines[i].event = q[i] /\ q[i] \in Events
             /\ \A e \in Events :
                   lines[i].counts[e] =
                      IF SameSeries(e, q[i])
                      THEN IF \E j \in 1..i : q[j] = e THEN a[e] + 1 ELSE a[e]
                      ELSE 0
    BY <1>1 DEF ApplyAll
<1>4. \A e \in Events : a[e] \in Nat
    BY DEF Counts
<1>5. \A e \in Events :
          Totals(a, q)[e] = IF \E i \in 1..Len(q) : q[i] = e THEN a[e] + 1 ELSE a[e]
    BY <1>1 DEF Totals
<1>6. ASSUME NEW i \in 1..Len(q), NEW j \in 1..i,
             SameSeries(lines[j].event, lines[i].event)
      PROVE  /\ lines[i].counts[lines[j].event] >= 1
             /\ \A e \in Events : lines[j].counts[e] =< lines[i].counts[e]
    <2>1. j \in 1..Len(q) /\ \A k \in 1..j : k \in 1..i
        BY <1>1
    <2>2. SameSeries(q[j], q[i])
        BY <1>3, <1>6, <2>1
    <2>3. lines[i].counts[q[j]] = a[q[j]] + 1
        BY <1>3, <2>1, <2>2 DEF SameSeries
    <2>4. ASSUME NEW e \in Events PROVE lines[j].counts[e] =< lines[i].counts[e]
        <3>1. SameSeries(e, q[j]) <=> SameSeries(e, q[i])
            BY <2>2 DEF SameSeries
        <3>2. QED
            BY <1>3, <1>4, <2>1, <3>1
    <2>5. QED
        BY <1>3, <1>4, <2>1, <2>3, <2>4
<1>7. Climbs(lines)
    BY <1>2, <1>3, <1>6 DEF Climbs
<1>8. ASSUME NEW i \in 1..Len(q), NEW e \in Events
      PROVE  /\ lines[i].counts[e] =< Totals(a, q)[e]
             /\ SameSeries(lines[i].event, e) => a[e] =< lines[i].counts[e]
    <2>1. \A k \in 1..i : k \in 1..Len(q)
        BY <1>1
    <2>2. lines[i].counts[e] =< Totals(a, q)[e]
        BY <1>3, <1>4, <1>5, <2>1
    <2>3. SameSeries(lines[i].event, e) => a[e] =< lines[i].counts[e]
        BY <1>3, <1>4 DEF SameSeries
    <2>4. QED
        BY <2>2, <2>3
<1>9. QED
    BY <1>2, <1>4, <1>5, <1>7, <1>8
-----------------------------------------------------------------------------
(* Safety.  It needs a log whose last line is never left unterminated and a*)
(* backfill that is never forced over a completed one: either can take back*)
(* what the checkpoint relies on.                                          *)

Reliable == "tear" \notin Faults /\ "force" \notin Faults

\* How the processes follow one another, and whose checkpoint is where.
Lifecycle ==
    /\ open = FALSE
    /\ mode = "serve" => backfilled /\ cpDisk \subseteq cp
    /\ mode = "backfill" => ~backfilled
    /\ mode # "serve" => cp = {}
    /\ ~backfilled => cpDisk = {}
    /\ pc = "save" => flushed = Len(samples)

\* The batch in hand climbs, and while its writer works the accumulator is
\* at least where the batch ends.
BatchClimbs ==
    /\ Climbs(samples)
    /\ ~sticky => \A i \in 1..Len(samples), e \in Events :
                     samples[i].counts[e] =< acc[e]

\* What serve holds in memory, and the lines it is about to write, are never
\* behind what a replay of the log would give.
SeededAhead ==
    mode = "serve" =>
        /\ \A e \in Events : counted[e] =< acc[e]
        /\ \A i \in (flushed + 1)..Len(samples), e \in Events :
              SameSeries(samples[i].event, e) => counted[e] =< samples[i].counts[e]

\* What is behind a checkpoint, or is flushed and about to be, is counted.
ConfirmedIsCounted ==
    /\ \A e \in cpDisk \cup cp : counted[e] >= 1
    /\ \A i \in 1..flushed : counted[samples[i].event] >= 1

SafeInv ==
    TypeInv /\ Lifecycle /\ BatchClimbs /\ SeededAhead /\ ConfirmedIsCounted

\* With no batch at hand, whatever is said of its lines holds.
LEMMA NoLinesLeft ==
    ASSUME samples = <<>>, flushed = 0
    PROVE  Len(samples) = 0 /\ BatchClimbs /\ 1..flushed = {} /\ Batch = {}
           /\ (flushed + 1)..Len(samples) = {}
<1>1. Len(samples) = 0
    BY EmptySeq
<1>2. QED
    BY <1>1 DEF BatchClimbs, Climbs, Batch

\* SafeInv holds before the first process runs.
LEMMA InitSafe == Init => SafeInv
<1> SUFFICES ASSUME Init PROVE SafeInv
    OBVIOUS
<1>1. samples = <<>> /\ flushed = 0
    BY DEF Init
<1>2. Lifecycle /\ SeededAhead
    BY DEF Init, Lifecycle, SeededAhead
<1>3. ConfirmedIsCounted
    BY <1>1, NoLinesLeft DEF Init, ConfirmedIsCounted
<1>4. QED
    BY <1>1, <1>2, <1>3, InitType, NoLinesLeft DEF SafeInv

\* Without torn writes a write that stops leaves the file as it was.
LEMMA StopsCleanly ==
    ASSUME Reliable, StopsHalfway
    PROVE  UNCHANGED <<log, open>>
BY DEF Reliable, StopsHalfway

\* A write that stops and leaves the last line terminated has written nothing.
LEMMA StopsWhole ==
    ASSUME SafeInv, StopsHalfway, open' = FALSE
    PROVE  UNCHANGED <<log, open>>
BY DEF SafeInv, Lifecycle, StopsHalfway

\* A process may end whenever what the checkpoint file then holds is counted.
LEMMA ExitSafe ==
    ASSUME SafeInv, TypeInv', Exit, UNCHANGED <<log, open>>,
           ~backfilled' => cpDisk' = {},
           \A e \in cpDisk' : counted[e] >= 1
    PROVE  SafeInv'
<1>1. samples' = <<>> /\ flushed' = 0 /\ cp' = {} /\ mode' = "down" /\ pc' = "wait"
    BY DEF Exit
<1>2. Len(samples') = 0
    BY <1>1, EmptySeq
<1>3. counted' = counted
    BY DEF counted
<1>4. Lifecycle' /\ BatchClimbs'
    BY <1>1, <1>2 DEF SafeInv, Lifecycle, BatchClimbs, Climbs
<1>5. SeededAhead'
    BY <1>1 DEF SeededAhead
<1>6. ConfirmedIsCounted'
    BY <1>1, <1>3 DEF ConfirmedIsCounted
<1>7. QED
    BY <1>4, <1>5, <1>6 DEF SafeInv

\* So may a cycle of serve, if the checkpoint in memory then is counted too.
LEMMA CycleEndSafe ==
    ASSUME SafeInv, TypeInv', mode # "backfill", UNCHANGED <<log, open, mode, acc>>,
           pc' = "wait", samples' = <<>>, flushed' = 0,
           mode = "serve" => backfilled' /\ cpDisk' \subseteq cp',
           mode # "serve" => cp' = {},
           ~backfilled' => cpDisk' = {},
           \A e \in cpDisk' \cup cp' : counted[e] >= 1
    PROVE  SafeInv'
<1>1. Len(samples') = 0
    BY EmptySeq
<1>2. counted' = counted
    BY DEF counted
<1>3. Lifecycle' /\ BatchClimbs'
    BY <1>1 DEF SafeInv, Lifecycle, BatchClimbs, Climbs
<1>4. SeededAhead'
    BY <1>1, <1>2 DEF SafeInv, SeededAhead
<1>5. ConfirmedIsCounted'
    BY <1>2 DEF ConfirmedIsCounted
<1>6. QED
    BY <1>3, <1>4, <1>5 DEF SafeInv

\* A failed step confirms nothing and keeps the totals it has raised.
LEMMA AbandonSafe ==
    ASSUME SafeInv, TypeInv', Abandon, UNCHANGED <<log, open, cpDisk, backfilled>>
    PROVE  SafeInv'
<1>1. /\ ~backfilled' => cpDisk' = {}
      /\ \A e \in cpDisk' \cup cp : counted[e] >= 1
    BY DEF SafeInv, Lifecycle, ConfirmedIsCounted
<1>2. CASE mode = "backfill"
    BY <1>1, <1>2, ExitSafe DEF Abandon
<1>3. CASE mode # "backfill"
    <2>1. /\ pc' = "wait" /\ samples' = <<>> /\ flushed' = 0
          /\ UNCHANGED <<mode, acc, cp>>
        BY <1>3 DEF Abandon
    <2>2. /\ mode = "serve" => backfilled' /\ cpDisk' \subseteq cp'
          /\ mode # "serve" => cp' = {}
        BY <2>1 DEF SafeInv, Lifecycle
    <2>3. QED
        BY <1>1, <1>3, <2>1, <2>2, CycleEndSafe
<1>4. QED
    BY <1>2, <1>3

\* Every event of a batch that has reached the file is counted.
LEMMA BatchCounted ==
    ASSUME SafeInv, pc = "save"
    PROVE  \A e \in Batch : counted[e] >= 1
BY DEF SafeInv, Lifecycle, ConfirmedIsCounted, Batch

\* Collecting a batch: it climbs from the seeded totals.
LEMMA CollectSafe == SafeInv /\ TypeInv' /\ Collect => SafeInv'
<1> SUFFICES ASSUME SafeInv, TypeInv', Collect PROVE SafeInv'
    OBVIOUS
<1>1. PICK q \in Sorted(written \ cp) :
          samples' = ApplyAll(acc, q)
          /\ acc' = IF sticky THEN acc ELSE Totals(acc, q)
    BY DEF Collect
<1>2. written \ cp \in SUBSET Events /\ acc \in Counts
    BY DEF SafeInv, TypeInv, TypeOK
<1>3. samples = <<>> /\ flushed = 0 /\ flushed' = 0
    BY DEF Collect, SafeInv, TypeInv, BetweenBatches
<1>4. /\ UNCHANGED <<log, open, cpDisk, backfilled, mode, cp, sticky>>
      /\ pc' = "append" /\ counted' = counted
    BY DEF Collect, disk, counted
<1>5. /\ Climbs(samples')
      /\ \A i \in 1..Len(samples'), e \in Events :
            /\ samples'[i].counts[e] =< Totals(acc, q)[e]
            /\ SameSeries(samples'[i].event, e) => acc[e] =< samples'[i].counts[e]
      /\ \A e \in Events : acc[e] =< Totals(acc, q)[e]
    BY <1>1, <1>2, ApplyAllClimbs
<1>6. Lifecycle'
    BY <1>4 DEF SafeInv, Lifecycle
<1>7. BatchClimbs'
    BY <1>1, <1>4, <1>5 DEF BatchClimbs
<1>8. ConfirmedIsCounted'
    <2>1. 1..flushed' = {}
        BY <1>3
    <2>2. QED
        BY <1>4, <2>1 DEF SafeInv, ConfirmedIsCounted
<1>9. SeededAhead'
    <2>1. \A e \in Events : counted[e] \in Nat /\ acc[e] \in Nat
        <3>1. log \in Seq(Line)
            BY DEF SafeInv, TypeInv, TypeOK
        <3>2. counted \in Counts
            BY <3>1, IndexType, ZeroType DEF counted, Replay
        <3>3. QED
            BY <1>2, <3>2 DEF Counts
    <2>2. ASSUME mode = "serve", NEW e \in Events PROVE counted'[e] =< acc'[e]
        <3>1. counted[e] =< acc[e]
            BY <2>2 DEF SafeInv, SeededAhead
        <3>2. acc'[e] = acc[e] \/ acc'[e] = Totals(acc, q)[e]
            BY <1>1
        <3>3. Totals(acc, q)[e] \in Nat
            BY <1>2, ApplyType DEF Counts
        <3>4. QED
            BY <1>4, <1>5, <2>1, <3>1, <3>2, <3>3
    <2>3. ASSUME mode = "serve", NEW i \in (flushed' + 1)..Len(samples'),
                 NEW e \in Events, SameSeries(samples'[i].event, e)
          PROVE  counted'[e] =< samples'[i].counts[e]
        <3>1. i \in 1..Len(samples')
            BY <1>3
        <3>2. counted[e] =< acc[e] /\ acc[e] =< samples'[i].counts[e]
            BY <1>5, <2>3, <3>1 DEF SafeInv, SeededAhead
        <3>3. samples'[i].counts[e] \in Nat
            <4>1. samples'[i] \in Line
                BY <3>1, ElementOfSeq DEF TypeInv, TypeOK
            <4>2. QED
                BY <4>1 DEF Line, Counts
        <3>4. QED
            BY <1>4, <2>1, <3>2, <3>3
    <2>4. QED
        BY <1>4, <2>2, <2>3 DEF SeededAhead
<1>10. QED
    BY <1>6, <1>7, <1>8, <1>9 DEF SafeInv

\* What appending the next line does to a replay.
LEMMA AppendLineCounts ==
    ASSUME SafeInv, AppendLine
    PROVE  /\ flushed + 1 \in 1..Len(samples) /\ flushed \in Nat
           /\ samples[flushed + 1] \in Line
           /\ counted \in Counts
           /\ \A e \in Events :
                 counted'[e] = IF SameSeries(samples[flushed + 1].event, e)
                               THEN samples[flushed + 1].counts[e] ELSE counted[e]
<1>1. /\ log \in Seq(Line) /\ samples \in Seq(Line) /\ flushed \in 0..Len(samples)
      /\ flushed < Len(samples)
    BY DEF SafeInv, TypeInv, TypeOK, AppendLine
<1>2. flushed + 1 \in 1..Len(samples) /\ flushed \in Nat
    BY <1>1
<1>3. samples[flushed + 1] \in Line
    BY <1>1, <1>2, ElementOfSeq
<1>4. samples[flushed + 1].ok
    BY <1>2 DEF SafeInv, BatchClimbs, Climbs
<1>5. log' = Append(log, samples[flushed + 1])
    BY DEF AppendLine, SafeInv, Lifecycle
<1>6. \A e \in Events :
          counted'[e] = IF SameSeries(samples[flushed + 1].event, e)
                        THEN samples[flushed + 1].counts[e] ELSE counted[e]
    BY <1>1, <1>3, <1>4, <1>5, ReplayAppend DEF counted
<1>7. counted \in Counts
    BY <1>1, ZeroType, IndexType DEF counted, Replay
<1>8. QED
    BY <1>2, <1>3, <1>6, <1>7

\* Appending a line of serve lowers no total.
LEMMA AppendLineRaises ==
    ASSUME SafeInv, AppendLine, backfilled
    PROVE  \A e \in Events : counted'[e] >= counted[e]
<1>1. mode = "serve"
    BY DEF SafeInv, TypeInv, TypeOK, BetweenBatches, Lifecycle, AppendLine
<1>2. flushed + 1 \in (flushed + 1)..Len(samples)
    BY AppendLineCounts
<1>3. \A e \in Events : SameSeries(samples[flushed + 1].event, e)
                        => counted[e] =< samples[flushed + 1].counts[e]
    BY <1>1, <1>2 DEF SafeInv, SeededAhead
<1>4. \A e \in Events : counted[e] \in Nat /\ samples[flushed + 1].counts[e] \in Nat
    BY AppendLineCounts DEF Counts, Line
<1>5. QED
    BY <1>3, <1>4, AppendLineCounts

\* Writing one line of the batch keeps SafeInv.
LEMMA AppendLineSafe == SafeInv /\ TypeInv' /\ AppendLine => SafeInv'
<1> SUFFICES ASSUME SafeInv, TypeInv', AppendLine PROVE SafeInv'
    OBVIOUS
<1> DEFINE n == flushed + 1
           line == samples[n]
<1>1. /\ UNCHANGED <<cpDisk, backfilled, mode, pc, acc, cp, samples, sticky>>
      /\ flushed' = n /\ open' = FALSE /\ pc = "append" /\ ~sticky
    BY DEF AppendLine
<1>2. /\ n \in 1..Len(samples) /\ flushed \in Nat /\ line \in Line
      /\ counted \in Counts
      /\ \A e \in Events : counted'[e] = IF SameSeries(line.event, e)
                                         THEN line.counts[e] ELSE counted[e]
    BY AppendLineCounts
<1>3. ASSUME NEW i \in 1..Len(samples)
      PROVE  samples[i] \in Line /\ samples[i].event \in Events
             /\ samples[i].counts \in Counts
    <2>1. samples[i] \in Line
        BY <1>3, ElementOfSeq DEF SafeInv, TypeInv, TypeOK
    <2>2. QED
        BY <2>1 DEF Line
<1>4. Lifecycle' /\ BatchClimbs'
    BY <1>1 DEF SafeInv, Lifecycle, BatchClimbs
<1>5. SeededAhead'
    <2>1. ASSUME mode = "serve", NEW e \in Events PROVE counted'[e] =< acc[e]
        BY <1>1, <1>2, <2>1 DEF SafeInv, SeededAhead, BatchClimbs
    <2>2. ASSUME mode = "serve", NEW i \in (n + 1)..Len(samples), NEW e \in Events,
                 SameSeries(samples[i].event, e)
          PROVE  counted'[e] =< samples[i].counts[e]
        <3>1. i \in 1..Len(samples) /\ n \in 1..i /\ i \in (flushed + 1)..Len(samples)
            BY <1>2
        <3>2. CASE SameSeries(line.event, e)
            <4>1. SameSeries(line.event, samples[i].event)
                BY <2>2, <3>2 DEF SameSeries
            <4>2. line.counts[e] =< samples[i].counts[e]
                BY <3>1, <4>1 DEF SafeInv, BatchClimbs, Climbs
            <4>3. QED
                BY <1>2, <3>2, <4>2
        <3>3. CASE ~SameSeries(line.event, e)
            <4>1. counted[e] =< samples[i].counts[e]
                BY <2>2, <3>1 DEF SafeInv, SeededAhead
            <4>2. QED
                BY <1>2, <3>3, <4>1
        <3>4. QED
            BY <3>2, <3>3
    <2>3. QED
        BY <1>1, <2>1, <2>2 DEF SeededAhead
<1>6. ASSUME NEW e \in cpDisk \cup cp PROVE counted'[e] >= 1
    <2>1. e \in Events /\ counted[e] >= 1 /\ backfilled
        BY <1>6 DEF SafeInv, TypeInv, TypeOK, Lifecycle, ConfirmedIsCounted
    <2>2. counted'[e] >= counted[e]
        BY <2>1, AppendLineRaises
    <2>3. counted[e] \in Nat /\ counted'[e] \in Nat
        BY <1>2, <2>1 DEF Counts, Line
    <2>4. QED
        BY <2>1, <2>2, <2>3
<1>7. ASSUME NEW i \in 1..n PROVE counted'[samples[i].event] >= 1
    <2>1. i \in 1..Len(samples) /\ samples[i].event \in Events
        BY <1>2, <1>3
    <2>2. CASE SameSeries(line.event, samples[i].event)
        <3>1. SameSeries(samples[i].event, line.event)
            BY <2>2 DEF SameSeries
        <3>2. line.counts[samples[i].event] >= 1
            BY <1>2, <3>1 DEF SafeInv, BatchClimbs, Climbs
        <3>3. QED
            BY <1>2, <2>1, <2>2, <3>2
    <2>3. CASE ~SameSeries(line.event, samples[i].event)
        <3>1. i # n
            BY <2>3 DEF SameSeries
        <3>2. i \in 1..flushed
            BY <1>2, <3>1
        <3>3. counted[samples[i].event] >= 1
            BY <3>2 DEF SafeInv, ConfirmedIsCounted
        <3>4. QED
            BY <1>2, <2>1, <2>3, <3>3
    <2>4. QED
        BY <2>2, <2>3
<1>8. ConfirmedIsCounted'
    BY <1>1, <1>6, <1>7 DEF ConfirmedIsCounted
<1>9. QED
    BY <1>4, <1>5, <1>8 DEF SafeInv

\* Saving the checkpoint: what it confirms is counted.
LEMMA SaveSafe == SafeInv /\ TypeInv' /\ SaveCheckpoint => SafeInv'
<1> SUFFICES ASSUME SafeInv, TypeInv', SaveCheckpoint PROVE SafeInv'
    OBVIOUS
<1>1. /\ pc = "save" /\ cpDisk' = cp \cup Batch /\ backfilled' = TRUE
      /\ UNCHANGED <<log, open>>
    BY DEF SaveCheckpoint
<1>2. \A e \in cpDisk' : counted[e] >= 1
    BY <1>1, BatchCounted DEF SafeInv, ConfirmedIsCounted
<1>3. CASE mode = "backfill"
    BY <1>1, <1>2, <1>3, ExitSafe DEF SaveCheckpoint
<1>4. CASE mode # "backfill"
    <2>1. mode = "serve"
        BY <1>1, <1>4 DEF SafeInv, TypeInv, TypeOK, BetweenBatches
    <2>2. /\ cp' = cp \cup Batch /\ pc' = "wait" /\ samples' = <<>> /\ flushed' = 0
          /\ UNCHANGED <<mode, acc>>
        BY <1>4 DEF SaveCheckpoint
    <2>3. QED
        BY <1>1, <1>2, <1>4, <2>1, <2>2, CycleEndSafe
<1>5. QED
    BY <1>3, <1>4

\* A failed save moves only the checkpoint in memory.
LEMMA SaveFailsSafe == SafeInv /\ TypeInv' /\ SaveFails => SafeInv'
<1> SUFFICES ASSUME SafeInv, TypeInv', SaveFails PROVE SafeInv'
    OBVIOUS
<1>1. pc = "save" /\ UNCHANGED <<log, open, cpDisk, backfilled>>
    BY DEF SaveFails, disk
<1>2. /\ \A e \in cpDisk' \cup (cp \cup Batch) : counted[e] >= 1
      /\ ~backfilled' => cpDisk' = {}
    BY <1>1, BatchCounted DEF SafeInv, Lifecycle, ConfirmedIsCounted
<1>3. CASE mode = "backfill"
    BY <1>1, <1>2, <1>3, ExitSafe DEF SaveFails
<1>4. CASE mode # "backfill"
    <2>1. mode = "serve" /\ backfilled /\ cpDisk \subseteq cp
        BY <1>1, <1>4 DEF SafeInv, TypeInv, TypeOK, BetweenBatches, Lifecycle
    <2>2. /\ cp' = cp \cup Batch /\ pc' = "wait" /\ samples' = <<>> /\ flushed' = 0
          /\ UNCHANGED <<mode, acc>>
        BY <1>4 DEF SaveFails
    <2>3. backfilled' /\ cpDisk' \subseteq cp'
        BY <1>1, <2>1, <2>2
    <2>4. QED
        BY <1>1, <1>2, <1>4, <2>1, <2>2, <2>3, CycleEndSafe
<1>5. QED
    BY <1>3, <1>4

\* The safety invariant is preserved by every action that neither leaves a line
\* unterminated nor forces a backfill.
LEMMA StepSafe == SafeInv /\ [Next]_vars /\ open' = FALSE /\ ~ForceBackfill => SafeInv'
<1> SUFFICES ASSUME SafeInv, [Next]_vars, open' = FALSE, ~ForceBackfill PROVE SafeInv'
    OBVIOUS
<1>1. TypeInv'
    BY NextType DEF SafeInv
<1>2. ASSUME NEW e \in Events, WriteTranscript(e) PROVE SafeInv'
    BY <1>1, <1>2 DEF WriteTranscript, disk, memory, SafeInv, Lifecycle, BatchClimbs,
       SeededAhead, ConfirmedIsCounted, counted
<1>3. CASE RunServe
    <2>1. /\ samples = <<>> /\ flushed = 0 /\ samples' = <<>> /\ flushed' = 0
          /\ mode' = "serve" /\ pc' = "collect" /\ acc' = counted /\ cp' = cpDisk
          /\ backfilled /\ UNCHANGED <<log, open, cpDisk, backfilled>>
        BY <1>3 DEF RunServe, disk, counted, SafeInv, TypeInv, BetweenBatches
    <2>2. Len(samples') = 0 /\ counted' = counted
        BY <2>1, EmptySeq DEF counted
    <2>3. \A e \in Events : counted[e] \in Nat
        BY ZeroType, IndexType DEF counted, Replay, Counts, SafeInv, TypeInv, TypeOK
    <2>4. Lifecycle' /\ BatchClimbs'
        BY <2>1, <2>2 DEF SafeInv, Lifecycle, BatchClimbs, Climbs
    <2>5. SeededAhead'
        BY <2>1, <2>2, <2>3 DEF SeededAhead
    <2>6. ConfirmedIsCounted'
        BY <2>1, <2>2 DEF SafeInv, ConfirmedIsCounted
    <2>7. QED
        BY <1>1, <2>4, <2>5, <2>6 DEF SafeInv
<1>4. CASE RunBackfill
    <2>1. /\ samples' = <<>> /\ flushed' = 0
          /\ mode' = "backfill" /\ pc' = "collect" /\ cp' = {}
          /\ ~backfilled /\ UNCHANGED <<log, open, cpDisk, backfilled>>
        BY <1>4 DEF RunBackfill, StartBackfill, disk, SafeInv, TypeInv, BetweenBatches
    <2>2. Len(samples') = 0 /\ counted' = counted
        BY <2>1, EmptySeq DEF counted
    <2>3. Lifecycle' /\ BatchClimbs' /\ SeededAhead'
        BY <2>1, <2>2 DEF SafeInv, Lifecycle, BatchClimbs, Climbs, SeededAhead
    <2>4. ConfirmedIsCounted'
        BY <2>1, <2>2 DEF SafeInv, ConfirmedIsCounted
    <2>5. QED
        BY <1>1, <2>3, <2>4 DEF SafeInv
<1>6. CASE Tick
    BY <1>1, <1>6 DEF Tick, disk, SafeInv, Lifecycle, BatchClimbs,
       SeededAhead, ConfirmedIsCounted, counted
<1>7. CASE Collect
    BY <1>1, <1>7, CollectSafe
<1>8. CASE AppendLine
    BY <1>1, <1>8, AppendLineSafe
<1>9. CASE AppendDone
    BY <1>1, <1>9 DEF AppendDone, disk, SafeInv, Lifecycle, BatchClimbs,
       SeededAhead, ConfirmedIsCounted, counted
<1>10. CASE AppendRefused
    BY <1>1, <1>10, AbandonSafe DEF AppendRefused, disk
<1>11. CASE SaveCheckpoint
    BY <1>1, <1>11, SaveSafe
<1>12. CASE CollectFails
    BY <1>1, <1>12, AbandonSafe DEF CollectFails, disk
<1>13. CASE WriteFails
    BY <1>1, <1>13, AbandonSafe, StopsWhole DEF WriteFails
<1>14. CASE FsyncFails
    BY <1>1, <1>14, AbandonSafe DEF FsyncFails, disk
<1>15. CASE SaveFails
    BY <1>1, <1>15, SaveFailsSafe
<1>16. /\ ~backfilled => cpDisk = {}
       /\ \A e \in cpDisk : counted[e] >= 1
    BY DEF SafeInv, Lifecycle, ConfirmedIsCounted
<1>17. CASE Stop
    BY <1>1, <1>16, <1>17, ExitSafe DEF Stop, disk
<1>18. CASE Crash
    BY <1>1, <1>16, <1>18, ExitSafe, StopsWhole DEF Crash
<1>19. CASE UNCHANGED vars
    BY <1>1, <1>19 DEF vars, disk, memory, SafeInv, Lifecycle, BatchClimbs,
       SeededAhead, ConfirmedIsCounted, counted
<1>20. QED
    BY <1>2, <1>3, <1>4, <1>6, <1>7, <1>8, <1>9, <1>10, <1>11, <1>12,
       <1>13, <1>14, <1>15, <1>17, <1>18, <1>19 DEF Next, Cycle, Backfill

\* Without torn writes no step leaves a line unterminated.
LEMMA StaysWhole ==
    ASSUME Reliable, SafeInv, [Next]_vars
    PROVE  open' = FALSE
<1>1. open = FALSE /\ ~ForceBackfill
    BY DEF SafeInv, Lifecycle, Reliable, ForceBackfill, Fault
<1>2. ASSUME NEW e \in Events, WriteTranscript(e) PROVE open' = FALSE
    BY <1>1, <1>2 DEF WriteTranscript, disk
<1>3. CASE AppendLine \/ SaveCheckpoint
    BY <1>1, <1>3 DEF AppendLine, SaveCheckpoint
<1>4. CASE RunServe \/ RunBackfill \/ Tick \/ Collect \/ AppendDone
           \/ AppendRefused \/ CollectFails \/ FsyncFails \/ SaveFails \/ Stop
    <2>1. UNCHANGED disk
        BY <1>4 DEF RunServe, RunBackfill, StartBackfill, Tick, Collect, AppendDone,
           AppendRefused, CollectFails, FsyncFails, SaveFails, Stop
    <2>2. QED
        BY <1>1, <2>1 DEF disk
<1>5. CASE WriteFails \/ Crash
    BY <1>1, <1>5, StopsCleanly DEF WriteFails, Crash
<1>6. CASE UNCHANGED vars
    BY <1>1, <1>6 DEF vars, disk
<1>7. QED
    BY <1>1, <1>2, <1>3, <1>4, <1>5, <1>6 DEF Next, Cycle, Backfill

\* Without torn writes and forced backfills every step preserves it.
LEMMA NextSafe == Reliable /\ SafeInv /\ [Next]_vars => SafeInv'
<1>1. Reliable => ~ForceBackfill
    BY DEF Reliable, ForceBackfill, Fault
<1>2. QED
    BY <1>1, StaysWhole, StepSafe

\* SafeInv is an invariant when neither a torn write nor --force can happen.
LEMMA SafeCorrect ==
    ASSUME Reliable
    PROVE  Spec => []SafeInv
<1>1. SafeInv /\ [Next]_vars => SafeInv'
    BY NextSafe
<1>2. QED
    BY <1>1, InitSafe, PTL DEF Spec

\* No usage is lost: with a log that is never torn and no forced backfill,
\* whatever else fails and however often, what lies behind the checkpoint on
\* disk is in the totals that a replay of the log gives.
THEOREM NoUsageLost ==
    ASSUME "tear" \notin Faults, "force" \notin Faults
    PROVE  Spec => []CheckpointIsCounted
<1>1. SafeInv => CheckpointIsCounted
    BY DEF SafeInv, ConfirmedIsCounted, CheckpointIsCounted
<1>2. Reliable
    BY DEF Reliable
<1>3. QED
    BY <1>1, <1>2, SafeCorrect, PTL

-----------------------------------------------------------------------------
(* The exporter implements the ledger.                                     *)

\* Every step is a step of the ledger or leaves it alone.
LEMMA NextLedger ==
    ASSUME Reliable, SafeInv, SafeInv', [Next]_vars
    PROVE  [Ledger!Next]_(Ledger!ledger)
<1> USE DEF Ledger!ledger
<1>1. CASE UNCHANGED <<log, cpDisk, backfilled>>
    BY <1>1 DEF counted
<1>2. CASE AppendLine
    <2>1. UNCHANGED <<cpDisk, backfilled>>
        BY <1>2 DEF AppendLine
    <2>2. counted' \in Ledger!Counts
        <3>1. log' \in Seq(Line)
            BY DEF SafeInv, TypeInv, TypeOK
        <3>2. Index(Zero, log') \in Counts
            BY <3>1, ZeroType, IndexType
        <3>3. QED
            BY <3>2 DEF counted, Replay, Counts, Ledger!Counts
    <2>3. CASE backfilled
        <3>1. Ledger!Raise
            BY <1>2, <2>1, <2>2, <2>3, AppendLineRaises DEF Ledger!Raise
        <3>2. QED
            BY <3>1 DEF Ledger!Next
    <2>4. CASE ~backfilled
        <3>1. Ledger!Build
            BY <2>1, <2>2, <2>4 DEF Ledger!Build
        <3>2. QED
            BY <3>1 DEF Ledger!Next
    <2>5. QED
        BY <2>3, <2>4
<1>3. CASE SaveCheckpoint
    <2>1. cpDisk' = cp \cup Batch /\ backfilled' = TRUE /\ counted' = counted
        BY <1>3 DEF SaveCheckpoint, counted
    <2>2. cpDisk \subseteq cpDisk'
        <3>1. mode = "serve" \/ mode = "backfill"
            BY <1>3 DEF SaveCheckpoint, SafeInv, TypeInv, TypeOK, BetweenBatches
        <3>2. cpDisk \subseteq cp
            BY <3>1 DEF SafeInv, Lifecycle
        <3>3. QED
            BY <2>1, <3>2
    <2>3. cpDisk' \subseteq {e \in Events : counted[e] >= 1}
        BY <2>1 DEF SafeInv, ConfirmedIsCounted, TypeInv, TypeOK
    <2>4. Ledger!Confirm
        BY <2>1, <2>2, <2>3 DEF Ledger!Confirm
    <2>5. QED
        BY <2>4 DEF Ledger!Next
<1>4. ASSUME NEW e \in Events, WriteTranscript(e)
      PROVE  UNCHANGED <<log, cpDisk, backfilled>>
    BY <1>4 DEF WriteTranscript, disk
<1>5. CASE RunServe \/ RunBackfill \/ Tick \/ Collect \/ AppendDone
           \/ AppendRefused \/ CollectFails \/ FsyncFails \/ SaveFails \/ Stop
    <2>1. UNCHANGED disk
        BY <1>5 DEF RunServe, RunBackfill, StartBackfill, Tick, Collect, AppendDone,
           AppendRefused, CollectFails, FsyncFails, SaveFails, Stop
    <2>2. QED
        BY <1>1, <2>1 DEF disk
<1>6. CASE ForceBackfill
    BY <1>6 DEF Reliable, ForceBackfill, Fault
<1>7. CASE WriteFails \/ Crash
    BY <1>1, <1>7, StopsCleanly DEF WriteFails, Crash
<1>8. CASE UNCHANGED vars
    BY <1>1, <1>8 DEF vars, disk
<1>9. QED
    BY <1>1, <1>2, <1>3, <1>4, <1>5, <1>6, <1>7, <1>8 DEF Next, Cycle, Backfill

\* With a log that is never torn and no forced backfill, the exporter
\* implements the ledger: totals that only grow once the history is complete,
\* and a checkpoint that confirms counted events, for good.
THEOREM ImplementsLedger ==
    ASSUME "tear" \notin Faults, "force" \notin Faults
    PROVE  Spec => LedgerSpec
<1>1. Reliable
    BY DEF Reliable
<1>2. Init => Ledger!Init
    <2> SUFFICES ASSUME Init PROVE Ledger!Init
        OBVIOUS
    <2>1. log = <<>> /\ Len(log) = 0 /\ cpDisk = {} /\ backfilled = FALSE
        BY EmptySeq DEF Init
    <2>2. \A e \in Events : Latest(log, e) = {}
        BY <2>1 DEF Latest
    <2>3. counted = [e \in Events |-> 0]
        BY <2>2 DEF counted, Replay, Index, Zero
    <2>4. QED
        BY <2>1, <2>3 DEF Ledger!Init
<1>3. SafeInv /\ SafeInv' /\ [Next]_vars => [Ledger!Next]_(Ledger!ledger)
    BY <1>1, NextLedger
<1>4. Spec => []SafeInv
    BY <1>1, SafeCorrect
<1>5. QED
    BY <1>2, <1>3, <1>4, PTL DEF Spec, LedgerSpec, Ledger!Spec

\* The total that a replay gives an event never goes down once the backfill
\* has completed, across every cycle, failure and restart.
THEOREM TotalsGrow ==
    ASSUME "tear" \notin Faults, "force" \notin Faults
    PROVE  Spec => TotalsNeverDrop
<1>1. Reliable
    BY DEF Reliable
<1>2. SafeInv /\ SafeInv' /\ [Next]_vars
      => [backfilled => \A e \in Events : counted'[e] >= counted[e]]_vars
    <2> SUFFICES ASSUME SafeInv, SafeInv', [Next]_vars, backfilled,
                        NEW e \in Events
                 PROVE  counted'[e] >= counted[e]
        OBVIOUS
    <2>1. counted[e] \in Nat
        <3>1. counted \in Counts
            BY ZeroType, IndexType DEF counted, Replay, SafeInv, TypeInv, TypeOK
        <3>2. QED
            BY <3>1 DEF Counts
    <2>2. [Ledger!Next]_(Ledger!ledger)
        BY <1>1, NextLedger
    <2>3. CASE Ledger!Build \/ Ledger!Raise
        BY <2>3 DEF Ledger!Build, Ledger!Raise
    <2>4. CASE Ledger!Confirm \/ UNCHANGED Ledger!ledger
        <3>1. counted' = counted
            BY <2>4 DEF Ledger!Confirm, Ledger!ledger
        <3>2. QED
            BY <2>1, <3>1
    <2>5. QED
        BY <2>2, <2>3, <2>4 DEF Ledger!Next
<1>3. Spec => []SafeInv
    BY <1>1, SafeCorrect
<1>4. QED
    BY <1>2, <1>3, PTL DEF Spec, TotalsNeverDrop

-----------------------------------------------------------------------------
(* How much the exporter can count too often, under any faults at all.     *)

\* The most often an event may have been counted so far: once for each fault,
\* and once more when it is confirmed or in a batch that may be written.
Bound ==
    [e \in Events |->
        IF e \in cpDisk \/ (~sticky /\ e \in Batch) THEN faults + 1 ELSE faults]

\* Which checkpoint holds what: a cycle of serve starts from everything that
\* is confirmed, and a backfill reads all of it again.
Cursors ==
    /\ cpDisk \subseteq written /\ cp \subseteq written
    /\ mode = "serve" => cpDisk \subseteq cp
    /\ mode = "backfill" => cp = {} /\ (pc = "collect" => acc = Zero)
    /\ mode = "backfill" /\ pc \in {"append", "save"} => cpDisk \subseteq Batch
    /\ Batch \subseteq written
    /\ pc = "save" => ~sticky

\* Totals, samples about to be written and every line of the log, readable or
\* not (a spoiled line uncovers an older one), are within the bound.
Bounded ==
    /\ \A e \in Events : acc[e] =< Bound[e]
    /\ \A i \in 1..Len(log), e \in Events : log[i].counts[e] =< Bound[e]
    /\ ~sticky => \A i \in 1..Len(samples), e \in Events :
                     samples[i].counts[e] =< Bound[e]

OvercountInv == TypeInv /\ Cursors /\ Bounded

-----------------------------------------------------------------------------
(* Types, and the lines of the log.                                        *)

\* The bound is a number.
LEMMA BoundType ==
    ASSUME TypeInv
    PROVE  \A e \in Events : Bound[e] \in Nat
BY DEF TypeInv, TypeOK, Bound

\* (The prime of a number is named by a PICK before it is reckoned with.)
LEMMA NextBoundType ==
    ASSUME faults' \in Nat
    PROVE  \A e \in Events : Bound'[e] \in Nat
<1>1. PICK f \in Nat : f = faults'
    OBVIOUS
<1>2. f + 1 \in Nat
    OBVIOUS
<1>3. \A e \in Events : Bound'[e] = f + 1 \/ Bound'[e] = f
    BY <1>1 DEF Bound
<1>4. QED
    BY <1>2, <1>3

\* The counts of the lines and of the accumulator are numbers.
LEMMA LinesType ==
    ASSUME TypeInv
    PROVE  /\ \A i \in 1..Len(log), e \in Events : log[i].counts[e] \in Nat
           /\ \A i \in 1..Len(samples), e \in Events : samples[i].counts[e] \in Nat
           /\ \A e \in Events : acc[e] \in Nat
<1>1. \A i \in 1..Len(log) : log[i] \in Line
    BY ElementOfSeq DEF TypeInv, TypeOK
<1>2. \A i \in 1..Len(samples) : samples[i] \in Line
    BY ElementOfSeq DEF TypeInv, TypeOK
<1>3. acc \in Counts
    BY DEF TypeInv, TypeOK
<1>4. QED
    BY <1>1, <1>2, <1>3 DEF Line, Counts

\* A replay gives no more than the log holds.
LEMMA ReplayBounded ==
    ASSUME NEW lines \in Seq(Line), NEW e \in Events, NEW b \in Nat,
           \A i \in 1..Len(lines) : lines[i].counts[e] =< b
    PROVE  Replay(lines)[e] =< b
<1>1. CASE Latest(lines, e) = {}
    BY <1>1 DEF Replay, Index, Zero
<1>2. CASE Latest(lines, e) # {}
    <2> DEFINE k == CHOOSE i \in Latest(lines, e) : TRUE
    <2>1. k \in 1..Len(lines)
        BY <1>2 DEF Latest
    <2>2. Replay(lines)[e] = lines[k].counts[e]
        BY <1>2 DEF Replay, Index
    <2>3. QED
        BY <2>1, <2>2
<1>3. QED
    BY <1>1, <1>2

\* The three things that can become of the log.
LogStep ==
    \/ log' = log
    \/ log' = Spoil(log)
    \/ \E line \in Line :
          /\ \A e \in Events : line.counts[e] =< Bound[e]
          /\ log' = Append(log, line)

LogBounded ==
    \A i \in 1..Len(log), e \in Events : log[i].counts[e] =< Bound[e]

\* None of them breaks the bound if the bound does not shrink.
LEMMA LogStepBounded ==
    ASSUME OvercountInv, TypeInv', LogStep,
           \A e \in Events : Bound[e] =< Bound'[e]
    PROVE  LogBounded'
<1>1. \A e \in Events : Bound[e] \in Nat /\ Bound'[e] \in Nat
    <2>1. TypeInv /\ faults' \in Nat
        BY DEF OvercountInv, TypeInv, TypeOK
    <2>2. QED
        BY <2>1, BoundType, NextBoundType
<1>2. log \in Seq(Line) /\ Len(log) \in Nat
    BY LenProperties DEF OvercountInv, TypeInv, TypeOK
<1>3. \A i \in 1..Len(log), e \in Events :
          log[i].counts[e] \in Nat /\ log[i].counts[e] =< Bound'[e]
    BY <1>1, LinesType DEF OvercountInv, Bounded
<1>4. CASE log' = log
    BY <1>3, <1>4 DEF LogBounded
<1>5. CASE log' = Spoil(log)
    <2>1. DOMAIN log' = DOMAIN log /\ log' \in Seq(Line)
        BY <1>5 DEF Spoil, TypeInv, TypeOK
    <2>2. Len(log') = Len(log)
        BY <1>2, <2>1, LenProperties
    <2>3. \A i \in 1..Len(log) : log'[i].counts = log[i].counts
        <3>1. ASSUME NEW i \in 1..Len(log) PROVE log'[i].counts = log[i].counts
            <4>1. log[i] \in Line /\ i \in DOMAIN log
                BY <1>2, ElementOfSeq, LenProperties
            <4>2. log'[i] = IF i = Len(log) THEN [log[i] EXCEPT !.ok = FALSE]
                            ELSE log[i]
                BY <1>5, <4>1 DEF Spoil
            <4>3. QED
                BY <4>1, <4>2 DEF Line
        <3>2. QED
            BY <3>1
    <2>4. QED
        BY <1>3, <2>2, <2>3 DEF LogBounded
<1>6. CASE \E line \in Line :
              /\ \A e \in Events : line.counts[e] =< Bound[e]
              /\ log' = Append(log, line)
    <2>1. PICK line \in Line :
              /\ \A e \in Events : line.counts[e] =< Bound[e]
              /\ log' = Append(log, line)
        BY <1>6
    <2>2. /\ Len(log') = Len(log) + 1 /\ log'[Len(log) + 1] = line
          /\ \A i \in 1..Len(log) : log'[i] = log[i]
        BY <1>2, <2>1, AppendProperties
    <2>3. \A e \in Events : line.counts[e] \in Nat
        BY DEF Line, Counts
    <2>4. ASSUME NEW i \in 1..Len(log'), NEW e \in Events
          PROVE  log'[i].counts[e] =< Bound'[e]
        <3>1. i \in 1..Len(log) \/ i = Len(log) + 1
            BY <1>2, <2>2
        <3>2. QED
            BY <1>1, <1>3, <2>1, <2>2, <2>3, <3>1
    <2>5. QED
        BY <2>4 DEF LogBounded
<1>7. QED
    BY <1>4, <1>5, <1>6 DEF LogStep

\* A torn line is the next line of a batch that is within the bound.
LEMMA StopsHalfwayIsLogStep ==
    ASSUME OvercountInv, StopsHalfway
    PROVE  LogStep
<1>1. CASE UNCHANGED <<log, open>>
    BY <1>1 DEF LogStep
<1>2. CASE ~UNCHANGED <<log, open>>
    <2>1. ~sticky /\ flushed < Len(samples)
        BY <1>2 DEF StopsHalfway
    <2>2. flushed + 1 \in 1..Len(samples) /\ samples[flushed + 1] \in Line
        BY <2>1, ElementOfSeq DEF OvercountInv, TypeInv, TypeOK
    <2>3. CASE open
        BY <1>2, <2>3 DEF StopsHalfway, LogStep
    <2>4. CASE ~open
        <3>1. PICK whole \in BOOLEAN :
                  log' = Append(log, [samples[flushed + 1] EXCEPT !.ok = whole])
            BY <1>2, <2>4 DEF StopsHalfway
        <3> DEFINE line == [samples[flushed + 1] EXCEPT !.ok = whole]
        <3>2. line \in Line /\ line.counts = samples[flushed + 1].counts
            BY <2>2 DEF Line
        <3>3. \A e \in Events : line.counts[e] =< Bound[e]
            BY <2>1, <2>2, <3>2 DEF OvercountInv, Bounded
        <3>4. QED
            BY <3>1, <3>2, <3>3 DEF LogStep
    <2>5. QED
        BY <2>3, <2>4
<1>3. QED
    BY <1>1, <1>2

-----------------------------------------------------------------------------
(* The steps.                                                              *)

\* OvercountInv holds before the first process runs.
LEMMA OvercountInit == Init => OvercountInv
<1> SUFFICES ASSUME Init PROVE OvercountInv
    OBVIOUS
<1>1. samples = <<>> /\ flushed = 0 /\ log = <<>> /\ acc = Zero /\ faults = 0
    BY DEF Init
<1>2. Len(samples) = 0 /\ Len(log) = 0 /\ Batch = {}
    BY <1>1, NoLinesLeft
<1>3. Cursors
    BY <1>2 DEF Init, Cursors
<1>4. Bounded
    BY <1>1, <1>2 DEF Bounded, Bound, Zero
<1>5. QED
    BY <1>3, <1>4, InitType DEF OvercountInv

\* A process that ends leaves only the log to be looked at.
LEMMA ExitBounded ==
    ASSUME OvercountInv, TypeInv', Exit, LogStep,
           cpDisk' \subseteq written', \A e \in Events : Bound[e] =< Bound'[e]
    PROVE  OvercountInv'
<1>1. /\ samples' = <<>> /\ acc' = Zero /\ cp' = {} /\ pc' = "wait"
      /\ mode' = "down"
    BY DEF Exit
<1>2. Len(samples') = 0 /\ Batch' = {}
    BY <1>1, EmptySeq DEF Batch
<1>3. Cursors'
    BY <1>1, <1>2 DEF Cursors
<1>4. faults' \in Nat
    BY DEF TypeInv, TypeOK
<1>5. \A e \in Events : acc'[e] =< Bound'[e]
    <2>1. \A e \in Events : acc'[e] = 0 /\ Bound'[e] \in Nat
        BY <1>1, <1>4, NextBoundType DEF Zero
    <2>2. QED
        BY <2>1
<1>6. Bounded'
    BY <1>2, <1>5, LogStepBounded DEF Bounded, LogBounded
<1>7. QED
    BY <1>3, <1>6 DEF OvercountInv

\* A cycle of serve that ends leaves the log and the accumulator.
LEMMA CycleEndBounded ==
    ASSUME OvercountInv, TypeInv', LogStep,
           samples' = <<>>, pc' = "wait", UNCHANGED <<mode, acc>>, mode # "backfill",
           cpDisk' \subseteq written', cp' \subseteq written',
           mode = "serve" => cpDisk' \subseteq cp',
           \A e \in Events : Bound[e] =< Bound'[e]
    PROVE  OvercountInv'
<1>1. Len(samples') = 0 /\ Batch' = {}
    BY EmptySeq DEF Batch
<1>2. Cursors'
    BY <1>1 DEF Cursors
<1>3. \A e \in Events : Bound[e] \in Nat /\ Bound'[e] \in Nat /\ acc[e] \in Nat
    <2>1. TypeInv /\ faults' \in Nat
        BY DEF OvercountInv, TypeInv, TypeOK
    <2>2. QED
        BY <2>1, BoundType, NextBoundType, LinesType
<1>4. \A e \in Events : acc'[e] =< Bound'[e]
    BY <1>3 DEF OvercountInv, Bounded
<1>5. Bounded'
    BY <1>1, <1>4, LogStepBounded DEF Bounded, LogBounded
<1>6. QED
    BY <1>2, <1>5 DEF OvercountInv

\* One more fault makes up for an event that is no longer in a batch.
LEMMA FaultRaisesBound ==
    ASSUME TypeInv, faults' = faults + 1
    PROVE  \A e \in Events : Bound[e] =< Bound'[e]
<1>1. PICK f \in Nat : f = faults
    BY DEF TypeInv, TypeOK
<1>2. \A e \in Events : Bound[e] = f + 1 \/ Bound[e] = f
    BY <1>1 DEF Bound
<1>3. \A e \in Events : Bound'[e] = (f + 1) + 1 \/ Bound'[e] = f + 1
    BY <1>1 DEF Bound
<1>4. QED
    BY <1>2, <1>3

\* A failed step: a fault, or a writer that has stored nothing.
LEMMA AbandonBounded ==
    ASSUME OvercountInv, TypeInv', Abandon, LogStep,
           UNCHANGED <<written, cpDisk>>,
           \A e \in Events : Bound[e] =< Bound'[e]
    PROVE  OvercountInv'
<1>1. CASE mode = "backfill"
    BY <1>1, ExitBounded DEF Abandon, OvercountInv, Cursors
<1>2. CASE mode # "backfill"
    BY <1>2, CycleEndBounded DEF Abandon, OvercountInv, Cursors
<1>3. QED
    BY <1>1, <1>2

\* Collecting puts into the batch only what is not confirmed.
LEMMA CollectBounded == OvercountInv /\ TypeInv' /\ Collect => OvercountInv'
<1> SUFFICES ASSUME OvercountInv, TypeInv', Collect PROVE OvercountInv'
    OBVIOUS
<1> DEFINE S == written \ cp
<1>1. PICK q \in Sorted(S) :
          samples' = ApplyAll(acc, q)
          /\ acc' = IF sticky THEN acc ELSE Totals(acc, q)
    BY DEF Collect
<1>2. S \in SUBSET Events /\ acc \in Counts /\ faults \in Nat
    BY DEF OvercountInv, TypeInv, TypeOK
<1>3. /\ UNCHANGED <<written, log, cpDisk, mode, cp, sticky, faults>>
      /\ pc = "collect" /\ pc' = "append" /\ mode # "down"
    BY DEF Collect, disk
<1>4. Batch = {}
    BY <1>3, NoLinesLeft DEF OvercountInv, TypeInv, BetweenBatches
<1>5. q \in Seq(S) /\ DOMAIN q = 1..Len(q) /\ Len(samples') = Len(q)
      /\ \A e \in S : \E i \in 1..Len(q) : q[i] = e
    BY <1>1, <1>2, SortedType, ApplyType
<1>6. \A i \in 1..Len(q) : samples'[i].event = q[i] /\ q[i] \in S
    BY <1>1, <1>5 DEF ApplyAll
<1>7. Batch' = S
    BY <1>5, <1>6 DEF Batch
<1>8. Cursors'
    BY <1>3, <1>7 DEF OvercountInv, Cursors
<1>9. \A e \in Events : Bound[e] =< Bound'[e]
    BY <1>2, <1>3, <1>4 DEF Bound
<1>10. mode = "serve" => S \cap cpDisk = {}
    BY DEF OvercountInv, Cursors
<1>11. ASSUME NEW e \in S PROVE acc[e] =< faults
    <2>1. CASE mode = "serve"
        <3>1. Bound[e] = faults
            BY <1>2, <1>4, <1>10, <1>11, <2>1 DEF Bound
        <3>2. QED
            BY <1>2, <1>11, <3>1 DEF OvercountInv, Bounded
    <2>2. CASE mode = "backfill"
        BY <1>2, <1>3, <1>11, <2>2 DEF OvercountInv, Cursors, Zero
    <2>3. QED
        BY <1>3, <2>1, <2>2 DEF OvercountInv, TypeInv, TypeOK
<1>12. \A e \in Events : acc[e] \in Nat /\ Bound[e] \in Nat /\ acc[e] =< Bound[e]
    BY BoundType, LinesType DEF OvercountInv, Bounded
<1>13. \A e \in Events : Bound'[e] \in Nat
    BY <1>2, <1>3, NextBoundType
<1>14. ASSUME ~sticky, NEW e \in Events PROVE Totals(acc, q)[e] =< Bound'[e]
    <2>1. CASE e \in S
        <3>1. Bound'[e] = faults + 1
            BY <1>3, <1>7, <1>14, <2>1 DEF Bound
        <3>2. Totals(acc, q)[e] = acc[e] + 1
            BY <1>5, <2>1 DEF Totals
        <3>3. QED
            BY <1>2, <1>11, <1>12, <2>1, <3>1, <3>2
    <2>2. CASE e \notin S
        <3>1. Totals(acc, q)[e] = acc[e]
            BY <1>5, <1>6, <2>2 DEF Totals
        <3>2. QED
            BY <1>9, <1>12, <1>13, <3>1
    <2>3. QED
        BY <2>1, <2>2
<1>15. \A e \in Events : acc'[e] =< Bound'[e]
    <2>1. CASE sticky
        BY <1>1, <1>9, <1>12, <1>13, <2>1
    <2>2. CASE ~sticky
        BY <1>1, <1>14, <2>2
    <2>3. QED
        BY <2>1, <2>2
<1>16. ASSUME ~sticky', NEW i \in 1..Len(samples'), NEW e \in Events
       PROVE  samples'[i].counts[e] =< Bound'[e]
    <2>1. samples'[i].counts[e] =< Totals(acc, q)[e]
        BY <1>1, <1>2, ApplyAllClimbs
    <2>2. Totals(acc, q)[e] =< Bound'[e]
        BY <1>3, <1>14, <1>16
    <2>3. Totals(acc, q)[e] \in Nat
        BY <1>2, ApplyType DEF Counts
    <2>4. samples'[i].counts[e] \in Nat
        <3>1. samples'[i] \in Line
            BY ElementOfSeq DEF TypeInv, TypeOK
        <3>2. QED
            BY <3>1 DEF Line, Counts
    <2>5. QED
        BY <1>13, <2>1, <2>2, <2>3, <2>4
<1>17. LogBounded'
    BY <1>3, <1>9, LogStepBounded DEF LogStep
<1>18. QED
    BY <1>8, <1>15, <1>16, <1>17 DEF OvercountInv, Bounded, LogBounded

\* Every action keeps the bound.
LEMMA OvercountNext == OvercountInv /\ [Next]_vars => OvercountInv'
<1> SUFFICES ASSUME OvercountInv, [Next]_vars PROVE OvercountInv'
    OBVIOUS
<1>1. TypeInv /\ TypeInv' /\ Cursors /\ Bounded
    BY NextType DEF OvercountInv
<1>2. \A e \in Events : /\ Bound[e] \in Nat /\ Bound[e] >= Bound[e]
                        /\ acc[e] \in Nat
    BY <1>1, BoundType, LinesType
<1>3. ASSUME NEW e \in Events, WriteTranscript(e) PROVE OvercountInv'
    <2>1. Cursors'
        BY <1>1, <1>3 DEF WriteTranscript, disk, memory, Cursors, Batch
    <2>2. Bounded'
        BY <1>1, <1>3 DEF WriteTranscript, disk, memory, Bounded, Bound, Batch
    <2>3. QED
        BY <1>1, <2>1, <2>2 DEF OvercountInv
<1>4. mode = "down" => samples = <<>> /\ Len(samples) = 0 /\ Batch = {}
    BY <1>1, NoLinesLeft DEF TypeInv, BetweenBatches
<1>5. ASSUME UNCHANGED <<cpDisk, faults>>, Batch' = {}, sticky \/ Batch = {}
      PROVE  \A e \in Events : Bound'[e] = Bound[e]
    BY <1>5 DEF Bound
<1>6. ASSUME UNCHANGED <<written, log, cpDisk, samples, sticky>>, pc' = "collect",
             mode' \in {"serve", "backfill"}, mode = "down",
             \A e \in Events : Bound[e] =< Bound'[e] /\ acc'[e] =< Bound'[e],
             mode' = "serve" => cp' = cpDisk,
             mode' = "backfill" => cp' = {} /\ acc' = Zero
      PROVE  OvercountInv'
    <2>1. Len(samples') = 0 /\ Batch' = {}
        BY <1>4, <1>6 DEF Batch
    <2>2. Cursors'
        BY <1>1, <1>6, <2>1 DEF Cursors
    <2>3. LogBounded'
        BY <1>1, <1>6, LogStepBounded DEF LogStep
    <2>4. QED
        BY <1>1, <1>6, <2>1, <2>2, <2>3 DEF OvercountInv, Bounded, LogBounded
<1>7. CASE RunServe
    <2>1. /\ mode = "down" /\ mode' = "serve" /\ pc' = "collect"
          /\ acc' = Replay(log) /\ cp' = cpDisk
          /\ UNCHANGED <<written, log, cpDisk, samples, sticky, faults>>
        BY <1>7 DEF RunServe, disk
    <2>2. Bound' = Bound
        BY <2>1 DEF Bound, Batch
    <2>3. \A e \in Events : acc'[e] =< Bound'[e]
        BY <1>1, <1>2, <2>1, <2>2, ReplayBounded DEF Bounded, TypeInv, TypeOK
    <2>4. QED
        BY <1>2, <1>6, <2>1, <2>2, <2>3
<1>8. ASSUME StartBackfill, \A e \in Events : Bound[e] =< Bound'[e], faults' \in Nat
      PROVE  OvercountInv'
    <2>1. \A e \in Events : acc'[e] = 0 /\ Bound'[e] \in Nat
        BY <1>8, NextBoundType DEF StartBackfill, Zero
    <2>2. \A e \in Events : acc'[e] =< Bound'[e]
        BY <2>1
    <2>3. QED
        BY <1>6, <1>8, <2>2 DEF StartBackfill, disk
<1>9. CASE RunBackfill
    <2>1. Bound' = Bound
        BY <1>9 DEF RunBackfill, StartBackfill, disk, Bound, Batch
    <2>2. QED
        BY <1>1, <1>2, <1>8, <1>9, <2>1 DEF RunBackfill, TypeInv, TypeOK
<1>10. CASE ForceBackfill
    <2>1. faults' = faults + 1 /\ faults' \in Nat
        BY <1>1, <1>10 DEF ForceBackfill, Fault, TypeInv, TypeOK
    <2>2. QED
        BY <1>1, <1>8, <1>10, <2>1, FaultRaisesBound DEF ForceBackfill
<1>11. ASSUME UNCHANGED <<written, log, cpDisk, mode, acc, cp, samples, sticky, faults>>,
              pc' = "collect" => mode = "serve",
              pc' \in {"append", "save"} => pc = "append" /\ ~sticky
       PROVE  OvercountInv'
    <2>1. Batch' = Batch
        BY <1>11 DEF Batch
    <2>2. Bound' = Bound
        BY <1>11, <2>1 DEF Bound
    <2>3. Cursors'
        BY <1>1, <1>11, <2>1 DEF Cursors, TypeInv, TypeOK
    <2>4. QED
        BY <1>1, <1>11, <2>2, <2>3 DEF OvercountInv, Bounded
<1>12. CASE Tick
    BY <1>11, <1>12 DEF Tick, disk
<1>13. CASE AppendDone
    BY <1>11, <1>13 DEF AppendDone, disk
<1>14. CASE Collect
    BY <1>1, <1>14, CollectBounded
<1>15. CASE AppendLine
    <2>1. /\ UNCHANGED <<written, cpDisk, mode, pc, acc, cp, samples, sticky, faults>>
          /\ ~sticky /\ flushed < Len(samples)
        BY <1>15 DEF AppendLine
    <2>2. Batch' = Batch /\ Bound' = Bound
        BY <2>1 DEF Batch, Bound
    <2>3. flushed + 1 \in 1..Len(samples) /\ samples[flushed + 1] \in Line
        BY <1>1, <2>1, ElementOfSeq DEF TypeInv, TypeOK
    <2>4. LogStep
        BY <1>1, <1>15, <2>1, <2>3 DEF AppendLine, LogStep, Bounded
    <2>5. LogBounded'
        BY <1>1, <1>2, <2>2, <2>4, LogStepBounded
    <2>6. Cursors'
        BY <1>1, <2>1, <2>2 DEF Cursors
    <2>7. QED
        BY <1>1, <2>1, <2>2, <2>5, <2>6 DEF OvercountInv, Bounded, LogBounded
<1>16. CASE AppendRefused
    <2>1. /\ UNCHANGED <<written, log, cpDisk, faults>> /\ sticky /\ Abandon
        BY <1>16 DEF AppendRefused, disk
    <2>2. samples' = <<>>
        BY <2>1 DEF Abandon, Exit
    <2>3. Batch' = {}
        BY <2>2, EmptySeq DEF Batch
    <2>4. \A e \in Events : Bound[e] =< Bound'[e]
        BY <1>2, <1>5, <2>1, <2>3
    <2>5. QED
        BY <1>1, <2>1, <2>4, AbandonBounded DEF LogStep
<1>17. ASSUME pc = "save" PROVE mode # "down" /\ ~sticky
    BY <1>1, <1>17 DEF TypeInv, BetweenBatches, Cursors
<1>18. CASE SaveCheckpoint
    <2>1. /\ UNCHANGED <<written, log, faults>> /\ pc = "save" /\ mode # "down"
          /\ cpDisk' = cp \cup Batch /\ ~sticky
        BY <1>17, <1>18 DEF SaveCheckpoint
    <2>2. cpDisk' \subseteq written' /\ cpDisk \cup Batch \subseteq cpDisk'
        BY <1>1, <2>1 DEF Cursors, TypeInv, TypeOK
    <2>3. \A e \in Events : Bound[e] =< Bound'[e]
        <3>1. PICK f \in Nat : f = faults
            BY <1>1 DEF TypeInv, TypeOK
        <3>2. \A e \in Events : Bound[e] = IF e \in cpDisk \cup Batch THEN f + 1 ELSE f
            BY <2>1, <3>1 DEF Bound
        <3>3. \A e \in Events : /\ Bound'[e] = f + 1 \/ Bound'[e] = f
                                /\ e \in cpDisk' => Bound'[e] = f + 1
            BY <2>1, <3>1 DEF Bound
        <3>4. QED
            BY <2>2, <3>2, <3>3
    <2>4. CASE mode = "backfill"
        BY <1>18, <2>1, <2>2, <2>3, <2>4, ExitBounded, <1>1 DEF SaveCheckpoint, LogStep
    <2>5. CASE mode # "backfill"
        <3>1. /\ cp' = cp \cup Batch /\ pc' = "wait" /\ samples' = <<>>
              /\ UNCHANGED <<mode, acc>>
            BY <1>18, <2>5 DEF SaveCheckpoint
        <3>2. QED
            BY <1>1, <2>1, <2>2, <2>3, <2>5, <3>1, CycleEndBounded DEF LogStep
    <2>6. QED
        BY <2>4, <2>5
<1>19. ASSUME faults' = faults + 1 PROVE \A e \in Events : Bound[e] =< Bound'[e]
    BY <1>1, <1>19, FaultRaisesBound
<1>20. CASE SaveFails
    <2>1. /\ UNCHANGED <<written, log, cpDisk>> /\ pc = "save" /\ mode # "down"
          /\ faults' = faults + 1
        BY <1>17, <1>20 DEF SaveFails, Fault, disk
    <2>2. CASE mode = "backfill"
        BY <1>1, <1>19, <1>20, <2>1, <2>2, ExitBounded DEF SaveFails, LogStep, Cursors
    <2>3. CASE mode # "backfill"
        <3>1. /\ cp' = cp \cup Batch /\ pc' = "wait" /\ samples' = <<>>
              /\ UNCHANGED <<mode, acc>>
            BY <1>20, <2>3 DEF SaveFails
        <3>2. mode = "serve"
            BY <1>1, <2>1, <2>3 DEF TypeInv, TypeOK
        <3>3. /\ cpDisk' \subseteq written' /\ cp' \subseteq written'
              /\ cpDisk' \subseteq cp'
            BY <1>1, <2>1, <3>1, <3>2 DEF Cursors
        <3>4. QED
            BY <1>1, <1>19, <2>1, <2>3, <3>1, <3>3, CycleEndBounded DEF LogStep
    <2>4. QED
        BY <2>2, <2>3
<1>21. CASE CollectFails
    BY <1>1, <1>19, <1>21, AbandonBounded DEF CollectFails, Fault, LogStep, disk
<1>22. CASE WriteFails
    BY <1>1, <1>19, <1>22, AbandonBounded, StopsHalfwayIsLogStep DEF WriteFails, Fault
<1>23. CASE FsyncFails
    BY <1>1, <1>19, <1>23, AbandonBounded DEF FsyncFails, Fault, LogStep, disk
<1>24. CASE Stop
    <2>1. /\ UNCHANGED <<written, log, cpDisk, faults>> /\ pc = "wait" /\ Exit
        BY <1>24 DEF Stop, disk
    <2>2. Batch = {} /\ Batch' = {}
        BY <1>1, <2>1, NoLinesLeft, EmptySeq DEF TypeInv, BetweenBatches, Batch, Exit
    <2>3. \A e \in Events : Bound[e] =< Bound'[e]
        BY <1>2, <1>5, <2>1, <2>2
    <2>4. QED
        BY <1>1, <2>1, <2>3, ExitBounded DEF LogStep, Cursors
<1>25. CASE Crash
    BY <1>1, <1>19, <1>25, ExitBounded, StopsHalfwayIsLogStep DEF Crash, Fault, Cursors
<1>26. CASE UNCHANGED vars
    <2>1. Batch' = Batch /\ Bound' = Bound
        BY <1>26 DEF vars, disk, memory, Batch, Bound
    <2>2. QED
        BY <1>1, <1>26, <2>1 DEF vars, disk, memory, OvercountInv, Cursors, Bounded
<1>27. QED
    BY <1>3, <1>7, <1>9, <1>10, <1>12, <1>13, <1>14, <1>15, <1>16, <1>18, <1>20,
       <1>21, <1>22, <1>23, <1>24, <1>25, <1>26 DEF Next, Cycle, Backfill

\* What OvercountInv is for.
LEMMA OvercountSuffices == OvercountInv => OvercountIsBounded
<1> SUFFICES ASSUME OvercountInv, NEW e \in Events
             PROVE  counted[e] =< 1 + faults
    BY DEF OvercountIsBounded
<1>1. counted[e] =< Bound[e] /\ counted[e] \in Nat /\ Bound[e] \in Nat
    <2>1. Bound[e] \in Nat /\ log \in Seq(Line)
        BY BoundType DEF OvercountInv, TypeInv, TypeOK
    <2>2. counted \in Counts
        BY <2>1, ZeroType, IndexType DEF counted, Replay
    <2>3. QED
        BY <2>1, <2>2, ReplayBounded DEF OvercountInv, Bounded, counted, Counts
<1>2. faults \in Nat /\ (Bound[e] = faults \/ Bound[e] = faults + 1)
    BY DEF Bound, OvercountInv, TypeInv, TypeOK
<1>3. QED
    BY <1>1, <1>2

\* Whatever fails, in whatever order and however often, no event is counted
\* more than once per fault and once besides; without faults, once at most.
THEOREM OvercountBounded == Spec => []OvercountIsBounded
BY OvercountSuffices, OvercountInit, OvercountNext, PTL DEF Spec
=============================================================================
