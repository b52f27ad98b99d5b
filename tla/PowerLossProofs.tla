-------------------------- MODULE PowerLossProofs ---------------------------
(* Theorems about PowerLoss, for every set of events, series, timestamps    *)
(* and number of faults, torn writes and forced backfills included.         *)
EXTENDS PowerLoss, ExporterProofs

-----------------------------------------------------------------------------
\* The first n lines of the log.
Prefix(n) == SubSeq(log, 1, n)

\* The log begins with what was synced, and whatever checkpoint a power failure
\* may bring back, its events are counted in every part of the log that may
\* come back with it.
Durable ==
    /\ Len(synced.lines) \in 0..Len(log)
    /\ synced.lines = Prefix(Len(synced.lines))
    /\ synced.open = FALSE
    /\ pc = "save" => Len(synced.lines) = Len(log)
    /\ \A i \in images :
          /\ i.events \subseteq Events /\ i.done \in BOOLEAN
          /\ ~i.done => i.events = {}
          /\ ~backfilled => i.events = {}
          /\ \A e \in i.events, n \in Len(synced.lines)..Len(log) :
                Replay(Prefix(n))[e] >= 1

\* Once a line was torn or a backfill forced nothing is claimed any more.
PowerInv == harmed \in BOOLEAN /\ (harmed = FALSE => SafeInv /\ Durable)

\* A whole sequence is its longest prefix, and appending leaves prefixes alone.
LEMMA Prefixes ==
    ASSUME NEW lines \in Seq(Line)
    PROVE  /\ SubSeq(lines, 1, Len(lines)) = lines
           /\ \A n \in 0..Len(lines) :
                 /\ SubSeq(lines, 1, n) \in Seq(Line) /\ Len(SubSeq(lines, 1, n)) = n
                 /\ \A l \in Line :
                       SubSeq(Append(lines, l), 1, n) = SubSeq(lines, 1, n)
<1>1. Len(lines) \in Nat /\ lines = [i \in 1..Len(lines) |-> lines[i]]
    OBVIOUS
<1>2. ASSUME NEW n \in 0..Len(lines)
      PROVE  /\ SubSeq(lines, 1, n) \in Seq(Line) /\ Len(SubSeq(lines, 1, n)) = n
             /\ SubSeq(lines, 1, n) = [i \in 1..n |-> lines[i]]
    <2>1. n \in Int /\ n >= 0 /\ \A i \in 1..n : i \in 1..Len(lines)
        BY <1>1
    <2>2. \A i \in 1..n : lines[i] \in Line
        BY <2>1, ElementOfSeq
    <2>3. QED
        BY <2>1, <2>2, SubSeqProperties
<1>3. Len(lines) \in 0..Len(lines)
    BY <1>1
<1>4. ASSUME NEW n \in 0..Len(lines), NEW l \in Line
      PROVE  SubSeq(Append(lines, l), 1, n) = SubSeq(lines, 1, n)
    <2>1. \A i \in 1..n : i \in 1..Len(lines)
        BY <1>1
    <2>2. \A i \in 1..n : Append(lines, l)[i] = lines[i]
        BY <2>1, AppendProperties
    <2>3. SubSeq(Append(lines, l), 1, n) = [i \in 1..n |-> Append(lines, l)[i]]
        BY <1>1, AppendProperties
    <2>4. QED
        BY <1>2, <2>2, <2>3
<1>5. QED
    BY <1>1, <1>2, <1>3, <1>4

\* The machine starts with nothing that could be lost.
LEMMA PowerInitInv == PowerInit => PowerInv
<1> SUFFICES ASSUME PowerInit PROVE PowerInv
    OBVIOUS
<1>1. /\ harmed = FALSE /\ log = <<>> /\ open = FALSE
      /\ synced = [lines |-> log, open |-> open] /\ images = {NoFile}
      /\ pc = "wait"
    BY DEF PowerInit, Init
<1>2. Len(log) = 0 /\ log \in Seq(Line)
    BY <1>1, EmptySeq
<1>3. synced.lines = Prefix(Len(synced.lines)) /\ Len(synced.lines) = 0
    BY <1>1, <1>2, Prefixes DEF Prefix
<1>4. Durable
    BY <1>1, <1>2, <1>3 DEF Durable, NoFile, Image
<1>5. SafeInv
    BY InitSafe DEF PowerInit
<1>6. QED
    BY <1>1, <1>4, <1>5 DEF PowerInv

\* A step that leaves the log and what is known of it alone keeps it durable, if
\* it does not end an append.
LEMMA StaysDurable ==
    ASSUME Durable, UNCHANGED <<log, synced, images>>,
           pc' = "save" => pc = "save", backfilled => backfilled'
    PROVE  Durable'
BY DEF Durable, Prefix

\* So does the next line of a batch: no checkpoint there may be loses an event
\* by it.
LEMMA AppendDurable ==
    ASSUME SafeInv, Durable, AppendLine, UNCHANGED <<synced, images>>
    PROVE  Durable'
<1>1. /\ log \in Seq(Line) /\ Len(log) \in Nat /\ open = FALSE
      /\ pc' = "append" /\ backfilled' = backfilled
    BY DEF SafeInv, TypeInv, TypeOK, Lifecycle, AppendLine
<1> DEFINE l == samples[flushed + 1]
<1>2. l \in Line /\ log' = Append(log, l)
    BY <1>1, AppendLineCounts DEF AppendLine
<1>3. Len(log') = Len(log) + 1 /\ log' \in Seq(Line)
    BY <1>1, <1>2, AppendProperties
<1>4. \A n \in 0..Len(log) : Prefix(n)' = Prefix(n)
    BY <1>1, <1>2, Prefixes DEF Prefix
<1>5. Len(synced.lines) \in 0..Len(log) /\ Len(synced.lines) \in 0..Len(log')
    BY <1>1, <1>3 DEF Durable
<1>6. ASSUME NEW i \in images, NEW e \in i.events,
             NEW n \in Len(synced.lines)..Len(log')
      PROVE  Replay(Prefix(n)')[e] >= 1
    <2>1. CASE n \in Len(synced.lines)..Len(log)
        <3>1. n \in 0..Len(log)
            BY <1>1, <1>5, <2>1
        <3>2. QED
            BY <1>4, <2>1, <3>1 DEF Durable
    <2>2. CASE n \notin Len(synced.lines)..Len(log)
        <3>1. n = Len(log')
            BY <1>1, <1>3, <1>5, <2>2
        <3>2. Prefix(n)' = log'
            BY <1>3, <3>1, Prefixes DEF Prefix
        <3>3. e \in Events /\ backfilled
            BY DEF Durable
        <3>4. Len(log) \in Len(synced.lines)..Len(log)
            BY <1>1, <1>5
        <3>5. Replay(log)[e] >= 1
            BY <1>1, <3>4, Prefixes DEF Durable, Prefix
        <3>6. counted'[e] >= counted[e]
            BY <3>3, AppendLineRaises
        <3>7. counted[e] \in Nat /\ counted'[e] \in Nat
            BY <1>1, <1>3, <3>3, ZeroType, IndexType DEF counted, Replay, Counts
        <3>8. QED
            BY <3>2, <3>5, <3>6, <3>7 DEF counted
    <2>3. QED
        BY <2>1, <2>2
<1>7. QED
    BY <1>1, <1>4, <1>5, <1>6 DEF Durable

\* What the fsync leaves to lose is nothing.
LEMMA SyncDurable ==
    ASSUME SafeInv, Durable, Synced, UNCHANGED images
    PROVE  Durable'
<1>1. /\ log' = log /\ open' = FALSE /\ backfilled' = backfilled
      /\ synced'.lines = log /\ synced'.open = FALSE
    BY DEF Synced, AppendDone, disk, SafeInv, Lifecycle
<1>2. log \in Seq(Line) /\ Len(log) \in Nat
    BY DEF SafeInv, TypeInv, TypeOK
<1>3. /\ Len(synced'.lines) \in 0..Len(log') /\ SubSeq(log, 1, Len(log)) = log
      /\ \A n \in Len(synced'.lines)..Len(log') : n \in Len(log)..Len(log)
    BY <1>1, <1>2, Prefixes
<1>4. ASSUME NEW i \in images, NEW e \in i.events, NEW n \in Len(log)..Len(log)
      PROVE  Replay(Prefix(n))[e] >= 1
    <2>1. n \in Len(synced.lines)..Len(log)
        BY <1>2 DEF Durable
    <2>2. QED
        BY <2>1 DEF Durable
<1>5. QED
    BY <1>1, <1>3, <1>4 DEF Durable, Prefix

\* A checkpoint is only saved when all it covers is synced.
LEMMA RenameDurable ==
    ASSUME SafeInv, SafeInv', Durable, Renamed, UNCHANGED synced
    PROVE  Durable'
<1>1. /\ log' = log /\ pc = "save" /\ backfilled' = TRUE
      /\ images' = images \cup {Image(cpDisk', TRUE), EmptyFile}
      /\ Len(synced.lines) = Len(log) /\ pc' = "wait"
    BY DEF Renamed, SaveCheckpoint, Exit, Durable
<1>2. log \in Seq(Line) /\ Len(log) \in Nat /\ cpDisk' \subseteq Events
    BY DEF SafeInv, TypeInv, TypeOK
<1>3. ASSUME NEW e \in cpDisk', NEW n \in Len(synced.lines)..Len(log)
      PROVE  Replay(Prefix(n))[e] >= 1
    <2>1. n = Len(log)
        BY <1>1, <1>2
    <2>2. Prefix(n) = log
        BY <1>2, <2>1, Prefixes DEF Prefix
    <2>3. Replay(log)[e] >= 1
        BY <1>1 DEF SafeInv, ConfirmedIsCounted, counted
    <2>4. QED
        BY <2>2, <2>3
<1>4. \A n : Prefix(n)' = Prefix(n)
    BY <1>1 DEF Prefix
<1>5. ASSUME NEW i \in images'
      PROVE  /\ i.events \subseteq Events /\ i.done \in BOOLEAN
             /\ ~i.done => i.events = {}
             /\ \A e \in i.events, n \in Len(synced.lines)..Len(log) :
                   Replay(Prefix(n))[e] >= 1
    <2>1. CASE i \in images
        BY <2>1 DEF Durable
    <2>2. CASE i = Image(cpDisk', TRUE)
        <3>1. i.events = cpDisk' /\ i.done = TRUE
            BY <2>2 DEF Image
        <3>2. QED
            BY <1>2, <1>3, <3>1
    <2>3. CASE i = EmptyFile
        BY <2>3 DEF EmptyFile
    <2>4. QED
        BY <1>1, <2>1, <2>2, <2>3
<1>6. QED
    BY <1>1, <1>4, <1>5 DEF Durable

\* A power failure that tears no line leaves a state like any other: the
\* checkpoint that came back is counted in the log that came back.
LEMMA PowerFailsSafe ==
    ASSUME SafeInv, Durable, PowerFails, open' = FALSE
    PROVE  SafeInv' /\ Durable'
<1>1. /\ log \in Seq(Line) /\ Len(log) \in Nat
      /\ Len(synced.lines) \in 0..Len(log)
    BY DEF SafeInv, TypeInv, TypeOK, Durable
<1>2. PICK n \in Len(synced.lines)..Len(log) : log' = Prefix(n)
    <2>1. CASE log' = synced.lines
        BY <1>1, <2>1 DEF Durable
    <2>2. CASE log' # synced.lines
        BY <2>2 DEF PowerFails, LeavesLog, Prefix
    <2>3. QED
        BY <2>1, <2>2
<1>3. PICK i \in images :
          /\ cpDisk' = i.events /\ backfilled' = i.done /\ images' = {i}
    BY DEF PowerFails
<1>4. log' \in Seq(Line) /\ Len(log') = n /\ n \in Nat
    BY <1>1, <1>2, Prefixes DEF Prefix
<1>5. Exit /\ UNCHANGED written /\ faults' = faults + 1
      /\ synced'.lines = log' /\ synced'.open = FALSE
    BY DEF PowerFails
<1>6. /\ cpDisk' \subseteq Events /\ backfilled' \in BOOLEAN
      /\ ~backfilled' => cpDisk' = {}
      /\ \A e \in cpDisk' : Replay(log')[e] >= 1
    BY <1>2, <1>3 DEF Durable
<1>7. TypeInv'
    <2>1. 0 \in 0..Len(<<>>)
        BY EmptySeq
    <2>2. written' \in SUBSET Events /\ faults' \in Nat
        BY <1>5 DEF SafeInv, TypeInv, TypeOK
    <2>2a. TypeOK'
        BY <1>4, <1>5, <1>6, <2>1, <2>2, ExitType, open' = FALSE DEF TypeOK
    <2>3. BetweenBatches'
        BY <1>5 DEF Exit, BetweenBatches
    <2>4. QED
        BY <2>2a, <2>3 DEF TypeInv
<1>8. samples' = <<>> /\ flushed' = 0 /\ cp' = {} /\ mode' = "down" /\ pc' = "wait"
    BY <1>5 DEF Exit
<1>9. Lifecycle'
    BY <1>6, <1>8 DEF Lifecycle
<1>10. BatchClimbs' /\ SeededAhead' /\ ConfirmedIsCounted'
    <2>1. Len(samples') = 0 /\ 1..flushed' = {}
        BY <1>8, EmptySeq
    <2>2. QED
        BY <1>6, <1>8, <2>1
        DEF BatchClimbs, Climbs, SeededAhead, ConfirmedIsCounted, counted
<1>11. Durable'
    <2>1. /\ SubSeq(log', 1, Len(log')) = log'
          /\ Len(synced'.lines) \in 0..Len(log')
          /\ \A m \in Len(synced'.lines)..Len(log') : m = Len(log')
        BY <1>4, <1>5, Prefixes
    <2>2. /\ i.events \subseteq Events /\ i.done \in BOOLEAN
          /\ ~i.done => i.events = {}
        BY DEF Durable
    <2>3. ASSUME NEW e \in i.events, NEW m \in Len(synced'.lines)..Len(log')
          PROVE  Replay(SubSeq(log', 1, m))[e] >= 1
        BY <1>3, <1>6, <2>1
    <2>4. QED
        BY <1>3, <1>5, <1>8, <2>1, <2>2, <2>3 DEF Durable, Prefix
<1>12. QED
    BY <1>7, <1>9, <1>10, <1>11 DEF SafeInv

\* The steps that are not treated above are steps of Exporter, and no backfill
\* begins with them.
LEMMA OtherwiseSafe ==
    ASSUME SafeInv, Otherwise, open' = FALSE
    PROVE  /\ SafeInv'
           /\ \/ AppendLine
              \/ UNCHANGED <<log, backfilled>> /\ (pc' = "save" => pc = "save")
<1>1. Next
    BY DEF Otherwise, Next, Cycle
<1>2. /\ mode = "down" => pc = "wait"
      /\ mode \in {"down", "serve", "backfill"}
    BY DEF SafeInv, TypeInv, TypeOK, BetweenBatches
<1>3. CASE \E e \in Events : WriteTranscript(e)
    <2>1. mode' = mode /\ UNCHANGED <<log, backfilled, pc>>
        BY <1>3 DEF WriteTranscript, disk, memory
    <2>2. ~ForceBackfill
        BY <2>1 DEF ForceBackfill, StartBackfill
    <2>3. QED
        BY <1>1, <2>1, <2>2, StepSafe
<1>4. CASE Tick \/ Collect \/ AppendRefused \/ CollectFails \/ FsyncFails
           \/ SaveFails \/ Stop
    <2>1. UNCHANGED disk /\ mode # "down" /\ pc' # "save"
        BY <1>2, <1>4 DEF Tick, Collect, AppendRefused, CollectFails, FsyncFails,
           SaveFails, Stop, Abandon, Exit
    <2>2. ~ForceBackfill
        BY <2>1 DEF ForceBackfill, StartBackfill
    <2>3. QED
        BY <1>1, <2>1, <2>2, StepSafe DEF disk
<1>5. CASE WriteFails \/ Crash
    <2>1. UNCHANGED <<log, backfilled>> /\ mode # "down" /\ pc' # "save"
        BY <1>2, <1>5, StopsWhole DEF WriteFails, Crash, Abandon, Exit
    <2>2. ~ForceBackfill
        BY <2>1 DEF ForceBackfill, StartBackfill
    <2>3. QED
        BY <1>1, <2>1, <2>2, StepSafe
<1>6. CASE AppendLine
    <2>1. ~ForceBackfill
        BY <1>6 DEF AppendLine, ForceBackfill, StartBackfill
    <2>2. QED
        BY <1>1, <1>6, <2>1, StepSafe
<1>7. QED
    BY <1>3, <1>4, <1>5, <1>6 DEF Otherwise

\* A step either harms the log or keeps what may be lost out of the checkpoints.
LEMMA PowerNextInv == PowerInv /\ [PowerNext]_<<vars, power>> => PowerInv'
<1> SUFFICES ASSUME PowerInv, [PowerNext]_<<vars, power>>
             PROVE  /\ harmed' \in BOOLEAN
                    /\ harmed' = FALSE => SafeInv' /\ Durable'
    BY DEF PowerInv
<1>1. harmed \in BOOLEAN /\ (harmed = FALSE => SafeInv /\ Durable)
    BY DEF PowerInv
<1>2. SafeInv => open = FALSE
    BY DEF SafeInv, Lifecycle
<1>3. CASE Start
    <2>1. CASE RunServe /\ UNCHANGED harmed
        <3>1. Next /\ ~ForceBackfill /\ UNCHANGED <<disk, synced, images>>
              /\ pc' = "collect"
            BY <1>3, <2>1 DEF Start, Next, RunServe, ForceBackfill, StartBackfill
        <3>2. QED
            BY <1>1, <1>2, <2>1, <3>1, StepSafe, StaysDurable DEF disk
    <2>2. CASE Backfill /\ harmed' = (harmed \/ backfilled)
        <3>1. CASE backfilled
            BY <2>2, <3>1
        <3>2. CASE ~backfilled
            <4>1. Next /\ ~ForceBackfill /\ UNCHANGED <<disk, synced, images>>
                  /\ pc' = "collect"
                BY <1>3, <2>2, <3>2
                DEF Start, Next, Backfill, RunBackfill, ForceBackfill, StartBackfill
            <4>2. harmed' = harmed
                BY <1>1, <2>2, <3>2
            <4>3. QED
                BY <1>1, <1>2, <4>1, <4>2, StepSafe, StaysDurable DEF disk
        <3>3. QED
            BY <3>1, <3>2
    <2>3. QED
        BY <1>3, <2>1, <2>2 DEF Start
<1>4. CASE Synced /\ UNCHANGED <<images, unreadable, harmed>>
    <2>1. Next /\ ~ForceBackfill /\ UNCHANGED <<open, images>>
        BY <1>4 DEF Synced, Next, Cycle, AppendDone, ForceBackfill, StartBackfill, disk
    <2>2. QED
        BY <1>1, <1>2, <1>4, <2>1, StepSafe, SyncDurable
<1>5. CASE Renamed /\ UNCHANGED <<synced, unreadable, harmed>>
    <2>1. Next /\ UNCHANGED <<open, synced>> /\ pc = "save"
        BY <1>5 DEF Renamed, Next, Cycle, SaveCheckpoint
    <2>2. SafeInv => ~ForceBackfill
        BY <2>1 DEF ForceBackfill, StartBackfill, SafeInv, TypeInv, BetweenBatches
    <2>3. QED
        BY <1>1, <1>2, <1>5, <2>1, <2>2, StepSafe, RenameDurable
<1>6. ASSUME harmed' = (harmed \/ open'), SafeInv => open' \in BOOLEAN
      PROVE  /\ harmed' = FALSE => harmed = FALSE /\ open' = FALSE
             /\ harmed' \in BOOLEAN
    BY <1>1, <1>6
<1>7. CASE Otherwise /\ harmed' = (harmed \/ open')
                     /\ UNCHANGED <<synced, images, unreadable>>
    <2>1. SafeInv => open' \in BOOLEAN
        BY <1>7, NextType DEF Otherwise, Next, Cycle, SafeInv, TypeInv, TypeOK
    <2>2. ASSUME harmed' = FALSE PROVE SafeInv' /\ Durable'
        <3>1. SafeInv /\ Durable /\ open' = FALSE
            BY <1>1, <1>6, <1>7, <2>1, <2>2
        <3>2. Otherwise /\ UNCHANGED <<synced, images>>
            BY <1>7
        <3>3. CASE AppendLine
            BY <3>1, <3>2, <3>3, OtherwiseSafe, AppendDurable
        <3>4. CASE ~AppendLine
            <4>1. /\ SafeInv' /\ UNCHANGED <<log, backfilled>>
                  /\ pc' = "save" => pc = "save"
                BY <3>1, <3>2, <3>4, OtherwiseSafe
            <4>2. QED
                BY <3>1, <3>2, <4>1, StaysDurable
        <3>5. QED
            BY <3>3, <3>4
    <2>3. QED
        BY <1>6, <1>7, <2>1, <2>2
<1>8. CASE PowerFails
    <2>1. Durable /\ SafeInv => open' \in BOOLEAN
        BY <1>2, <1>8 DEF PowerFails, LeavesLog, Durable
    <2>2. ASSUME harmed' = FALSE PROVE SafeInv' /\ Durable'
        <3>1. SafeInv /\ Durable /\ open' = FALSE
            BY <1>1, <1>8, <2>1, <2>2 DEF PowerFails
        <3>2. QED
            BY <1>8, <3>1, PowerFailsSafe
    <2>3. QED
        BY <1>1, <1>8, <2>1, <2>2 DEF PowerFails
<1>9. CASE DeleteCheckpoint \/ UNCHANGED <<vars, power>>
    <2>1. UNCHANGED <<vars, synced, harmed>> /\ images' \subseteq images \cup {NoFile}
        BY <1>9 DEF DeleteCheckpoint, power
    <2>2. UNCHANGED <<log, pc, backfilled>>
        BY <2>1 DEF vars, disk, memory
    <2>3. ASSUME Durable PROVE Durable'
        <3>1. \A n : Prefix(n)' = Prefix(n)
            BY <2>2 DEF Prefix
        <3>2. synced' = synced /\ Len(log') = Len(log)
            BY <2>1, <2>2
        <3>3. NoFile.events = {} /\ NoFile.done = FALSE
            BY DEF NoFile, Image
        <3>4. ASSUME NEW i \in images'
              PROVE  /\ i.events \subseteq Events /\ i.done \in BOOLEAN
                     /\ ~i.done => i.events = {}
                     /\ ~backfilled => i.events = {}
                     /\ \A e \in i.events, n \in Len(synced.lines)..Len(log) :
                           Replay(Prefix(n))[e] >= 1
            <4>1. CASE i \in images
                BY <2>3, <4>1 DEF Durable
            <4>2. CASE i = NoFile
                BY <3>3, <4>2
            <4>3. QED
                BY <2>1, <4>1, <4>2
        <3>5. QED
            BY <2>2, <2>3, <3>1, <3>2, <3>4 DEF Durable
    <2>4. ASSUME SafeInv PROVE SafeInv'
        <3>1. open' = FALSE /\ ~ForceBackfill
            BY <1>2, <2>1, <2>4 DEF vars, disk, memory, ForceBackfill, StartBackfill
        <3>2. QED
            BY <2>1, <2>4, <3>1, StepSafe
    <2>5. QED
        BY <1>1, <2>1, <2>3, <2>4
<1>10. QED
    BY <1>3, <1>4, <1>5, <1>7, <1>8, <1>9 DEF PowerNext

\* No usage is lost to a power failure: whichever checkpoint comes back with
\* whichever part of the log, what lies behind it is in the totals a replay
\* gives, for any number of failures of any kind between the cycles.
THEOREM NothingLostWithPower == PowerSpec => []CheckpointSurvivesPower
<1>1. PowerInv => CheckpointSurvivesPower
    BY DEF PowerInv, SafeInv, ConfirmedIsCounted, CheckpointSurvivesPower, CheckpointIsCounted
<1>2. QED
    BY <1>1, PowerInitInv, PowerNextInv, PTL DEF PowerSpec

-----------------------------------------------------------------------------
(* A power failure counts like any other fault: at most once more.         *)

\* What a power failure may bring back, torn lines and empty files included:
\* lines that carry the totals of the log, and checkpoints of written events.
DiskInv ==
    /\ synced.lines \in Seq(Line) /\ synced.open \in BOOLEAN
    /\ Len(synced.lines) =< Len(log)
    /\ \A i \in 1..Len(synced.lines) : synced.lines[i].counts = log[i].counts
    /\ \A i \in images : i.events \subseteq written /\ i.done \in BOOLEAN

PowerBoundInv == OvercountInv /\ DiskInv

\* A line that is followed by a fragment becomes unreadable, and keeps its totals.
LEMMA SpoilKeepsCounts ==
    ASSUME NEW lines \in Seq(Line)
    PROVE  /\ Len(Spoil(lines)) = Len(lines)
           /\ \A i \in 1..Len(lines) : Spoil(lines)[i].counts = lines[i].counts
<1>1. PICK m : m = Spoil(lines)
    OBVIOUS
<1>2. /\ Len(lines) \in Nat /\ DOMAIN lines = 1..Len(lines)
      /\ \A i \in 1..Len(lines) : lines[i] \in Line
    BY ElementOfSeq, LenProperties
<1>3. m = [i \in 1..Len(lines) |->
               IF i = Len(lines) THEN [lines[i] EXCEPT !.ok = FALSE] ELSE lines[i]]
    BY <1>1, <1>2 DEF Spoil
<1>4. Len(m) = Len(lines)
    BY <1>2, <1>3
<1>5. \A i \in 1..Len(lines) : m[i].counts = lines[i].counts
    BY <1>2, <1>3 DEF Line
<1>6. QED
    BY <1>1, <1>4, <1>5

\* No step of the exporter takes a line away or changes a total in it.
LEMMA LogKeepsCounts ==
    ASSUME TypeInv, [Next]_vars
    PROVE  /\ Len(log) =< Len(log')
           /\ \A i \in 1..Len(log) : log'[i].counts = log[i].counts
<1>1. log \in Seq(Line) /\ Len(log) \in Nat
    BY DEF TypeInv, TypeOK
<1>2. CASE log' = log
    BY <1>1, <1>2
<1>3. CASE log' = Spoil(log)
    BY <1>1, <1>3, SpoilKeepsCounts
<1>4. CASE \E line : log' = Append(log, line)
    <2>1. PICK line : log' = Append(log, line)
        BY <1>4
    <2>2. Len(log') = Len(log) + 1 /\ \A i \in 1..Len(log) : log'[i] = log[i]
        BY <1>1, <2>1
    <2>3. QED
        BY <1>1, <2>2
<1>5. StopsHalfway => \/ log' = log \/ log' = Spoil(log)
                      \/ \E line : log' = Append(log, line)
    BY DEF StopsHalfway
<1>6. AppendLine => log' = Spoil(log) \/ \E line : log' = Append(log, line)
    BY DEF AppendLine
<1>7. \/ log' = log \/ StopsHalfway \/ AppendLine
    <2>1. CASE \/ \E e \in Events : WriteTranscript(e)
               \/ RunServe \/ Backfill \/ Tick \/ Collect \/ AppendDone \/ AppendRefused
               \/ SaveCheckpoint \/ CollectFails \/ FsyncFails \/ SaveFails \/ Stop
               \/ UNCHANGED vars
        BY <2>1 DEF WriteTranscript, RunServe, Backfill, RunBackfill, ForceBackfill,
           StartBackfill, Tick, Collect, AppendDone, AppendRefused, SaveCheckpoint,
           CollectFails, FsyncFails, SaveFails, Stop, disk, vars
    <2>2. CASE WriteFails \/ Crash
        BY <2>2 DEF WriteFails, Crash
    <2>3. QED
        BY <2>1, <2>2 DEF Next, Cycle
<1>8. QED
    BY <1>2, <1>3, <1>4, <1>5, <1>6, <1>7

\* What a power failure leaves of the log: some of its lines, with their totals.
LEMMA LeftOverLines ==
    ASSUME TypeInv, DiskInv, LeavesLog
    PROVE  /\ log' \in Seq(Line) /\ Len(log') =< Len(log) /\ open' \in BOOLEAN
           /\ \A i \in 1..Len(log') : log'[i].counts = log[i].counts
<1>1. /\ log \in Seq(Line) /\ Len(log) \in Nat /\ open \in BOOLEAN
      /\ synced.lines \in Seq(Line) /\ Len(synced.lines) \in Nat
    BY DEF TypeInv, TypeOK, DiskInv
<1>2. ASSUME NEW n \in 0..Len(log)
      PROVE  \E p \in Seq(Line) : /\ p = SubSeq(log, 1, n) /\ Len(p) = n
                                  /\ \A i \in 1..n : p[i] = log[i]
    <2>1. SubSeq(log, 1, n) \in Seq(Line) /\ Len(SubSeq(log, 1, n)) = n
        BY <1>1, Prefixes
    <2>2. \A i \in 1..n : SubSeq(log, 1, n)[i] = log[i]
        <3>1. n \in Int /\ n >= 0 /\ \A i \in 1..n : i \in 1..Len(log) /\ 1 + i - 1 = i
            BY <1>1
        <3>2. QED
            BY <1>1, <3>1, SubSeqProperties
    <2>3. QED
        BY <2>1, <2>2
<1>3. CASE log' = synced.lines /\ open' = synced.open
    BY <1>1, <1>3 DEF DiskInv
<1>4. ASSUME NEW n \in Len(synced.lines)..Len(log), log' = SubSeq(log, 1, n),
             open' = (open /\ n = Len(log))
      PROVE  /\ log' \in Seq(Line) /\ Len(log') =< Len(log) /\ open' \in BOOLEAN
             /\ \A i \in 1..Len(log') : log'[i].counts = log[i].counts
    <2>1. n \in 0..Len(log)
        BY <1>1
    <2>2. PICK p \in Seq(Line) : /\ p = log' /\ Len(p) = n
                                 /\ \A i \in 1..n : p[i] = log[i]
        BY <1>2, <1>4, <2>1
    <2>3. QED
        BY <1>1, <1>4, <2>1, <2>2
<1>5. ASSUME NEW n \in Len(synced.lines)..(Len(log) - 1), NEW whole \in BOOLEAN,
             log' = Append(SubSeq(log, 1, n), [log[n + 1] EXCEPT !.ok = whole /\ @]),
             open' = TRUE
      PROVE  /\ log' \in Seq(Line) /\ Len(log') =< Len(log) /\ open' \in BOOLEAN
             /\ \A i \in 1..Len(log') : log'[i].counts = log[i].counts
    <2>1. n \in 0..Len(log) /\ n + 1 \in 1..Len(log) /\ n \in Nat
        BY <1>1
    <2>2. PICK p \in Seq(Line) : /\ p = SubSeq(log, 1, n) /\ Len(p) = n
                                 /\ \A i \in 1..n : p[i] = log[i]
        BY <1>2, <2>1
    <2>3. log[n + 1] \in Line
        BY <1>1, <2>1, ElementOfSeq
    <2>4. PICK line : line = [log[n + 1] EXCEPT !.ok = whole /\ @]
        OBVIOUS
    <2>5. line \in Line /\ line.counts = log[n + 1].counts
        BY <2>3, <2>4 DEF Line
    <2>6. log' = Append(p, line)
        BY <1>5, <2>2, <2>4
    <2>7. /\ log' \in Seq(Line) /\ Len(log') = n + 1 /\ log'[n + 1] = line
          /\ \A i \in 1..n : log'[i] = p[i]
        BY <2>2, <2>5, <2>6, AppendProperties
    <2>8. ASSUME NEW i \in 1..(n + 1) PROVE log'[i].counts = log[i].counts
        <3>1. i \in 1..n \/ i = n + 1
            BY <2>1
        <3>2. QED
            BY <2>2, <2>5, <2>7, <3>1
    <2>9. QED
        BY <1>5, <2>1, <2>7, <2>8
<1>6. QED
    BY <1>3, <1>4, <1>5 DEF LeavesLog

\* The failure itself raises the bound by what it may uncover.
LEMMA PowerFailsBounded ==
    ASSUME PowerBoundInv, PowerFails
    PROVE  PowerBoundInv'
<1>1. /\ TypeInv /\ Cursors /\ Bounded /\ DiskInv /\ written \in SUBSET Events
      /\ Exit /\ written' = written /\ faults' = faults + 1 /\ faults \in Nat
      /\ synced' = [lines |-> log', open |-> open'] /\ LeavesLog
    BY DEF PowerBoundInv, OvercountInv, TypeInv, TypeOK, PowerFails
<1>2. PICK i \in images :
          /\ cpDisk' = i.events /\ backfilled' = i.done /\ images' = {i}
    BY DEF PowerFails
<1>3. /\ log' \in Seq(Line) /\ Len(log') =< Len(log) /\ open' \in BOOLEAN
      /\ \A j \in 1..Len(log') : log'[j].counts = log[j].counts
    BY <1>1, LeftOverLines
<1>4. cpDisk' \in SUBSET written /\ backfilled' \in BOOLEAN
    BY <1>1, <1>2 DEF DiskInv
<1>5. /\ samples' = <<>> /\ flushed' = 0 /\ cp' = {} /\ mode' = "down" /\ pc' = "wait"
      /\ acc' = Zero /\ Len(<<>>) = 0
    BY <1>1, EmptySeq DEF Exit
<1>6. TypeInv'
    <2>1. TypeOK'
        <3>1. faults' \in Nat /\ cpDisk' \in SUBSET Events /\ 0 \in 0..Len(<<>>)
            BY <1>1, <1>4, <1>5
        <3>2. QED
            BY <1>1, <1>3, <1>4, <3>1, ExitType DEF TypeOK
    <2>2. BetweenBatches'
        BY <1>1 DEF Exit, BetweenBatches
    <2>3. QED
        BY <2>1, <2>2 DEF TypeInv
<1>7. Cursors'
    BY <1>1, <1>4, <1>5 DEF Cursors, Batch
<1>8. \A e \in Events : /\ Bound[e] =< Bound'[e]
                        /\ Bound[e] \in Nat /\ Bound'[e] \in Nat
    <2>1. faults' \in Nat
        BY <1>1
    <2>2. QED
        BY <1>1, <2>1, FaultRaisesBound, BoundType, NextBoundType
<1>9. Bounded'
    <2>1. \A j \in 1..Len(log), e \in Events :
             log[j].counts[e] \in Nat /\ log[j].counts[e] =< Bound'[e]
        BY <1>1, <1>8, LinesType DEF Bounded
    <2>2. Len(log) \in Nat /\ Len(log') \in Nat
        BY <1>1, <1>3 DEF TypeInv, TypeOK
    <2>3. \A j \in 1..Len(log'), e \in Events : log'[j].counts[e] =< Bound'[e]
        BY <1>3, <2>1, <2>2
    <2>4. \A e \in Events : acc'[e] =< Bound'[e]
        BY <1>5, <1>8 DEF Zero
    <2>5. QED
        BY <1>5, <2>3, <2>4 DEF Bounded
<1>10. DiskInv'
    <2>1. \A j \in images' : j.events \subseteq written' /\ j.done \in BOOLEAN
        BY <1>1, <1>2, <1>4
    <2>2. Len(log') \in Nat
        BY <1>3
    <2>3. QED
        BY <1>1, <1>3, <2>1, <2>2 DEF DiskInv
<1>11. QED
    BY <1>6, <1>7, <1>9, <1>10 DEF PowerBoundInv, OvercountInv

\* PowerBoundInv over the steps.
LEMMA PowerBoundNext ==
    PowerBoundInv /\ [PowerNext]_<<vars, power>> => PowerBoundInv'
<1> SUFFICES ASSUME PowerBoundInv, [PowerNext]_<<vars, power>> PROVE PowerBoundInv'
    OBVIOUS
<1>1. OvercountInv /\ DiskInv /\ TypeInv
    BY DEF PowerBoundInv, OvercountInv
<1>2. CASE PowerFails
    BY <1>2, PowerFailsBounded
<1>3. ASSUME [Next]_vars,
             synced' = synced \/ (synced' = [lines |-> log, open |-> open] /\ log' = log),
             images' \subseteq images \cup {NoFile, EmptyFile, Image(cpDisk', TRUE)}
      PROVE  PowerBoundInv'
    <2>1. OvercountInv' /\ written \subseteq written'
        <3>1. written \subseteq written'
            BY <1>3 DEF Next, WriteTranscript, RunServe, Backfill, RunBackfill,
               ForceBackfill, StartBackfill, Cycle, Tick, Collect, AppendLine, AppendDone,
               AppendRefused, SaveCheckpoint, CollectFails, WriteFails, FsyncFails,
               SaveFails, Stop, Crash, vars
        <3>2. QED
            BY <1>1, <1>3, <3>1, OvercountNext
    <2>2. /\ Len(log) =< Len(log') /\ Len(log) \in Nat /\ Len(log') \in Nat
          /\ \A i \in 1..Len(log) : log'[i].counts = log[i].counts
        BY <1>1, <1>3, <2>1, LogKeepsCounts DEF OvercountInv, TypeInv, TypeOK
    <2>3. \A i \in images' : i.events \subseteq written' /\ i.done \in BOOLEAN
        <3>1. cpDisk' \subseteq written'
            BY <2>1 DEF OvercountInv, Cursors
        <3>2. \A i \in {NoFile, EmptyFile, Image(cpDisk', TRUE)} :
                 i.events \subseteq written' /\ i.done \in BOOLEAN
            <4>1. /\ NoFile.events = {} /\ NoFile.done = FALSE
                  /\ EmptyFile.events = {} /\ EmptyFile.done = FALSE
                  /\ \A done : Image(cpDisk', done).events = cpDisk'
                              /\ Image(cpDisk', done).done = done
                BY DEF NoFile, EmptyFile, Image
            <4>2. QED
                BY <3>1, <4>1
        <3>3. QED
            BY <1>1, <1>3, <2>1, <3>2 DEF DiskInv
    <2>4. CASE synced' = synced
        <3>1. Len(synced.lines) \in Nat
            BY <1>1 DEF DiskInv
        <3>2. QED
            BY <1>1, <2>1, <2>2, <2>3, <2>4, <3>1 DEF PowerBoundInv, DiskInv
    <2>5. CASE synced' = [lines |-> log, open |-> open] /\ log' = log
        BY <1>1, <2>1, <2>2, <2>3, <2>5 DEF PowerBoundInv, DiskInv, TypeInv, TypeOK
    <2>6. QED
        BY <1>3, <2>4, <2>5
<1>4. CASE Start
    <2>1. Next /\ UNCHANGED <<synced, images>>
        BY <1>4 DEF Start, Next
    <2>2. QED
        BY <1>3, <2>1
<1>5. CASE Synced /\ UNCHANGED images
    <2>1. Next /\ log' = log
        BY <1>5 DEF Synced, Next, Cycle, AppendDone, disk
    <2>2. QED
        BY <1>3, <1>5, <2>1 DEF Synced
<1>6. CASE Renamed /\ UNCHANGED synced
    <2>1. Next
        BY <1>6 DEF Renamed, Next, Cycle
    <2>2. QED
        BY <1>3, <1>6, <2>1 DEF Renamed
<1>7. CASE Otherwise /\ UNCHANGED <<synced, images>>
    <2>1. Next
        BY <1>7 DEF Otherwise, Next, Cycle
    <2>2. QED
        BY <1>3, <1>7, <2>1
<1>8. CASE DeleteCheckpoint \/ UNCHANGED <<vars, power>>
    BY <1>3, <1>8 DEF DeleteCheckpoint, power
<1>9. QED
    BY <1>2, <1>4, <1>5, <1>6, <1>7, <1>8 DEF PowerNext

\* On a machine that may lose power too, no event is counted more than once for
\* each fault and once besides, whichever old checkpoint the failure brings back
\* with whichever part of the log, and whatever it tears.
THEOREM OvercountBoundedWithPower == PowerSpec => []OvercountIsBounded
<1>1. PowerInit => PowerBoundInv
    <2> SUFFICES ASSUME PowerInit PROVE PowerBoundInv
        OBVIOUS
    <2>1. OvercountInv /\ log \in Seq(Line) /\ Len(log) \in Nat /\ open \in BOOLEAN
        BY OvercountInit DEF PowerInit, OvercountInv, TypeInv, TypeOK
    <2>2. QED
        BY <2>1 DEF PowerInit, PowerBoundInv, DiskInv, NoFile, Image
<1>2. PowerBoundInv => OvercountIsBounded
    BY OvercountSuffices DEF PowerBoundInv
<1>3. QED
    BY <1>1, <1>2, PowerBoundNext, PTL DEF PowerSpec
=============================================================================
