---------------------------- MODULE TrackedCalls ----------------------------
(***************************************************************************)
(* The samples log shared by several processes.  `track` and `delegate`    *)
(* run one task each and record its usage themselves: they open the store  *)
(* that `serve` has open, seed an accumulator of their own from its log    *)
(* and append to it, while serve appends the usage of the transcripts.     *)
(* Nothing but O_APPEND keeps them apart.                                  *)
(*                                                                         *)
(* Data abstraction.  A batch has one record per token type.  That of a    *)
(* tracked call fits the buffer of its bufio.Writer (unless most of a long *)
(* label is escaped) and reaches the file in one write(2).  That of serve  *)
(* may not: it comes in two writes, parted between two records or inside   *)
(* one.  A task uses one token of each type or none.                       *)
(*                                                                         *)
(* A label is cut after 200 bytes (taskLabel), which may leave half a      *)
(* character at its end.  Memory keys the series by the label as it is;    *)
(* json.Marshal replaces what is not UTF-8, so that the log, and whoever   *)
(* reads it, holds another label.  Stored says which.                      *)
(***************************************************************************)
EXTENDS Naturals, Sequences, FiniteSets

CONSTANTS
    Calls,      \* the tracked calls, a process each
    Label,      \* source, model and task label of each call
    Transcript, \* the same for what serve records
    Stored,     \* each of these labels as a line of the log gives it back
    MaxBatches  \* bound on the batches of serve

ASSUME LabelAssumption ==
    IsFiniteSet(Calls) /\ \A c \in Calls : Label[c] # Transcript
ASSUME StoredAssumption ==
    /\ Stored[Transcript] = Transcript
    /\ \A c \in Calls : Stored[Label[c]] # Transcript
    /\ \A c, d \in Calls : Stored[Label[d]] = Label[c] => Stored[Label[c]] = Label[c]
ASSUME BatchesAssumption == MaxBatches \in Nat

TokenTypes == <<"input", "output">>
Labels     == {Label[c] : c \in Calls} \cup {Stored[Label[c]] : c \in Calls}
              \cup {Transcript}
Series     == Labels \X {"input", "output"}
Counts     == [Series -> Nat]
Record     == [ok : BOOLEAN, series : Series, ts : Nat, total : Nat]

VARIABLES
    log,     \* the lines of samples.log
    open,    \* the last line has no newline yet
    pc,      \* of each call: "todo", "runs", "ran", "seeded", "recorded", "failed"
    started, \* when its task began: the timestamp of its usage
    tokens,  \* what its task used
    seed,    \* the accumulator of its process
    up,      \* serve is running
    acc,     \* its accumulator
    rest,    \* what the first write of its batch has left over
    half,    \* the first record of rest is half written
    split,   \* another process wrote into the middle of its last batch
    clash,   \* two processes have ever got into each other's way
    overlap, \* a call ever began while another of its label was on its way
    batches

serve == <<up, acc, rest, half, split, batches>>
calls == <<pc, started, tokens, seed, overlap>>
vars  == <<log, open, calls, serve, clash>>

Latest(s) ==
    {i \in 1..Len(log) :
        /\ log[i].ok /\ log[i].series = s
        /\ \A j \in (i + 1)..Len(log) : ~(log[j].ok /\ log[j].series = s)}

\* Mutant of Replay: the first record of a series is kept, not the last.
ReplayFirst ==
    [s \in Series |->
        LET lines == {i \in 1..Len(log) : log[i].ok /\ log[i].series = s}
        IN  IF lines = {} THEN 0
            ELSE log[CHOOSE i \in lines : \A j \in lines : i =< j].total]

\* What opening the store finds; unreadable lines are skipped.
Replay ==
    [s \in Series |-> IF Latest(s) = {} THEN 0
                      ELSE log[CHOOSE i \in Latest(s) : TRUE].total]

\* Mutant of Add: the accumulator is built anew from the batch alone.
AddAnew(totals, label, n) ==
    [s \in {label} \X {"input", "output"} |-> totals[s] + n]

\* Apply: n more tokens of a label, in each of its series.
Add(totals, label, n) ==
    [s \in Series |-> IF s[1] = label THEN totals[s] + n ELSE totals[s]]

\* The batch that carries the totals of a label, as its lines can be read.
Batch(totals, label, ts) ==
    [i \in 1..Len(TokenTypes) |->
        [ok |-> TRUE, series |-> <<Stored[label], TokenTypes[i]>>, ts |-> ts,
         total |-> totals[<<label, TokenTypes[i]>>]]]

Nothing == [s \in Series |-> 0]

Spoiled(r) == [r EXCEPT !.ok = FALSE]

\* The last line, joined by the first of other records: neither is readable.
Joined(records) ==
    Append(SubSeq(log, 1, Len(log) - 1), Spoiled(log[Len(log)])) \o Tail(records)

-----------------------------------------------------------------------------
Init ==
    /\ log = <<>> /\ open = FALSE
    /\ pc = [c \in Calls |-> "todo"] /\ tokens = [c \in Calls |-> 0]
    /\ started = [c \in Calls |-> 0] /\ overlap = FALSE
    /\ seed = [c \in Calls |-> Nothing]
    /\ up = FALSE /\ acc = Nothing
    /\ rest = <<>> /\ half = FALSE /\ split = FALSE /\ batches = 0
    /\ clash = FALSE

UnderWay(c) == pc[c] \in {"runs", "ran", "seeded"}

\* RunCopilotTask, RunAgyTask: the clock is read and the task begins.
StartTask(c) ==
    /\ pc[c] = "todo"
    /\ pc' = [pc EXCEPT ![c] = "runs"]
    /\ started' = [started EXCEPT
                     ![c] = 1 + Cardinality({d \in Calls : started[d] > 0})]
    /\ overlap' = (overlap \/ \E d \in Calls : UnderWay(d) /\ Label[d] = Label[c])
    /\ UNCHANGED <<log, open, tokens, seed, serve, clash>>

\* The task succeeds, fails or is killed by its timeout, and its usage is known
\* or taken as zero; an unreadable usage report ends the process instead.  That
\* of a copilot that died is one: the file is there, empty, before it starts.
RunTask(c) ==
    /\ pc[c] = "runs"
    /\ \/ \E n \in 0..1 : pc' = [pc EXCEPT ![c] = "ran"]
                          /\ tokens' = [tokens EXCEPT ![c] = n]
       \/ pc' = [pc EXCEPT ![c] = "failed"] /\ UNCHANGED tokens
    /\ UNCHANGED <<log, open, started, seed, overlap, serve, clash>>

\* Mutant of OpenStore: the accumulator is not seeded.
OpenStoreUnseeded(c) ==
    /\ pc[c] = "ran"
    /\ pc' = [pc EXCEPT ![c] = "seeded"]
    /\ UNCHANGED <<log, open, started, tokens, seed, overlap, serve, clash>>

\* recordTaskCall: Open and SeedAccumulator.
OpenStore(c) ==
    /\ pc[c] = "ran"
    /\ pc' = [pc EXCEPT ![c] = "seeded"]
    /\ seed' = [seed EXCEPT ![c] = Replay]
    /\ UNCHANGED <<log, open, started, tokens, overlap, serve, clash>>

\* A call in whose series another process has the log open with older totals.
Overtakes(c) ==
    \E d \in Calls \ {c} : pc[d] = "seeded" /\ Label[d] = Label[c]

\* Mutant of RecordCall: the samples of the aggregated event are applied too.
RecordCallTwice(c) ==
    /\ pc[c] = "seeded"
    /\ LET totals == Add(seed[c], Label[c], 2 * tokens[c])
       IN  log' = IF open THEN Joined(Batch(totals, Label[c], started[c]))
                  ELSE log \o Batch(totals, Label[c], started[c])
    /\ open' = FALSE
    /\ pc' = [pc EXCEPT ![c] = "recorded"]
    /\ seed' = [seed EXCEPT ![c] = Nothing]
    /\ clash' = (clash \/ open \/ Overtakes(c))
    /\ UNCHANGED <<started, tokens, overlap, serve>>

\* recordTaskCall: ApplyAll and AppendBatch, one write.
RecordCall(c) ==
    /\ pc[c] = "seeded"
    /\ LET totals  == Add(seed[c], Label[c], tokens[c])
           records == Batch(totals, Label[c], started[c])
       IN  log' = IF open THEN Joined(records) ELSE log \o records
    /\ open' = FALSE
    /\ pc' = [pc EXCEPT ![c] = "recorded"]
    /\ seed' = [seed EXCEPT ![c] = Nothing]
    /\ clash' = (clash \/ open \/ Overtakes(c))
    /\ UNCHANGED <<started, tokens, overlap, serve>>

\* The process is interrupted, or its append fails before it has an effect.
DropCall(c) ==
    /\ pc[c] \in {"ran", "seeded"}
    /\ pc' = [pc EXCEPT ![c] = "failed"]
    /\ seed' = [seed EXCEPT ![c] = Nothing]
    /\ UNCHANGED <<log, open, started, tokens, overlap, serve, clash>>

-----------------------------------------------------------------------------
(* serve.  Its failures and its checkpoint are Exporter's subject.          *)

ServeStarts ==
    /\ ~up
    /\ up' = TRUE /\ acc' = Replay
    /\ UNCHANGED <<log, open, calls, rest, half, split, clash, batches>>

ServeStops ==
    /\ up /\ rest = <<>>
    /\ up' = FALSE /\ acc' = Nothing /\ split' = FALSE
    /\ UNCHANGED <<log, open, calls, rest, half, clash, batches>>

\* The first write of a batch: all of it, or k records of it and perhaps a
\* part of the next, which decodes if it only lacks its newline.
FirstWrite ==
    /\ up /\ rest = <<>> /\ batches < MaxBatches
    /\ batches' = batches + 1
    /\ acc' = Add(acc, Transcript, 1)
    /\ LET records == Batch(acc', Transcript, batches')
           n       == Len(records)
       IN  \/ /\ log' = log \o records
              /\ split' = FALSE
              /\ UNCHANGED <<open, rest, half>>
           \/ \E k \in 1..(n - 1) :
              /\ log' = log \o SubSeq(records, 1, k)
              /\ rest' = SubSeq(records, k + 1, n) /\ half' = FALSE
              /\ UNCHANGED <<open, split>>
           \/ \E k \in 0..(n - 1), whole \in BOOLEAN :
              /\ log' = Append(log \o SubSeq(records, 1, k),
                               [records[k + 1] EXCEPT !.ok = whole])
              /\ open' = TRUE
              /\ rest' = SubSeq(records, k + 1, n) /\ half' = TRUE
              /\ UNCHANGED split
    /\ UNCHANGED <<calls, up, clash>>

\* The second write: it continues the open line, if that is still the last one.
SecondWrite ==
    /\ rest # <<>>
    /\ log' = IF ~half THEN log \o rest
              ELSE IF open THEN [log EXCEPT ![Len(log)].ok = TRUE] \o Tail(rest)
              ELSE Append(log, Spoiled(rest[1])) \o Tail(rest)
    /\ split' = (half /\ ~open)
    /\ open' = FALSE /\ rest' = <<>> /\ half' = FALSE
    /\ UNCHANGED <<calls, up, acc, clash, batches>>

-----------------------------------------------------------------------------
Next ==
    \/ \E c \in Calls :
          StartTask(c) \/ RunTask(c) \/ OpenStore(c) \/ RecordCall(c) \/ DropCall(c)
    \/ ServeStarts \/ ServeStops \/ FirstWrite \/ SecondWrite

Spec == Init /\ [][Next]_vars

-----------------------------------------------------------------------------
\* The type invariant.
TypeOK ==
    /\ log \in Seq(Record) /\ rest \in Seq(Record)
    /\ pc \in [Calls -> {"todo", "runs", "ran", "seeded", "recorded", "failed"}]
    /\ started \in [Calls -> Nat] /\ tokens \in [Calls -> 0..1]
    /\ seed \in [Calls -> Counts]
    /\ acc \in Counts /\ batches \in 0..MaxBatches
    /\ open \in BOOLEAN /\ up \in BOOLEAN /\ half \in BOOLEAN
    /\ split \in BOOLEAN /\ clash \in BOOLEAN /\ overlap \in BOOLEAN

\* The recorded calls whose usage the log holds under a label, and what they
\* have used.
Recorded(label) == {c \in Calls : Stored[Label[c]] = label /\ pc[c] = "recorded"}
Used(label)     == Cardinality({c \in Recorded(label) : tokens[c] = 1})

\* No tracked token is counted twice, however the processes interleave, tear
\* each other's lines and overtake each other.
NeverOvercounted ==
    \A c \in Calls : \A t \in {"input", "output"} :
        Replay[<<Stored[Label[c]], t>>] =< Used(Stored[Label[c]])

\* As long as no process has got between the seeding and the append of another
\* in its series, or into the middle of a batch, no token is lost either: calls
\* one after the other, beside a serving exporter, are exact.
ExactWithoutClash ==
    ~clash => \A c \in Calls : \A t \in {"input", "output"} :
                 Replay[<<Stored[Label[c]], t>>] = Used(Stored[Label[c]])

\* serve's own totals survive the writes of others: a batch that was not split
\* puts right what earlier ones lost, because it carries totals and not deltas.
BatchRestoresTotals ==
    up /\ rest = <<>> /\ ~split =>
        \A t \in {"input", "output"} :
            Replay[<<Transcript, t>>] = acc[<<Transcript, t>>]
=============================================================================
