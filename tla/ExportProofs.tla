---------------------------- MODULE ExportProofs ----------------------------
(* Theorems about Export, for any finite set of calls and any number of     *)
(* runs of export-vm.                                                       *)
EXTENDS Export, TrackedProofs

-----------------------------------------------------------------------------
(* From one specification to the other.                                     *)

\* What TrackedProofs says of Spec may be used for ExportSpec, whose steps leave
\* the variables of TrackedCalls alone.
LEMMA ExportOnlyReads == ExportSpec => Spec
<1>1. ExportInit => Init
    BY DEF ExportInit
<1>2. [ExportNext]_<<vars, export>> => [Next]_vars
    BY DEF ExportNext, RunExportVM
<1>3. QED
    BY <1>1, <1>2, PTL DEF ExportSpec, Spec

-----------------------------------------------------------------------------
(* Which call a line of the log is from.                                    *)

\* The calls whose task has begun.
Begun == {d \in Calls : started[d] > 0}

\* The clock: it stands at the number of tasks that have begun, and has shown no
\* two of them the same time.
ClockInv ==
    /\ \A c \in Calls : pc[c] = "todo" <=> started[c] = 0
    /\ \A c \in Calls : started[c] =< Cardinality(Begun)
    /\ \A c, d \in Calls : c # d /\ started[c] = started[d] => started[c] = 0

\* Every line that serve has not written is from a recorded call, readable or
\* not.
LineInv ==
    \A i \in 1..Len(log) : log[i].series[1] # Transcript =>
        \E d \in Calls : /\ pc[d] = "recorded"
                         /\ Stored[Label[d]] = log[i].series[1] /\ log[i].ts = started[d]

CallsInv == WriterInv /\ ClockInv /\ LineInv

\* What any step does to the lines of the log: those there stay, and a new one
\* is from serve or from the call that is just being recorded.
LEMMA StepLines ==
    ASSUME WriterInv, [Next]_vars
    PROVE  /\ WriterInv' /\ KeepsLines(log, log')
           /\ \A i \in (Len(log) + 1)..Len(log') :
                 \/ log'[i].series[1] = Transcript
                 \/ \E c \in Calls : /\ RecordCall(c) /\ log'[i].ts = started[c]
                                     /\ log'[i].series[1] = Stored[Label[c]]
<1>1. WriterInv'
    <2>1. CASE \E c \in Calls : RecordCall(c)
        BY <2>1, RecordCallLines
    <2>2. CASE FirstWrite
        BY <2>2, FirstWriteLines
    <2>3. CASE SecondWrite
        BY <2>3, SecondWriteLines
    <2>4. CASE /\ UNCHANGED <<log, open, rest, half>>
               /\ (UNCHANGED <<up, acc>> \/ rest = <<>>)
        <3>1. TypeInv'
            BY NextType DEF WriterInv
        <3>2. Len(<<>>) = 0
            BY EmptySeq
        <3>3. QED
            BY <2>4, <3>1, <3>2 DEF WriterInv
    <2>5. ASSUME NEW c \in Calls,
                 StartTask(c) \/ RunTask(c) \/ OpenStore(c) \/ DropCall(c)
          PROVE  UNCHANGED <<log, open, rest, half, up, acc>>
        BY <2>5 DEF StartTask, RunTask, OpenStore, DropCall, serve
    <2>6. CASE ServeStarts \/ ServeStops
        <3>1. UNCHANGED <<log, open, rest, half>> /\ rest = <<>>
            BY <2>6 DEF ServeStarts, ServeStops, WriterInv
        <3>2. QED
            BY <2>4, <3>1
    <2>7. CASE UNCHANGED vars
        BY <2>4, <2>7 DEF vars, serve
    <2>8. QED
        BY <2>1, <2>2, <2>3, <2>4, <2>5, <2>6, <2>7 DEF Next
<1>2. CASE log' = log
    <2>1. Len(log) \in Nat
        BY DEF WriterInv, TypeInv, TypeOK
    <2>2. KeepsLines(log, log') /\ (Len(log) + 1)..Len(log') = {}
        BY <1>2, <2>1 DEF KeepsLines
    <2>3. QED
        BY <1>1, <2>2
<1>3. ASSUME NEW c \in Calls, RecordCall(c)
      PROVE  /\ KeepsLines(log, log')
             /\ \A i \in (Len(log) + 1)..Len(log') :
                   log'[i].ts = started[c] /\ log'[i].series[1] = Stored[Label[c]]
    <2>1. /\ KeepsLines(log, log')
          /\ \A i \in (Len(log) + 1)..Len(log') :
                /\ log'[i].ts = started[c]
                /\ \E t \in Types : log'[i].series = <<Stored[Label[c]], t>>
        BY <1>3, RecordCallLines
    <2>2. QED
        BY <2>1
<1>4. CASE FirstWrite
    BY <1>1, <1>4, FirstWriteLines
<1>5. CASE SecondWrite
    BY <1>1, <1>5, SecondWriteLines
<1>6. ASSUME NEW c \in Calls,
             StartTask(c) \/ RunTask(c) \/ OpenStore(c) \/ DropCall(c)
      PROVE  log' = log
    BY <1>6 DEF StartTask, RunTask, OpenStore, DropCall
<1>7. CASE ServeStarts \/ ServeStops \/ UNCHANGED vars
    BY <1>2, <1>7 DEF ServeStarts, ServeStops, vars
<1>8. QED
    BY <1>1, <1>2, <1>3, <1>4, <1>5, <1>6, <1>7 DEF Next

\* A line that was written stays in the log with its series, timestamp and total;
\* only one that serve had left open may become readable or unreadable.  So what
\* export-vm has read does not depend on what is written after its reading.
THEOREM LinesStay == Spec => [][KeepsLines(log, log')]_vars
<1>1. Init => WriterInv
    BY RestoredInit DEF RestoredInv
<1>2. WriterInv /\ [Next]_vars => WriterInv' /\ KeepsLines(log, log')
    BY StepLines
<1>3. QED
    BY <1>1, <1>2, PTL DEF Spec

\* How the states of the calls may change.
LEMMA StepCalls ==
    ASSUME TypeInv, [Next]_vars
    PROVE  \/ \E c \in Calls : StartTask(c)
           \/ /\ started' = started /\ overlap' = overlap
              /\ \A c \in Calls :
                    /\ pc'[c] = "todo" <=> pc[c] = "todo"
                    /\ pc[c] = "recorded" => pc'[c] = "recorded"
                    /\ pc[c] = "recorded" => tokens'[c] = tokens[c]
                    /\ UnderWay(c)' => UnderWay(c)
                    /\ pc'[c] = "recorded" => pc[c] = "recorded" \/ RecordCall(c)
<1>1. pc \in [Calls -> {"todo", "runs", "ran", "seeded", "recorded", "failed"}]
      /\ DOMAIN tokens = Calls
    BY DEF TypeInv, TypeOK
<1>2. ASSUME NEW c \in Calls, RunTask(c) \/ OpenStore(c) \/ DropCall(c) \/ RecordCall(c)
      PROVE  /\ started' = started /\ overlap' = overlap
             /\ \A d \in Calls :
                   /\ pc'[d] = "todo" <=> pc[d] = "todo"
                   /\ pc[d] = "recorded" => pc'[d] = "recorded"
                   /\ pc[d] = "recorded" => tokens'[d] = tokens[d]
                   /\ UnderWay(d)' => UnderWay(d)
                   /\ pc'[d] = "recorded" => pc[d] = "recorded" \/ RecordCall(d)
    <2>1. CASE RunTask(c)
        BY <1>1, <2>1 DEF RunTask, UnderWay
    <2>2. CASE OpenStore(c)
        BY <1>1, <2>2 DEF OpenStore, UnderWay
    <2>3. CASE DropCall(c)
        BY <1>1, <2>3 DEF DropCall, UnderWay
    <2>4. CASE RecordCall(c)
        <3>1. /\ pc[c] = "seeded" /\ pc' = [pc EXCEPT ![c] = "recorded"]
              /\ UNCHANGED <<started, tokens, overlap>>
            BY <2>4 DEF RecordCall
        <3>2. QED
            BY <1>1, <2>4, <3>1 DEF UnderWay
    <2>5. QED
        BY <1>2, <2>1, <2>2, <2>3, <2>4
<1>3. CASE UNCHANGED calls
    BY <1>3 DEF calls, UnderWay
<1>4. ServeStarts \/ ServeStops \/ FirstWrite \/ SecondWrite \/ UNCHANGED vars
        => UNCHANGED calls
    BY DEF ServeStarts, ServeStops, FirstWrite, SecondWrite, vars
<1>5. QED
    BY <1>2, <1>3, <1>4 DEF Next

\* The clock when a task begins.
LEMMA StartClock ==
    ASSUME TypeInv, ClockInv, NEW c \in Calls, StartTask(c)
    PROVE  /\ Cardinality(Begun) \in Nat
           /\ started' = [started EXCEPT ![c] = 1 + Cardinality(Begun)]
           /\ \A d \in Calls : started[d] < 1 + Cardinality(Begun)
           /\ ClockInv'
<1>1. IsFiniteSet(Begun) /\ Cardinality(Begun) \in Nat
    <2>1. Begun \in SUBSET Calls
        BY DEF Begun
    <2>2. QED
        BY <2>1, FS_Subset, FS_CardinalityType, LabelAssumption
<1>2. /\ started' = [started EXCEPT ![c] = 1 + Cardinality(Begun)]
      /\ pc' = [pc EXCEPT ![c] = "runs"] /\ pc[c] = "todo"
    BY DEF StartTask, Begun
<1>3. /\ started \in [Calls -> Nat] /\ DOMAIN pc = Calls
    BY DEF TypeInv, TypeOK
<1>4. \A d \in Calls : started[d] < 1 + Cardinality(Begun) /\ started[d] \in Nat
    BY <1>1, <1>3 DEF ClockInv
<1>5. Cardinality(Begun') = Cardinality(Begun) + 1
    <2>1. c \notin Begun
        BY <1>2 DEF ClockInv, Begun
    <2>2. Begun' = Begun \cup {c}
        BY <1>1, <1>2, <1>3 DEF Begun
    <2>3. QED
        BY <1>1, <2>1, <2>2, FS_AddElement
<1>6. \A d \in Calls : pc'[d] = "todo" <=> started'[d] = 0
    BY <1>1, <1>2, <1>3 DEF ClockInv
<1>7. \A d \in Calls : started'[d] =< Cardinality(Begun')
    BY <1>1, <1>2, <1>3, <1>4, <1>5
<1>8. \A d, e \in Calls : d # e /\ started'[d] = started'[e] => started'[d] = 0
    <2>1. ASSUME NEW d \in Calls, NEW e \in Calls, d # e, started'[d] = started'[e]
          PROVE  started'[d] = 0
        <3>1. d # c /\ e # c
            BY <1>1, <1>2, <1>3, <1>4, <2>1
        <3>2. started'[d] = started[d] /\ started'[e] = started[e]
            BY <1>2, <1>3, <3>1
        <3>3. QED
            BY <2>1, <3>2 DEF ClockInv
    <2>2. QED
        BY <2>1
<1>9. QED
    BY <1>1, <1>2, <1>4, <1>6, <1>7, <1>8 DEF ClockInv

\* CallsInv over the steps.
LEMMA CallsNext == CallsInv /\ [Next]_vars => CallsInv'
<1> SUFFICES ASSUME CallsInv, [Next]_vars PROVE CallsInv'
    OBVIOUS
<1>1. /\ WriterInv /\ TypeInv /\ ClockInv /\ LineInv
    BY DEF CallsInv, WriterInv
<1>2. /\ WriterInv' /\ KeepsLines(log, log')
      /\ \A i \in (Len(log) + 1)..Len(log') :
            \/ log'[i].series[1] = Transcript
            \/ \E c \in Calls : /\ RecordCall(c) /\ log'[i].ts = started[c]
                                /\ log'[i].series[1] = Stored[Label[c]]
    BY <1>1, StepLines
<1>3. /\ Len(log) \in Nat /\ Len(log') \in Nat /\ DOMAIN pc = Calls
      /\ DOMAIN started = Calls
    BY <1>1, <1>2 DEF WriterInv, TypeInv, TypeOK
<1>4. \A i \in 1..Len(log') :
         \/ i \in 1..Len(log) /\ log'[i].series = log[i].series /\ log'[i].ts = log[i].ts
         \/ log'[i].series[1] = Transcript
         \/ \E c \in Calls : /\ RecordCall(c) /\ log'[i].ts = started[c]
                             /\ log'[i].series[1] = Stored[Label[c]]
    BY <1>2, <1>3 DEF KeepsLines
<1>5. CASE \E c \in Calls : StartTask(c)
    <2>1. PICK c \in Calls : StartTask(c)
        BY <1>5
    <2>2. log' = log /\ pc[c] = "todo" /\ pc' = [pc EXCEPT ![c] = "runs"]
        BY <2>1 DEF StartTask
    <2>3. started' = [started EXCEPT ![c] = 1 + Cardinality(Begun)] /\ ClockInv'
        BY <1>1, <2>1, StartClock
    <2>4. LineInv'
        <3>1. ASSUME NEW i \in 1..Len(log), log[i].series[1] # Transcript
              PROVE  \E d \in Calls : /\ pc'[d] = "recorded"
                                      /\ Stored[Label[d]] = log[i].series[1]
                                      /\ log[i].ts = started'[d]
            <4>1. PICK d \in Calls : /\ pc[d] = "recorded"
                                     /\ Stored[Label[d]] = log[i].series[1]
                                     /\ log[i].ts = started[d]
                BY <1>1, <3>1 DEF LineInv
            <4>2. d # c /\ pc'[d] = pc[d] /\ started'[d] = started[d]
                BY <1>3, <2>2, <2>3, <4>1
            <4>3. QED
                BY <4>1, <4>2
        <3>2. QED
            BY <2>2, <3>1 DEF LineInv
    <2>5. QED
        BY <1>2, <2>3, <2>4 DEF CallsInv
<1>6. CASE /\ started' = started
           /\ \A c \in Calls :
                 /\ pc'[c] = "todo" <=> pc[c] = "todo"
                 /\ pc[c] = "recorded" => pc'[c] = "recorded"
    <2>1. ClockInv'
        BY <1>1, <1>6 DEF ClockInv, Begun
    <2>2. ASSUME NEW i \in 1..Len(log'), log'[i].series[1] # Transcript
          PROVE  \E d \in Calls : /\ pc'[d] = "recorded"
                                  /\ Stored[Label[d]] = log'[i].series[1]
                                  /\ log'[i].ts = started'[d]
        <3>1. CASE i \in 1..Len(log) /\ log'[i].series = log[i].series /\ log'[i].ts = log[i].ts
            <4>1. PICK d \in Calls : /\ pc[d] = "recorded"
                                     /\ Stored[Label[d]] = log[i].series[1]
                                     /\ log[i].ts = started[d]
                BY <1>1, <2>2, <3>1 DEF LineInv
            <4>2. QED
                BY <1>6, <3>1, <4>1
        <3>2. CASE \E c \in Calls : /\ RecordCall(c) /\ log'[i].ts = started[c]
                                    /\ log'[i].series[1] = Stored[Label[c]]
            <4>1. PICK c \in Calls : /\ RecordCall(c) /\ log'[i].ts = started[c]
                                     /\ log'[i].series[1] = Stored[Label[c]]
                BY <3>2
            <4>2. pc'[c] = "recorded"
                BY <1>3, <4>1 DEF RecordCall
            <4>3. QED
                BY <1>6, <4>1, <4>2
        <3>3. QED
            BY <1>4, <2>2, <3>1, <3>2
    <2>3. LineInv'
        BY <2>2 DEF LineInv
    <2>4. QED
        BY <1>2, <2>1, <2>3 DEF CallsInv
<1>7. QED
    BY <1>1, <1>5, <1>6, StepCalls

\* CallsInv at the start.
LEMMA CallsInit == Init => CallsInv
<1> SUFFICES ASSUME Init PROVE CallsInv
    OBVIOUS
<1>1. WriterInv
    BY RestoredInit DEF RestoredInv
<1>2. /\ log = <<>> /\ Len(<<>>) = 0
      /\ \A c \in Calls : pc[c] = "todo" /\ started[c] = 0
    BY EmptySeq DEF Init
<1>3. Begun = {} /\ Cardinality(Begun) = 0
    <2>1. Begun = {}
        BY <1>2 DEF Begun
    <2>2. QED
        BY <2>1, FS_EmptySet
<1>4. ClockInv
    BY <1>2, <1>3 DEF ClockInv
<1>5. LineInv
    BY <1>2 DEF LineInv
<1>6. QED
    BY <1>1, <1>4, <1>5 DEF CallsInv

-----------------------------------------------------------------------------
(* The history is true.                                                     *)

\* Calls that do not overlap: whatever is under way is the newest of its label.
AloneInv ==
    ~overlap => \A c, d \in Calls :
        UnderWay(c) /\ c # d /\ Label[d] = Label[c] /\ pc[d] # "todo"
        => ~UnderWay(d) /\ started[d] < started[c]

\* What a line says of its call: all that was used by then.
TrueInv ==
    ~clash /\ ~overlap =>
        \A i \in 1..Len(log), c \in Calls :
            log[i].series[1] = Stored[Label[c]] /\ log[i].ts = started[c]
            => log[i].total = UsedBy(c)

\* The invariant under which the lines of the log are true.
LinesInv == ExactInv /\ CallsInv /\ AloneInv /\ TrueInv

\* What two processes have done to each other stays done.
LEMMA ClashStays == [Next]_vars => (clash => clash')
BY DEF Next, vars, StartTask, RunTask, OpenStore, RecordCall, DropCall,
       ServeStarts, ServeStops, FirstWrite, SecondWrite

\* What had been used by the time of a call, when the same calls count.
LEMMA UsedBySame ==
    ASSUME NEW c \in Calls,
           \A d \in Calls : Stored[Label[d]] = Stored[Label[c]] =>
              (pc'[d] = "recorded" /\ started'[d] =< started'[c] /\ tokens'[d] = 1
               <=> pc[d] = "recorded" /\ started[d] =< started[c] /\ tokens[d] = 1)
    PROVE  UsedBy(c)' = UsedBy(c)
<1> DEFINE l == Stored[Label[c]]
           U == {d \in {b \in Calls : Stored[Label[b]] = l /\ pc[b] = "recorded"} :
                    started[d] =< started[c] /\ tokens[d] = 1}
           V == {d \in {b \in Calls : Stored[Label[b]] = l /\ pc'[b] = "recorded"} :
                    started'[d] =< started'[c] /\ tokens'[d] = 1}
<1>1. U = V
    OBVIOUS
<1>2. UsedBy(c) = Cardinality(U) /\ UsedBy(c)' = Cardinality(V)
    BY DEF UsedBy, Recorded
<1>3. QED
    BY <1>1, <1>2

\* AloneInv over the steps.
LEMMA AloneNext == CallsInv /\ AloneInv /\ [Next]_vars => AloneInv'
<1> SUFFICES ASSUME CallsInv, AloneInv, [Next]_vars PROVE AloneInv'
    OBVIOUS
<1>1. /\ TypeInv /\ ClockInv /\ DOMAIN pc = Calls /\ DOMAIN started = Calls
      /\ overlap \in BOOLEAN
    BY DEF CallsInv, WriterInv, TypeInv, TypeOK
<1>2. CASE \E c \in Calls : StartTask(c)
    <2>1. PICK c \in Calls : StartTask(c)
        BY <1>2
    <2>2. /\ pc[c] = "todo" /\ pc' = [pc EXCEPT ![c] = "runs"]
          /\ overlap' = (overlap \/ \E d \in Calls : UnderWay(d) /\ Label[d] = Label[c])
        BY <2>1 DEF StartTask
    <2>3. /\ started' = [started EXCEPT ![c] = 1 + Cardinality(Begun)]
          /\ \A d \in Calls : started[d] < 1 + Cardinality(Begun)
        BY <1>1, <2>1, StartClock
    <2>4. ASSUME ~overlap', NEW a \in Calls, NEW d \in Calls,
                 UnderWay(a)', a # d, Label[d] = Label[a], pc'[d] # "todo"
          PROVE  ~UnderWay(d)' /\ started'[d] < started'[a]
        <3>1. ~overlap /\ \A b \in Calls : Label[b] = Label[c] => ~UnderWay(b)
            BY <2>2, <2>4
        <3>2. CASE a = c
            <4>1. pc'[d] = pc[d] /\ started'[d] = started[d]
                  /\ started'[a] = 1 + Cardinality(Begun)
                BY <1>1, <2>2, <2>3, <2>4, <3>2
            <4>2. QED
                BY <2>3, <2>4, <3>1, <3>2, <4>1 DEF UnderWay
        <3>3. CASE a # c
            <4>1. pc'[a] = pc[a] /\ started'[a] = started[a] /\ UnderWay(a)
                BY <1>1, <2>2, <2>3, <2>4, <3>3 DEF UnderWay
            <4>2. d # c
                BY <2>4, <3>1, <4>1
            <4>3. pc'[d] = pc[d] /\ started'[d] = started[d]
                BY <1>1, <2>2, <2>3, <4>2
            <4>4. QED
                BY <2>4, <3>1, <4>1, <4>3 DEF AloneInv, UnderWay
        <3>4. QED
            BY <3>2, <3>3
    <2>5. QED
        BY <2>4 DEF AloneInv
<1>3. CASE /\ started' = started /\ overlap' = overlap
           /\ \A c \in Calls : /\ pc'[c] = "todo" <=> pc[c] = "todo"
                               /\ UnderWay(c)' => UnderWay(c)
    <2>1. ASSUME ~overlap', NEW a \in Calls, NEW d \in Calls,
                 UnderWay(a)', a # d, Label[d] = Label[a], pc'[d] # "todo"
          PROVE  ~UnderWay(d)' /\ started'[d] < started'[a]
        <3>1. ~UnderWay(d) /\ started[d] < started[a]
            BY <1>3, <2>1 DEF AloneInv
        <3>2. QED
            BY <1>3, <3>1
    <2>2. QED
        BY <2>1 DEF AloneInv
<1>4. QED
    BY <1>1, <1>2, <1>3, StepCalls

\* A line and a call of the same time: the line is from that call.
LEMMA LineOfCall ==
    ASSUME ClockInv, LineInv, TypeInv, NEW i \in 1..Len(log), NEW c \in Calls,
           log[i].series[1] = Stored[Label[c]], log[i].ts = started[c]
    PROVE  pc[c] = "recorded"
<1>1. log[i].series[1] # Transcript
    BY StoredAssumption
<1>2. PICK d \in Calls : /\ pc[d] = "recorded"
                         /\ Stored[Label[d]] = log[i].series[1]
                         /\ log[i].ts = started[d]
    BY <1>1 DEF LineInv
<1>3. started[d] # 0 /\ started[c] = started[d]
    BY <1>2 DEF ClockInv
<1>4. c = d
    BY <1>3 DEF ClockInv
<1>5. QED
    BY <1>2, <1>4

\* The line a call appends says what was used by its time.
LEMMA NewLineIsTrue ==
    ASSUME Uncut, ExactInv, ClockInv, AloneInv, ~clash, ~overlap,
           NEW c \in Calls, RecordCall(c), NEW t \in Types
    PROVE  seed[c][<<Label[c], t>>] + tokens[c] = UsedBy(c)'
<1>1. /\ TypeInv /\ DOMAIN pc = Calls /\ pc[c] = "seeded"
      /\ pc' = [pc EXCEPT ![c] = "recorded"] /\ UNCHANGED <<started, tokens>>
      /\ \A d \in Calls : started[d] \in Nat
    BY DEF ExactInv, WriterInv, TypeInv, TypeOK, RecordCall
<1>2. Stored[Label[c]] = Label[c] /\ seed[c][<<Label[c], t>>] = Used(Label[c])
    BY <1>1 DEF Uncut, ExactInv
<1>3. Used(Label[c])' = Used(Label[c]) + tokens[c]
    BY <1>1, <1>2, UsedAdds
<1>4. UsedBy(c)' = Used(Label[c])'
    <2> DEFINE U == {d \in {b \in Calls : Stored[Label[b]] = Label[c]
                                          /\ pc'[b] = "recorded"} :
                        started'[d] =< started'[c] /\ tokens'[d] = 1}
               V == {d \in {b \in Calls : Stored[Label[b]] = Label[c]
                                          /\ pc'[b] = "recorded"} : tokens'[d] = 1}
    <2>1. ASSUME NEW d \in Calls, Stored[Label[d]] = Label[c], pc'[d] = "recorded"
          PROVE  started'[d] =< started'[c]
        <3>1. CASE d = c
            BY <1>1, <3>1
        <3>2. CASE d # c
            <4>1. /\ pc[d] = "recorded" /\ Label[d] = Label[c] /\ UnderWay(c)
                BY <1>1, <2>1, <3>2 DEF Uncut, UnderWay
            <4>2. started[d] < started[c]
                BY <3>2, <4>1 DEF AloneInv
            <4>3. QED
                BY <1>1, <4>2
        <3>3. QED
            BY <3>1, <3>2
    <2>2. U = V
        BY <2>1
    <2>3. UsedBy(c)' = Cardinality(U) /\ Used(Label[c])' = Cardinality(V)
        BY <1>2 DEF UsedBy, Used, Recorded
    <2>4. QED
        BY <2>2, <2>3
<1>5. QED
    BY <1>2, <1>3, <1>4

\* LinesInv over the steps.
LEMMA LinesNext == Uncut /\ LinesInv /\ [Next]_vars => LinesInv'
<1> SUFFICES ASSUME Uncut, LinesInv, [Next]_vars PROVE LinesInv'
    OBVIOUS
<1>1. /\ ExactInv /\ CallsInv /\ AloneInv /\ TrueInv /\ ClockInv /\ LineInv
      /\ WriterInv /\ TypeInv /\ DOMAIN pc = Calls /\ DOMAIN started = Calls
      /\ log \in Seq(Record)
    BY DEF LinesInv, CallsInv, WriterInv, TypeInv, TypeOK
<1>2. ExactInv' /\ CallsInv' /\ AloneInv'
    BY <1>1, ExactNext, CallsNext, AloneNext
<1>3. ClockInv' /\ LineInv' /\ TypeInv'
    BY <1>2 DEF CallsInv, WriterInv
<1>4. CASE \E c \in Calls : StartTask(c)
    <2>1. PICK c \in Calls : StartTask(c)
        BY <1>4
    <2>2. /\ pc[c] = "todo" /\ pc' = [pc EXCEPT ![c] = "runs"] /\ log' = log
          /\ UNCHANGED <<tokens, clash>>
          /\ overlap' = (overlap \/ \E d \in Calls : UnderWay(d) /\ Label[d] = Label[c])
        BY <2>1 DEF StartTask
    <2>3. /\ started' = [started EXCEPT ![c] = 1 + Cardinality(Begun)]
        BY <1>1, <2>1, StartClock
    <2>4. ASSUME ~clash', ~overlap', NEW i \in 1..Len(log), NEW d \in Calls,
                 log[i].series[1] = Stored[Label[d]], log[i].ts = started'[d]
          PROVE  log[i].total = UsedBy(d)'
        <3>1. pc'[d] = "recorded"
            <4>1. PICK e \in Calls : pc[e] = "recorded" /\ log[i].ts = started[e]
                BY <1>1, <2>4, StoredAssumption DEF LineInv
            <4>2. /\ pc'[e] = "recorded" /\ started'[e] = started[e]
                BY <1>1, <2>2, <2>3, <4>1
            <4>3. started'[e] # 0 /\ started'[e] = started'[d]
                BY <1>1, <2>4, <4>1, <4>2 DEF ClockInv
            <4>4. QED
                BY <1>3, <4>2, <4>3 DEF ClockInv
        <3>2. d # c /\ started'[d] = started[d]
            BY <1>1, <2>2, <2>3, <3>1
        <3>3. log[i].total = UsedBy(d)
            BY <2>2, <2>4, <3>2, <1>1 DEF TrueInv
        <3>4. \A b \in Calls :
                 \/ started'[b] = started[b] /\ pc'[b] = pc[b]
                 \/ b = c /\ ~(started'[c] =< started'[d]) /\ pc'[c] # "recorded"
                    /\ pc[c] # "recorded"
            <4>1. \A b \in Calls : started[b] < 1 + Cardinality(Begun)
                BY <1>1, <2>1, StartClock
            <4>2. started[d] \in Nat /\ Cardinality(Begun) \in Nat
                BY <1>1, <2>1, StartClock DEF TypeInv, TypeOK
            <4>3. ~(1 + Cardinality(Begun) =< started[d])
                BY <4>1, <4>2
            <4>4. QED
                BY <1>1, <2>2, <2>3, <3>2, <4>3
        <3>5. UsedBy(d)' = UsedBy(d)
            BY <2>2, <3>2, <3>4, UsedBySame
        <3>6. QED
            BY <3>3, <3>5
    <2>5. TrueInv'
        BY <2>2, <2>4 DEF TrueInv
    <2>6. QED
        BY <1>2, <2>5 DEF LinesInv
<1>5. CASE /\ started' = started /\ overlap' = overlap
           /\ \A c \in Calls :
                 /\ pc[c] = "recorded" => pc'[c] = "recorded"
                 /\ pc[c] = "recorded" => tokens'[c] = tokens[c]
                 /\ pc'[c] = "recorded" => pc[c] = "recorded" \/ RecordCall(c)
    <2>1. ASSUME ~clash', ~overlap', NEW i \in 1..Len(log'), NEW d \in Calls,
                 log'[i].series[1] = Stored[Label[d]], log'[i].ts = started'[d]
          PROVE  log'[i].total = UsedBy(d)'
        <3>1. ~clash /\ ~overlap
            BY <1>5, <2>1, ClashStays
        <3>2. CASE i \in 1..Len(log)
            <4>1. KeepsLines(log, log')
                BY <1>1, StepLines
            <4>2. /\ log'[i].series = log[i].series /\ log'[i].ts = log[i].ts
                  /\ log'[i].total = log[i].total
                BY <3>2, <4>1 DEF KeepsLines
            <4>3. /\ log[i].total = UsedBy(d) /\ pc[d] = "recorded"
                BY <1>1, <1>5, <2>1, <3>1, <3>2, <4>2, LineOfCall DEF TrueInv
            <4>4. ASSUME NEW b \in Calls, Stored[Label[b]] = Stored[Label[d]],
                         RecordCall(b)
                  PROVE  ~(started[b] =< started[d])
                <5>1. UnderWay(b) /\ b # d /\ Label[d] = Label[b]
                    BY <4>3, <4>4 DEF RecordCall, UnderWay, Uncut
                <5>2. started[d] < started[b]
                    BY <1>1, <3>1, <4>3, <5>1 DEF AloneInv
                <5>3. started[d] \in Nat /\ started[b] \in Nat
                    BY <1>1 DEF TypeInv, TypeOK
                <5>4. QED
                    BY <5>2, <5>3
            <4>5. UsedBy(d)' = UsedBy(d)
                BY <1>5, <4>4, UsedBySame
            <4>6. QED
                BY <4>2, <4>3, <4>5
        <3>3. CASE i \in (Len(log) + 1)..Len(log')
            <4>1. PICK c \in Calls : /\ RecordCall(c) /\ log'[i].ts = started[c]
                                     /\ log'[i].series[1] = Stored[Label[c]]
                BY <1>1, <2>1, <3>3, StepLines, StoredAssumption
            <4>2. started[c] # 0
                BY <1>1, <4>1 DEF RecordCall, ClockInv
            <4>3. d = c
                BY <1>1, <1>5, <2>1, <4>1, <4>2 DEF ClockInv
            <4>4. PICK t \in Types : log'[i].total = seed[c][<<Label[c], t>>] + tokens[c]
                BY <1>1, <3>3, <4>1, RecordCallLines
            <4>5. QED
                BY <1>1, <3>1, <4>1, <4>3, <4>4, NewLineIsTrue
        <3>4. Len(log) \in Nat /\ Len(log') \in Nat
            BY <1>1, <1>3 DEF TypeInv, TypeOK
        <3>5. QED
            BY <3>2, <3>3, <3>4
    <2>2. TrueInv'
        BY <2>1 DEF TrueInv
    <2>3. QED
        BY <1>2, <2>2 DEF LinesInv
<1>6. QED
    BY <1>1, <1>4, <1>5, StepCalls

\* What a post may add to VictoriaMetrics.
TakenOf(taken) == UNION {WriteLines(AllSamples)[s] : s \in taken}
Lines == DOMAIN WriteLines(AllSamples)

\* It adds samples of readable lines of the log only, and without a failure all
\* of them.
LEMMA WhatIsTaken ==
    ASSUME TypeInv, NEW taken \in SUBSET Lines
    PROVE  /\ \A x \in TakenOf(taken) : \E i \in 1..Len(log) : x = Sample(log[i])
           /\ taken = Lines => AllSamples \in SUBSET TakenOf(taken)
<1>1. \A x \in AllSamples : \E i \in 1..Len(log) : x = Sample(log[i])
    <2>1. DOMAIN log = 1..Len(log)
        BY LenProperties DEF TypeInv, TypeOK
    <2>2. QED
        BY <2>1 DEF AllSamples, Range
<1>2. \A x \in TakenOf(taken) : x \in AllSamples
    BY DEF TakenOf, Lines, WriteLines
<1>3. ASSUME taken = Lines, NEW x \in AllSamples
      PROVE  x \in TakenOf(taken)
    <2>1. x.series \in taken /\ x \in WriteLines(AllSamples)[x.series]
        BY <1>3 DEF Lines, WriteLines
    <2>2. QED
        BY <2>1 DEF TakenOf
<1>4. QED
    BY <1>1, <1>2, <1>3

\* VictoriaMetrics holds lines of the log.
VmInv == \A x \in vm : \E i \in 1..Len(log) : x = Sample(log[i])

\* VmInv over the steps.
LEMMA VmNext == WriterInv /\ VmInv /\ [ExportNext]_<<vars, export>> => VmInv'
<1> SUFFICES ASSUME WriterInv, VmInv, [ExportNext]_<<vars, export>> PROVE VmInv'
    OBVIOUS
<1>1. CASE RunExportVM
    <2>1. PICK taken \in SUBSET Lines : vm' = vm \cup TakenOf(taken)
        BY <1>1 DEF RunExportVM, Import, TakenOf, Lines
    <2>2. log' = log /\ TypeInv
        BY <1>1 DEF RunExportVM, vars, WriterInv
    <2>3. QED
        BY <2>1, <2>2, WhatIsTaken DEF VmInv
<1>2. CASE [Next]_vars /\ vm' = vm
    <2>1. KeepsLines(log, log') /\ Len(log) \in Nat /\ Len(log') \in Nat
        BY <1>2, StepLines DEF WriterInv, TypeInv, TypeOK
    <2>2. ASSUME NEW i \in 1..Len(log)
          PROVE  i \in 1..Len(log') /\ Sample(log'[i]) = Sample(log[i])
        BY <2>1 DEF KeepsLines, Sample
    <2>3. QED
        BY <1>2, <2>2 DEF VmInv
<1>3. QED
    BY <1>1, <1>2 DEF ExportNext, vars, export

\* The history in VictoriaMetrics is true at every time, when no label is cut,
\* for any number of calls, of batches of serve and of runs of export-vm.
THEOREM HistoryNeverLies ==
    ASSUME Uncut
    PROVE  ExportSpec => []HistoryIsTrue
<1>1. ExportInit => LinesInv /\ VmInv
    <2> SUFFICES ASSUME ExportInit PROVE LinesInv /\ VmInv
        OBVIOUS
    <2>1. /\ Init /\ vm = {} /\ log = <<>> /\ Len(<<>>) = 0
          /\ \A c \in Calls : ~UnderWay(c)
        BY EmptySeq DEF ExportInit, Init, UnderWay
    <2>2. QED
        BY <2>1, ExactInit, CallsInit DEF LinesInv, AloneInv, TrueInv, VmInv
<1>2. LinesInv /\ VmInv /\ [ExportNext]_<<vars, export>> => LinesInv' /\ VmInv'
    <2>1. [ExportNext]_<<vars, export>> => [Next]_vars
        BY DEF ExportNext, RunExportVM
    <2>2. LinesInv => WriterInv
        BY DEF LinesInv, CallsInv
    <2>3. QED
        BY <2>1, <2>2, LinesNext, VmNext
<1>3. LinesInv /\ VmInv => HistoryIsTrue
    <2> SUFFICES ASSUME LinesInv, VmInv, ~clash, ~overlap, NEW x \in vm, NEW c \in Calls,
                        x.series[1] = Stored[Label[c]], x.ts = started[c]
                 PROVE  x.total = UsedBy(c)
        BY DEF HistoryIsTrue
    <2>1. PICK i \in 1..Len(log) : x = Sample(log[i])
        BY DEF VmInv
    <2>2. x.series = log[i].series /\ x.ts = log[i].ts /\ x.total = log[i].total
        BY <2>1 DEF Sample
    <2>3. QED
        BY <2>2 DEF LinesInv, TrueInv
<1>4. QED
    BY <1>1, <1>2, <1>3, PTL DEF ExportSpec

-----------------------------------------------------------------------------
(* The history is complete.                                                 *)

\* Line i of the log can be read, and carries this total of this call.
IsLineOf(i, c, t) ==
    log[i].ok = TRUE /\ log[i].series = <<Stored[Label[c]], t>> /\ log[i].ts = started[c]

\* Without a clash every recorded call has a readable line in every series.
ReadableInv ==
    ~clash => \A c \in Calls, t \in Types :
        pc[c] = "recorded" => \E i \in 1..Len(log) : IsLineOf(i, c, t)

\* A call that was exported is in VictoriaMetrics, or has no readable line.
ExportedInv ==
    \A c \in exported :
        /\ c \in Calls /\ pc[c] = "recorded"
        /\ \A t \in Types :
              \/ Of(c, t, vm) # {}
              \/ clash /\ \A i \in 1..Len(log) : ~IsLineOf(i, c, t)

\* The lines of a call, as the property names them.
LEMMA ReadableLines ==
    ASSUME TypeInv, NEW c \in Calls, NEW t \in Types
    PROVE  Of(c, t, {r \in Range(log) : r.ok}) = {}
           <=> \A i \in 1..Len(log) : ~IsLineOf(i, c, t)
<1>1. DOMAIN log = 1..Len(log)
    BY LenProperties DEF TypeInv, TypeOK
<1>2. \A i \in 1..Len(log) : log[i].ok \in BOOLEAN
    <2>1. log \in Seq(Record)
        BY DEF TypeInv, TypeOK
    <2>2. \A i \in 1..Len(log) : log[i] \in Record
        BY <2>1, ElementOfSeq
    <2>3. QED
        BY <2>2 DEF Record
<1>3. ASSUME NEW i \in 1..Len(log), IsLineOf(i, c, t)
      PROVE  Of(c, t, {r \in Range(log) : r.ok}) # {}
    <2>1. log[i] \in Range(log)
        BY <1>1 DEF Range
    <2>2. log[i] \in Of(c, t, {r \in Range(log) : r.ok})
        BY <1>3, <2>1 DEF Of, IsLineOf
    <2>3. QED
        BY <2>2
<1>4. ASSUME NEW x \in Of(c, t, {r \in Range(log) : r.ok})
      PROVE  \E i \in 1..Len(log) : IsLineOf(i, c, t)
    <2>1. PICK i \in 1..Len(log) : x = log[i]
        BY <1>1 DEF Of, Range
    <2>2. x.ok /\ x.series = <<Stored[Label[c]], t>> /\ x.ts = started[c]
        BY DEF Of
    <2>3. log[i].ok = TRUE
        BY <1>2, <2>1, <2>2
    <2>4. QED
        BY <2>1, <2>2, <2>3 DEF IsLineOf
<1>5. QED
    BY <1>3, <1>4

\* A recorded call keeps the lines it has, and gets no other.
LEMMA LinesOfRecorded ==
    ASSUME CallsInv, [Next]_vars, NEW c \in Calls, pc[c] = "recorded", NEW t \in Types
    PROVE  /\ pc'[c] = "recorded" /\ started'[c] = started[c]
           /\ \A i \in 1..Len(log) :
                 i \in 1..Len(log') /\ (IsLineOf(i, c, t)' <=> IsLineOf(i, c, t))
           /\ \A i \in 1..Len(log') : IsLineOf(i, c, t)' => i \in 1..Len(log)
<1>1. /\ WriterInv /\ TypeInv /\ ClockInv /\ DOMAIN pc = Calls
      /\ DOMAIN started = Calls /\ Len(log) \in Nat /\ Len(log') \in Nat
    BY NextType DEF CallsInv, WriterInv, TypeInv, TypeOK
<1>2. pc'[c] = "recorded" /\ started'[c] = started[c]
    <2>1. ASSUME NEW d \in Calls, StartTask(d)
          PROVE  pc'[c] = "recorded" /\ started'[c] = started[c]
        BY <1>1, <2>1 DEF StartTask
    <2>2. QED
        BY <1>1, <2>1, StepCalls
<1>3. KeepsLines(log, log')
    BY <1>1, StepLines
<1>4. Stored[Label[c]] # Transcript
    BY StoredAssumption
<1>5. ASSUME NEW i \in 1..Len(log)
      PROVE  i \in 1..Len(log') /\ (IsLineOf(i, c, t)' <=> IsLineOf(i, c, t))
    <2>1. /\ i \in 1..Len(log')
          /\ log'[i].series = log[i].series /\ log'[i].ts = log[i].ts
          /\ log[i].series[1] # Transcript => log'[i].ok = log[i].ok
        BY <1>1, <1>3 DEF KeepsLines
    <2>2. log[i].series = <<Stored[Label[c]], t>> => log[i].series[1] # Transcript
        BY <1>4
    <2>3. QED
        BY <1>2, <2>1, <2>2 DEF IsLineOf
<1>6. ASSUME NEW i \in 1..Len(log'), IsLineOf(i, c, t)'
      PROVE  i \in 1..Len(log)
    <2>1. SUFFICES ASSUME i \in (Len(log) + 1)..Len(log') PROVE FALSE
        BY <1>1
    <2>2. log'[i].series[1] = Stored[Label[c]] /\ log'[i].ts = started[c]
        BY <1>2, <1>6 DEF IsLineOf
    <2>3. PICK d \in Calls : RecordCall(d) /\ log'[i].ts = started[d]
        BY <1>1, <1>4, <2>1, <2>2, StepLines
    <2>4. pc[d] = "seeded" /\ started[c] = started[d] /\ started[c] # 0
        BY <1>1, <2>2, <2>3 DEF RecordCall, ClockInv
    <2>5. d = c
        BY <1>1, <2>4 DEF ClockInv
    <2>6. QED
        BY <2>4, <2>5
<1>7. QED
    BY <1>2, <1>5, <1>6

\* ReadableInv over the steps.
LEMMA ReadableNext == CallsInv /\ ReadableInv /\ [Next]_vars => ReadableInv'
<1> SUFFICES ASSUME CallsInv, ReadableInv, [Next]_vars, ~clash',
                    NEW c \in Calls, NEW t \in Types, pc'[c] = "recorded"
             PROVE  \E i \in 1..Len(log') : IsLineOf(i, c, t)'
    BY DEF ReadableInv
<1>1. WriterInv /\ TypeInv /\ DOMAIN pc = Calls /\ ~clash
    BY ClashStays DEF CallsInv, WriterInv, TypeInv, TypeOK
<1>2. CASE pc[c] = "recorded"
    <2>1. PICK i \in 1..Len(log) : IsLineOf(i, c, t)
        BY <1>1, <1>2 DEF ReadableInv
    <2>2. QED
        BY <1>2, <2>1, LinesOfRecorded
<1>3. CASE RecordCall(c)
    <2>1. ~open /\ started' = started
        BY <1>3 DEF RecordCall
    <2>2. PICK i \in (Len(log) + 1)..Len(log') : log'[i].series = <<Stored[Label[c]], t>>
        BY <1>1, <1>3, <2>1, RecordCallLines
    <2>3. log'[i].ok = TRUE /\ log'[i].ts = started[c]
        BY <1>1, <1>3, RecordCallLines
    <2>4. i \in 1..Len(log')
        <3>1. Len(log) \in Nat /\ Len(log') \in Nat
            BY <1>1, NextType DEF TypeInv, TypeOK
        <3>2. QED
            BY <3>1
    <2>5. QED
        BY <2>1, <2>2, <2>3, <2>4 DEF IsLineOf
<1>4. CASE \E d \in Calls : StartTask(d)
    BY <1>1, <1>2, <1>4 DEF StartTask
<1>5. QED
    BY <1>1, <1>2, <1>3, <1>4, StepCalls

\* ExportedInv over the steps.
LEMMA ExportedNext ==
    CallsInv /\ ReadableInv /\ ExportedInv /\ [ExportNext]_<<vars, export>>
    => ExportedInv'
<1> SUFFICES ASSUME CallsInv, ReadableInv, ExportedInv, [ExportNext]_<<vars, export>>,
                    NEW c \in exported'
             PROVE  /\ c \in Calls /\ pc'[c] = "recorded"
                    /\ \A t \in Types :
                          \/ Of(c, t, vm)' # {}
                          \/ clash' /\ \A i \in 1..Len(log') : ~IsLineOf(i, c, t)'
    BY DEF ExportedInv
<1>1. TypeInv
    BY DEF CallsInv, WriterInv
<1>2. CASE [Next]_vars /\ UNCHANGED export
    <2>1. c \in exported /\ vm' = vm /\ c \in Calls /\ pc[c] = "recorded"
        BY <1>2 DEF export, ExportedInv
    <2>2. ASSUME NEW t \in Types
          PROVE  /\ pc'[c] = "recorded"
                 /\ \/ Of(c, t, vm)' # {}
                    \/ clash' /\ \A i \in 1..Len(log') : ~IsLineOf(i, c, t)'
        <3>1. /\ pc'[c] = "recorded" /\ started'[c] = started[c]
              /\ \A i \in 1..Len(log) :
                    i \in 1..Len(log') /\ (IsLineOf(i, c, t)' <=> IsLineOf(i, c, t))
              /\ \A i \in 1..Len(log') : IsLineOf(i, c, t)' => i \in 1..Len(log)
            BY <1>2, <2>1, LinesOfRecorded
        <3>2. CASE Of(c, t, vm) # {}
            <4>1. Of(c, t, vm)' = Of(c, t, vm)
                BY <2>1, <3>1 DEF Of
            <4>2. QED
                BY <3>1, <3>2, <4>1
        <3>3. CASE clash /\ \A i \in 1..Len(log) : ~IsLineOf(i, c, t)
            BY <1>2, <3>1, <3>3, ClashStays
        <3>4. QED
            BY <2>1, <3>2, <3>3 DEF ExportedInv
    <2>3. QED
        BY <2>1, <2>2 DEF Types
<1>3. CASE RunExportVM
    <2>1. UNCHANGED vars
        BY <1>3 DEF RunExportVM
    <2>2. PICK taken \in SUBSET Lines :
             /\ vm' = vm \cup TakenOf(taken)
             /\ \/ /\ taken = Lines
                   /\ exported' = exported \cup {d \in Calls : pc[d] = "recorded"}
                \/ exported' = exported
        BY <1>3 DEF RunExportVM, Import, TakenOf, Lines
    <2>3. c \in Calls /\ pc[c] = "recorded"
        BY <2>2 DEF ExportedInv
    <2>4. ASSUME NEW t \in Types
          PROVE  \/ Of(c, t, vm)' # {}
                 \/ clash' /\ \A i \in 1..Len(log') : ~IsLineOf(i, c, t)'
        <3>1. Of(c, t, vm)' = Of(c, t, vm')
            BY <2>1 DEF Of, vars, calls
        <3>2. CASE c \in exported
            <4>1. Of(c, t, vm) \in SUBSET Of(c, t, vm')
                BY <2>2 DEF Of
            <4>2. CASE Of(c, t, vm) # {}
                BY <3>1, <4>1, <4>2
            <4>3. CASE clash /\ \A i \in 1..Len(log) : ~IsLineOf(i, c, t)
                BY <2>1, <4>3 DEF IsLineOf, vars, calls
            <4>4. QED
                BY <3>2, <4>2, <4>3 DEF ExportedInv
        <3>3. CASE taken = Lines /\ \E i \in 1..Len(log) : IsLineOf(i, c, t)
            <4>1. PICK i \in 1..Len(log) : IsLineOf(i, c, t)
                BY <3>3
            <4>2. Sample(log[i]) \in AllSamples
                <5>1. DOMAIN log = 1..Len(log)
                    BY <1>1, LenProperties DEF TypeInv, TypeOK
                <5>2. log[i] \in Range(log) /\ log[i].ok
                    BY <4>1, <5>1 DEF Range, IsLineOf
                <5>3. QED
                    BY <5>2 DEF AllSamples
            <4>3. Sample(log[i]) \in vm'
                BY <1>1, <2>2, <3>3, <4>2, WhatIsTaken
            <4>4. Sample(log[i]) \in Of(c, t, vm')
                BY <4>1, <4>3 DEF Of, Sample, IsLineOf
            <4>5. QED
                BY <3>1, <4>4
        <3>4. CASE ~\E i \in 1..Len(log) : IsLineOf(i, c, t)
            <4>1. clash
                BY <2>3, <3>4 DEF ReadableInv
            <4>2. QED
                BY <2>1, <3>4, <4>1 DEF IsLineOf, vars, calls
        <3>5. QED
            BY <2>2, <3>2, <3>3, <3>4
    <2>5. QED
        BY <2>1, <2>3, <2>4 DEF vars, calls
<1>4. QED
    BY <1>2, <1>3 DEF ExportNext, vars, export

\* A successful export leaves out no call that the log has in readable lines,
\* and without a clash no call that it has at all: whatever is torn around them,
\* and however many exports have failed halfway.
THEOREM NothingIsMissing == ExportSpec => []HistoryIsComplete
<1> DEFINE Complete == CallsInv /\ ReadableInv /\ ExportedInv
<1>1. ExportInit => Complete
    <2> SUFFICES ASSUME ExportInit PROVE Complete
        OBVIOUS
    <2>1. Init /\ exported = {} /\ \A c \in Calls : pc[c] # "recorded"
        BY DEF ExportInit, Init
    <2>2. QED
        BY <2>1, CallsInit DEF ReadableInv, ExportedInv
<1>2. Complete /\ [ExportNext]_<<vars, export>> => Complete'
    <2>1. [ExportNext]_<<vars, export>> => [Next]_vars
        BY DEF ExportNext, RunExportVM
    <2>2. QED
        BY <2>1, CallsNext, ReadableNext, ExportedNext
<1>3. Complete => HistoryIsComplete
    <2> SUFFICES ASSUME Complete, NEW c \in exported, NEW t \in Types
                 PROVE  \/ Of(c, t, vm) # {}
                        \/ clash /\ Of(c, t, {r \in Range(log) : r.ok}) = {}
        BY DEF HistoryIsComplete, Types
    <2>1. TypeInv /\ c \in Calls
        BY DEF CallsInv, WriterInv, ExportedInv
    <2>2. QED
        BY <2>1, ReadableLines DEF ExportedInv
<1>4. QED
    BY <1>1, <1>2, <1>3, PTL DEF ExportSpec
=============================================================================
