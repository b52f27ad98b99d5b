--------------------------- MODULE TrackedProofs ----------------------------
(* Theorems about TrackedCalls, for any finite set of calls, any labels and *)
(* any number of batches of serve.                                          *)
EXTENDS TrackedCalls, SequenceTheorems, FiniteSetTheorems, WellFoundedInduction,
        TLAPS

Types == {"input", "output"}

-----------------------------------------------------------------------------
(* Records and what is counted of a label.                                  *)

\* The labels of calls, and what the log makes of them, are labels.
LEMMA LabelsKnown ==
    /\ Transcript \in Labels /\ Stored[Transcript] = Transcript
    /\ \A c \in Calls : Label[c] \in Labels /\ Stored[Label[c]] \in Labels
    /\ \A l \in Labels, t \in Types : <<l, t>> \in Series
    /\ \A s \in Series : s[1] \in Labels /\ s[2] \in Types /\ s = <<s[1], s[2]>>
BY StoredAssumption DEF Labels, Series, Types

\* The usage of a label is a number.
LEMMA UsedType ==
    ASSUME NEW label
    PROVE  /\ IsFiniteSet({c \in Recorded(label) : tokens[c] = 1})
           /\ Used(label) \in Nat
<1>1. {c \in Recorded(label) : tokens[c] = 1} \in SUBSET Calls
    BY DEF Recorded
<1>2. QED
    BY <1>1, FS_Subset, FS_CardinalityType, LabelAssumption DEF Used

\* It never goes down when no recorded call is forgotten.
LEMMA UsedGrows ==
    ASSUME NEW label,
           \A c \in Calls : pc[c] = "recorded" => pc'[c] = "recorded" /\ tokens'[c] = tokens[c]
    PROVE  Used(label) =< Used(label)' /\ Used(label)' \in Nat
<1> DEFINE U == {c \in Recorded(label) : tokens[c] = 1}
           V == {c \in Calls : Stored[Label[c]] = label /\ pc'[c] = "recorded"
                               /\ tokens'[c] = 1}
<1>1. U \in SUBSET V /\ V \in SUBSET Calls
    BY DEF Recorded
<1>2. IsFiniteSet(V) /\ Cardinality(V) \in Nat
    BY <1>1, FS_Subset, FS_CardinalityType, LabelAssumption
<1>3. Cardinality(U) =< Cardinality(V)
    BY <1>1, <1>2, FS_Subset
<1>4. Used(label)' = Cardinality(V)
    <2>1. V = {c \in {d \in Calls : Stored[Label[d]] = label /\ pc'[d] = "recorded"} :
                  tokens'[c] = 1}
        OBVIOUS
    <2>2. QED
        BY <2>1 DEF Used, Recorded
<1>5. QED
    BY <1>2, <1>3, <1>4 DEF Used

\* A batch is one record per token type, all under the stored label.
LEMMA BatchRecords ==
    ASSUME NEW totals \in Counts, NEW label \in Labels, NEW ts \in Nat,
           Stored[label] \in Labels
    PROVE  /\ Batch(totals, label, ts) \in Seq(Record)
           /\ Len(Batch(totals, label, ts)) = 2
           /\ \A i \in 1..2 :
                 /\ Batch(totals, label, ts)[i] \in Record
                 /\ Batch(totals, label, ts)[i].series[1] = Stored[label]
                 /\ \E t \in Types : Batch(totals, label, ts)[i].total = totals[<<label, t>>]
<1> DEFINE R(i) == [ok |-> TRUE, series |-> <<Stored[label], TokenTypes[i]>>,
                    ts |-> ts, total |-> totals[<<label, TokenTypes[i]>>]]
<1>1. Len(TokenTypes) = 2 /\ TokenTypes[1] \in Types /\ TokenTypes[2] \in Types
    BY DEF TokenTypes, Types
<1>2. \A i \in 1..2 : TokenTypes[i] \in Types
    BY <1>1
<1>3. \A i \in 1..2 : R(i) \in Record /\ R(i).series[1] = Stored[label]
                     /\ R(i).total = totals[<<label, TokenTypes[i]>>]
    BY <1>2, LabelsKnown DEF Record, Counts
<1>4. Batch(totals, label, ts) = [i \in 1..2 |-> R(i)]
    BY <1>1 DEF Batch
<1> HIDE DEF R
<1>5. [i \in 1..2 |-> R(i)] \in Seq(Record) /\ Len([i \in 1..2 |-> R(i)]) = 2
    BY <1>3
<1>6. QED
    BY <1>2, <1>3, <1>4, <1>5

\* What a replay finds of a series is one of its lines, or nothing.
LEMMA ReplayLine ==
    ASSUME NEW s \in Series
    PROVE  \/ Replay[s] = 0
           \/ \E i \in 1..Len(log) : log[i].series = s /\ Replay[s] = log[i].total
<1>1. CASE Latest(s) = {}
    BY <1>1 DEF Replay
<1>2. CASE Latest(s) # {}
    <2> DEFINE k == CHOOSE i \in Latest(s) : TRUE
    <2>1. k \in Latest(s)
        BY <1>2
    <2>2. k \in 1..Len(log) /\ log[k].series = s
        BY <2>1 DEF Latest
    <2>3. Replay[s] = log[k].total
        BY <1>2 DEF Replay
    <2>4. QED
        BY <2>2, <2>3
<1>3. QED
    BY <1>1, <1>2

\* A replay gives totals.
LEMMA ReplayType ==
    ASSUME log \in Seq(Record)
    PROVE  Replay \in Counts
<1>1. \A i \in 1..Len(log) : log[i] \in Record
    BY ElementOfSeq
<1>2. \A i \in 1..Len(log) : log[i].total \in Nat
    BY <1>1 DEF Record
<1>3. \A s \in Series : Replay[s] \in Nat
    BY <1>2, ReplayLine
<1>4. QED
    BY <1>3 DEF Replay, Counts

\* Applying usage to totals gives totals.
LEMMA AddType ==
    ASSUME NEW totals \in Counts, NEW label, NEW n \in Nat
    PROVE  Add(totals, label, n) \in Counts
BY DEF Add, Counts

\* Lines that get in each other's way stay lines of the same kind.
LEMMA JoinedSeq ==
    ASSUME NEW S, log \in Seq(S), log # <<>>, \A r \in S : Spoiled(r) \in S,
           NEW records \in Seq(S), records # <<>>
    PROVE  Joined(records) \in Seq(S)
<1>1. Len(log) \in Nat \ {0} /\ Tail(records) \in Seq(S)
    BY EmptySeq, HeadTailProperties
<1>2. SubSeq(log, 1, Len(log) - 1) \in Seq(S)
    <2>1. \A i \in 1..(Len(log) - 1) : log[i] \in S
        BY <1>1, ElementOfSeq
    <2>2. QED
        BY <1>1, <2>1, SubSeqProperties
<1>3. Spoiled(log[Len(log)]) \in S
    BY <1>1, ElementOfSeq
<1>4. Append(SubSeq(log, 1, Len(log) - 1), Spoiled(log[Len(log)])) \in Seq(S)
    BY <1>2, <1>3, AppendProperties
<1>5. QED
    BY <1>1, <1>4, ConcatProperties DEF Joined

-----------------------------------------------------------------------------
(* Types.                                                                   *)

\* The types, and: an open line is there, and what serve has left to write is
\* under its own label.
TypeInv ==
    /\ TypeOK
    /\ open => log # <<>>
    /\ \A i \in 1..Len(rest) : rest[i].series[1] = Transcript

\* A sequence is one over any set that has all its elements.
LEMMA SeqOver ==
    ASSUME NEW S, NEW T, NEW s \in Seq(T), \A i \in 1..Len(s) : s[i] \in S
    PROVE  s \in Seq(S)
<1>1. Len(s) \in Nat /\ s \in [1..Len(s) -> T] /\ DOMAIN s = 1..Len(s)
    BY LenProperties
<1>2. s \in [1..Len(s) -> S]
    BY <1>1
<1>3. QED
    BY <1>1, <1>2

\* What Append and concatenation keep.
LEMMA AppendStays ==
    ASSUME NEW S, NEW front \in Seq(S), NEW x \in S
    PROVE  Append(front, x) \in Seq(S) /\ Append(front, x) # <<>>
<1>1. Append(front, x) \in Seq(S) /\ Len(Append(front, x)) = Len(front) + 1
    BY AppendProperties
<1>2. Len(front) \in Nat
    OBVIOUS
<1>3. QED
    BY <1>1, <1>2, EmptySeq

LEMMA ConcatStays ==
    ASSUME NEW S, NEW front \in Seq(S), NEW back \in Seq(S)
    PROVE  front \o back \in Seq(S)
BY ConcatProperties

\* The records of the first write of serve, and those it leaves.
LEMMA FirstWriteRecords ==
    ASSUME TypeInv, FirstWrite, NEW S \in SUBSET Record, log \in Seq(S),
           \A r \in Record : r.series[1] = Transcript => r \in S
    PROVE  /\ log' \in Seq(S) /\ rest' \in Seq(S) /\ acc' \in Counts
           /\ batches' \in 0..MaxBatches
           /\ open' \in BOOLEAN /\ half' \in BOOLEAN /\ split' \in BOOLEAN
           /\ open' => log' # <<>>
           /\ \A i \in 1..Len(rest') : rest'[i].series[1] = Transcript
<1> USE DEF TypeInv, TypeOK
<1> DEFINE records == Batch(acc', Transcript, batches')
<1>1. /\ batches' \in Nat /\ batches' \in 0..MaxBatches /\ acc' \in Counts
      /\ rest = <<>>
    BY BatchesAssumption, AddType DEF FirstWrite
<1>2. /\ records \in Seq(Record) /\ Len(records) = 2
      /\ \A i \in 1..2 : records[i] \in Record /\ records[i].series[1] = Transcript
    BY <1>1, BatchRecords, LabelsKnown
<1> HIDE DEF records
<1>3. /\ records[1] \in S /\ records[2] \in S
      /\ \A i \in 1..Len(records) : records[i] \in S
    BY <1>2
<1>4. records \in Seq(S)
    BY <1>2, <1>3, SeqOver
<1>5. \A k \in 0..2 :
         /\ SubSeq(records, 1, k) \in Seq(S) /\ log \o SubSeq(records, 1, k) \in Seq(S)
         /\ SubSeq(records, k + 1, 2) \in Seq(S)
         /\ \A i \in 1..Len(SubSeq(records, k + 1, 2)) :
               SubSeq(records, k + 1, 2)[i].series[1] = Transcript
    <2> TAKE k \in 0..2
    <2>1. /\ k \in Int /\ k + 1 \in Int /\ 1 \in Int /\ 2 \in Int
          /\ \A i \in 1..k : i \in 1..Len(records)
          /\ \A i \in (k + 1)..2 : i \in 1..Len(records)
        BY <1>2
    <2>1a. /\ \A i \in 1..k : records[i] \in S
           /\ \A i \in (k + 1)..2 : records[i] \in S
        BY <1>3, <2>1
    <2>2. SubSeq(records, 1, k) \in Seq(S) /\ SubSeq(records, k + 1, 2) \in Seq(S)
        BY <2>1, <2>1a, SubSeqProperties
    <2>3. \A i \in 1..Len(SubSeq(records, k + 1, 2)) :
             SubSeq(records, k + 1, 2)[i].series[1] = Transcript
        <3>1. /\ Len(SubSeq(records, k + 1, 2)) = IF k + 1 =< 2 THEN 2 - (k + 1) + 1 ELSE 0
              /\ \A i \in 1..(2 - (k + 1) + 1) :
                    SubSeq(records, k + 1, 2)[i] = records[k + 1 + i - 1]
            BY <2>1, <2>1a, SubSeqProperties
        <3>2. QED
            BY <1>2, <2>1, <3>1
    <2>4. QED
        BY <2>2, <2>3, ConcatProperties
<1>6. CASE log' = log \o records /\ split' = FALSE /\ UNCHANGED <<open, rest, half>>
    <2>1. log' \in Seq(S) /\ Len(log') # 0
        BY <1>2, <1>4, <1>6, ConcatProperties, LenProperties
    <2>2. rest' = <<>> /\ <<>> \in Seq(S) /\ Len(<<>>) = 0
        <3>1. rest' = <<>>
            BY <1>1, <1>6
        <3>2. QED
            BY <3>1, EmptySeq
    <2>3. log' # <<>>
        BY <2>1, EmptySeq
    <2>4. QED
        BY <1>1, <1>6, <2>1, <2>2, <2>3
<1>7. ASSUME NEW k \in 1..1, log' = log \o SubSeq(records, 1, k),
             rest' = SubSeq(records, k + 1, 2), half' = FALSE, UNCHANGED <<open, split>>
      PROVE  log' \in Seq(S) /\ rest' \in Seq(S) /\ (open' => log' # <<>>)
             /\ \A i \in 1..Len(rest') : rest'[i].series[1] = Transcript
    <2>1. SubSeq(records, 1, k) \in Seq(S)
        BY <1>5
    <2>2. open => log' # <<>>
        BY <1>7, <2>1, ConcatSimplifications
    <2>3. QED
        BY <1>5, <1>7, <2>2
<1>8. ASSUME NEW k \in 0..1, NEW whole \in BOOLEAN,
             log' = Append(log \o SubSeq(records, 1, k),
                           [records[k + 1] EXCEPT !.ok = whole]),
             rest' = SubSeq(records, k + 1, 2)
      PROVE  log' \in Seq(S) /\ rest' \in Seq(S) /\ log' # <<>>
             /\ \A i \in 1..Len(rest') : rest'[i].series[1] = Transcript
    <2>1. k + 1 \in 1..2
        OBVIOUS
    <2>2. records[k + 1] \in Record /\ records[k + 1].series[1] = Transcript
        BY <1>2, <2>1
    <2>3. /\ [records[k + 1] EXCEPT !.ok = whole] \in Record
          /\ [records[k + 1] EXCEPT !.ok = whole].series[1] = Transcript
        BY <2>2 DEF Record
    <2>4. [records[k + 1] EXCEPT !.ok = whole] \in S
        BY <2>3
    <2>5. k \in 0..2
        OBVIOUS
    <2>6. log \o SubSeq(records, 1, k) \in Seq(S)
        BY <1>5, <2>5
    <2>7. log' \in Seq(S) /\ log' # <<>>
        BY <1>8, <2>4, <2>6, AppendStays, Zenon
    <2>8. QED
        BY <1>5, <1>8, <2>5, <2>7
<1>9. \/ log' = log \o records /\ split' = FALSE /\ UNCHANGED <<open, rest, half>>
      \/ \E k \in 1..(Len(records) - 1) :
            /\ log' = log \o SubSeq(records, 1, k)
            /\ rest' = SubSeq(records, k + 1, Len(records)) /\ half' = FALSE
            /\ UNCHANGED <<open, split>>
      \/ \E k \in 0..(Len(records) - 1), whole \in BOOLEAN :
            /\ log' = Append(log \o SubSeq(records, 1, k),
                             [records[k + 1] EXCEPT !.ok = whole])
            /\ open' = TRUE
            /\ rest' = SubSeq(records, k + 1, Len(records)) /\ half' = TRUE
            /\ UNCHANGED split
    BY DEF FirstWrite, records
<1>9a. Len(records) = 2 /\ 1..(Len(records) - 1) = 1..1 /\ 0..(Len(records) - 1) = 0..1
    BY <1>2
<1>10. QED
    <2>1. /\ log' \in Seq(S) /\ rest' \in Seq(S) /\ open' \in BOOLEAN
          /\ open' => log' # <<>>
          /\ \A i \in 1..Len(rest') : rest'[i].series[1] = Transcript
        BY <1>6, <1>7, <1>8, <1>9, <1>9a
    <2>2. half' \in BOOLEAN /\ split' \in BOOLEAN
        BY <1>9
    <2>3. QED
        BY <1>1, <2>1, <2>2

\* The log after the second write of serve.
LEMMA SecondWriteRecords ==
    ASSUME TypeInv, SecondWrite, NEW S \in SUBSET Record, log \in Seq(S),
           \A r \in Record : r.series[1] = Transcript => r \in S,
           \A r \in S : [r EXCEPT !.ok = TRUE] \in S
    PROVE  log' \in Seq(S)
<1>1. rest \in Seq(Record) /\ rest # <<>> /\ Len(rest) \in Nat \ {0}
    BY EmptySeq DEF TypeInv, TypeOK, SecondWrite
<1>2. rest \in Seq(S)
    <2>1. \A i \in 1..Len(rest) : rest[i] \in Record /\ rest[i].series[1] = Transcript
        BY <1>1, ElementOfSeq DEF TypeInv
    <2>2. \A i \in 1..Len(rest) : rest[i] \in S
        BY <2>1
    <2>3. QED
        BY <1>1, <2>2
<1>3. Tail(rest) \in Seq(S)
    BY <1>1, <1>2, HeadTailProperties
<1>4. Spoiled(rest[1]) \in S
    <2>1. rest[1] \in Record /\ rest[1].series[1] = Transcript
        BY <1>1, ElementOfSeq DEF TypeInv
    <2>2. Spoiled(rest[1]) \in Record /\ Spoiled(rest[1]).series[1] = Transcript
        BY <2>1 DEF Spoiled, Record
    <2>3. QED
        BY <2>2
<1>5. CASE ~half
    <2>1. log' = log \o rest
        BY <1>5 DEF SecondWrite
    <2>2. QED
        BY <1>2, <2>1, ConcatStays, Zenon
<1>6. CASE half /\ open
    <2>1. Len(log) \in 1..Len(log)
        BY <1>6, EmptySeq DEF TypeInv
    <2>2. log[Len(log)] \in S
        BY <2>1, ElementOfSeq
    <2>3. [log[Len(log)] EXCEPT !.ok = TRUE] \in S
        BY <2>2
    <2>4. [log EXCEPT ![Len(log)].ok = TRUE] \in Seq(S)
        BY <2>1, <2>3, ExceptSeq
    <2>5. log' = [log EXCEPT ![Len(log)].ok = TRUE] \o Tail(rest)
        BY <1>6 DEF SecondWrite
    <2>6. QED
        BY <1>3, <2>4, <2>5, ConcatStays, Zenon
<1>7. CASE half /\ ~open
    <2>1. Append(log, Spoiled(rest[1])) \in Seq(S)
        BY <1>4, AppendStays, Zenon
    <2>2. Append(log, Spoiled(rest[1])) \o Tail(rest) \in Seq(S)
        BY <1>3, <2>1, ConcatStays, Zenon
    <2>3. log' = Append(log, Spoiled(rest[1])) \o Tail(rest)
        BY <1>7 DEF SecondWrite
    <2>4. QED
        BY <2>2, <2>3
<1>8. QED
    BY <1>5, <1>6, <1>7

\* The records a call writes, and where they land.
LEMMA RecordCallRecords ==
    ASSUME TypeInv, NEW c \in Calls, RecordCall(c),
           NEW S \in SUBSET Record, log \in Seq(S),
           \A r \in S : Spoiled(r) \in S,
           \A r \in Record :
              /\ r.series[1] = Stored[Label[c]]
              /\ \E t \in Types : r.total = seed[c][<<Label[c], t>>] + tokens[c]
              => r \in S
    PROVE  log' \in Seq(S)
<1> DEFINE totals  == Add(seed[c], Label[c], tokens[c])
           records == Batch(totals, Label[c], started[c])
<1>1. seed[c] \in Counts /\ tokens[c] \in Nat /\ started[c] \in Nat
    BY DEF TypeInv, TypeOK
<1>2. totals \in Counts
    BY <1>1, AddType, Zenon
<1>3. \A t \in Types : totals[<<Label[c], t>>] = seed[c][<<Label[c], t>>] + tokens[c]
    <2>1. \A t \in Types : <<Label[c], t>> \in Series /\ <<Label[c], t>>[1] = Label[c]
        BY LabelsKnown
    <2>2. QED
        BY <2>1, Zenon DEF Add
<1> HIDE DEF totals
<1>3a. Label[c] \in Labels /\ Stored[Label[c]] \in Labels
    BY LabelsKnown
<1>4. /\ records \in Seq(Record) /\ Len(records) = 2
      /\ \A i \in 1..2 :
            /\ records[i] \in Record /\ records[i].series[1] = Stored[Label[c]]
            /\ \E t \in Types : records[i].total = totals[<<Label[c], t>>]
    <2>1. records \in Seq(Record)
        BY <1>1, <1>2, <1>3a, BatchRecords, Zenon
    <2>2. Len(records) = 2
        BY <1>1, <1>2, <1>3a, BatchRecords, Zenon
    <2>3. ASSUME NEW i \in 1..2
          PROVE  records[i] \in Record /\ records[i].series[1] = Stored[Label[c]]
        BY <1>1, <1>2, <1>3a, BatchRecords, Zenon
    <2>4. ASSUME NEW i \in 1..2
          PROVE  \E t \in Types : records[i].total = totals[<<Label[c], t>>]
        BY <1>1, <1>2, <1>3a, BatchRecords, Zenon
    <2> HIDE DEF records
    <2>5. QED
        BY <2>1, <2>2, <2>3, <2>4
<1> HIDE DEF records
<1>5. \A i \in 1..Len(records) : records[i] \in S
    <2>1. ASSUME NEW i \in 1..2 PROVE records[i] \in S
        <3>1. PICK t \in Types : records[i].total = seed[c][<<Label[c], t>>] + tokens[c]
            BY <1>3, <1>4
        <3>2. QED
            BY <1>4, <3>1
    <2>2. QED
        BY <1>4, <2>1
<1>6. records \in Seq(S) /\ records # <<>>
    <2>1. records \in Seq(S)
        <3>1. records \in Seq(Record)
            BY <1>4
        <3>2. QED
            BY <1>5, <3>1, SeqOver, Zenon
    <2>2. Len(records) = 2
        BY <1>4
    <2>3. records # <<>>
        BY <2>2
    <2>4. QED
        BY <2>1, <2>3
<1>7. log' = IF open THEN Joined(records) ELSE log \o records
    BY DEF RecordCall, records, totals
<1>8. CASE open
    BY <1>6, <1>7, <1>8, JoinedSeq DEF TypeInv
<1>9. CASE ~open
    BY <1>6, <1>7, <1>9, ConcatStays, Zenon
<1>10. QED
    BY <1>8, <1>9

\* The machine starts with variables of their types.
LEMMA InitType == Init => TypeInv
<1> SUFFICES ASSUME Init PROVE TypeInv
    OBVIOUS
<1>1. <<>> \in Seq(Record) /\ Len(<<>>) = 0
    BY EmptySeq
<1>2. Nothing \in Counts
    BY DEF Nothing, Counts
<1>3. 0 \in 0..MaxBatches
    BY BatchesAssumption
<1>4. seed \in [Calls -> Counts] /\ acc \in Counts
    BY <1>2 DEF Init
<1>5. /\ log = <<>> /\ rest = <<>> /\ open = FALSE /\ up = FALSE /\ half = FALSE
      /\ split = FALSE /\ clash = FALSE /\ overlap = FALSE /\ batches = 0
    BY DEF Init
<1>5a. /\ pc \in [Calls -> {"todo", "runs", "ran", "seeded", "recorded", "failed"}]
       /\ tokens \in [Calls -> 0..1] /\ started \in [Calls -> Nat]
    BY DEF Init
<1>6. TypeOK
    BY <1>1, <1>3, <1>4, <1>5, <1>5a DEF TypeOK
<1>7. QED
    BY <1>1, <1>5, <1>6 DEF TypeInv

\* A step keeps them.
LEMMA NextType == TypeInv /\ [Next]_vars => TypeInv'
<1> SUFFICES ASSUME TypeInv, [Next]_vars PROVE TypeInv'
    OBVIOUS
<1> USE DEF TypeInv, TypeOK
<1>1. Nothing \in Counts
    BY DEF Nothing, Counts
<1>2. ASSUME NEW c \in Calls, StartTask(c) PROVE TypeInv'
    <2>1. {d \in Calls : started[d] > 0} \in SUBSET Calls
        OBVIOUS
    <2>2. Cardinality({d \in Calls : started[d] > 0}) \in Nat
        BY <2>1, FS_Subset, FS_CardinalityType, LabelAssumption
    <2>3. 1 + Cardinality({d \in Calls : started[d] > 0}) \in Nat
        BY <2>2
    <2>4. started' \in [Calls -> Nat]
        BY <1>2, <2>3 DEF StartTask
    <2>5. overlap' \in BOOLEAN
        BY <1>2 DEF StartTask
    <2>6. QED
        BY <1>2, <2>4, <2>5 DEF StartTask, serve
<1>3. ASSUME NEW c \in Calls, RunTask(c) PROVE TypeInv'
    BY <1>3 DEF RunTask, serve
<1>4. ASSUME NEW c \in Calls, OpenStore(c) PROVE TypeInv'
    BY <1>4, ReplayType DEF OpenStore, serve
<1>5. ASSUME NEW c \in Calls, RecordCall(c) PROVE TypeInv'
    <2>1. \A r \in Record : Spoiled(r) \in Record
        BY DEF Spoiled, Record
    <2>2. log' \in Seq(Record)
        BY <1>5, <2>1, RecordCallRecords
    <2>3. seed' \in [Calls -> Counts] /\ pc' \in [Calls -> {"todo", "runs", "ran",
                                           "seeded", "recorded", "failed"}]
        BY <1>1, <1>5 DEF RecordCall
    <2>4. clash' \in BOOLEAN /\ open' = FALSE
        BY <1>5 DEF RecordCall
    <2>5. QED
        BY <1>5, <2>2, <2>3, <2>4 DEF RecordCall, serve
<1>6. ASSUME NEW c \in Calls, DropCall(c) PROVE TypeInv'
    BY <1>1, <1>6 DEF DropCall, serve
<1>7. CASE ServeStarts
    BY <1>7, ReplayType DEF ServeStarts, calls
<1>8. CASE ServeStops
    BY <1>1, <1>8 DEF ServeStops, calls
<1>9. CASE FirstWrite
    <2>1. /\ log' \in Seq(Record) /\ rest' \in Seq(Record) /\ acc' \in Counts
          /\ batches' \in 0..MaxBatches
          /\ open' \in BOOLEAN /\ half' \in BOOLEAN /\ split' \in BOOLEAN
          /\ open' => log' # <<>>
          /\ \A i \in 1..Len(rest') : rest'[i].series[1] = Transcript
        <3>1. TypeInv /\ FirstWrite /\ Record \in SUBSET Record /\ log \in Seq(Record)
            BY <1>9
        <3>2. QED
            BY <3>1, FirstWriteRecords
    <2>2. UNCHANGED <<calls, up, clash>>
        BY <1>9 DEF FirstWrite
    <2>3. TypeOK'
        BY <2>1, <2>2 DEF calls
    <2>4. /\ open' => log' # <<>>
          /\ \A i \in 1..Len(rest') : rest'[i].series[1] = Transcript
        BY <2>1
    <2>5. QED
        BY <2>3, <2>4
<1>10. CASE SecondWrite
    <2>1. \A r \in Record : [r EXCEPT !.ok = TRUE] \in Record
        BY DEF Record
    <2>2. log' \in Seq(Record)
        BY <1>10, <2>1, SecondWriteRecords
    <2>3. <<>> \in Seq(Record) /\ Len(<<>>) = 0
        BY EmptySeq
    <2>4. split' \in BOOLEAN /\ half' = FALSE /\ open' = FALSE /\ rest' = <<>>
        BY <1>10 DEF SecondWrite
    <2>5. UNCHANGED <<calls, up, acc, clash, batches>>
        BY <1>10 DEF SecondWrite
    <2>6. rest' \in Seq(Record) /\ Len(rest') = 0
        BY <2>3, <2>4
    <2>7. TypeOK'
        BY <2>2, <2>4, <2>5, <2>6 DEF calls
    <2>8. QED
        BY <2>4, <2>6, <2>7
<1>11. CASE UNCHANGED vars
    BY <1>11 DEF vars, calls, serve
<1>12. QED
    BY <1>2, <1>3, <1>4, <1>5, <1>6, <1>7, <1>8, <1>9, <1>10, <1>11 DEF Next

\* The log, the processes and their accumulators keep their types, for any
\* number of calls.
THEOREM TrackedTypeCorrect == Spec => []TypeOK
<1>1. TypeInv => TypeOK
    BY DEF TypeInv
<1>2. QED
    BY <1>1, InitType, NextType, PTL DEF Spec

-----------------------------------------------------------------------------
(* Nothing is counted twice.                                                *)

\* The records whose total the recorded calls have used; serve's are not asked.
Fine == {r \in Record : r.series[1] # Transcript => r.total =< Used(r.series[1])}

\* Every line of the log, readable or not, and every accumulator of a call is
\* covered by calls that are recorded.
CoveredInv ==
    /\ TypeInv
    /\ log \in Seq(Fine)
    /\ \A c \in Calls : pc[c] = "seeded" =>
          \A t \in Types : seed[c][<<Label[c], t>>] =< Used(Label[c])

\* What was covered stays so.
LEMMA FineGrows ==
    ASSUME TypeInv,
           \A c \in Calls : pc[c] = "recorded" => pc'[c] = "recorded" /\ tokens'[c] = tokens[c]
    PROVE  Fine \subseteq Fine'
<1> SUFFICES ASSUME NEW r \in Fine, r.series[1] # Transcript
             PROVE  r.total =< Used(r.series[1])'
    BY DEF Fine
<1>1. r.total =< Used(r.series[1]) /\ r.total \in Nat
    BY DEF Fine, Record
<1>2. Used(r.series[1]) \in Nat
    BY UsedType
<1>3. /\ Used(r.series[1]) =< Used(r.series[1])'
      /\ Used(r.series[1])' \in Nat
    BY UsedGrows
<1>4. QED
    BY <1>1, <1>2, <1>3

\* A replay of such a log gives no call more than was used.
LEMMA ReplayCovered ==
    ASSUME log \in Seq(Fine), NEW label \in Labels, label # Transcript, NEW t \in Types
    PROVE  Replay[<<label, t>>] =< Used(label)
<1>1. <<label, t>> \in Series /\ <<label, t>>[1] = label
    BY LabelsKnown
<1>2. Used(label) \in Nat
    BY UsedType
<1>3. ASSUME NEW i \in 1..Len(log), log[i].series = <<label, t>>
      PROVE  log[i].total =< Used(label)
    <2>1. log[i] \in Fine
        BY ElementOfSeq
    <2>2. QED
        BY <1>1, <1>3, <2>1 DEF Fine
<1>4. QED
    BY <1>1, <1>2, <1>3, ReplayLine

\* A recorded call adds its own tokens to what was used.
LEMMA UsedAdds ==
    ASSUME TypeInv, NEW c \in Calls, RecordCall(c)
    PROVE  Used(Stored[Label[c]])' = Used(Stored[Label[c]]) + tokens[c]
<1> DEFINE l == Stored[Label[c]]
           U == {d \in Recorded(l) : tokens[d] = 1}
           V == {d \in {b \in Calls : Stored[Label[b]] = l /\ pc'[b] = "recorded"} :
                    tokens'[d] = 1}
<1>1. /\ pc[c] = "seeded" /\ tokens' = tokens /\ tokens[c] \in 0..1
      /\ pc' = [pc EXCEPT ![c] = "recorded"] /\ DOMAIN pc = Calls
    BY DEF RecordCall, TypeInv, TypeOK
<1>2. IsFiniteSet(U) /\ c \notin U /\ Cardinality(U) \in Nat
    BY <1>1, UsedType DEF Recorded, Used
<1>3. Used(l)' = Cardinality(V) /\ Used(l) = Cardinality(U)
    BY DEF Used, Recorded
<1>4. CASE tokens[c] = 1
    <2>1. V = U \cup {c}
        BY <1>1, <1>4 DEF Recorded
    <2>2. QED
        BY <1>2, <1>3, <1>4, <2>1, FS_AddElement
<1>5. CASE tokens[c] = 0
    <2>1. V = U
        BY <1>1, <1>5 DEF Recorded
    <2>2. QED
        BY <1>2, <1>3, <1>5, <2>1
<1>6. QED
    BY <1>1, <1>4, <1>5

\* The total a call writes is covered: by what its accumulator found under the
\* same label, or by the call alone when the log knows it by another.
LEMMA WrittenIsCovered ==
    ASSUME CoveredInv, NEW c \in Calls, RecordCall(c), NEW t \in Types
    PROVE  seed[c][<<Label[c], t>>] + tokens[c] =< Used(Stored[Label[c]])'
<1>1. /\ pc[c] = "seeded" /\ tokens[c] \in Nat
      /\ seed[c][<<Label[c], t>>] \in Nat
      /\ seed[c][<<Label[c], t>>] =< Used(Label[c])
    BY LabelsKnown DEF CoveredInv, TypeInv, TypeOK, Counts, RecordCall
<1>2. Used(Stored[Label[c]])' = Used(Stored[Label[c]]) + tokens[c]
    BY UsedAdds DEF CoveredInv
<1>3. Used(Label[c]) \in Nat /\ Used(Stored[Label[c]]) \in Nat
    BY UsedType
<1>4. CASE Stored[Label[c]] = Label[c]
    BY <1>1, <1>2, <1>3, <1>4
<1>5. CASE Stored[Label[c]] # Label[c]
    <2>1. Recorded(Label[c]) = {}
        BY <1>5, StoredAssumption DEF Recorded
    <2>2. Used(Label[c]) = 0
        <3>1. {d \in Recorded(Label[c]) : tokens[d] = 1} = {}
            BY <2>1
        <3>2. QED
            BY <3>1, FS_EmptySet DEF Used
    <2>3. QED
        BY <1>1, <1>2, <1>3, <2>2
<1>6. QED
    BY <1>4, <1>5

\* A step whose log holds covered lines, and which seeds no call, stays covered.
LEMMA StaysCovered ==
    ASSUME CoveredInv, TypeInv',
           \A c \in Calls : pc[c] = "recorded" => pc'[c] = "recorded" /\ tokens'[c] = tokens[c],
           log' \in Seq(Fine) \/ log' \in Seq(Fine'),
           \A c \in Calls : pc'[c] = "seeded" => pc[c] = "seeded" /\ seed'[c] = seed[c]
    PROVE  CoveredInv'
<1>1. Fine \subseteq Fine'
    BY FineGrows DEF CoveredInv
<1>2. log' \in Seq(Fine')
    BY <1>1, SeqMonotonic
<1>3. ASSUME NEW c \in Calls, pc'[c] = "seeded", NEW t \in Types
      PROVE  seed'[c][<<Label[c], t>>] =< Used(Label[c])'
    <2>1. /\ seed[c][<<Label[c], t>>] =< Used(Label[c])
          /\ seed'[c] = seed[c] /\ seed[c][<<Label[c], t>>] \in Nat
        BY <1>3, LabelsKnown DEF CoveredInv, TypeInv, TypeOK, Counts
    <2>2. Used(Label[c]) \in Nat
        BY UsedType
    <2>3. Used(Label[c]) =< Used(Label[c])' /\ Used(Label[c])' \in Nat
        BY UsedGrows
    <2>4. QED
        BY <2>1, <2>2, <2>3
<1>4. QED
    BY <1>2, <1>3 DEF CoveredInv

\* CoveredInv over the steps.
LEMMA CoveredNext == CoveredInv /\ [Next]_vars => CoveredInv'
<1> SUFFICES ASSUME CoveredInv, [Next]_vars PROVE CoveredInv'
    OBVIOUS
<1>1. TypeInv /\ TypeInv' /\ log \in Seq(Fine) /\ Fine \in SUBSET Record
    BY NextType DEF CoveredInv, Fine
<1>2. /\ DOMAIN pc = Calls /\ DOMAIN tokens = Calls /\ DOMAIN seed = Calls
    BY <1>1 DEF TypeInv, TypeOK
<1>3. /\ \A r \in Fine : Spoiled(r) \in Fine /\ [r EXCEPT !.ok = TRUE] \in Fine
      /\ \A r \in Record : r.series[1] = Transcript => r \in Fine
    BY DEF Fine, Record, Spoiled
<1>4. ASSUME NEW c \in Calls, StartTask(c) \/ RunTask(c) \/ DropCall(c)
      PROVE  CoveredInv'
    <2>1. log' = log
        BY <1>4 DEF StartTask, RunTask, DropCall
    <2>2. \A d \in Calls : pc[d] = "recorded" => pc'[d] = "recorded" /\ tokens'[d] = tokens[d]
        BY <1>2, <1>4 DEF StartTask, RunTask, DropCall
    <2>3. \A d \in Calls : pc'[d] = "seeded" => pc[d] = "seeded" /\ seed'[d] = seed[d]
        BY <1>2, <1>4 DEF StartTask, RunTask, DropCall
    <2>4. QED
        BY <1>1, <2>1, <2>2, <2>3, StaysCovered
<1>5. ASSUME NEW c \in Calls, OpenStore(c) PROVE CoveredInv'
    <2>1. /\ log' = log /\ tokens' = tokens
          /\ pc' = [pc EXCEPT ![c] = "seeded"] /\ pc[c] = "ran"
          /\ seed' = [seed EXCEPT ![c] = Replay]
        BY <1>5 DEF OpenStore
    <2>2. \A d \in Calls : pc[d] = "recorded" => pc'[d] = "recorded" /\ tokens'[d] = tokens[d]
        BY <1>2, <2>1
    <2>3. log' \in Seq(Fine')
        BY <1>1, <2>1, <2>2, FineGrows, SeqMonotonic
    <2>4. ASSUME NEW d \in Calls, pc'[d] = "seeded", NEW t \in Types
          PROVE  seed'[d][<<Label[d], t>>] =< Used(Label[d])'
        <3>1. Label[d] \in Labels /\ Label[d] # Transcript
            BY LabelsKnown, LabelAssumption
        <3>2. Used(Label[d]) \in Nat
            BY UsedType
        <3>3. Used(Label[d]) =< Used(Label[d])' /\ Used(Label[d])' \in Nat
            BY <2>2, UsedGrows
        <3>4. /\ Replay[<<Label[d], t>>] =< Used(Label[d])
              /\ Replay[<<Label[d], t>>] \in Nat
            BY <1>1, <3>1, ReplayCovered, ReplayType, LabelsKnown
            DEF TypeInv, TypeOK, Counts
        <3>5. CASE d = c
            BY <1>2, <2>1, <3>2, <3>3, <3>4, <3>5
        <3>6. CASE d # c
            <4>1. /\ seed'[d] = seed[d] /\ pc[d] = "seeded"
                BY <1>2, <2>1, <2>4, <3>6
            <4>2. /\ seed[d][<<Label[d], t>>] =< Used(Label[d])
                  /\ seed[d][<<Label[d], t>>] \in Nat
                BY <4>1, LabelsKnown DEF CoveredInv, TypeInv, TypeOK, Counts
            <4>3. QED
                BY <3>2, <3>3, <4>1, <4>2
        <3>7. QED
            BY <3>5, <3>6
    <2>5. QED
        BY <1>1, <2>3, <2>4 DEF CoveredInv
<1>6. ASSUME NEW c \in Calls, RecordCall(c) PROVE CoveredInv'
    <2>1. /\ tokens' = tokens /\ pc' = [pc EXCEPT ![c] = "recorded"] /\ pc[c] = "seeded"
          /\ seed' = [seed EXCEPT ![c] = Nothing]
        BY <1>6 DEF RecordCall
    <2>2. \A d \in Calls : pc[d] = "recorded" => pc'[d] = "recorded" /\ tokens'[d] = tokens[d]
        BY <1>2, <2>1
    <2>3. \A d \in Calls : pc'[d] = "seeded" => pc[d] = "seeded" /\ seed'[d] = seed[d]
        BY <1>2, <2>1
    <2>4. log \in Seq(Fine')
        BY <1>1, <2>2, FineGrows, SeqMonotonic
    <2>5. /\ \A r \in Fine' : Spoiled(r) \in Fine'
          /\ Fine' \in SUBSET Record
        BY DEF Fine, Record, Spoiled
    <2>6. ASSUME NEW r \in Record, r.series[1] = Stored[Label[c]],
                 \E t \in Types : r.total = seed[c][<<Label[c], t>>] + tokens[c]
          PROVE  r \in Fine'
        <3>1. r.total =< Used(r.series[1])'
            BY <1>6, <2>6, WrittenIsCovered
        <3>2. QED
            BY <3>1 DEF Fine
    <2>7. log' \in Seq(Fine')
        BY <1>1, <1>6, <2>4, <2>5, <2>6, RecordCallRecords
    <2>8. QED
        BY <1>1, <2>2, <2>3, <2>7, StaysCovered
<1>7. ASSUME UNCHANGED calls, log' \in Seq(Fine) PROVE CoveredInv'
    <2>1. UNCHANGED <<pc, tokens, seed>>
        BY <1>7 DEF calls
    <2>2. QED
        BY <1>1, <1>7, <2>1, StaysCovered
<1>8. CASE ServeStarts \/ ServeStops
    BY <1>1, <1>7, <1>8 DEF ServeStarts, ServeStops
<1>9. CASE FirstWrite
    <2>1. log' \in Seq(Fine)
        BY <1>1, <1>3, <1>9, FirstWriteRecords
    <2>2. QED
        BY <1>7, <1>9, <2>1 DEF FirstWrite
<1>10. CASE SecondWrite
    <2>1. log' \in Seq(Fine)
        BY <1>1, <1>3, <1>10, SecondWriteRecords
    <2>2. QED
        BY <1>7, <1>10, <2>1 DEF SecondWrite
<1>11. CASE UNCHANGED vars
    BY <1>1, <1>7, <1>11 DEF vars
<1>12. QED
    BY <1>4, <1>5, <1>6, <1>8, <1>9, <1>10, <1>11 DEF Next

\* No tracked token is counted twice: for any number of calls under any labels,
\* cut ones included, and any interleaving of their writes with serve's, a
\* replay gives a label at most what its recorded calls have used.
THEOREM NothingCountedTwice == Spec => []NeverOvercounted
<1>1. Init => CoveredInv
    <2> SUFFICES ASSUME Init PROVE CoveredInv
        OBVIOUS
    <2>1. log = <<>> /\ \A c \in Calls : pc[c] = "todo"
        BY DEF Init
    <2>2. log \in Seq(Fine)
        BY <2>1, EmptySeq
    <2>3. QED
        BY <2>1, <2>2, InitType DEF CoveredInv
<1>2. CoveredInv => NeverOvercounted
    BY ReplayCovered, LabelsKnown, StoredAssumption DEF CoveredInv, NeverOvercounted, Types
<1>3. QED
    BY <1>1, <1>2, CoveredNext, PTL DEF Spec

-----------------------------------------------------------------------------
(* What a replay finds.                                                     *)

\* The lines of a log that count for a series, and the last of them.
LinesOf(l, s)  == {i \in 1..Len(l) : l[i].ok /\ l[i].series = s}
LatestOf(l, s) == {i \in LinesOf(l, s) : \A j \in LinesOf(l, s) : j =< i}
ReplayOf(l, s) == IF LatestOf(l, s) = {} THEN 0
                  ELSE l[CHOOSE i \in LatestOf(l, s) : TRUE].total

\* Replay, before and after a step.
LEMMA ReplayIs ==
    ASSUME TypeInv, TypeInv', NEW s \in Series
    PROVE  Replay[s] = ReplayOf(log, s) /\ Replay'[s] = ReplayOf(log', s)
<1>1. Len(log) \in Nat /\ Len(log') \in Nat
    BY DEF TypeInv, TypeOK
<1>2. Latest(s) = LatestOf(log, s)
    BY <1>1 DEF Latest, LatestOf, LinesOf
<1>3. Latest(s)' = LatestOf(log', s)
    BY <1>1 DEF Latest, LatestOf, LinesOf
<1>4. QED
    BY <1>2, <1>3 DEF Replay, ReplayOf

\* A set of line numbers that is not empty has a largest one.
LEMMA Largest ==
    ASSUME NEW n \in Nat, NEW T \in SUBSET (1..n), T # {}
    PROVE  \E s \in T : \A t \in T : t =< s
<1> DEFINE R == OpToRel(<, Nat)
           M == {x \in 0..n : n - x \in T}
<1>1. IsWellFoundedOn(R, Nat)
    BY NatLessThanWellFounded
<1>2. M \subseteq Nat /\ M # {}
    <2> HIDE DEF R
    <2>1. PICK t \in T : TRUE
        OBVIOUS
    <2>2. n - t \in 0..n /\ n - (n - t) = t
        BY <2>1
    <2>3. n - t \in M
        BY <2>1, <2>2
    <2>4. M \subseteq 0..n /\ 0..n \subseteq Nat
        OBVIOUS
    <2>5. QED
        BY <2>3, <2>4
<1>3. \E x \in M : \A y \in M : ~(<<y, x>> \in R)
    <2> HIDE DEF R, M
    <2>1. QED
        BY <1>1, <1>2, WFMin, Zenon
<1>4. PICK x \in M : \A y \in M : ~(<<y, x>> \in R)
    BY <1>3, Zenon
<1>5. ASSUME NEW y \in M, y < x PROVE FALSE
    <2>1. <<y, x>> \in Nat \X Nat /\ <<y, x>>[1] < <<y, x>>[2]
        BY <1>2, <1>4, <1>5
    <2>2. <<y, x>> \in R
        BY <2>1, Zenon DEF OpToRel
    <2>3. QED
        BY <1>4, <2>2
<1>6. ASSUME NEW t \in T PROVE t =< n - x
    <2>1. n - t \in M
        OBVIOUS
    <2>2. ~(n - t < x)
        BY <1>5, <2>1
    <2>3. QED
        BY <1>2, <2>2
<1>7. QED
    BY <1>6

\* Logs with the same lines of a series, and the same totals in them, are
\* replayed alike.
LEMMA ReplaySame ==
    ASSUME NEW l, NEW m, NEW s, LinesOf(m, s) = LinesOf(l, s),
           \A i \in LinesOf(l, s) : m[i].total = l[i].total
    PROVE  ReplayOf(m, s) = ReplayOf(l, s)
<1>1. LatestOf(m, s) = LatestOf(l, s)
    BY DEF LatestOf
<1>2. CASE LatestOf(l, s) = {}
    BY <1>1, <1>2 DEF ReplayOf
<1>3. CASE LatestOf(l, s) # {}
    <2>1. (CHOOSE i \in LatestOf(l, s) : TRUE) \in LinesOf(l, s)
        BY <1>3 DEF LatestOf
    <2>2. QED
        BY <1>1, <1>3, <2>1 DEF ReplayOf
<1>4. QED
    BY <1>2, <1>3

\* A series whose lines all have one total from a certain line on is replayed
\* with that total.
LEMMA ReplayNewest ==
    ASSUME NEW l, NEW s, Len(l) \in Nat, NEW k \in LinesOf(l, s),
           \A i \in LinesOf(l, s) : k =< i => l[i].total = l[k].total
    PROVE  ReplayOf(l, s) = l[k].total
<1>1. LinesOf(l, s) \in SUBSET (1..Len(l)) /\ LinesOf(l, s) # {}
    BY DEF LinesOf
<1>2. LatestOf(l, s) # {}
    <2>1. \E i \in LinesOf(l, s) : \A j \in LinesOf(l, s) : j =< i
        BY <1>1, Largest
    <2>2. QED
        BY <2>1 DEF LatestOf
<1>3. DEFINE i == CHOOSE j \in LatestOf(l, s) : TRUE
<1>4. i \in LinesOf(l, s) /\ k =< i
    BY <1>2 DEF LatestOf
<1>5. QED
    BY <1>2, <1>4 DEF ReplayOf

-----------------------------------------------------------------------------
(* What a step does to the lines of the log.                                *)

\* The lines of one log are there in the other, and read the same or not at
\* all; those of calls keep that as it was, and so do all in a log that has no
\* open line.
KeepsLines(l, m) ==
    /\ Len(l) =< Len(m)
    /\ \A i \in 1..Len(l) :
          /\ m[i].series = l[i].series /\ m[i].ts = l[i].ts /\ m[i].total = l[i].total
          /\ (l[i].series[1] # Transcript \/ ~open) => m[i].ok = l[i].ok

\* Between the two writes of serve: an open line is the first one left to write.
WriterInv ==
    /\ TypeInv
    /\ rest # <<>> => up
    /\ half => rest # <<>>
    /\ open => /\ half
               /\ log[Len(log)].series = rest[1].series
               /\ log[Len(log)].total = rest[1].total
    /\ \A i \in 1..Len(rest) :
          rest[i].ok /\ rest[i].total = acc[<<Transcript, rest[i].series[2]>>]

\* A log with records behind it.
LEMMA Behind ==
    ASSUME NEW S, NEW l \in Seq(S), NEW m \in Seq(S)
    PROVE  /\ Len(l) \in Nat /\ Len(m) \in Nat /\ Len(l \o m) = Len(l) + Len(m)
           /\ \A i \in 1..Len(l) : (l \o m)[i] = l[i]
           /\ \A i \in 1..Len(m) : (l \o m)[Len(l) + i] = m[i]
           /\ \A i \in (Len(l) + 1)..Len(l \o m) :
                 i - Len(l) \in 1..Len(m) /\ (l \o m)[i] = m[i - Len(l)]
<1>1. Len(l) \in Nat /\ Len(m) \in Nat /\ Len(l \o m) = Len(l) + Len(m)
    BY LenProperties, ConcatProperties
<1>2. \A i \in 1..Len(l) + Len(m) :
         (l \o m)[i] = IF i <= Len(l) THEN l[i] ELSE m[i - Len(l)]
    BY ConcatProperties
<1>3. QED
    BY <1>1, <1>2

\* A batch, record by record.
LEMMA BatchLines ==
    ASSUME NEW totals \in Counts, NEW label \in Labels, NEW ts \in Nat,
           Stored[label] \in Labels
    PROVE  /\ Batch(totals, label, ts) \in Seq(Record)
           /\ Len(Batch(totals, label, ts)) = 2
           /\ \A i \in 1..2 :
                 Batch(totals, label, ts)[i] =
                   [ok |-> TRUE, series |-> <<Stored[label], TokenTypes[i]>>, ts |-> ts,
                    total |-> totals[<<label, TokenTypes[i]>>]]
           /\ TokenTypes[1] \in Types /\ TokenTypes[2] \in Types
           /\ \A t \in Types : t = TokenTypes[1] \/ t = TokenTypes[2]
<1>1. Len(TokenTypes) = 2 /\ TokenTypes[1] = "input" /\ TokenTypes[2] = "output"
    BY DEF TokenTypes
<1>2. \A i \in 1..2 :
         Batch(totals, label, ts)[i] =
           [ok |-> TRUE, series |-> <<Stored[label], TokenTypes[i]>>, ts |-> ts,
            total |-> totals[<<label, TokenTypes[i]>>]]
    BY <1>1 DEF Batch
<1>3. Batch(totals, label, ts) \in Seq(Record) /\ Len(Batch(totals, label, ts)) = 2
    BY BatchRecords
<1>4. QED
    BY <1>1, <1>2, <1>3 DEF Types

\* A pair and its parts.
LEMMA Pair ==
    ASSUME NEW S, NEW r \in Seq(S), Len(r) = 2
    PROVE  /\ SubSeq(r, 1, 0) = <<>> /\ SubSeq(r, 1, 1) = <<r[1]>>
           /\ SubSeq(r, 2, 2) = <<r[2]>> /\ SubSeq(r, 1, 2) = r
<1>1. r[1] \in S /\ r[2] \in S
    BY ElementOfSeq
<1>2. SubSeq(r, 1, 0) = <<>>
    BY SubSeqEmpty
<1>3. SubSeq(r, 1, 2) = r
    BY SubSeqFull
<1>4. ASSUME NEW k \in 1..2 PROVE SubSeq(r, k, k) = <<r[k]>>
    <2>1. \A i \in k..k : r[i] \in S
        BY <1>1
    <2>2. /\ SubSeq(r, k, k) \in Seq(S) /\ Len(SubSeq(r, k, k)) = 1
          /\ SubSeq(r, k, k)[1] = r[k]
        <3>1. /\ SubSeq(r, k, k) \in Seq(S)
              /\ Len(SubSeq(r, k, k)) = IF k <= k THEN k - k + 1 ELSE 0
              /\ \A i \in 1 .. k - k + 1 : SubSeq(r, k, k)[i] = r[k + i - 1]
            BY <2>1, SubSeqProperties
        <3>2. QED
            BY <3>1
    <2>3. <<r[k]>> \in Seq(S) /\ Len(<<r[k]>>) = 1
        BY <1>1
    <2>4. \A i \in 1..1 : SubSeq(r, k, k)[i] = <<r[k]>>[i]
        BY <2>2
    <2>5. QED
        BY <2>2, <2>3, <2>4, SeqEqual
<1>5. QED
    BY <1>2, <1>3, <1>4

\* Two records behind a log, one after the other.
LEMMA OneAfterTheOther ==
    ASSUME NEW S, NEW l \in Seq(S), NEW x \in S, NEW y \in S
    PROVE  Append(l \o <<x>>, y) = l \o <<x, y>>
<1>1. <<x>> \in Seq(S) /\ <<y>> \in Seq(S) /\ l \o <<x>> \in Seq(S)
    BY ConcatProperties
<1>2. Append(l \o <<x>>, y) = (l \o <<x>>) \o <<y>>
    BY <1>1, AppendIsConcat
<1>3. (l \o <<x>>) \o <<y>> = l \o (<<x>> \o <<y>>)
    BY <1>1, ConcatAssociative
<1>4. <<x>> \o <<y>> = <<x, y>>
    <2>1. Append(<<x>>, y) = <<x>> \o <<y>>
        BY <1>1, AppendIsConcat
    <2>2. Append(<<x>>, y) = <<x, y>>
        <3>1. /\ Append(<<x>>, y) \in Seq(S) /\ Len(Append(<<x>>, y)) = 2
              /\ Append(<<x>>, y)[1] = x /\ Append(<<x>>, y)[2] = y
            BY <1>1, AppendProperties
        <3>2. <<x, y>> \in Seq(S) /\ Len(<<x, y>>) = 2
            OBVIOUS
        <3>3. \A i \in 1..2 : Append(<<x>>, y)[i] = <<x, y>>[i]
            BY <3>1
        <3>4. QED
            BY <3>1, <3>2, <3>3, SeqEqual
    <2>3. QED
        BY <2>1, <2>2
<1>5. QED
    BY <1>2, <1>3, <1>4

\* The first write of serve: the whole batch, its first record, or a part that
\* ends inside a record.
LEMMA FirstWriteCases ==
    ASSUME WriterInv, FirstWrite,
           NEW r, r = Batch(acc', Transcript, batches')
    PROVE  \/ log' = log \o r /\ split' = FALSE /\ UNCHANGED <<open, rest, half>>
           \/ /\ log' = log \o <<r[1]>> /\ rest' = <<r[2]>> /\ half' = FALSE
              /\ UNCHANGED <<open, split>>
           \/ \E whole \in BOOLEAN :
                 /\ log' = log \o <<[r[1] EXCEPT !.ok = whole]>>
                 /\ rest' = r /\ open' = TRUE /\ half' = TRUE
           \/ \E whole \in BOOLEAN :
                 /\ log' = log \o <<r[1], [r[2] EXCEPT !.ok = whole]>>
                 /\ rest' = <<r[2]>> /\ open' = TRUE /\ half' = TRUE
<1>1. acc' \in Counts /\ batches' \in Nat
    BY BatchesAssumption, AddType DEF WriterInv, TypeInv, TypeOK, FirstWrite
<1>2. /\ r \in Seq(Record) /\ Len(r) = 2 /\ r[1] \in Record /\ r[2] \in Record
    BY <1>1, BatchRecords, LabelsKnown, ElementOfSeq
<1>3. log \in Seq(Record)
    BY DEF WriterInv, TypeInv, TypeOK
<1>4. /\ SubSeq(r, 1, 0) = <<>> /\ SubSeq(r, 1, 1) = <<r[1]>>
      /\ SubSeq(r, 2, 2) = <<r[2]>> /\ SubSeq(r, 1, 2) = r
    BY <1>2, Pair
<1>5. ASSUME NEW whole \in BOOLEAN
      PROVE  /\ [r[1] EXCEPT !.ok = whole] \in Record
             /\ [r[2] EXCEPT !.ok = whole] \in Record
    BY <1>2 DEF Record
<1>6. CASE log' = log \o r /\ split' = FALSE /\ UNCHANGED <<open, rest, half>>
    BY <1>6
<1>7. ASSUME NEW k \in 1..1, log' = log \o SubSeq(r, 1, k),
             rest' = SubSeq(r, k + 1, 2) /\ half' = FALSE, UNCHANGED <<open, split>>
      PROVE  /\ log' = log \o <<r[1]>> /\ rest' = <<r[2]>> /\ half' = FALSE
             /\ UNCHANGED <<open, split>>
    BY <1>4, <1>7
<1>8. ASSUME NEW k \in 0..1, NEW whole \in BOOLEAN,
             log' = Append(log \o SubSeq(r, 1, k), [r[k + 1] EXCEPT !.ok = whole]),
             rest' = SubSeq(r, k + 1, 2), open' = TRUE, half' = TRUE
      PROVE  \/ /\ log' = log \o <<[r[1] EXCEPT !.ok = whole]>>
                /\ rest' = r /\ open' = TRUE /\ half' = TRUE
             \/ /\ log' = log \o <<r[1], [r[2] EXCEPT !.ok = whole]>>
                /\ rest' = <<r[2]>> /\ open' = TRUE /\ half' = TRUE
    <2>1. CASE k = 0
        <3>1. k + 1 = 1 /\ SubSeq(r, 1, k) = <<>>
            BY <1>4, <2>1
        <3>2. log' = Append(log, [r[1] EXCEPT !.ok = whole]) /\ rest' = r
            BY <1>3, <1>4, <1>8, <3>1, ConcatEmptySeq, Zenon
        <3>3. log' = log \o <<[r[1] EXCEPT !.ok = whole]>>
            BY <1>3, <1>5, <3>2, AppendIsConcat, Zenon
        <3>4. QED
            BY <1>8, <3>2, <3>3, Zenon
    <2>2. CASE k = 1
        <3>1. k + 1 = 2 /\ SubSeq(r, 1, k) = <<r[1]>>
            BY <1>4, <2>2
        <3>2. /\ log' = Append(log \o <<r[1]>>, [r[2] EXCEPT !.ok = whole])
              /\ rest' = <<r[2]>>
            BY <1>4, <1>8, <3>1, Zenon
        <3> DEFINE y == [r[2] EXCEPT !.ok = whole]
        <3>3. y \in Record
            BY <1>5
        <3>4. log' = Append(log \o <<r[1]>>, y)
            BY <3>2
        <3> HIDE DEF y
        <3>5. log' = log \o <<r[1], y>>
            BY <1>2, <1>3, <3>3, <3>4, OneAfterTheOther
        <3>6. log' = log \o <<r[1], [r[2] EXCEPT !.ok = whole]>>
            BY <3>5 DEF y
        <3>7. QED
            BY <1>8, <3>2, <3>6, Zenon
    <2>3. k = 0 \/ k = 1
        OBVIOUS
    <2>4. QED
        BY <2>1, <2>2, <2>3, Zenon
<1>9. \/ log' = log \o r /\ split' = FALSE /\ UNCHANGED <<open, rest, half>>
      \/ \E k \in 1..1 :
            /\ log' = log \o SubSeq(r, 1, k)
            /\ rest' = SubSeq(r, k + 1, 2) /\ half' = FALSE
            /\ UNCHANGED <<open, split>>
      \/ \E k \in 0..1, whole \in BOOLEAN :
            /\ log' = Append(log \o SubSeq(r, 1, k), [r[k + 1] EXCEPT !.ok = whole])
            /\ rest' = SubSeq(r, k + 1, 2) /\ open' = TRUE /\ half' = TRUE
    <2>1. \/ log' = log \o r /\ split' = FALSE /\ UNCHANGED <<open, rest, half>>
          \/ \E k \in 1..(Len(r) - 1) :
                /\ log' = log \o SubSeq(r, 1, k)
                /\ rest' = SubSeq(r, k + 1, Len(r)) /\ half' = FALSE
                /\ UNCHANGED <<open, split>>
          \/ \E k \in 0..(Len(r) - 1), whole \in BOOLEAN :
                /\ log' = Append(log \o SubSeq(r, 1, k), [r[k + 1] EXCEPT !.ok = whole])
                /\ open' = TRUE
                /\ rest' = SubSeq(r, k + 1, Len(r)) /\ half' = TRUE
        BY DEF FirstWrite
    <2>2. Len(r) = 2 /\ 1..(Len(r) - 1) = 1..1 /\ 0..(Len(r) - 1) = 0..1
        BY <1>2
    <2>3. QED
        BY <2>1, <2>2, Zenon
<1>10. QED
    BY <1>6, <1>7, <1>8, <1>9

\* What the first write appends, and what it leaves to the second.
LEMMA FirstWriteParts ==
    ASSUME WriterInv, FirstWrite
    PROVE  \E m \in Seq(Record) :
              /\ log' = log \o m /\ Len(m) \in 1..2
              /\ \A i \in 1..Len(m) : /\ m[i].series = <<Transcript, TokenTypes[i]>>
                                      /\ m[i].total = acc'[<<Transcript, TokenTypes[i]>>]
              /\ \A i \in 1..2 :
                    \/ i =< Len(m) /\ m[i].ok = TRUE
                    \/ \E j \in 1..Len(rest') :
                          rest'[j].series = <<Transcript, TokenTypes[i]>>
              /\ \A j \in 1..Len(rest') :
                    rest'[j].ok = TRUE /\ rest'[j].total = acc'[<<Transcript, rest'[j].series[2]>>]
              /\ half' => rest' # <<>> /\ open'
              /\ open' => half' /\ m[Len(m)].series = rest'[1].series
                          /\ m[Len(m)].total = rest'[1].total
              /\ rest' = <<>> => ~split'
<1> DEFINE r == Batch(acc', Transcript, batches')
           x(whole) == [r[1] EXCEPT !.ok = whole]
           y(whole) == [r[2] EXCEPT !.ok = whole]
<1>1. acc' \in Counts /\ batches' \in Nat
    BY BatchesAssumption, AddType DEF WriterInv, TypeInv, TypeOK, FirstWrite
<1>2. /\ r \in Seq(Record) /\ Len(r) = 2
      /\ \A i \in 1..2 :
            r[i] = [ok |-> TRUE, series |-> <<Transcript, TokenTypes[i]>>, ts |-> batches',
                    total |-> acc'[<<Transcript, TokenTypes[i]>>]]
      /\ TokenTypes[1] \in Types /\ TokenTypes[2] \in Types
    BY <1>1, BatchLines, LabelsKnown
<1>3. /\ r[1] \in Record /\ r[2] \in Record
      /\ r[1].ok = TRUE /\ r[2].ok = TRUE
      /\ r[1].series = <<Transcript, TokenTypes[1]>>
      /\ r[2].series = <<Transcript, TokenTypes[2]>>
      /\ r[1].total = acc'[<<Transcript, TokenTypes[1]>>]
      /\ r[2].total = acc'[<<Transcript, TokenTypes[2]>>]
    <2>1. r[1] \in Record /\ r[2] \in Record
        <3> HIDE DEF r
        <3>1. 1 \in 1..Len(r) /\ 2 \in 1..Len(r)
            BY <1>2
        <3>2. QED
            BY <1>2, <3>1, ElementOfSeq
    <2>2. /\ r[1] = [ok |-> TRUE, series |-> <<Transcript, TokenTypes[1]>>, ts |-> batches',
                     total |-> acc'[<<Transcript, TokenTypes[1]>>]]
          /\ r[2] = [ok |-> TRUE, series |-> <<Transcript, TokenTypes[2]>>, ts |-> batches',
                     total |-> acc'[<<Transcript, TokenTypes[2]>>]]
        <3> HIDE DEF r
        <3>1. 1 \in 1..2 /\ 2 \in 1..2
            OBVIOUS
        <3>2. QED
            BY <1>2, <3>1, Zenon
    <2> HIDE DEF r
    <2>3. QED
        BY <2>1, <2>2
<1>4. ASSUME NEW whole \in BOOLEAN
      PROVE  /\ x(whole) \in Record /\ x(whole).series = r[1].series
             /\ x(whole).total = r[1].total
             /\ y(whole) \in Record /\ y(whole).series = r[2].series
             /\ y(whole).total = r[2].total
    BY <1>3 DEF Record
<1>3a. \A i \in 1..2 : i = 1 \/ i = 2
    OBVIOUS
<1>5. rest = <<>> /\ half = FALSE /\ open = FALSE
    BY DEF FirstWrite, WriterInv, TypeInv, TypeOK
<1>6. \/ log' = log \o r /\ split' = FALSE /\ UNCHANGED <<open, rest, half>>
      \/ /\ log' = log \o <<r[1]>> /\ rest' = <<r[2]>> /\ half' = FALSE
         /\ UNCHANGED <<open, split>>
      \/ \E whole \in BOOLEAN :
            log' = log \o <<x(whole)>> /\ rest' = r /\ open' = TRUE /\ half' = TRUE
      \/ \E whole \in BOOLEAN :
            /\ log' = log \o <<r[1], y(whole)>>
            /\ rest' = <<r[2]>> /\ open' = TRUE /\ half' = TRUE
    BY FirstWriteCases
<1> HIDE DEF r, x, y
<1> DEFINE Goal(m) ==
              /\ log' = log \o m /\ Len(m) \in 1..2
              /\ \A i \in 1..Len(m) : /\ m[i].series = <<Transcript, TokenTypes[i]>>
                                      /\ m[i].total = acc'[<<Transcript, TokenTypes[i]>>]
              /\ \A i \in 1..2 :
                    \/ i =< Len(m) /\ m[i].ok = TRUE
                    \/ \E j \in 1..Len(rest') :
                          rest'[j].series = <<Transcript, TokenTypes[i]>>
              /\ \A j \in 1..Len(rest') :
                    rest'[j].ok = TRUE /\ rest'[j].total = acc'[<<Transcript, rest'[j].series[2]>>]
              /\ half' => rest' # <<>> /\ open'
              /\ open' => half' /\ m[Len(m)].series = rest'[1].series
                          /\ m[Len(m)].total = rest'[1].total
              /\ rest' = <<>> => ~split'
<1>6a. \A i \in 1..2 :
          /\ r[i].series = <<Transcript, TokenTypes[i]>> /\ r[i].ok = TRUE
          /\ r[i].total = acc'[<<Transcript, TokenTypes[i]>>]
          /\ r[i].total = acc'[<<Transcript, r[i].series[2]>>]
    <2>1. /\ r[1].series[2] = TokenTypes[1] /\ r[2].series[2] = TokenTypes[2]
        BY <1>3
    <2>2. QED
        BY <1>3, <1>3a, <2>1, Zenon
<1>7. CASE log' = log \o r /\ split' = FALSE /\ UNCHANGED <<open, rest, half>>
    <2>1. rest' = <<>> /\ Len(rest') = 0 /\ 1..Len(rest') = {} /\ half' = FALSE
          /\ open' = FALSE
        BY <1>5, <1>7
    <2>2. Len(r) \in 1..2 /\ 1..Len(r) = 1..2 /\ \A i \in 1..2 : i =< Len(r)
        BY <1>2
    <2>3. Goal(r)
        BY <1>6a, <1>7, <2>1, <2>2, Zenon
    <2>4. QED
        BY <1>2, <2>3, Zenon
<1>8. CASE /\ log' = log \o <<r[1]>> /\ rest' = <<r[2]>> /\ half' = FALSE
           /\ UNCHANGED <<open, split>>
    <2> DEFINE m == <<r[1]>>
    <2>1. /\ Len(m) \in 1..2 /\ 1..Len(m) = {1} /\ 1 =< Len(m)
          /\ m[1] = r[1] /\ m \in Seq(Record)
        BY <1>3
    <2>2. /\ 1..Len(rest') = {1} /\ rest'[1] = r[2] /\ rest' # <<>> /\ open' = FALSE
        BY <1>5, <1>8
    <2>3. /\ \A i \in 1..Len(m) : /\ m[i].series = <<Transcript, TokenTypes[i]>>
                                  /\ m[i].total = acc'[<<Transcript, TokenTypes[i]>>]
          /\ \A i \in 1..2 : \/ i =< Len(m) /\ m[i].ok = TRUE
                             \/ \E j \in 1..Len(rest') :
                                   rest'[j].series = <<Transcript, TokenTypes[i]>>
          /\ \A j \in 1..Len(rest') :
                /\ rest'[j].ok = TRUE
                /\ rest'[j].total = acc'[<<Transcript, rest'[j].series[2]>>]
        <3> HIDE DEF m
        <3>1. 1 \in {1} /\ 2 \in 1..2 /\ \A i \in {1} : i = 1 /\ i \in 1..2
            OBVIOUS
        <3>2. QED
            BY <1>3a, <1>6a, <2>1, <2>2, <3>1
    <2>4. Goal(m)
        <3> HIDE DEF m
        <3>1. log' = log \o m /\ half' = FALSE
            BY <1>8 DEF m
        <3>2. QED
            BY <2>1, <2>2, <2>3, <3>1, Zenon
    <2>5. QED
        BY <2>1, <2>4, Zenon
<1>9. ASSUME NEW whole \in BOOLEAN,
             log' = log \o <<x(whole)>>, rest' = r, open' = TRUE, half' = TRUE
      PROVE  Goal(<<x(whole)>>)
    <2> DEFINE m == <<x(whole)>>
    <2>1. /\ Len(m) = 1 /\ Len(m) \in 1..2 /\ 1..Len(m) = {1} /\ m[1] = x(whole)
        BY <1>4
    <2>2. /\ 1..Len(rest') = 1..2 /\ rest' # <<>>
          /\ \A j \in 1..2 : rest'[j] = r[j]
        <3>1. Len(rest') = 2 /\ \A j \in 1..2 : rest'[j] = r[j]
            BY <1>2, <1>9
        <3>2. rest' # <<>>
            BY <3>1
        <3>3. QED
            BY <3>1, <3>2
    <2> HIDE DEF m
    <2>3. /\ \A i \in 1..Len(m) : /\ m[i].series = <<Transcript, TokenTypes[i]>>
                                  /\ m[i].total = acc'[<<Transcript, TokenTypes[i]>>]
          /\ m[Len(m)].series = rest'[1].series /\ m[Len(m)].total = rest'[1].total
        <3>1. 1 \in 1..2 /\ \A i \in {1} : i = 1
            OBVIOUS
        <3>2. /\ m[1].series = <<Transcript, TokenTypes[1]>> /\ m[1].series = r[1].series
              /\ m[1].total = acc'[<<Transcript, TokenTypes[1]>>] /\ m[1].total = r[1].total
            BY <1>3, <1>4, <2>1, Zenon
        <3>3. QED
            BY <2>1, <2>2, <3>1, <3>2, Zenon
    <2>4. /\ \A i \in 1..2 : \E j \in 1..Len(rest') :
                rest'[j].series = <<Transcript, TokenTypes[i]>>
          /\ \A j \in 1..Len(rest') :
                /\ rest'[j].ok = TRUE
                /\ rest'[j].total = acc'[<<Transcript, rest'[j].series[2]>>]
        <3>1. ASSUME NEW i \in 1..2
              PROVE  /\ i \in 1..Len(rest') /\ rest'[i] = r[i]
                     /\ rest'[i].series = <<Transcript, TokenTypes[i]>>
                     /\ rest'[i].ok = TRUE
                     /\ rest'[i].total = acc'[<<Transcript, rest'[i].series[2]>>]
            <4>1. i \in 1..Len(rest') /\ rest'[i] = r[i]
                BY <2>2
            <4>2. QED
                BY <1>6a, <4>1
        <3>2. \A j \in 1..Len(rest') : j \in 1..2
            BY <2>2
        <3>3. QED
            BY <3>1, <3>2, Zenon
    <2>5. log' = log \o m
        BY <1>9 DEF m
    <2>6. Goal(m)
        BY <1>9, <2>1, <2>2, <2>3, <2>4, <2>5, Zenon
    <2>7. QED
        BY <2>6 DEF m
<1>10. ASSUME NEW whole \in BOOLEAN, log' = log \o <<r[1], y(whole)>>,
              rest' = <<r[2]>>, open' = TRUE, half' = TRUE
       PROVE  Goal(<<r[1], y(whole)>>)
    <2> DEFINE m == <<r[1], y(whole)>>
    <2>1. /\ Len(m) = 2 /\ Len(m) \in 1..2 /\ 1..Len(m) = 1..2 /\ 1 =< Len(m)
          /\ m[1] = r[1] /\ m[2] = y(whole)
        OBVIOUS
    <2>2. /\ 1..Len(rest') = {1} /\ rest'[1] = r[2] /\ rest' # <<>>
        BY <1>10
    <2> HIDE DEF m
    <2>3. /\ \A i \in 1..Len(m) : /\ m[i].series = <<Transcript, TokenTypes[i]>>
                                  /\ m[i].total = acc'[<<Transcript, TokenTypes[i]>>]
          /\ m[Len(m)].series = rest'[1].series /\ m[Len(m)].total = rest'[1].total
        BY <1>3, <1>3a, <1>4, <2>1, <2>2, Zenon
    <2>4. /\ \A i \in 1..2 : \/ i =< Len(m) /\ m[i].ok = TRUE
                             \/ \E j \in 1..Len(rest') :
                                   rest'[j].series = <<Transcript, TokenTypes[i]>>
          /\ \A j \in 1..Len(rest') :
                /\ rest'[j].ok = TRUE
                /\ rest'[j].total = acc'[<<Transcript, rest'[j].series[2]>>]
        <3>1. 1 \in {1} /\ 2 \in 1..2 /\ \A i \in {1} : i = 1
            OBVIOUS
        <3>2. QED
            BY <1>3, <1>3a, <1>6a, <2>1, <2>2, <3>1
    <2>5. log' = log \o m
        BY <1>10 DEF m
    <2>6. Goal(m)
        BY <1>10, <2>1, <2>2, <2>3, <2>4, <2>5, Zenon
    <2>7. QED
        BY <2>6 DEF m
<1>11. QED
    <2>1. \A whole \in BOOLEAN : /\ <<x(whole)>> \in Seq(Record)
                                 /\ <<r[1], y(whole)>> \in Seq(Record)
        BY <1>3, <1>4
    <2>2. CASE \E whole \in BOOLEAN :
                  log' = log \o <<x(whole)>> /\ rest' = r /\ open' = TRUE /\ half' = TRUE
        BY <1>9, <2>1, <2>2
    <2>3. CASE \E whole \in BOOLEAN :
                  /\ log' = log \o <<r[1], y(whole)>>
                  /\ rest' = <<r[2]>> /\ open' = TRUE /\ half' = TRUE
        BY <1>10, <2>1, <2>3
    <2>4. QED
        BY <1>6, <1>7, <1>8, <2>2, <2>3

\* The lines of the log after the first write.
LEMMA FirstWriteLines ==
    ASSUME WriterInv, FirstWrite
    PROVE  /\ KeepsLines(log, log') /\ \A i \in 1..Len(log) : log'[i] = log[i]
           /\ \A i \in (Len(log) + 1)..Len(log') :
                 /\ log'[i].series[1] = Transcript
                 /\ log'[i].total = acc'[log'[i].series]
           /\ \A t \in Types :
                 \/ \E i \in (Len(log) + 1)..Len(log') :
                       log'[i].ok = TRUE /\ log'[i].series = <<Transcript, t>>
                 \/ \E j \in 1..Len(rest') : rest'[j].series = <<Transcript, t>>
           /\ WriterInv'
           /\ half' => open'
           /\ rest' = <<>> => ~split'
<1>1. PICK m \in Seq(Record) :
         /\ log' = log \o m /\ Len(m) \in 1..2
         /\ \A i \in 1..Len(m) : /\ m[i].series = <<Transcript, TokenTypes[i]>>
                                 /\ m[i].total = acc'[<<Transcript, TokenTypes[i]>>]
         /\ \A i \in 1..2 :
               \/ i =< Len(m) /\ m[i].ok = TRUE
               \/ \E j \in 1..Len(rest') :
                     rest'[j].series = <<Transcript, TokenTypes[i]>>
         /\ \A j \in 1..Len(rest') :
               /\ rest'[j].ok = TRUE
               /\ rest'[j].total = acc'[<<Transcript, rest'[j].series[2]>>]
         /\ half' => rest' # <<>> /\ open'
         /\ open' => half' /\ m[Len(m)].series = rest'[1].series
                     /\ m[Len(m)].total = rest'[1].total
         /\ rest' = <<>> => ~split'
    BY FirstWriteParts
<1>2. /\ Len(log) \in Nat /\ Len(log') = Len(log) + Len(m) /\ Len(m) \in Nat
      /\ \A i \in 1..Len(log) : log'[i] = log[i]
      /\ \A i \in 1..Len(m) : log'[Len(log) + i] = m[i]
      /\ \A i \in (Len(log) + 1)..Len(log') :
            i - Len(log) \in 1..Len(m) /\ log'[i] = m[i - Len(log)]
    <2>1. log \in Seq(Record)
        BY DEF WriterInv, TypeInv, TypeOK
    <2>2. QED
        BY <1>1, <2>1, Behind
<1>3. KeepsLines(log, log')
    BY <1>2 DEF KeepsLines
<1>4. \A i \in (Len(log) + 1)..Len(log') :
         log'[i].series[1] = Transcript /\ log'[i].total = acc'[log'[i].series]
    <2>1. ASSUME NEW i \in 1..Len(m)
          PROVE  m[i].series[1] = Transcript /\ m[i].total = acc'[m[i].series]
        <3>1. /\ m[i].series = <<Transcript, TokenTypes[i]>>
              /\ m[i].total = acc'[<<Transcript, TokenTypes[i]>>]
            BY <1>1, Zenon
        <3>2. QED
            BY <3>1
    <2>2. QED
        BY <1>2, <2>1
<1>5. ASSUME NEW t \in Types
      PROVE  \/ \E i \in (Len(log) + 1)..Len(log') :
                   log'[i].ok = TRUE /\ log'[i].series = <<Transcript, t>>
             \/ \E j \in 1..Len(rest') : rest'[j].series = <<Transcript, t>>
    <2>1. PICK i \in 1..2 : t = TokenTypes[i]
        BY DEF Types, TokenTypes
    <2>2. CASE \E j \in 1..Len(rest') : rest'[j].series = <<Transcript, TokenTypes[i]>>
        BY <2>1, <2>2
    <2>3. CASE i =< Len(m) /\ m[i].ok = TRUE
        <3>1. i \in 1..Len(m) /\ Len(log) + i \in (Len(log) + 1)..Len(log')
            BY <1>2, <2>3
        <3>2. /\ log'[Len(log) + i].ok = TRUE
              /\ log'[Len(log) + i].series = <<Transcript, t>>
            BY <1>1, <1>2, <2>1, <2>3, <3>1
        <3>3. QED
            BY <3>1, <3>2
    <2>4. QED
        BY <1>1, <2>2, <2>3
<1>6. WriterInv'
    <2>1. TypeInv'
        BY NextType DEF WriterInv, Next
    <2>2. up' /\ up' = TRUE
        BY DEF FirstWrite, WriterInv, TypeInv, TypeOK
    <2>3. open' => log'[Len(log')].series = rest'[1].series
                   /\ log'[Len(log')].total = rest'[1].total
        <3>1. Len(m) \in 1..Len(m)
            <4>1. Len(m) \in 1..2
                BY <1>1, Zenon
            <4>2. QED
                BY <4>1
        <3>2. log'[Len(log')] = m[Len(m)]
            BY <1>2, <3>1
        <3>3. QED
            BY <1>1, <3>2
    <2>4. \A j \in 1..Len(rest') :
             rest'[j].ok /\ rest'[j].total = acc'[<<Transcript, rest'[j].series[2]>>]
        BY <1>1
    <2>5. QED
        BY <1>1, <2>1, <2>2, <2>3, <2>4 DEF WriterInv
<1>7. QED
    BY <1>1, <1>2, <1>3, <1>4, <1>5, <1>6

\* The lines of the log after the second write.  Unless the batch was split,
\* what was left is now there, readable, at its end.
LEMMA SecondWriteLines ==
    ASSUME WriterInv, SecondWrite
    PROVE  /\ KeepsLines(log, log')
           /\ \A i \in (Len(log) + 1)..Len(log') : log'[i].series[1] = Transcript
           /\ WriterInv'
           /\ ~split' => \E base \in Nat :
                 /\ Len(log') = base + Len(rest) /\ base =< Len(log)
                 /\ \A i \in 1..Len(rest) :
                       /\ log'[base + i].ok = TRUE
                       /\ log'[base + i].series = rest[i].series
                       /\ log'[base + i].total = rest[i].total
                 /\ \A i \in 1..Len(log) :
                       i =< base => log'[i] = log[i]
           /\ ~split' <=> half => open
<1>1. /\ log \in Seq(Record) /\ rest \in Seq(Record) /\ rest # <<>>
      /\ open \in BOOLEAN /\ half \in BOOLEAN /\ split \in BOOLEAN
    BY DEF WriterInv, TypeInv, TypeOK, SecondWrite
<1>2. /\ Len(log) \in Nat /\ Len(rest) \in Nat \ {0} /\ Len(rest) \in Nat
      /\ 1 \in 1..Len(rest) /\ rest[1] \in Record
    <2>1. Len(log) \in Nat /\ Len(rest) \in Nat \ {0}
        BY <1>1, LenProperties, EmptySeq
    <2>2. 1 \in 1..Len(rest)
        BY <2>1
    <2>3. QED
        BY <1>1, <2>1, <2>2, ElementOfSeq
<1>3. \A i \in 1..Len(rest) :
         /\ rest[i].ok = TRUE /\ rest[i].series[1] = Transcript /\ rest[i] \in Record
    <2>1. \A i \in 1..Len(rest) : rest[i] \in Record
        BY <1>1, ElementOfSeq
    <2>2. \A i \in 1..Len(rest) : rest[i].ok /\ rest[i].series[1] = Transcript
        BY DEF WriterInv, TypeInv
    <2>3. QED
        BY <2>1, <2>2 DEF Record
<1>4. PICK back \in Seq(Record) :
         /\ back = Tail(rest) /\ Len(back) = Len(rest) - 1
         /\ \A i \in 1..(Len(rest) - 1) : back[i] = rest[i + 1]
    <2>1. /\ Tail(rest) \in Seq(Record) /\ Len(Tail(rest)) = Len(rest) - 1
          /\ \A i \in 1..Len(Tail(rest)) : Tail(rest)[i] = rest[i + 1]
        BY <1>1, HeadTailProperties
    <2>2. QED
        BY <2>1, Zenon
<1>5. WriterInv'
    <2>1. TypeInv'
        BY NextType DEF WriterInv, Next
    <2>2. rest' = <<>> /\ half' = FALSE /\ open' = FALSE /\ Len(<<>>) = 0
        BY EmptySeq DEF SecondWrite
    <2>3. QED
        BY <2>1, <2>2 DEF WriterInv
<1>6. split' = (half /\ ~open)
    BY DEF SecondWrite
<1>7. CASE ~half
    <2>1. log' = log \o rest
        BY <1>7 DEF SecondWrite
    <2>2. /\ Len(log') = Len(log) + Len(rest)
          /\ \A i \in 1..Len(log) : log'[i] = log[i]
          /\ \A i \in 1..Len(rest) : log'[Len(log) + i] = rest[i]
          /\ \A i \in (Len(log) + 1)..Len(log') :
                i - Len(log) \in 1..Len(rest) /\ log'[i] = rest[i - Len(log)]
        BY <1>1, <2>1, Behind
    <2>3. KeepsLines(log, log')
        BY <1>2, <2>2 DEF KeepsLines
    <2>4. \A i \in (Len(log) + 1)..Len(log') : log'[i].series[1] = Transcript
        BY <1>3, <2>2
    <2>5. \A i \in 1..Len(rest) : /\ log'[Len(log) + i].ok = TRUE
                                  /\ log'[Len(log) + i].series = rest[i].series
                                  /\ log'[Len(log) + i].total = rest[i].total
        BY <1>3, <2>2
    <2>6. QED
        <3>1. /\ Len(log) \in Nat /\ Len(log) =< Len(log)
              /\ Len(log') = Len(log) + Len(rest)
              /\ \A i \in 1..Len(log) : i =< Len(log) => log'[i] = log[i]
            BY <1>2, <2>2
        <3>2. QED
            BY <1>5, <1>6, <1>7, <2>3, <2>4, <2>5, <3>1, Zenon
<1>8. CASE half /\ open
    <2> DEFINE n == Len(log)
               first == [log EXCEPT ![n].ok = TRUE]
    <2>1. log # <<>> /\ n \in 1..n /\ log[n] \in Record
        <3>1. log # <<>>
            BY <1>8 DEF WriterInv, TypeInv
        <3>2. n \in 1..n
            BY <1>1, <1>2, <3>1, EmptySeq
        <3>3. QED
            BY <1>1, <3>1, <3>2, ElementOfSeq
    <2>2. log[n].series = rest[1].series /\ log[n].total = rest[1].total
        BY <1>8 DEF WriterInv
    <2>3. [log[n] EXCEPT !.ok = TRUE] \in Record
        BY <2>1 DEF Record
    <2>4. /\ first \in Seq(Record) /\ Len(first) = n
          /\ \A j \in 1..n : first[j] = IF j = n THEN [log[n] EXCEPT !.ok = TRUE] ELSE log[j]
        BY <1>1, <2>1, <2>3, ExceptSeq
    <2>5. log' = first \o back
        BY <1>4, <1>8 DEF SecondWrite
    <2> HIDE DEF first
    <2>6. /\ Len(log') = n + Len(rest) - 1
          /\ \A i \in 1..n : log'[i] = first[i]
          /\ \A i \in 1..Len(back) : log'[n + i] = back[i]
          /\ \A i \in (n + 1)..Len(log') :
                i - n \in 1..Len(back) /\ log'[i] = back[i - n]
        <3>1. /\ Len(log') = Len(first) + Len(back)
              /\ \A i \in 1..Len(first) : log'[i] = first[i]
              /\ \A i \in 1..Len(back) : log'[Len(first) + i] = back[i]
              /\ \A i \in (Len(first) + 1)..Len(log') :
                    i - Len(first) \in 1..Len(back)
                    /\ log'[i] = back[i - Len(first)]
            <4>1. first \in Seq(Record)
                BY <2>4
            <4>2. QED
                BY <2>5, <4>1, Behind
        <3>2. QED
            BY <1>2, <1>4, <2>4, <3>1
    <2>7. \A i \in 1..n : i # n => log'[i] = log[i]
        BY <2>4, <2>6
    <2>8. /\ log'[n].ok = TRUE /\ log'[n].series = log[n].series
          /\ log'[n].ts = log[n].ts /\ log'[n].total = log[n].total
        <3>1. log'[n] = [log[n] EXCEPT !.ok = TRUE]
            BY <2>1, <2>4, <2>6
        <3>2. QED
            BY <2>1, <3>1 DEF Record
    <2>9. log[n].series[1] = Transcript
        BY <1>2, <1>3, <2>2
    <2>10. KeepsLines(log, log')
        <3>1. n =< Len(log')
            BY <1>2, <2>6
        <3>2. ASSUME NEW i \in 1..n
              PROVE  /\ log'[i].series = log[i].series /\ log'[i].ts = log[i].ts
                     /\ log'[i].total = log[i].total
                     /\ (log[i].series[1] # Transcript \/ ~open) => log'[i].ok = log[i].ok
            <4>1. CASE i = n
                BY <1>8, <2>8, <2>9, <4>1
            <4>2. CASE i # n
                BY <2>7, <4>2
            <4>3. QED
                BY <4>1, <4>2
        <3>3. QED
            BY <3>1, <3>2 DEF KeepsLines
    <2>11. \A i \in (n + 1)..Len(log') : log'[i].series[1] = Transcript
        <3>1. \A i \in 1..Len(back) : back[i].series[1] = Transcript
            BY <1>2, <1>3, <1>4
        <3>2. ASSUME NEW i \in (n + 1)..Len(log') PROVE log'[i].series[1] = Transcript
            <4>1. i - n \in 1..Len(back) /\ log'[i] = back[i - n]
                BY <2>6
            <4>2. QED
                BY <3>1, <4>1
        <3>3. QED
            BY <3>2
    <2>12. ASSUME NEW i \in 1..Len(rest)
           PROVE  /\ log'[n - 1 + i].ok = TRUE
                  /\ log'[n - 1 + i].series = rest[i].series
                  /\ log'[n - 1 + i].total = rest[i].total
        <3>1. CASE i = 1
            <4>1. n - 1 + i = n
                BY <1>2, <3>1
            <4>2. QED
                BY <2>2, <2>8, <3>1, <4>1
        <3>2. CASE i # 1
            <4>1. i - 1 \in 1..Len(back) /\ n - 1 + i = n + (i - 1) /\ (i - 1) + 1 = i
                BY <1>2, <1>4, <3>2
            <4>2. log'[n - 1 + i] = rest[i]
                <5>1. log'[n + (i - 1)] = back[i - 1]
                    BY <2>6, <4>1
                <5>2. back[i - 1] = rest[(i - 1) + 1]
                    BY <1>4, <4>1
                <5>3. QED
                    BY <4>1, <5>1, <5>2
            <4>3. QED
                BY <1>3, <4>2
        <3>3. QED
            BY <3>1, <3>2
    <2>13. /\ n - 1 \in Nat /\ Len(log') = (n - 1) + Len(rest) /\ n - 1 =< n
           /\ \A i \in 1..n : i =< n - 1 => log'[i] = log[i]
        BY <1>2, <2>1, <2>6, <2>7
    <2>14. QED
        BY <1>5, <1>6, <1>8, <2>10, <2>11, <2>12, <2>13
<1>9. CASE half /\ ~open
    <2> DEFINE x == Spoiled(rest[1])
               first == Append(log, x)
    <2>1. x \in Record /\ x.series[1] = Transcript
        BY <1>2, <1>3 DEF Spoiled, Record
    <2> HIDE DEF x
    <2>2. /\ first \in Seq(Record) /\ Len(first) = Len(log) + 1
          /\ \A i \in 1..Len(log) : first[i] = log[i]
          /\ first[Len(log) + 1] = x
        BY <1>1, <2>1, AppendProperties
    <2>3. log' = first \o back
        BY <1>4, <1>9 DEF SecondWrite, x
    <2> HIDE DEF first
    <2>4. /\ Len(log') = Len(first) + Len(back)
          /\ \A i \in 1..Len(first) : log'[i] = first[i]
          /\ \A i \in (Len(first) + 1)..Len(log') :
                i - Len(first) \in 1..Len(back)
                /\ log'[i] = back[i - Len(first)]
        BY <2>2, <2>3, Behind
    <2>5. Len(log) =< Len(log') /\ \A i \in 1..Len(log) : log'[i] = log[i]
        BY <1>2, <1>4, <2>2, <2>4
    <2>6. KeepsLines(log, log')
        BY <2>5 DEF KeepsLines
    <2>7. ASSUME NEW i \in (Len(log) + 1)..Len(log')
          PROVE  log'[i].series[1] = Transcript
        <3>1. CASE i = Len(log) + 1
            BY <1>2, <2>1, <2>2, <2>4, <3>1
        <3>2. CASE i # Len(log) + 1
            <4>1. i - Len(first) \in 1..Len(back) /\ log'[i] = back[i - Len(first)]
                BY <1>2, <2>2, <2>4, <3>2
            <4>2. \A k \in 1..Len(back) : back[k].series[1] = Transcript
                BY <1>2, <1>3, <1>4
            <4>3. QED
                BY <4>1, <4>2
        <3>3. QED
            BY <3>1, <3>2
    <2>8. QED
        BY <1>5, <1>6, <1>9, <2>6, <2>7
<1>10. QED
    BY <1>7, <1>8, <1>9

\* The lines of the log after a call has recorded its usage.
LEMMA RecordCallLines ==
    ASSUME WriterInv, NEW c \in Calls, RecordCall(c)
    PROVE  /\ KeepsLines(log, log')
           /\ \A i \in (Len(log) + 1)..Len(log') :
                 /\ log'[i].ok = TRUE /\ log'[i].ts = started[c]
                 /\ \E t \in Types :
                       /\ log'[i].series = <<Stored[Label[c]], t>>
                       /\ log'[i].total = seed[c][<<Label[c], t>>] + tokens[c]
           /\ ~open => \A t \in Types : \E i \in (Len(log) + 1)..Len(log') :
                          log'[i].series = <<Stored[Label[c]], t>>
           /\ WriterInv'
<1> DEFINE totals == Add(seed[c], Label[c], tokens[c])
           b      == Batch(totals, Label[c], started[c])
           n      == Len(log)
<1>1. /\ seed[c] \in Counts /\ tokens[c] \in Nat /\ started[c] \in Nat
      /\ log \in Seq(Record) /\ open \in BOOLEAN
    BY DEF WriterInv, TypeInv, TypeOK
<1>2. Label[c] \in Labels /\ Stored[Label[c]] \in Labels /\ Stored[Label[c]] # Transcript
    BY LabelsKnown, StoredAssumption
<1>3. totals \in Counts
    BY <1>1, AddType, Zenon
<1>4. \A t \in Types : totals[<<Label[c], t>>] = seed[c][<<Label[c], t>>] + tokens[c]
    <2>1. \A t \in Types : <<Label[c], t>> \in Series /\ <<Label[c], t>>[1] = Label[c]
        BY LabelsKnown
    <2>2. QED
        BY <2>1, Zenon DEF Add
<1>5. log' = IF open THEN Joined(b) ELSE log \o b
    BY DEF RecordCall
<1> HIDE DEF totals
<1>6. /\ b \in Seq(Record) /\ Len(b) = 2
      /\ \A i \in 1..2 :
            b[i] = [ok |-> TRUE, series |-> <<Stored[Label[c]], TokenTypes[i]>>,
                    ts |-> started[c], total |-> totals[<<Label[c], TokenTypes[i]>>]]
      /\ TokenTypes[1] \in Types /\ TokenTypes[2] \in Types
      /\ \A t \in Types : t = TokenTypes[1] \/ t = TokenTypes[2]
    BY <1>1, <1>2, <1>3, BatchLines
<1> HIDE DEF b
<1>7. ASSUME NEW i \in 1..2
      PROVE  /\ b[i].ok = TRUE /\ b[i].ts = started[c]
             /\ TokenTypes[i] \in Types
             /\ b[i].series = <<Stored[Label[c]], TokenTypes[i]>>
             /\ b[i].total = seed[c][<<Label[c], TokenTypes[i]>>] + tokens[c]
    <2>1. b[i] = [ok |-> TRUE, series |-> <<Stored[Label[c]], TokenTypes[i]>>,
                  ts |-> started[c], total |-> totals[<<Label[c], TokenTypes[i]>>]]
        BY <1>6
    <2>2. TokenTypes[i] \in Types
        <3>1. i = 1 \/ i = 2
            OBVIOUS
        <3>2. QED
            BY <1>6, <3>1, Zenon
    <2>3. QED
        BY <1>4, <2>1, <2>2
<1>8. WriterInv'
    <2>1. TypeInv'
        BY NextType DEF WriterInv, Next
    <2>2. open' = FALSE /\ UNCHANGED <<up, acc, rest, half>>
        BY DEF RecordCall, serve
    <2>3. QED
        BY <2>1, <2>2 DEF WriterInv
<1>9. n \in Nat
    BY <1>1, LenProperties
<1>10. CASE ~open
    <2>1. log' = log \o b
        BY <1>5, <1>10
    <2>2. /\ Len(log') = n + 2
          /\ \A i \in 1..n : log'[i] = log[i]
          /\ \A i \in 1..Len(b) : log'[n + i] = b[i]
          /\ \A i \in (n + 1)..Len(log') : i - n \in 1..Len(b) /\ log'[i] = b[i - n]
        <3>1. /\ Len(log') = Len(log) + Len(b)
              /\ \A i \in 1..Len(log) : log'[i] = log[i]
              /\ \A i \in 1..Len(b) : log'[Len(log) + i] = b[i]
              /\ \A i \in (Len(log) + 1)..Len(log') :
                    i - Len(log) \in 1..Len(b) /\ log'[i] = b[i - Len(log)]
            <4>1. log \in Seq(Record) /\ b \in Seq(Record)
                BY <1>1, <1>6
            <4>2. QED
                BY <2>1, <4>1, Behind
        <3>2. QED
            BY <1>6, <3>1
    <2>3. KeepsLines(log, log')
        BY <1>9, <2>2 DEF KeepsLines
    <2>4. ASSUME NEW i \in (n + 1)..Len(log')
          PROVE  /\ log'[i].ok = TRUE /\ log'[i].ts = started[c]
                 /\ \E t \in Types :
                       /\ log'[i].series = <<Stored[Label[c]], t>>
                       /\ log'[i].total = seed[c][<<Label[c], t>>] + tokens[c]
        <3>1. i - n \in 1..2 /\ log'[i] = b[i - n]
            BY <1>6, <2>2
        <3>2. QED
            BY <1>7, <3>1
    <2>5. ASSUME NEW t \in Types
          PROVE  \E i \in (n + 1)..Len(log') : log'[i].series = <<Stored[Label[c]], t>>
        <3>1. PICK k \in 1..2 : t = TokenTypes[k]
            BY <1>6
        <3>2. k \in 1..Len(b) /\ n + k \in (n + 1)..Len(log')
            BY <1>6, <1>9, <2>2
        <3>3. log'[n + k] = b[k]
            BY <2>2, <3>2
        <3>4. QED
            BY <1>7, <3>1, <3>2, <3>3
    <2>6. QED
        BY <1>8, <1>10, <2>3, <2>4, <2>5
<1>11. CASE open
    <2>1. log # <<>> /\ n \in 1..n /\ log[n] \in Record
        <3>1. log # <<>>
            BY <1>11 DEF WriterInv, TypeInv
        <3>2. n \in 1..n
            BY <1>1, <1>9, <3>1, EmptySeq
        <3>3. QED
            BY <1>1, <3>1, <3>2, ElementOfSeq
    <2>2. Spoiled(log[n]) \in Record
        BY <2>1 DEF Spoiled, Record
    <2>3. PICK front \in Seq(Record) :
             /\ front = SubSeq(log, 1, n - 1)
             /\ Len(front) = n - 1 /\ \A i \in 1..(n - 1) : front[i] = log[i]
        <3>1. \A i \in 1..(n - 1) : log[i] \in Record
            BY <1>1, <1>9, ElementOfSeq
        <3>2. n - 1 \in Int /\ 1 \in Int
            BY <1>9
        <3>3. /\ SubSeq(log, 1, n - 1) \in Seq(Record)
              /\ Len(SubSeq(log, 1, n - 1)) = IF 1 <= n - 1 THEN n - 1 - 1 + 1 ELSE 0
              /\ \A i \in 1..(n - 1 - 1 + 1) : SubSeq(log, 1, n - 1)[i] = log[1 + i - 1]
            BY <3>1, <3>2, SubSeqProperties
        <3>4. /\ Len(SubSeq(log, 1, n - 1)) = n - 1
              /\ \A i \in 1..(n - 1) : SubSeq(log, 1, n - 1)[i] = log[i]
            <4>1. n - 1 - 1 + 1 = n - 1 /\ n >= 1
                BY <1>9, <2>1
            <4>2. \A i \in 1..(n - 1) : 1 + i - 1 = i
                BY <1>9
            <4>3. Len(SubSeq(log, 1, n - 1)) = n - 1
                BY <1>9, <3>3, <4>1
            <4>4. \A i \in 1..(n - 1) : SubSeq(log, 1, n - 1)[i] = log[i]
                BY <3>3, <4>1, <4>2
            <4>5. QED
                BY <4>3, <4>4
        <3>5. QED
            BY <3>3, <3>4, Zenon
    <2>4. PICK first \in Seq(Record) :
             /\ first = Append(front, Spoiled(log[n]))
             /\ Len(first) = n /\ first[n] = Spoiled(log[n])
             /\ \A i \in 1..(n - 1) : first[i] = log[i]
        <3>1. /\ Append(front, Spoiled(log[n])) \in Seq(Record)
              /\ Len(Append(front, Spoiled(log[n]))) = Len(front) + 1
              /\ \A i \in 1..Len(front) : Append(front, Spoiled(log[n]))[i] = front[i]
              /\ Append(front, Spoiled(log[n]))[Len(front) + 1] = Spoiled(log[n])
            BY <2>2, <2>3, AppendProperties
        <3>2. Len(front) = n - 1 /\ Len(front) + 1 = n
            BY <1>9, <2>3
        <3>3. QED
            BY <2>3, <3>1, <3>2
    <2>5. PICK back \in Seq(Record) :
             /\ back = Tail(b) /\ Len(back) = Len(b) - 1
             /\ \A i \in 1..Len(back) : back[i] = b[i + 1]
        <3>1. b # <<>>
            <4>1. Len(b) = 2 /\ Len(<<>>) = 0
                BY <1>6, EmptySeq
            <4>2. 2 # 0
                OBVIOUS
            <4>3. QED
                BY <4>1, <4>2, Zenon
        <3>2. /\ Tail(b) \in Seq(Record) /\ Len(Tail(b)) = Len(b) - 1
              /\ \A i \in 1..Len(Tail(b)) : Tail(b)[i] = b[i + 1]
            BY <1>6, <3>1, HeadTailProperties
        <3>3. QED
            BY <3>2, Zenon
    <2>5a. Len(back) = 1 /\ 1 \in 1..Len(back) /\ back[1] = b[2]
        <3>1. Len(b) = 2
            BY <1>6
        <3>2. Len(back) = 1 /\ 1 \in 1..Len(back)
            BY <2>5, <3>1
        <3>3. back[1] = b[1 + 1]
            BY <2>5, <3>2, Zenon
        <3>4. QED
            BY <3>2, <3>3
    <2>6. log' = first \o back
        BY <1>5, <1>11, <2>3, <2>4, <2>5, Zenon DEF Joined
    <2>7. /\ Len(log') = n + 1
          /\ \A i \in 1..n : log'[i] = first[i]
          /\ log'[n + 1] = b[2]
        <3>1. /\ Len(log') = Len(first) + Len(back)
              /\ \A i \in 1..Len(first) : log'[i] = first[i]
              /\ \A i \in 1..Len(back) : log'[Len(first) + i] = back[i]
            BY <2>6, Behind
        <3>2. QED
            <4>1. Len(first) = n
                BY <2>4
            <4>2. QED
                BY <2>5a, <3>1, <4>1
    <2>8. log[n].series[1] = Transcript
        <3>1. /\ rest # <<>> /\ log[n].series = rest[1].series
              /\ \A i \in 1..Len(rest) : rest[i].series[1] = Transcript
            BY <1>11 DEF WriterInv, TypeInv
        <3>2. rest \in Seq(Record)
            BY DEF WriterInv, TypeInv, TypeOK
        <3>3. 1 \in 1..Len(rest)
            BY <3>1, <3>2, EmptySeq
        <3>4. QED
            BY <3>1, <3>3
    <2>9. /\ log'[n].series = log[n].series /\ log'[n].ts = log[n].ts
          /\ log'[n].total = log[n].total
        <3>1. log'[n] = Spoiled(log[n])
            BY <2>1, <2>4, <2>7
        <3>2. QED
            BY <2>1, <3>1 DEF Spoiled, Record
    <2>10. KeepsLines(log, log')
        <3>1. n =< Len(log')
            BY <1>9, <2>7
        <3>2. ASSUME NEW i \in 1..n
              PROVE  /\ log'[i].series = log[i].series /\ log'[i].ts = log[i].ts
                     /\ log'[i].total = log[i].total
                     /\ (log[i].series[1] # Transcript \/ ~open) => log'[i].ok = log[i].ok
            <4>1. CASE i = n
                BY <1>11, <2>8, <2>9, <4>1
            <4>2. CASE i # n
                BY <1>9, <2>4, <2>7, <4>2
            <4>3. QED
                BY <4>1, <4>2
        <3>3. QED
            BY <3>1, <3>2 DEF KeepsLines
    <2>11. ASSUME NEW i \in (n + 1)..Len(log')
           PROVE  /\ log'[i].ok = TRUE /\ log'[i].ts = started[c]
                  /\ \E t \in Types :
                        /\ log'[i].series = <<Stored[Label[c]], t>>
                        /\ log'[i].total = seed[c][<<Label[c], t>>] + tokens[c]
        <3>1. log'[i] = b[2]
            BY <1>9, <2>7
        <3>2. QED
            <4>1. 2 \in 1..2
                OBVIOUS
            <4>2. QED
                BY <1>7, <3>1, <4>1
    <2>12. QED
        BY <1>8, <1>11, <2>10, <2>11
<1>12. QED
    BY <1>10, <1>11

-----------------------------------------------------------------------------
(* serve's own totals.                                                      *)

\* A log in which the lines of a series are the same is replayed to the same.
LEMMA SeriesKept ==
    ASSUME TypeInv, TypeInv', KeepsLines(log, log'), NEW s \in Series,
           s[1] # Transcript \/ ~open,
           \A i \in (Len(log) + 1)..Len(log') : log'[i].series # s
    PROVE  Replay'[s] = Replay[s]
<1>1. /\ Len(log) \in Nat /\ Len(log') \in Nat
      /\ \A i \in 1..Len(log) : log[i].ok \in BOOLEAN
    <2>1. \A i \in 1..Len(log) : log[i] \in Record
        BY ElementOfSeq DEF TypeInv, TypeOK
    <2>2. QED
        BY <2>1 DEF TypeInv, TypeOK, Record
<1>2. ASSUME NEW i \in 1..Len(log), log[i].series = s
      PROVE  i \in 1..Len(log') /\ log'[i].series = s /\ log'[i].ok = log[i].ok
             /\ log'[i].total = log[i].total
    BY <1>1, <1>2 DEF KeepsLines
<1>3. \A i \in 1..Len(log') : log'[i].series = s => i \in 1..Len(log) /\ log[i].series = s
    BY <1>1 DEF KeepsLines
<1>4. LinesOf(log', s) = LinesOf(log, s)
    BY <1>2, <1>3 DEF LinesOf
<1>5. \A i \in LinesOf(log, s) : log'[i].total = log[i].total
    BY <1>2 DEF LinesOf
<1>6. QED
    BY <1>4, <1>5, ReplaySame, ReplayIs

\* What a replay would give serve is what it has, but for what it still has to
\* write and for a batch that was split.
RestoredInv ==
    /\ WriterInv
    /\ up /\ (IF rest = <<>> THEN ~split ELSE half => open) =>
          \A t \in Types :
             \/ \E i \in 1..Len(rest) : rest[i].series = <<Transcript, t>>
             \/ Replay[<<Transcript, t>>] = acc[<<Transcript, t>>]

\* RestoredInv over the steps.
LEMMA RestoredNext == RestoredInv /\ [Next]_vars => RestoredInv'
<1> SUFFICES ASSUME RestoredInv, [Next]_vars PROVE RestoredInv'
    OBVIOUS
<1>1. /\ WriterInv /\ TypeInv /\ TypeInv'
      /\ \A t \in Types : <<Transcript, t>> \in Series
    BY NextType, LabelsKnown DEF RestoredInv, WriterInv
<1>2. ASSUME log' = log, UNCHANGED serve, UNCHANGED open PROVE RestoredInv'
    <2>1. Replay' = Replay
        BY <1>2 DEF Replay, Latest
    <2>2. UNCHANGED <<up, acc, rest, half, split>>
        BY <1>2 DEF serve
    <2>3. WriterInv'
        BY <1>1, <1>2, <2>2 DEF WriterInv
    <2>4. QED
        BY <1>2, <2>1, <2>2, <2>3 DEF RestoredInv
<1>3. ASSUME NEW c \in Calls,
             StartTask(c) \/ RunTask(c) \/ OpenStore(c) \/ DropCall(c)
      PROVE  RestoredInv'
    BY <1>2, <1>3 DEF StartTask, RunTask, OpenStore, DropCall
<1>4. ASSUME NEW c \in Calls, RecordCall(c) PROVE RestoredInv'
    <2>1. /\ KeepsLines(log, log') /\ WriterInv'
          /\ \A i \in (Len(log) + 1)..Len(log') :
                \E t \in Types : log'[i].series = <<Stored[Label[c]], t>>
        BY <1>1, <1>4, RecordCallLines
    <2>2. UNCHANGED <<up, acc, rest, half, split>>
        BY <1>4 DEF RecordCall, serve
    <2>3. Stored[Label[c]] # Transcript
        BY StoredAssumption
    <2>4. ASSUME up', IF rest' = <<>> THEN ~split' ELSE half' => open', NEW t \in Types
          PROVE  \/ \E i \in 1..Len(rest') : rest'[i].series = <<Transcript, t>>
                 \/ Replay'[<<Transcript, t>>] = acc'[<<Transcript, t>>]
        <3>1. open' = FALSE
            BY <1>4 DEF RecordCall
        <3>2. ~open
            BY <1>1, <2>2, <2>4, <3>1 DEF WriterInv
        <3>3. Replay'[<<Transcript, t>>] = Replay[<<Transcript, t>>]
            <4>1. \A i \in (Len(log) + 1)..Len(log') : log'[i].series # <<Transcript, t>>
                BY <2>1, <2>3
            <4>2. QED
                BY <1>1, <2>1, <3>2, <4>1, SeriesKept
        <3>4. up /\ (IF rest = <<>> THEN ~split ELSE half => open)
            BY <1>1, <2>2, <2>4, <3>2, <3>1
        <3>5. \/ \E i \in 1..Len(rest) : rest[i].series = <<Transcript, t>>
              \/ Replay[<<Transcript, t>>] = acc[<<Transcript, t>>]
            BY <3>4 DEF RestoredInv
        <3>6. QED
            BY <2>2, <3>3, <3>5
    <2>5. QED
        BY <2>1, <2>4 DEF RestoredInv
<1>5. CASE ServeStarts
    <2>1. log' = log /\ Replay' = Replay /\ acc' = Replay /\ UNCHANGED <<open, rest, half, split>>
        BY <1>5 DEF ServeStarts, Replay, Latest
    <2>2. rest = <<>> /\ Len(<<>>) = 0
        BY <1>1, <1>5, EmptySeq DEF ServeStarts, WriterInv
    <2>3. WriterInv'
        BY <1>1, <2>1, <2>2 DEF WriterInv
    <2>4. QED
        BY <2>1, <2>3 DEF RestoredInv
<1>6. CASE ServeStops
    <2>1. /\ log' = log /\ up' = FALSE /\ rest = <<>> /\ Len(<<>>) = 0
          /\ UNCHANGED <<open, rest, half>>
        BY <1>6, EmptySeq DEF ServeStops
    <2>2. WriterInv'
        BY <1>1, <2>1 DEF WriterInv
    <2>3. QED
        BY <2>1, <2>2 DEF RestoredInv
<1>7. CASE FirstWrite
    <2>1. /\ WriterInv'
          /\ \A i \in (Len(log) + 1)..Len(log') : log'[i].total = acc'[log'[i].series]
          /\ \A t \in Types :
                \/ \E i \in (Len(log) + 1)..Len(log') :
                      log'[i].ok = TRUE /\ log'[i].series = <<Transcript, t>>
                \/ \E j \in 1..Len(rest') : rest'[j].series = <<Transcript, t>>
        BY <1>1, <1>7, FirstWriteLines
    <2>2. Len(log) \in Nat /\ Len(log') \in Nat
        BY <1>1 DEF TypeInv, TypeOK
    <2>3. ASSUME NEW t \in Types, NEW i \in (Len(log) + 1)..Len(log'),
                 log'[i].ok = TRUE, log'[i].series = <<Transcript, t>>
          PROVE  Replay'[<<Transcript, t>>] = acc'[<<Transcript, t>>]
        <3> DEFINE s == <<Transcript, t>>
        <3>1. i \in LinesOf(log', s)
            BY <2>2, <2>3 DEF LinesOf
        <3>2. \A j \in LinesOf(log', s) : i =< j => log'[j].total = acc'[s]
            BY <2>1, <2>2 DEF LinesOf
        <3>3. ReplayOf(log', s) = acc'[s]
            <4>1. Len(log') \in Nat
                BY <2>2
            <4>2. log'[i].total = acc'[s]
                BY <2>2, <3>1, <3>2
            <4>3. \A j \in LinesOf(log', s) : i =< j => log'[j].total = log'[i].total
                BY <3>2, <4>2
            <4>4. ReplayOf(log', s) = log'[i].total
                BY <3>1, <4>1, <4>3, ReplayNewest
            <4>5. QED
                BY <4>2, <4>4
        <3>4. QED
            BY <1>1, <3>3, ReplayIs
    <2>4. QED
        BY <2>1, <2>3 DEF RestoredInv
<1>8. CASE SecondWrite
    <2>1. /\ KeepsLines(log, log') /\ WriterInv'
          /\ \A i \in (Len(log) + 1)..Len(log') : log'[i].series[1] = Transcript
          /\ ~split' <=> half => open
        BY <1>1, <1>8, SecondWriteLines
    <2>2. /\ rest # <<>> /\ rest' = <<>> /\ up /\ UNCHANGED <<up, acc>>
          /\ Len(log) \in Nat /\ Len(log') \in Nat /\ Len(rest) \in Nat
        BY <1>1, <1>8 DEF SecondWrite, WriterInv, TypeInv, TypeOK
    <2>3. ASSUME ~split', NEW t \in Types
          PROVE  Replay'[<<Transcript, t>>] = acc'[<<Transcript, t>>]
        <3> DEFINE s == <<Transcript, t>>
        <3>1. PICK base \in Nat :
                 /\ Len(log') = base + Len(rest) /\ base =< Len(log)
                 /\ \A i \in 1..Len(rest) :
                       /\ log'[base + i].ok = TRUE
                       /\ log'[base + i].series = rest[i].series
                       /\ log'[base + i].total = rest[i].total
                 /\ \A i \in 1..Len(log) : i =< base => log'[i] = log[i]
            BY <1>1, <1>8, <2>3, SecondWriteLines
        <3>2. \/ \E i \in 1..Len(rest) : rest[i].series = s
              \/ Replay[s] = acc[s]
            BY <2>1, <2>2, <2>3 DEF RestoredInv
        <3>3. CASE \E i \in 1..Len(rest) : rest[i].series = s
            <4>1. PICK i \in 1..Len(rest) : rest[i].series = s
                BY <3>3
            <4>2. base + i \in LinesOf(log', s)
                BY <2>2, <3>1, <4>1 DEF LinesOf
            <4>3. ASSUME NEW j \in LinesOf(log', s), base + i =< j
                  PROVE  log'[j].total = acc[s]
                <5>1. j - base \in 1..Len(rest) /\ base + (j - base) = j
                    BY <2>2, <3>1, <4>3 DEF LinesOf
                <5>2. log'[j].series = rest[j - base].series /\ log'[j].total = rest[j - base].total
                    BY <3>1, <5>1
                <5>3. rest[j - base].series = s
                    BY <5>2 DEF LinesOf
                <5>4. rest[j - base].total = acc[<<Transcript, rest[j - base].series[2]>>]
                    BY <1>1, <5>1 DEF WriterInv
                <5>5. QED
                    BY <5>2, <5>3, <5>4
            <4>4. ReplayOf(log', s) = acc[s]
                <5>1. Len(log') \in Nat
                    BY <2>2
                <5>2. log'[base + i].total = acc[s]
                    <6>1. base + i =< base + i
                        BY <2>2, <3>1
                    <6>2. QED
                        BY <4>2, <4>3, <6>1
                <5>3. \A j \in LinesOf(log', s) :
                         base + i =< j => log'[j].total = log'[base + i].total
                    BY <4>3, <5>2
                <5>4. ReplayOf(log', s) = log'[base + i].total
                    BY <4>2, <5>1, <5>3, ReplayNewest
                <5>5. QED
                    BY <5>2, <5>4
            <4>5. QED
                BY <1>1, <2>2, <4>4, ReplayIs
        <3>4. CASE /\ \A i \in 1..Len(rest) : rest[i].series # s
                   /\ Replay[s] = acc[s]
            <4>1. \A i \in 1..Len(log') : base < i => log'[i].series # s
                <5>1. ASSUME NEW i \in 1..Len(log'), base < i PROVE log'[i].series # s
                    <6>1. i - base \in 1..Len(rest) /\ base + (i - base) = i
                        BY <2>2, <3>1, <5>1
                    <6>2. log'[i].series = rest[i - base].series
                        BY <3>1, <6>1
                    <6>3. QED
                        BY <3>4, <6>1, <6>2
                <5>2. QED
                    BY <5>1
            <4>2. \A i \in 1..Len(log') : i =< base => i \in 1..Len(log)
                BY <2>1, <2>2, <3>1 DEF KeepsLines
            <4>3. /\ \A i \in 1..Len(log) : i \in 1..Len(log') /\ log'[i].series = log[i].series
                BY <2>1, <2>2 DEF KeepsLines
            <4>4. \A i \in 1..Len(log) : log[i].series = s => i =< base /\ log'[i] = log[i]
                BY <2>2, <3>1, <4>1, <4>3
            <4>5. LinesOf(log', s) = LinesOf(log, s)
                <5> HIDE DEF s
                <5>1. LinesOf(log, s) \subseteq LinesOf(log', s)
                    BY <4>3, <4>4 DEF LinesOf
                <5>2. ASSUME NEW i \in LinesOf(log', s) PROVE i \in LinesOf(log, s)
                    <6>1. i \in 1..Len(log') /\ log'[i].ok /\ log'[i].series = s
                        BY DEF LinesOf
                    <6>2. i =< base
                        BY <2>2, <4>1, <6>1
                    <6>3. i \in 1..Len(log) /\ log'[i] = log[i]
                        BY <3>1, <4>2, <6>1, <6>2
                    <6>4. QED
                        BY <6>1, <6>3 DEF LinesOf
                <5>3. QED
                    BY <5>1, <5>2
            <4>6. \A i \in LinesOf(log, s) : log'[i].total = log[i].total
                BY <4>4 DEF LinesOf
            <4>7. QED
                <5>1. ReplayOf(log', s) = ReplayOf(log, s)
                    BY <4>5, <4>6, ReplaySame
                <5>2. QED
                    BY <1>1, <2>2, <3>4, <5>1, ReplayIs
        <3>5. QED
            BY <3>2, <3>3, <3>4
    <2>4. QED
        BY <2>1, <2>2, <2>3 DEF RestoredInv
<1>9. CASE UNCHANGED vars
    BY <1>2, <1>9 DEF vars
<1>10. QED
    BY <1>3, <1>4, <1>5, <1>6, <1>7, <1>8, <1>9 DEF Next

\* RestoredInv at the start.
LEMMA RestoredInit == Init => RestoredInv
<1> SUFFICES ASSUME Init PROVE RestoredInv
    OBVIOUS
<1>1. up = FALSE /\ rest = <<>> /\ half = FALSE /\ open = FALSE /\ Len(<<>>) = 0
    BY EmptySeq DEF Init
<1>2. QED
    BY <1>1, InitType DEF RestoredInv, WriterInv

\* A batch of serve that no other process has split restores its totals in the
\* log, whatever tracked calls have written between, over or into its earlier
\* ones: for any number of calls and batches, and any places the writes break.
THEOREM BatchesRestoreTotals == Spec => []BatchRestoresTotals
<1>1. RestoredInv => BatchRestoresTotals
    BY EmptySeq DEF RestoredInv, BatchRestoresTotals, Types
<1>2. QED
    BY <1>1, RestoredInit, RestoredNext, PTL DEF Spec

-----------------------------------------------------------------------------
(* Nothing is lost either, without a clash.                                 *)

\* No label of a call is cut, so that the log has each as it is.
Uncut == \A c \in Calls : Stored[Label[c]] = Label[c]

\* As long as no process has got in another's way, a replay gives each call what
\* its label has used, and so does every accumulator that has still to be added
\* to.
ExactInv ==
    /\ WriterInv
    /\ ~clash => \A c \in Calls, t \in Types :
          /\ Replay[<<Label[c], t>>] = Used(Label[c])
          /\ pc[c] = "seeded" => seed[c][<<Label[c], t>>] = Used(Label[c])

\* What the records of serve leave as it was.
LEMMA CallsKept ==
    ASSUME TypeInv, TypeInv', KeepsLines(log, log'), NEW s \in Series,
           s[1] # Transcript,
           \A i \in (Len(log) + 1)..Len(log') : log'[i].series[1] = Transcript
    PROVE  Replay'[s] = Replay[s]
<1>1. \A i \in (Len(log) + 1)..Len(log') : log'[i].series # s
    OBVIOUS
<1>2. QED
    BY <1>1, SeriesKept

\* What a label has used, when the same calls of it are recorded.
LEMMA UsedSame ==
    ASSUME NEW label,
           \A c \in Calls : Stored[Label[c]] = label =>
              /\ pc'[c] = "recorded" <=> pc[c] = "recorded"
              /\ pc[c] = "recorded" => tokens'[c] = tokens[c]
    PROVE  Used(label)' = Used(label)
<1> DEFINE U == {c \in {b \in Calls : Stored[Label[b]] = label /\ pc[b] = "recorded"} :
                    tokens[c] = 1}
           V == {c \in {b \in Calls : Stored[Label[b]] = label /\ pc'[b] = "recorded"} :
                    tokens'[c] = 1}
<1>1. U = V
    OBVIOUS
<1>2. Used(label) = Cardinality(U) /\ Used(label)' = Cardinality(V)
    BY DEF Used, Recorded
<1>3. QED
    BY <1>1, <1>2

\* ExactInv over the steps.
LEMMA ExactNext == Uncut /\ ExactInv /\ [Next]_vars => ExactInv'
<1> SUFFICES ASSUME Uncut, ExactInv, [Next]_vars PROVE ExactInv'
    OBVIOUS
<1>1. /\ WriterInv /\ TypeInv /\ TypeInv'
      /\ DOMAIN pc = Calls /\ DOMAIN tokens = Calls /\ DOMAIN seed = Calls
      /\ clash \in BOOLEAN
    BY NextType DEF ExactInv, WriterInv, TypeInv, TypeOK
<1>2. \A c \in Calls, t \in Types :
         /\ Label[c] \in Labels /\ Label[c] # Transcript /\ Stored[Label[c]] = Label[c]
         /\ <<Label[c], t>> \in Series /\ <<Label[c], t>>[1] = Label[c]
    BY LabelsKnown, LabelAssumption DEF Uncut
<1>3. ASSUME log' = log, UNCHANGED <<open, serve, clash>>,
             \A c \in Calls : /\ pc'[c] = "recorded" <=> pc[c] = "recorded"
                              /\ pc[c] = "recorded" => tokens'[c] = tokens[c]
                              /\ pc'[c] = "seeded" =>
                                    \/ pc[c] = "seeded" /\ seed'[c] = seed[c]
                                    \/ seed'[c] = Replay
      PROVE  ExactInv'
    <2>1. Replay' = Replay
        BY <1>3 DEF Replay, Latest
    <2>2. \A c \in Calls : Used(Label[c])' = Used(Label[c])
        BY <1>3, UsedSame
    <2>3. WriterInv'
        BY <1>1, <1>3 DEF WriterInv, serve
    <2>4. ASSUME ~clash', NEW c \in Calls, NEW t \in Types
          PROVE  /\ Replay'[<<Label[c], t>>] = Used(Label[c])'
                 /\ pc'[c] = "seeded" => seed'[c][<<Label[c], t>>] = Used(Label[c])'
        <3>1. /\ Replay[<<Label[c], t>>] = Used(Label[c])
              /\ pc[c] = "seeded" => seed[c][<<Label[c], t>>] = Used(Label[c])
            BY <1>3, <2>4 DEF ExactInv
        <3>2. QED
            BY <1>3, <2>1, <2>2, <3>1
    <2>5. QED
        BY <2>3, <2>4 DEF ExactInv
<1>4. ASSUME NEW c \in Calls, StartTask(c) \/ RunTask(c) \/ DropCall(c)
      PROVE  ExactInv'
    <2>1. log' = log /\ UNCHANGED <<open, serve, clash>>
        BY <1>4 DEF StartTask, RunTask, DropCall
    <2>2. \A d \in Calls : /\ pc'[d] = "recorded" <=> pc[d] = "recorded"
                           /\ pc[d] = "recorded" => tokens'[d] = tokens[d]
                           /\ pc'[d] = "seeded" => pc[d] = "seeded" /\ seed'[d] = seed[d]
        BY <1>1, <1>4 DEF StartTask, RunTask, DropCall
    <2>3. QED
        BY <1>3, <2>1, <2>2
<1>5. ASSUME NEW c \in Calls, OpenStore(c) PROVE ExactInv'
    <2>1. log' = log /\ UNCHANGED <<open, serve, clash>>
        BY <1>5 DEF OpenStore
    <2>2. \A d \in Calls : /\ pc'[d] = "recorded" <=> pc[d] = "recorded"
                           /\ pc[d] = "recorded" => tokens'[d] = tokens[d]
                           /\ pc'[d] = "seeded" =>
                                 \/ pc[d] = "seeded" /\ seed'[d] = seed[d]
                                 \/ seed'[d] = Replay
        BY <1>1, <1>5 DEF OpenStore
    <2>3. QED
        BY <1>3, <2>1, <2>2
<1>6. ASSUME NEW c \in Calls, RecordCall(c) PROVE ExactInv'
    <2>1. /\ KeepsLines(log, log') /\ WriterInv'
          /\ \A i \in (Len(log) + 1)..Len(log') :
                /\ log'[i].ok = TRUE
                /\ \E t \in Types :
                      /\ log'[i].series = <<Stored[Label[c]], t>>
                      /\ log'[i].total = seed[c][<<Label[c], t>>] + tokens[c]
          /\ ~open => \A t \in Types : \E i \in (Len(log) + 1)..Len(log') :
                         log'[i].series = <<Stored[Label[c]], t>>
        BY <1>1, <1>6, RecordCallLines
    <2>2. /\ pc[c] = "seeded" /\ pc' = [pc EXCEPT ![c] = "recorded"]
          /\ seed' = [seed EXCEPT ![c] = Nothing] /\ tokens' = tokens
          /\ clash' = (clash \/ open \/ Overtakes(c))
        BY <1>6 DEF RecordCall
    <2>3. Len(log) \in Nat /\ Len(log') \in Nat
        BY <1>1 DEF TypeInv, TypeOK
    <2>4. ASSUME ~clash' PROVE /\ ~clash /\ ~open
                               /\ \A d \in Calls \ {c} :
                                     ~(pc[d] = "seeded" /\ Label[d] = Label[c])
        BY <2>2, <2>4 DEF Overtakes
    <2>5. ASSUME ~clash', NEW d \in Calls, NEW t \in Types
          PROVE  /\ Replay'[<<Label[d], t>>] = Used(Label[d])'
                 /\ pc'[d] = "seeded" => seed'[d][<<Label[d], t>>] = Used(Label[d])'
        <3>1. /\ Replay[<<Label[d], t>>] = Used(Label[d])
              /\ pc[d] = "seeded" => seed[d][<<Label[d], t>>] = Used(Label[d])
              /\ seed[c][<<Label[c], t>>] = Used(Label[c])
            BY <2>2, <2>4, <2>5 DEF ExactInv
        <3>2. CASE Label[d] = Label[c]
            <4> DEFINE s == <<Label[c], t>>
            <4>1. Used(Label[c])' = Used(Label[c]) + tokens[c]
                BY <1>1, <1>2, <1>6, UsedAdds
            <4>2. PICK i \in (Len(log) + 1)..Len(log') : log'[i].series = s
                BY <1>2, <2>1, <2>4, <2>5
            <4>3. \A j \in (Len(log) + 1)..Len(log') :
                     log'[j].series = s => log'[j].total = seed[c][s] + tokens[c]
                <5>1. ASSUME NEW j \in (Len(log) + 1)..Len(log'), log'[j].series = s
                      PROVE  log'[j].total = seed[c][s] + tokens[c]
                    <6>1. PICK u \in Types :
                             /\ log'[j].series = <<Stored[Label[c]], u>>
                             /\ log'[j].total = seed[c][<<Label[c], u>>] + tokens[c]
                        BY <2>1
                    <6>2. u = t
                        BY <5>1, <6>1
                    <6>3. QED
                        BY <6>1, <6>2
                <5>2. QED
                    BY <5>1
            <4>4. i \in LinesOf(log', s)
                BY <2>1, <2>3, <4>2 DEF LinesOf
            <4>5. log'[i].total = seed[c][s] + tokens[c]
                BY <4>2, <4>3
            <4>6. \A j \in LinesOf(log', s) : i =< j => log'[j].total = log'[i].total
                BY <2>3, <4>3, <4>5 DEF LinesOf
            <4>7. ReplayOf(log', s) = log'[i].total
                BY <2>3, <4>4, <4>6, ReplayNewest
            <4>8. Replay'[s] = Used(Label[c])'
                BY <1>1, <1>2, <3>1, <4>1, <4>5, <4>7, ReplayIs
            <4>9. pc'[d] # "seeded"
                <5>1. CASE d = c
                    BY <1>1, <2>2, <5>1
                <5>2. CASE d # c
                    BY <1>1, <2>2, <2>4, <2>5, <3>2, <5>2
                <5>3. QED
                    BY <5>1, <5>2
            <4>10. QED
                BY <3>2, <4>8, <4>9
        <3>3. CASE Label[d] # Label[c]
            <4>1. \A i \in (Len(log) + 1)..Len(log') : log'[i].series # <<Label[d], t>>
                <5>1. ASSUME NEW i \in (Len(log) + 1)..Len(log')
                      PROVE  log'[i].series[1] = Label[c]
                    <6>1. PICK u \in Types : log'[i].series = <<Stored[Label[c]], u>>
                        BY <2>1
                    <6>2. QED
                        BY <6>1 DEF Uncut
                <5>2. QED
                    BY <3>3, <5>1
            <4>2. Replay'[<<Label[d], t>>] = Replay[<<Label[d], t>>]
                BY <1>1, <1>2, <2>1, <4>1, SeriesKept
            <4>3. Used(Label[d])' = Used(Label[d])
                <5>1. \A b \in Calls : Stored[Label[b]] = Label[d] =>
                         /\ pc'[b] = "recorded" <=> pc[b] = "recorded"
                         /\ pc[b] = "recorded" => tokens'[b] = tokens[b]
                    BY <1>1, <1>2, <2>2, <3>3
                <5>2. QED
                    BY <5>1, UsedSame
            <4>4. d # c /\ pc'[d] = pc[d] /\ seed'[d] = seed[d]
                BY <1>1, <2>2, <3>3
            <4>5. QED
                BY <3>1, <4>2, <4>3, <4>4
        <3>4. QED
            BY <3>2, <3>3
    <2>6. QED
        BY <2>1, <2>5 DEF ExactInv
<1>7. ASSUME UNCHANGED calls, UNCHANGED clash, WriterInv', KeepsLines(log, log'),
             \A i \in (Len(log) + 1)..Len(log') : log'[i].series[1] = Transcript
      PROVE  ExactInv'
    <2>1. UNCHANGED <<pc, tokens, seed>>
        BY <1>7 DEF calls
    <2>2. \A c \in Calls : Used(Label[c])' = Used(Label[c])
        BY <2>1, UsedSame
    <2>3. ASSUME NEW c \in Calls, NEW t \in Types
          PROVE  Replay'[<<Label[c], t>>] = Replay[<<Label[c], t>>]
        BY <1>1, <1>2, <1>7, CallsKept
    <2>4. QED
        BY <1>7, <2>1, <2>2, <2>3 DEF ExactInv
<1>8. CASE ServeStarts \/ ServeStops
    <2>1. log' = log /\ UNCHANGED <<calls, clash, open, rest, half>>
          /\ rest = <<>> /\ Len(<<>>) = 0
        BY <1>1, <1>8, EmptySeq DEF ServeStarts, ServeStops, WriterInv
    <2>2. WriterInv'
        BY <1>1, <2>1 DEF WriterInv
    <2>3. Len(log) \in Nat
        BY <1>1 DEF TypeInv, TypeOK
    <2>4. KeepsLines(log, log') /\ (Len(log) + 1)..Len(log') = {}
        BY <2>1, <2>3 DEF KeepsLines
    <2>5. QED
        BY <1>7, <2>1, <2>2, <2>4
<1>9. CASE FirstWrite
    <2>1. UNCHANGED calls /\ UNCHANGED clash
        BY <1>9 DEF FirstWrite
    <2>2. QED
        BY <1>1, <1>7, <1>9, <2>1, FirstWriteLines
<1>10. CASE SecondWrite
    <2>1. UNCHANGED calls /\ UNCHANGED clash
        BY <1>10 DEF SecondWrite
    <2>2. QED
        BY <1>1, <1>7, <1>10, <2>1, SecondWriteLines
<1>11. CASE UNCHANGED vars
    <2>1. log' = log /\ UNCHANGED <<open, serve, clash, pc, tokens, seed>>
        BY <1>11 DEF vars, calls
    <2>2. QED
        BY <1>3, <2>1
<1>12. QED
    BY <1>4, <1>5, <1>6, <1>8, <1>9, <1>10, <1>11 DEF Next

\* ExactInv at the start.
LEMMA ExactInit == Init => ExactInv
<1> SUFFICES ASSUME Init PROVE ExactInv
    OBVIOUS
<1>1. WriterInv
    BY RestoredInit DEF RestoredInv
<1>2. ASSUME NEW c \in Calls, NEW t \in Types
      PROVE  Replay[<<Label[c], t>>] = 0 /\ Used(Label[c]) = 0 /\ pc[c] # "seeded"
    <2>1. log = <<>> /\ pc[c] = "todo" /\ \A d \in Calls : pc[d] = "todo"
        BY DEF Init
    <2>2. <<Label[c], t>> \in Series
        BY LabelsKnown
    <2>3. Latest(<<Label[c], t>>) = {}
        BY <2>1, EmptySeq DEF Latest
    <2>4. Replay[<<Label[c], t>>] = 0
        BY <2>2, <2>3 DEF Replay
    <2>5. {d \in Recorded(Label[c]) : tokens[d] = 1} = {}
        BY <2>1 DEF Recorded
    <2>6. QED
        BY <2>1, <2>4, <2>5, FS_EmptySet DEF Used
<1>3. QED
    BY <1>1, <1>2 DEF ExactInv

\* Calls whose labels are not cut, and that do not get in each other's way or
\* into a line of serve, are counted exactly: nothing twice and nothing lost,
\* for any number of them and whatever serve writes meanwhile.
THEOREM CallsAreExact ==
    ASSUME Uncut
    PROVE  Spec => []ExactWithoutClash
<1>1. ExactInv => ExactWithoutClash
    BY DEF Uncut, ExactInv, ExactWithoutClash, Types
<1>2. ExactInv /\ [Next]_vars => ExactInv'
    BY ExactNext
<1>3. QED
    BY <1>1, <1>2, ExactInit, PTL DEF Spec
=============================================================================
