-------------------------- MODULE TranscriptProofs --------------------------
(* Theorems about Transcripts, for any requests, titles and files, any     *)
(* width of a line and any places where a write may stop.                  *)
EXTENDS Transcripts, SequenceTheorems, FiniteSetTheorems, WellFoundedInduction, TLAPS

-----------------------------------------------------------------------------
(* The operators.                                                          *)

\* Positions in a file that are any have a first and a last.
LEMMA FirstAndLast ==
    ASSUME NEW n \in Nat, NEW S \in SUBSET (1..n), S # {}
    PROVE  /\ \E k \in S : \A j \in S : k =< j
           /\ \E k \in S : \A j \in S : j =< k
<1> DEFINE R == OpToRel(<, Nat)
           FromEnd == {n - k : k \in S}
<1>1. IsWellFoundedOn(R, Nat)
    BY NatLessThanWellFounded
<1>2. ASSUME NEW T \in SUBSET Nat, T # {} PROVE \E x \in T : \A y \in T : x =< y
    <2>1. PICK x \in T : \A y \in T : ~(<<y, x>> \in R)
        <3> HIDE DEF R
        <3>1. QED
            BY <1>1, <1>2, WFMin, Zenon
    <2>2. ASSUME NEW y \in T, y < x PROVE FALSE
        <3>1. <<y, x>> \in Nat \X Nat /\ <<y, x>>[1] < <<y, x>>[2]
            BY <2>2
        <3>2. <<y, x>> \in R
            BY <3>1, Zenon DEF OpToRel
        <3>3. QED
            BY <2>1, <3>2
    <2>3. QED
        BY <2>2
<1>3. \E k \in S : \A j \in S : k =< j
    <2>1. S \in SUBSET Nat
        OBVIOUS
    <2>2. QED
        BY <1>2, <2>1
<1>4. PICK m \in FromEnd : \A y \in FromEnd : m =< y
    <2>1. \A i \in S : n - i \in Nat
        OBVIOUS
    <2>2. FromEnd \in SUBSET Nat
        BY <2>1
    <2>3. PICK i \in S : TRUE
        OBVIOUS
    <2>4. n - i \in FromEnd
        BY <2>3
    <2> HIDE DEF FromEnd
    <2>5. QED
        BY <1>2, <2>2, <2>4
<1>5. PICK k \in S : m = n - k
    OBVIOUS
<1>6. \A j \in S : j =< k
    <2>1. ASSUME NEW j \in S PROVE j =< k
        <3>1. n - j \in FromEnd
            OBVIOUS
        <3>2. n - k =< n - j
            BY <1>4, <1>5, <3>1
        <3>3. QED
            BY <3>2
    <2>2. QED
        BY <2>1
<1>7. QED
    BY <1>3, <1>6

\* The places that a line takes are numbers.
LEMMA StartType ==
    /\ Width \in Nat /\ Width >= 2 /\ Content \in Nat /\ Content >= 1
    /\ \A k \in Nat \ {0} : Start(k) \in Nat
<1>1. Width \in Nat /\ Width >= 2 /\ Content \in Nat /\ Content >= 1
    BY SizesAssumption DEF Width
<1>2. ASSUME NEW k \in Nat \ {0} PROVE Start(k) \in Nat
    <2>1. k - 1 \in Nat
        OBVIOUS
    <2>2. QED
        BY <1>1, <2>1 DEF Start
<1>3. QED
    BY <1>1, <1>2

\* The cursor moves to the end of what was scanned or one byte beyond it.
LEMMA AdvanceType ==
    ASSUME NEW c \in Nat, NEW n \in Nat
    PROVE  /\ Advance(c, n) \in Nat /\ Advance(c, n) >= c /\ Advance(c, n) >= n
BY DEF Advance

\* The title of a scan is one of its titles or none.
LEMMA LastTitleType ==
    ASSUME NEW f, NEW lines \in SUBSET (1..Len(text[f])), Len(text[f]) \in Nat
    PROVE  LastTitle(f, lines) \in Titles \cup {None}
<1> DEFINE titled == {k \in lines : text[f][k] \in Titles}
<1>1. CASE titled = {}
    BY <1>1 DEF LastTitle
<1>2. CASE titled # {}
    <2>1. \E k \in titled : \A j \in titled : j =< k
        BY <1>2, FirstAndLast
    <2> DEFINE k == CHOOSE i \in titled : \A j \in titled : j =< i
    <2>2. k \in titled
        BY <2>1
    <2>3. LastTitle(f, lines) = text[f][k]
        BY <1>2 DEF LastTitle
    <2>4. QED
        BY <2>2, <2>3
<1>3. QED
    BY <1>1, <1>2

-----------------------------------------------------------------------------
(* The type invariant.                                                     *)

\* A transcript has at most as many lines as it may have.
Bounded == \A f \in 1..Files : Len(text[f]) =< MaxLines[f]

TypeInv == TypeOK /\ Bounded

\* What the lemmas below take from the type of one transcript.
LEMMA TypedTranscripts ==
    ASSUME TypeOK, NEW f \in 1..Files
    PROVE  /\ text[f] \in Seq(Requests \cup Titles) /\ Len(text[f]) \in Nat
           /\ size[f] \in Nat /\ cursor[f] \in Nat /\ offset[f] \in Nat
<1>1. text \in [1..Files -> Seq(Requests \cup Titles)]
    BY DEF TypeOK
<1>2. text[f] \in Seq(Requests \cup Titles)
    BY <1>1
<1>3. Len(text[f]) \in Nat
    BY <1>2, LenProperties
<1>4. size[f] \in Nat /\ cursor[f] \in Nat /\ offset[f] \in Nat
    BY DEF TypeOK
<1>5. QED
    BY <1>2, <1>3, <1>4

\* A line appended to a transcript leaves the lines before it where they were.
LEMMA WriteKeepsLines ==
    ASSUME TypeOK, NEW f \in 1..Files, NEW line \in Requests \cup Titles,
           NEW bytes \in Nat, WriteLine(f, line, bytes)
    PROVE  /\ text' \in [1..Files -> Seq(Requests \cup Titles)]
           /\ Len(text'[f]) = Len(text[f]) + 1
           /\ text'[f][Len(text[f]) + 1] = line
           /\ \A g \in 1..Files : g # f => text'[g] = text[g]
           /\ \A g \in 1..Files : /\ Len(text[g]) =< Len(text'[g])
                                  /\ \A k \in 1..Len(text[g]) : text'[g][k] = text[g][k]
<1>1. /\ text \in [1..Files -> Seq(Requests \cup Titles)]
      /\ text' = [text EXCEPT ![f] = Append(text[f], line)]
    BY DEF TypeOK, WriteLine
<1>2. text[f] \in Seq(Requests \cup Titles)
    BY <1>1
<1>3. /\ Append(text[f], line) \in Seq(Requests \cup Titles)
      /\ Len(Append(text[f], line)) = Len(text[f]) + 1
      /\ Append(text[f], line)[Len(text[f]) + 1] = line
      /\ \A k \in 1..Len(text[f]) : Append(text[f], line)[k] = text[f][k]
    BY <1>2, AppendProperties
<1>4. text'[f] = Append(text[f], line) /\ \A g \in 1..Files : g # f => text'[g] = text[g]
    BY <1>1
<1>5. text' \in [1..Files -> Seq(Requests \cup Titles)]
    BY <1>1, <1>3
<1>6. ASSUME NEW g \in 1..Files
      PROVE  Len(text[g]) =< Len(text'[g]) /\ \A k \in 1..Len(text[g]) : text'[g][k] = text[g][k]
    <2>1. Len(text[g]) \in Nat
        BY <1>1
    <2>2. CASE g = f
        <3>1. text'[g] = Append(text[f], line)
            BY <1>4, <2>2
        <3>2. QED
            BY <1>3, <2>1, <2>2, <3>1
    <2>3. CASE g # f
        <3>1. text'[g] = text[g]
            BY <1>4, <2>3
        <3>2. QED
            BY <2>1, <3>1
    <2>4. QED
        BY <2>2, <2>3
<1>7. QED
    BY <1>3, <1>4, <1>5, <1>6

\* The blocks that a cycle stores are finitely many.
LEMMA StoredBlocks ==
    ASSUME TypeOK, NEW r \in Requests, NEW B \in SUBSET found[FileOf[r]]
    PROVE  IsFiniteSet(B) /\ Cardinality(B) \in Nat
<1>1. FileOf[r] \in 1..Files
    BY LinesAssumption
<1>2. found[FileOf[r]] \in SUBSET (1..MaxLines[FileOf[r]]) /\ MaxLines[FileOf[r]] \in Nat
    BY <1>1, SizesAssumption DEF TypeOK
<1>3. IsFiniteSet(1..MaxLines[FileOf[r]])
    BY <1>2, FS_Interval
<1>4. IsFiniteSet(B)
    BY <1>2, <1>3, FS_Subset
<1>5. QED
    BY <1>4, FS_CardinalityType

\* A scan yields positions of the file, and each text once.
LEMMA FirstBlocksType ==
    ASSUME TypeOK, NEW f \in 1..Files, NEW c \in Nat, NEW n \in Nat
    PROVE  /\ Scanned(f, c, n) \in SUBSET (1..Len(text[f]))
           /\ \A k \in FirstBlocks(f, Scanned(f, c, n)) :
                  /\ k \in 1..Len(text[f]) /\ text[f][k] \in Requests
                  /\ c =< Start(k) /\ Start(k) < Advance(c, n)
           /\ \A j, k \in FirstBlocks(f, Scanned(f, c, n)) :
                  text[f][j] = text[f][k] => j = k
<1> DEFINE lines == Scanned(f, c, n)
<1>1. lines \in SUBSET (1..Len(text[f])) /\ Len(text[f]) \in Nat
    BY DEF Scanned, TypeOK
<1>2. ASSUME NEW k \in FirstBlocks(f, lines)
      PROVE  /\ k \in 1..Len(text[f]) /\ text[f][k] \in Requests
             /\ c =< Start(k) /\ Start(k) < Advance(c, n)
    <2>1. k \in lines /\ text[f][k] \in Requests
        BY DEF FirstBlocks
    <2>2. k \in 1..Len(text[f]) /\ c =< Start(k) /\ Start(k) + Content =< n
        BY <2>1 DEF Scanned
    <2>3. Start(k) \in Nat /\ Content \in Nat /\ Content >= 1
        BY <1>1, <2>2, StartType
    <2>4. Advance(c, n) \in Nat /\ Advance(c, n) >= n
        BY AdvanceType
    <2>5. \A a, b, m, v \in Nat : a + b =< m /\ b >= 1 /\ v >= m => a < v
        OBVIOUS
    <2>6. Start(k) < Advance(c, n)
        BY <2>2, <2>3, <2>4, <2>5
    <2>7. QED
        BY <2>1, <2>2, <2>6
<1>3. ASSUME NEW j \in FirstBlocks(f, lines), NEW k \in FirstBlocks(f, lines),
             text[f][j] = text[f][k]
      PROVE  j = k
    <2>1. j \in 1..Len(text[f]) /\ k \in 1..Len(text[f])
        BY <1>2
    <2>2. ~(j < k) /\ ~(k < j)
        BY <1>3 DEF FirstBlocks
    <2>3. QED
        BY <1>1, <2>1, <2>2
<1>4. QED
    BY <1>1, <1>2, <1>3

LEMMA InitTypes == Init => TypeInv
<1> SUFFICES ASSUME Init PROVE TypeInv
    OBVIOUS
<1>1. \A f \in 1..Files : Len(text[f]) = 0 /\ MaxLines[f] \in Nat
    BY SizesAssumption DEF Init
<1>2. text \in [1..Files -> Seq(Requests \cup Titles)]
    BY DEF Init
<1>3. TypeOK
    BY <1>2, SizesAssumption DEF Init, TypeOK
<1>4. QED
    BY <1>1, <1>3 DEF TypeInv, Bounded

LEMMA WriteKeepsTypes ==
    ASSUME TypeInv, NEW f \in 1..Files, NEW line \in Requests \cup Titles,
           NEW bytes \in Nat, WriteLine(f, line, bytes)
    PROVE  TypeInv'
<1> USE DEF TypeInv
<1>1. text' \in [1..Files -> Seq(Requests \cup Titles)]
    BY WriteKeepsLines
<1>2. size' \in [1..Files -> Nat]
    <2>1. size \in [1..Files -> Nat] /\ size' = [size EXCEPT ![f] = size[f] + bytes]
        BY DEF WriteLine, TypeOK
    <2>2. size[f] + bytes \in Nat
        BY <2>1
    <2>3. QED
        BY <2>1, <2>2
<1>3. TypeOK'
    BY <1>1, <1>2 DEF WriteLine, TypeOK, cycle, stored
<1>4. ASSUME NEW g \in 1..Files PROVE Len(text'[g]) =< MaxLines[g]
    <2>1. CASE g = f
        <3>1. Len(text[f]) < MaxLines[f] /\ Len(text[f]) \in Nat /\ MaxLines[f] \in Nat
            BY SizesAssumption DEF WriteLine, TypeOK
        <3>2. QED
            BY <2>1, <3>1, WriteKeepsLines
    <2>2. CASE g # f
        BY <2>2, WriteKeepsLines DEF Bounded
    <2>3. QED
        BY <2>1, <2>2
<1>5. QED
    BY <1>3, <1>4 DEF Bounded

LEMMA ReadFileKeepsTypes == TypeInv /\ ReadFile => TypeInv'
<1> SUFFICES ASSUME TypeOK, Bounded, ReadFile PROVE TypeInv'
    BY DEF TypeInv
<1> DEFINE f == next
           lines == Scanned(f, offset[f], size[f])
<1>1. f \in 1..Files /\ offset[f] \in Nat /\ size[f] \in Nat /\ Len(text[f]) \in Nat
      /\ MaxLines[f] \in Nat /\ Len(text[f]) =< MaxLines[f]
    BY SizesAssumption DEF ReadFile, TypeOK, Bounded
<1>2. /\ lines \in SUBSET (1..Len(text[f]))
      /\ FirstBlocks(f, lines) \in SUBSET (1..Len(text[f]))
    BY <1>1, FirstBlocksType
<1>3. FirstBlocks(f, lines) \in SUBSET (1..MaxLines[f])
    BY <1>1, <1>2
<1>4. found' = [found EXCEPT ![f] = FirstBlocks(f, lines)]
    BY DEF ReadFile
<1>5. /\ found' \in [1..Files -> SUBSET Nat]
      /\ \A g \in 1..Files : found'[g] \subseteq 1..MaxLines[g]
    BY <1>1, <1>3, <1>4 DEF TypeOK
<1>6. LastTitle(f, lines) \in Titles \cup {None}
    BY <1>1, <1>2, LastTitleType
<1>7. name' \in [1..Files -> Titles \cup {None}]
    BY <1>1, <1>6 DEF ReadFile, TypeOK
<1>8. Advance(offset[f], size[f]) \in Nat
    BY <1>1, AdvanceType
<1>9. offset' \in [1..Files -> Nat]
    BY <1>1, <1>8 DEF ReadFile, TypeOK
<1>10. next' \in 0..(Files + 1)
    BY <1>1, SizesAssumption DEF ReadFile
<1>11. UNCHANGED <<text, size, cursor, emitted, label, fails>>
    BY DEF ReadFile, transcripts, stored
<1>12. TypeOK'
    BY <1>5, <1>7, <1>9, <1>10, <1>11 DEF TypeOK
<1>13. QED
    BY <1>11, <1>12 DEF TypeInv, Bounded

LEMMA EndCycleKeepsTypes == TypeInv /\ EndCycle => TypeInv'
<1> SUFFICES ASSUME TypeOK, Bounded, EndCycle PROVE TypeInv'
    BY DEF TypeInv
<1> DEFINE B(r) == {k \in found[FileOf[r]] : text[FileOf[r]][k] = r}
<1>1. /\ emitted' = [r \in Requests |-> emitted[r] + Cardinality(B(r))]
      /\ label' = [r \in Requests |-> IF B(r) = {} THEN label[r] ELSE name[FileOf[r]]]
      /\ cursor' = offset /\ next' = 0
      /\ UNCHANGED <<text, size, offset, found, name, fails>>
    BY DEF EndCycle, transcripts
<1>2. ASSUME NEW r \in Requests PROVE Cardinality(B(r)) \in Nat
    BY StoredBlocks
<1> HIDE DEF B
<1>3. emitted' \in [Requests -> Nat]
    <2>1. \A r \in Requests : emitted[r] + Cardinality(B(r)) \in Nat
        BY <1>2 DEF TypeOK
    <2>2. QED
        BY <1>1, <2>1
<1>4. label' \in [Requests -> Titles \cup {None}]
    <2>1. \A r \in Requests : FileOf[r] \in 1..Files
        BY LinesAssumption
    <2>2. QED
        BY <1>1, <2>1 DEF TypeOK
<1>5. next' \in 0..(Files + 1)
    BY <1>1, SizesAssumption
<1>6. TypeOK'
    BY <1>1, <1>3, <1>4, <1>5 DEF TypeOK
<1>7. QED
    BY <1>1, <1>6 DEF TypeInv, Bounded

\* The sizes of the writes are numbers.
LEMMA WriteSizes == \A bytes \in Pieces \cup {Width} : bytes \in Nat /\ bytes =< Width /\ bytes >= 1
<1>1. Content \in Nat /\ Width = Content + 1 /\ Pieces \subseteq 1..Content
    BY SizesAssumption DEF Width
<1>2. QED
    BY <1>1

LEMMA NextTypes == TypeInv /\ [Next]_vars => TypeInv'
<1> SUFFICES ASSUME TypeInv, [Next]_vars PROVE TypeInv'
    OBVIOUS
<1> USE DEF TypeInv
<1>1. CASE Write
    <2>1. PICK f \in 1..Files, line \in Requests \cup Titles, bytes \in Pieces \cup {Width} :
              WriteLine(f, line, bytes)
        BY <1>1 DEF Write
    <2>2. bytes \in Nat
        BY WriteSizes
    <2>3. QED
        BY <2>1, <2>2, WriteKeepsTypes
<1>2. ASSUME NEW f \in 1..Files, FinishLine(f) PROVE TypeInv'
    <2>1. Len(text[f]) * Width \in Nat
        BY TypedTranscripts, StartType
    <2>2. size' \in [1..Files -> Nat]
        BY <1>2, <2>1 DEF FinishLine, TypeOK
    <2>3. QED
        BY <1>2, <2>2 DEF FinishLine, TypeOK, Bounded, cycle, stored
<1>3. CASE StartCycle
    <2>1. next' \in 0..(Files + 1)
        BY <1>3, SizesAssumption DEF StartCycle
    <2>2. /\ found' \in [1..Files -> SUBSET Nat]
          /\ \A f \in 1..Files : found'[f] \subseteq 1..MaxLines[f]
        BY <1>3 DEF StartCycle
    <2>3. QED
        BY <1>3, <2>1, <2>2 DEF StartCycle, TypeOK, Bounded, transcripts, stored
<1>4. CASE ReadFile
    BY <1>4, ReadFileKeepsTypes
<1>5. CASE EndCycle
    BY <1>5, EndCycleKeepsTypes
<1>6. CASE FailCycle
    <2>1. next' \in 0..(Files + 1) /\ fails' \in 0..MaxFails
        BY <1>6, SizesAssumption DEF FailCycle, TypeOK
    <2>2. QED
        BY <1>6, <2>1 DEF FailCycle, TypeOK, Bounded, transcripts, stored
<1>7. CASE UNCHANGED vars
    BY <1>7 DEF vars, transcripts, cycle, stored, TypeOK, Bounded
<1>8. QED
    BY <1>1, <1>2, <1>3, <1>4, <1>5, <1>6, <1>7 DEF Next, Read

\* The types hold.
THEOREM ReaderTypeCorrect == Spec => []TypeOK
<1>1. TypeInv => TypeOK
    BY DEF TypeInv
<1>2. QED
    BY <1>1, InitTypes, NextTypes, PTL DEF Spec

-----------------------------------------------------------------------------
(* No line twice: what a cycle holds was read from behind the cursors, and  *)
(* what has been stored lies in front of them.                              *)

\* What the running cycle knows of file f.
Pending(f) ==
    /\ cursor[f] =< offset[f]
    /\ f >= next => offset[f] = cursor[f] /\ found[f] = {}
    /\ \A k \in found[f] : /\ k \in 1..Len(text[f]) /\ text[f][k] \in Requests
                           /\ cursor[f] =< Start(k) /\ Start(k) < offset[f]
    /\ \A j, k \in found[f] : text[f][j] = text[f][k] => j = k

CycleInv == next # 0 => \A f \in 1..Files : Pending(f)

Behind(r) == {k \in Blocks(r) : Start(k) < cursor[FileOf[r]]}

BehindInv == \A r \in Requests : emitted[r] =< Cardinality(Behind(r))

ReadInv == TypeInv /\ CycleInv /\ BehindInv

\* The lines of a response are finitely many.
LEMMA FiniteBlocks ==
    ASSUME TypeOK, NEW r \in Requests, NEW B \in SUBSET Blocks(r)
    PROVE  IsFiniteSet(B) /\ Cardinality(B) \in Nat
<1>1. FileOf[r] \in 1..Files
    BY LinesAssumption
<1>2. Len(text[FileOf[r]]) \in Nat
    BY <1>1, TypedTranscripts
<1>3. IsFiniteSet(1..Len(text[FileOf[r]]))
    BY <1>2, FS_Interval
<1>4. B \in SUBSET (1..Len(text[FileOf[r]]))
    BY DEF Blocks
<1>5. QED
    BY <1>3, <1>4, FS_Subset, FS_CardinalityType

\* A larger set of lines covers at least as many events.
LEMMA MoreBehind ==
    ASSUME TypeOK, TypeOK', BehindInv, emitted' = emitted,
           NEW r \in Requests, Behind(r) \in SUBSET Behind(r)'
    PROVE  emitted'[r] =< Cardinality(Behind(r)')
<1>1. /\ IsFiniteSet(Behind(r)) /\ Cardinality(Behind(r)) \in Nat
    BY FiniteBlocks DEF Behind
<1>2. FileOf[r] \in 1..Files
    BY LinesAssumption
<1>3. Len(text'[FileOf[r]]) \in Nat
    BY <1>2 DEF TypeOK
<1>4. IsFiniteSet(1..Len(text'[FileOf[r]]))
    BY <1>3, FS_Interval
<1>5. Behind(r)' \in SUBSET (1..Len(text'[FileOf[r]]))
    BY DEF Behind, Blocks
<1>6. IsFiniteSet(Behind(r)')
    BY <1>4, <1>5, FS_Subset
<1>7. Cardinality(Behind(r)) =< Cardinality(Behind(r)') /\ Cardinality(Behind(r)') \in Nat
    BY <1>6, FS_Subset, FS_CardinalityType
<1>8. emitted[r] \in Nat /\ emitted[r] =< Cardinality(Behind(r))
    BY DEF TypeOK, BehindInv
<1>9. QED
    BY <1>1, <1>7, <1>8

LEMMA WriteKeepsReadInv ==
    ASSUME ReadInv, TypeInv', NEW f \in 1..Files, NEW line \in Requests \cup Titles,
           NEW bytes \in Nat, WriteLine(f, line, bytes)
    PROVE  CycleInv' /\ BehindInv'
<1> USE DEF ReadInv, TypeInv
<1>1. UNCHANGED <<next, offset, found, cursor, emitted>>
    BY DEF WriteLine, cycle, stored
<1>2. \A g \in 1..Files : /\ Len(text[g]) \in Nat /\ Len(text'[g]) \in Nat
                          /\ Len(text[g]) =< Len(text'[g])
                          /\ \A k \in 1..Len(text[g]) : text'[g][k] = text[g][k]
    <2>1. text' \in [1..Files -> Seq(Requests \cup Titles)]
        BY WriteKeepsLines
    <2>2. \A g \in 1..Files : Len(text[g]) \in Nat /\ Len(text'[g]) \in Nat
        BY <2>1 DEF TypeOK
    <2>3. \A g \in 1..Files : /\ Len(text[g]) =< Len(text'[g])
                              /\ \A k \in 1..Len(text[g]) : text'[g][k] = text[g][k]
        BY WriteKeepsLines
    <2>4. QED
        BY <2>2, <2>3
<1>3. ASSUME NEW g \in 1..Files, next # 0 PROVE Pending(g)'
    <2>1. Pending(g)
        BY <1>3 DEF CycleInv
    <2>2. \A k \in 1..Len(text[g]) : k \in 1..Len(text'[g])
        BY <1>2
    <2>3. QED
        BY <1>1, <1>2, <2>1, <2>2 DEF Pending, Start
<1>4. ASSUME NEW r \in Requests PROVE Behind(r) \in SUBSET Behind(r)'
    <2>1. FileOf[r] \in 1..Files
        BY LinesAssumption
    <2>2. \A k \in Blocks(r) : k \in Blocks(r)'
        BY <1>2, <2>1 DEF Blocks
    <2>3. QED
        BY <1>1, <2>2 DEF Behind, Start
<1>5. QED
    BY <1>1, <1>3, <1>4, MoreBehind DEF CycleInv, BehindInv

LEMMA ReadFileKeepsReadInv ==
    ASSUME ReadInv, TypeInv', ReadFile
    PROVE  CycleInv' /\ BehindInv'
<1> USE DEF ReadInv, TypeInv
<1>0. PICK f \in 1..Files : f = next
    BY DEF ReadFile
<1> DEFINE lines == Scanned(f, offset[f], size[f])
<1>1. /\ f \in 1..Files /\ f = next /\ next' = f + 1
      /\ found' = [found EXCEPT ![f] = FirstBlocks(f, lines)]
      /\ offset' = [offset EXCEPT ![f] = Advance(offset[f], size[f])]
      /\ UNCHANGED <<text, size, cursor, emitted>>
    BY <1>0 DEF ReadFile, transcripts, stored
<1>2. offset[f] \in Nat /\ size[f] \in Nat /\ f # 0
    BY <1>1, SizesAssumption DEF TypeOK
<1>3. \A g \in 1..Files : Pending(g)
    BY <1>1, <1>2 DEF CycleInv
<1>4. offset[f] = cursor[f]
    BY <1>1, <1>3 DEF Pending
<1>5. Pending(f)'
    <2>1. found'[f] = FirstBlocks(f, lines) /\ offset'[f] = Advance(offset[f], size[f])
        BY <1>1 DEF TypeOK
    <2>2. ~(f >= next')
        BY <1>1
    <2>3. Advance(offset[f], size[f]) >= offset[f]
        BY <1>2, AdvanceType
    <2>4. \A k \in FirstBlocks(f, lines) :
              /\ k \in 1..Len(text[f]) /\ text[f][k] \in Requests
              /\ offset[f] =< Start(k) /\ Start(k) < Advance(offset[f], size[f])
        BY <1>1, <1>2, FirstBlocksType
    <2>5. \A j, k \in FirstBlocks(f, lines) : text[f][j] = text[f][k] => j = k
        BY <1>1, <1>2, FirstBlocksType
    <2> HIDE DEF lines
    <2>6. QED
        BY <1>1, <1>2, <1>4, <2>1, <2>2, <2>3, <2>4, <2>5 DEF Pending, Start
<1>6. ASSUME NEW g \in 1..Files, g # f PROVE Pending(g)'
    <2>1. found'[g] = found[g] /\ offset'[g] = offset[g]
        BY <1>1, <1>6 DEF TypeOK
    <2>2. g >= next' => g >= next
        BY <1>1, SizesAssumption
    <2>3. QED
        BY <1>1, <1>3, <2>1, <2>2 DEF Pending, Start
<1>7. \A r \in Requests : Behind(r)' = Behind(r)
    BY <1>1 DEF Behind, Blocks, Start
<1>8. QED
    BY <1>1, <1>5, <1>6, <1>7 DEF CycleInv, BehindInv

\* Nothing of what a cycle stores was stored before it.
LEMMA EndCycleKeepsReadInv ==
    ASSUME ReadInv, TypeInv', EndCycle
    PROVE  CycleInv' /\ BehindInv'
<1> USE DEF ReadInv, TypeInv
<1> DEFINE B(r) == {k \in found[FileOf[r]] : text[FileOf[r]][k] = r}
<1>1. /\ emitted' = [r \in Requests |-> emitted[r] + Cardinality(B(r))]
      /\ cursor' = offset /\ next = Files + 1 /\ next' = 0
      /\ UNCHANGED <<text, size>>
    BY DEF EndCycle, transcripts
<1>2. next # 0
    BY <1>1, SizesAssumption
<1>3. ASSUME NEW r \in Requests PROVE emitted'[r] =< Cardinality(Behind(r)')
    <2>1. FileOf[r] \in 1..Files /\ Pending(FileOf[r])
        BY <1>2, LinesAssumption DEF CycleInv
    <2>2. /\ cursor[FileOf[r]] \in Nat /\ offset[FileOf[r]] \in Nat
          /\ cursor[FileOf[r]] =< offset[FileOf[r]] /\ Len(text[FileOf[r]]) \in Nat
        BY <2>1 DEF TypeOK, Pending
    <2>3. B(r) \in SUBSET found[FileOf[r]]
        OBVIOUS
    <2>4. IsFiniteSet(B(r)) /\ Cardinality(B(r)) \in Nat
        BY <2>3, StoredBlocks
    <2>5. IsFiniteSet(Behind(r)) /\ Cardinality(Behind(r)) \in Nat
        BY FiniteBlocks DEF Behind
    <2>6. ASSUME NEW k \in B(r)
          PROVE  k \in Behind(r)' /\ k \notin Behind(r)
        <3>1. /\ k \in 1..Len(text[FileOf[r]]) /\ text[FileOf[r]][k] = r
              /\ cursor[FileOf[r]] =< Start(k) /\ Start(k) < offset[FileOf[r]]
            BY <2>1 DEF Pending
        <3>2. Start(k) \in Nat
            BY <2>2, <3>1, StartType
        <3>3. ~(Start(k) < cursor[FileOf[r]])
            BY <2>2, <3>1, <3>2
        <3>4. QED
            BY <1>1, <3>1, <3>3 DEF Behind, Blocks, Start
    <2>7. ASSUME NEW k \in Behind(r) PROVE k \in Behind(r)'
        <3>1. /\ k \in 1..Len(text[FileOf[r]]) /\ text[FileOf[r]][k] = r
              /\ Start(k) < cursor[FileOf[r]]
            BY DEF Behind, Blocks
        <3>2. Start(k) \in Nat
            BY <2>2, <3>1, StartType
        <3>3. Start(k) < offset[FileOf[r]]
            BY <2>2, <3>1, <3>2
        <3>4. QED
            BY <1>1, <3>1, <3>3 DEF Behind, Blocks, Start
    <2> HIDE DEF B
    <2>8. Cardinality(Behind(r) \cup B(r)) = Cardinality(Behind(r)) + Cardinality(B(r))
        <3>1. Behind(r) \cap B(r) = {}
            BY <2>6
        <3>2. Cardinality(Behind(r) \cap B(r)) = 0
            BY <3>1, FS_EmptySet
        <3>3. Cardinality(Behind(r) \cup B(r))
              = Cardinality(Behind(r)) + Cardinality(B(r)) - Cardinality(Behind(r) \cap B(r))
            BY <2>4, <2>5, FS_Union
        <3>4. QED
            BY <2>4, <2>5, <3>2, <3>3
    <2>9. IsFiniteSet(Behind(r)')
        <3>1. IsFiniteSet(1..Len(text[FileOf[r]]))
            BY <2>2, FS_Interval
        <3>2. Behind(r)' \in SUBSET (1..Len(text[FileOf[r]]))
            BY <1>1 DEF Behind, Blocks
        <3>3. QED
            BY <3>1, <3>2, FS_Subset
    <2>10. /\ Cardinality(Behind(r) \cup B(r)) =< Cardinality(Behind(r)')
           /\ Cardinality(Behind(r)') \in Nat
        <3>1. Behind(r) \cup B(r) \in SUBSET Behind(r)'
            BY <2>6, <2>7
        <3>2. QED
            BY <2>9, <3>1, FS_Subset, FS_CardinalityType
    <2>11. emitted'[r] = emitted[r] + Cardinality(B(r))
        BY <1>1
    <2>12. emitted[r] \in Nat /\ emitted[r] =< Cardinality(Behind(r))
        BY DEF TypeOK, BehindInv
    <2>13. QED
        BY <2>4, <2>5, <2>8, <2>10, <2>11, <2>12
<1>4. QED
    BY <1>1, <1>3 DEF CycleInv, BehindInv

LEMMA InitReadInv == Init => ReadInv
<1> SUFFICES ASSUME Init PROVE ReadInv
    OBVIOUS
<1>1. TypeInv /\ TypeOK /\ CycleInv
    BY InitTypes DEF Init, CycleInv, TypeInv
<1>2. ASSUME NEW r \in Requests PROVE emitted[r] =< Cardinality(Behind(r))
    <2>1. emitted[r] = 0
        BY DEF Init
    <2>2. Cardinality(Behind(r)) \in Nat
        BY <1>1, FiniteBlocks DEF Behind
    <2>3. QED
        BY <2>1, <2>2
<1>3. QED
    BY <1>1, <1>2 DEF ReadInv, BehindInv

LEMMA NextReadInv == ReadInv /\ [Next]_vars => ReadInv'
<1> SUFFICES ASSUME ReadInv, [Next]_vars PROVE ReadInv'
    OBVIOUS
<1>1. TypeInv /\ TypeInv' /\ CycleInv /\ BehindInv
    BY NextTypes DEF ReadInv
<1>2. CASE Write
    <2>1. PICK f \in 1..Files, line \in Requests \cup Titles, bytes \in Pieces \cup {Width} :
              WriteLine(f, line, bytes)
        BY <1>2 DEF Write
    <2>2. bytes \in Nat
        BY WriteSizes
    <2>3. QED
        BY <1>1, <2>1, <2>2, WriteKeepsReadInv DEF ReadInv
<1>3. ASSUME NEW f \in 1..Files, FinishLine(f) PROVE ReadInv'
    BY <1>1, <1>3
    DEF FinishLine, cycle, stored, ReadInv, CycleInv, Pending, BehindInv, Behind, Blocks, Start
<1>4. CASE StartCycle
    <2>1. /\ next' = 1 /\ offset' = cursor /\ found' = [f \in 1..Files |-> {}]
          /\ UNCHANGED <<text, cursor, emitted>>
        BY <1>4 DEF StartCycle, transcripts, stored
    <2>2. ASSUME NEW f \in 1..Files PROVE Pending(f)'
        <3>1. cursor'[f] = offset'[f] /\ found'[f] = {} /\ cursor'[f] =< offset'[f]
            BY <1>1, <2>1 DEF TypeInv, TypeOK
        <3>2. QED
            BY <3>1 DEF Pending
    <2>3. BehindInv'
        BY <1>1, <2>1 DEF BehindInv, Behind, Blocks, Start
    <2>4. QED
        BY <1>1, <2>2, <2>3 DEF ReadInv, CycleInv
<1>5. CASE ReadFile
    BY <1>1, <1>5, ReadFileKeepsReadInv DEF ReadInv
<1>6. CASE EndCycle
    BY <1>1, <1>6, EndCycleKeepsReadInv DEF ReadInv
<1>7. CASE FailCycle
    <2>1. next' = 0 /\ UNCHANGED <<text, cursor, emitted>>
        BY <1>7 DEF FailCycle, transcripts, stored
    <2>2. QED
        BY <1>1, <2>1 DEF ReadInv, CycleInv, BehindInv, Behind, Blocks, Start
<1>8. CASE UNCHANGED vars
    BY <1>1, <1>8
    DEF vars, transcripts, cycle, stored, ReadInv, CycleInv, Pending, BehindInv, Behind, Blocks, Start
<1>9. QED
    BY <1>2, <1>3, <1>4, <1>5, <1>6, <1>7, <1>8 DEF Next, Read

\* However scans, writes and failed cycles interleave, a response gives no
\* more events than it has lines.
THEOREM NoLineIsReadTwice == Spec => []NoLineTwice
<1>1. ReadInv => NoLineTwice
    <2> SUFFICES ASSUME ReadInv, NEW r \in Requests PROVE emitted[r] =< Cardinality(Blocks(r))
        BY DEF NoLineTwice
    <2>1. TypeOK /\ emitted[r] \in Nat /\ emitted[r] =< Cardinality(Behind(r))
        BY DEF ReadInv, TypeInv, TypeOK, BehindInv
    <2>2. IsFiniteSet(Blocks(r)) /\ Cardinality(Blocks(r)) \in Nat
        BY <2>1, FiniteBlocks
    <2>3. Cardinality(Behind(r)) =< Cardinality(Blocks(r))
        BY <2>2, FS_Subset DEF Behind
    <2>4. Cardinality(Behind(r)) \in Nat
        BY <2>1, FiniteBlocks DEF Behind
    <2>5. QED
        BY <2>1, <2>2, <2>3, <2>4
<1>2. QED
    BY <1>1, InitReadInv, NextReadInv, PTL DEF Spec

\* One scan gives at most one event for a response.
LEMMA ScanGivesOne ==
    ReadInv /\ [Next]_vars => [\A r \in Requests : emitted'[r] =< emitted[r] + 1]_vars
<1> SUFFICES ASSUME ReadInv, [Next]_vars, NEW r \in Requests
             PROVE  emitted'[r] =< emitted[r] + 1
    OBVIOUS
<1>1. TypeOK /\ CycleInv /\ emitted[r] \in Nat
    BY DEF ReadInv, TypeInv, TypeOK
<1>2. CASE EndCycle
    <2> DEFINE B == {k \in found[FileOf[r]] : text[FileOf[r]][k] = r}
    <2>1. emitted'[r] = emitted[r] + Cardinality(B)
        BY <1>2 DEF EndCycle
    <2>2. FileOf[r] \in 1..Files /\ next # 0
        BY <1>2, LinesAssumption, SizesAssumption DEF EndCycle
    <2>3. \A j, k \in B : j = k
        BY <1>1, <2>2 DEF CycleInv, Pending
    <2> HIDE DEF B
    <2>4. Cardinality(B) = 0 \/ Cardinality(B) = 1
        <3>1. CASE B = {}
            BY <3>1, FS_EmptySet
        <3>2. CASE B # {}
            <4>1. PICK k \in B : TRUE
                BY <3>2
            <4>2. B = {k}
                BY <2>3, <4>1
            <4>3. QED
                BY <4>2, FS_Singleton
        <3>3. QED
            BY <3>1, <3>2
    <2>5. QED
        BY <1>1, <2>1, <2>4
<1>3. CASE emitted' = emitted
    BY <1>1, <1>3
<1>4. EndCycle \/ emitted' = emitted
    BY DEF Next, Write, Read, WriteLine, FinishLine, StartCycle, ReadFile, FailCycle, vars, stored
<1>5. QED
    BY <1>2, <1>3, <1>4

\* However many blocks of a response a scan meets, they give one event.
THEOREM AScanCountsOnce == Spec => OneEventPerScan
BY InitReadInv, NextReadInv, ScanGivesOne, PTL DEF Spec, OneEventPerScan

-----------------------------------------------------------------------------
(* No line passed over.  While a write stops nowhere but before the newline *)
(* of a line, the cursors stay on the boundaries of the lines.              *)

\* The lines lie one behind the other.
LEMMA LinesInARow ==
    /\ \A a \in Nat : a * Width \in Nat /\ (a + 1) * Width = a * Width + Width
    /\ \A a \in Nat \ {0} : a * Width = Start(a) + Width /\ Start(a) = (a - 1) * Width
    /\ \A a, b \in Nat : a =< b => a * Width =< b * Width
    /\ \A a, b \in Nat : a < b => a * Width < b * Width
    /\ \A a, b \in Nat : a * Width > b * Width => (a - 1) * Width >= b * Width
<1>1. Width \in Nat /\ Width >= 2
    BY StartType
<1>2. ASSUME NEW w \in Nat, w >= 2
      PROVE  /\ \A a \in Nat : a * w \in Nat /\ (a + 1) * w = a * w + w
             /\ \A a \in Nat \ {0} : a * w = (a - 1) * w + w
    BY <1>2
<1>3. ASSUME NEW w \in Nat, w >= 2, NEW a \in Nat, NEW b \in Nat
      PROVE  /\ a =< b => a * w =< b * w
             /\ a < b => a * w < b * w
             /\ a * w > b * w => (a - 1) * w >= b * w
    <2>1. a < b => a * w < b * w
        BY <1>3
    <2>2. a =< b => a * w =< b * w
        BY <1>3
    <2>3. a * w > b * w => a > b
        BY <1>3
    <2>4. a > b => (a - 1) * w >= b * w
        BY <1>3
    <2>5. QED
        BY <2>1, <2>2, <2>3, <2>4
<1>4. QED
    BY <1>1, <1>2, <1>3 DEF Start

\* The remainders that Advance tells apart.
LEMMA Remainders ==
    /\ \A a \in Nat : (a * Width) % Width = 0
    /\ \A a \in Nat \ {0} : (a * Width - 1) % Width # 0
<1>1. Width \in Nat /\ Width >= 2
    BY StartType
<1>2. ASSUME NEW w \in Nat, w >= 2, NEW a \in Nat PROVE (a * w) % w = 0
    BY <1>2
<1>3. ASSUME NEW w \in Nat, w >= 2, NEW a \in Nat PROVE (a * w + (w - 1)) % w = w - 1
    BY <1>3
<1>4. ASSUME NEW w \in Nat, w >= 2, NEW a \in Nat \ {0} PROVE (a * w - 1) % w # 0
    <2>1. a - 1 \in Nat /\ a * w - 1 = (a - 1) * w + (w - 1)
        BY <1>4
    <2>2. ((a - 1) * w + (w - 1)) % w = w - 1
        BY <1>3, <1>4, <2>1
    <2>3. QED
        BY <1>4, <2>1, <2>2
<1>5. QED
    BY <1>1, <1>2, <1>4

\* The bytes of file f end with a line or before its newline.
Ends(f) ==
    \/ size[f] = Len(text[f]) * Width
    \/ Len(text[f]) # 0 /\ size[f] = Len(text[f]) * Width - 1

\* Position c of file f is the beginning of a line or the end of the last.
AtLine(f, c) == \E m \in 0..Len(text[f]) : c = m * Width

BoundaryInv ==
    \A f \in 1..Files : /\ Ends(f) /\ AtLine(f, cursor[f])
                        /\ next # 0 => AtLine(f, offset[f])

\* A block behind the cursor is stored; one that the cycle moves behind it is
\* found.
CoverInv ==
    \A r \in Requests : \A k \in Blocks(r) :
        /\ k * Width =< cursor[FileOf[r]] => emitted[r] >= 1
        /\ next # 0 /\ cursor[FileOf[r]] =< Start(k) /\ k * Width =< offset[FileOf[r]]
           => \E j \in found[FileOf[r]] : text[FileOf[r]][j] = r

LineInv == TypeInv /\ CycleInv /\ BoundaryInv /\ CoverInv

\* The cursor stays where it is, or goes to the end of the last line.
LEMMA AdvanceToEnd ==
    ASSUME NEW l \in Nat, NEW c \in Nat, NEW n \in Nat,
           n = l * Width \/ (l # 0 /\ n = l * Width - 1)
    PROVE  Advance(c, n) = c \/ (c < n /\ Advance(c, n) = l * Width)
<1>1. CASE c >= n
    BY <1>1 DEF Advance
<1>2. CASE c < n /\ n = l * Width
    <2>1. n % Width = 0
        BY <1>2, Remainders
    <2>2. Advance(c, n) = n
        BY <1>2, <2>1 DEF Advance
    <2>3. QED
        BY <1>2, <2>2
<1>3. CASE c < n /\ l # 0 /\ n = l * Width - 1
    <2>1. n % Width # 0
        BY <1>3, Remainders
    <2>2. Advance(c, n) = n + 1
        BY <1>3, <2>1 DEF Advance
    <2>3. l * Width \in Nat
        BY LinesInARow
    <2>4. QED
        BY <1>3, <2>2, <2>3
<1>4. QED
    BY <1>1, <1>2, <1>3

\* A block among the lines of a scan gives its response an event.
LEMMA ScanFindsResponse ==
    ASSUME NEW f, Len(text[f]) \in Nat, NEW lines \in SUBSET (1..Len(text[f])),
           NEW r \in Requests, NEW k \in lines, text[f][k] = r
    PROVE  \E j \in FirstBlocks(f, lines) : text[f][j] = r
<1> DEFINE S == {i \in lines : text[f][i] = r}
<1>1. S \in SUBSET (1..Len(text[f])) /\ S # {}
    OBVIOUS
<1> HIDE DEF S
<1>2. PICK j \in S : \A i \in S : j =< i
    BY <1>1, FirstAndLast
<1>3. j \in lines /\ text[f][j] = r /\ j \in 1..Len(text[f])
    BY <1>1, <1>2 DEF S
<1>4. ASSUME NEW i \in lines, i < j PROVE text[f][i] # text[f][j]
    <2>1. i \in 1..Len(text[f])
        OBVIOUS
    <2>2. i \notin S
        BY <1>2, <1>3, <1>4, <2>1
    <2>3. QED
        BY <1>3, <2>2 DEF S
<1>5. j \in FirstBlocks(f, lines)
    BY <1>3, <1>4 DEF FirstBlocks
<1>6. QED
    BY <1>3, <1>5

\* A line that is written lies behind every boundary there was.
LEMMA WriteKeepsLineInv ==
    ASSUME Pieces \subseteq {Content}, LineInv, TypeInv', CycleInv',
           NEW f \in 1..Files, NEW line \in Requests \cup Titles,
           NEW bytes \in Pieces \cup {Width}, WriteLine(f, line, bytes)
    PROVE  BoundaryInv' /\ CoverInv'
<1> USE DEF LineInv, TypeInv
<1>1. /\ UNCHANGED <<next, offset, found, cursor, emitted>>
      /\ size' = [size EXCEPT ![f] = size[f] + bytes] /\ size[f] = Len(text[f]) * Width
      /\ bytes \in Nat /\ (bytes = Width \/ bytes = Width - 1)
    BY WriteSizes DEF WriteLine, cycle, stored, Width
<1>2. text' \in [1..Files -> Seq(Requests \cup Titles)]
    BY <1>1, WriteKeepsLines
<1>3. \A g \in 1..Files : /\ Len(text[g]) \in Nat /\ Len(text'[g]) \in Nat
                          /\ Len(text[g]) =< Len(text'[g])
                          /\ \A k \in 1..Len(text[g]) : text'[g][k] = text[g][k]
    <2>1. \A g \in 1..Files : Len(text[g]) \in Nat /\ Len(text'[g]) \in Nat
        BY <1>2 DEF TypeOK
    <2>2. \A g \in 1..Files : /\ Len(text[g]) =< Len(text'[g])
                              /\ \A k \in 1..Len(text[g]) : text'[g][k] = text[g][k]
        BY <1>1, WriteKeepsLines
    <2>3. QED
        BY <2>1, <2>2
<1>4. /\ Len(text'[f]) = Len(text[f]) + 1
      /\ \A g \in 1..Files : g # f => text'[g] = text[g]
    BY <1>1, WriteKeepsLines
<1>5. ASSUME NEW g \in 1..Files, NEW c, AtLine(g, c) PROVE AtLine(g, c)'
    BY <1>3, <1>5 DEF AtLine, Width
<1>6. ASSUME NEW g \in 1..Files PROVE Ends(g)'
    <2>1. CASE g = f
        <3>1. size'[f] = Len(text[f]) * Width + bytes
            BY <1>1 DEF TypeOK
        <3>2. Len(text'[f]) * Width = Len(text[f]) * Width + Width /\ Len(text[f]) * Width \in Nat
            BY <1>3, <1>4, LinesInARow
        <3>3. Len(text'[f]) # 0 /\ Width \in Nat
            BY <1>3, <1>4, StartType
        <3>4. size'[f] = Len(text'[f]) * Width \/ size'[f] = Len(text'[f]) * Width - 1
            BY <1>1, <3>1, <3>2, <3>3
        <3>5. QED
            BY <2>1, <3>3, <3>4 DEF Ends, Width
    <2>2. CASE g # f
        <3>1. size'[g] = size[g] /\ text'[g] = text[g] /\ Ends(g)
            BY <1>1, <1>4, <2>2 DEF TypeOK, BoundaryInv
        <3>2. QED
            BY <3>1 DEF Ends, Width
    <2>3. QED
        BY <2>1, <2>2
<1>7. BoundaryInv'
    <2>1. \A g \in 1..Files : AtLine(g, cursor[g])' /\ (next # 0 => AtLine(g, offset[g])')
        BY <1>1, <1>5 DEF BoundaryInv
    <2>2. QED
        BY <1>1, <1>6, <2>1 DEF BoundaryInv
<1>8. ASSUME NEW r \in Requests, NEW k \in Blocks(r)',
             \/ k * Width =< cursor[FileOf[r]]
             \/ next # 0 /\ k * Width =< offset[FileOf[r]]
      PROVE  k \in Blocks(r)
    <2> DEFINE g == FileOf[r]
    <2>1. g \in 1..Files
        BY LinesAssumption
    <2>2. k \in 1..Len(text'[g]) /\ text'[g][k] = r
        BY DEF Blocks
    <2>3. PICK m \in 0..Len(text[g]) : k * Width =< m * Width
        BY <1>8, <2>1 DEF BoundaryInv, AtLine
    <2>4. k \in Nat /\ m \in Nat /\ m =< Len(text[g]) /\ Len(text[g]) \in Nat
        BY <1>3, <2>1, <2>2, <2>3
    <2>5. ~(m < k)
        <3>1. m < k => m * Width < k * Width
            BY <2>4, LinesInARow
        <3>2. m * Width \in Nat /\ k * Width \in Nat
            BY <2>4, LinesInARow
        <3>3. QED
            BY <2>3, <3>1, <3>2
    <2>6. k \in 1..Len(text[g])
        BY <1>3, <2>1, <2>2, <2>4, <2>5
    <2>7. QED
        BY <1>3, <2>1, <2>2, <2>6 DEF Blocks
<1>9. CoverInv'
    <2> SUFFICES ASSUME NEW r \in Requests, NEW k \in Blocks(r)'
                 PROVE  /\ k * Width =< cursor[FileOf[r]] => emitted[r] >= 1
                        /\ next # 0 /\ cursor[FileOf[r]] =< Start(k) /\ k * Width =< offset[FileOf[r]]
                           => \E j \in found[FileOf[r]] : text'[FileOf[r]][j] = r
        BY <1>1 DEF CoverInv, Start, Width
    <2>1. CASE k * Width =< cursor[FileOf[r]] /\ ~(next # 0 /\ cursor[FileOf[r]] =< Start(k)
                                                  /\ k * Width =< offset[FileOf[r]])
        BY <1>8, <2>1 DEF CoverInv
    <2>2. CASE next # 0 /\ cursor[FileOf[r]] =< Start(k) /\ k * Width =< offset[FileOf[r]]
        <3>1. k \in Blocks(r)
            BY <1>8, <2>2
        <3>2. PICK j \in found[FileOf[r]] : text[FileOf[r]][j] = r
            BY <2>2, <3>1 DEF CoverInv
        <3>3. FileOf[r] \in 1..Files
            BY LinesAssumption
        <3>4. j \in 1..Len(text[FileOf[r]])
            BY <2>2, <3>3 DEF CycleInv, Pending
        <3>5. text'[FileOf[r]][j] = r
            BY <1>3, <3>2, <3>3, <3>4
        <3>6. QED
            BY <3>1, <3>2, <3>5 DEF CoverInv
    <2>3. QED
        BY <2>1, <2>2
<1>10. QED
    BY <1>7, <1>9

\* A scan gives an event to every response it moves a line of behind the cursor.
LEMMA ReadFileKeepsLineInv ==
    ASSUME LineInv, TypeInv', CycleInv', ReadFile
    PROVE  BoundaryInv' /\ CoverInv'
<1> USE DEF LineInv, TypeInv
<1>0. PICK f \in 1..Files : f = next
    BY DEF ReadFile
<1> DEFINE lines == Scanned(f, offset[f], size[f])
<1>1. /\ f \in 1..Files /\ f = next /\ next # 0 /\ next' = f + 1
      /\ found' = [found EXCEPT ![f] = FirstBlocks(f, lines)]
      /\ offset' = [offset EXCEPT ![f] = Advance(offset[f], size[f])]
      /\ UNCHANGED <<text, size, cursor, emitted>>
    BY <1>0, SizesAssumption DEF ReadFile, transcripts, stored
<1>2. offset[f] \in Nat /\ size[f] \in Nat /\ Len(text[f]) \in Nat
    BY <1>1, TypedTranscripts
<1>3. offset[f] = cursor[f]
    BY <1>1, SizesAssumption DEF CycleInv, Pending
<1>4. /\ found'[f] = FirstBlocks(f, lines) /\ offset'[f] = Advance(offset[f], size[f])
      /\ \A g \in 1..Files : g # f => found'[g] = found[g] /\ offset'[g] = offset[g]
    BY <1>1 DEF TypeOK
<1> HIDE DEF lines
<1>5. \/ offset'[f] = cursor[f]
      \/ cursor[f] < size[f] /\ offset'[f] = Len(text[f]) * Width
    <2>1. Ends(f)
        BY <1>1 DEF BoundaryInv
    <2>2. \/ size[f] = Len(text[f]) * Width
          \/ Len(text[f]) # 0 /\ size[f] = Len(text[f]) * Width - 1
        BY <2>1 DEF Ends
    <2>3. \/ Advance(offset[f], size[f]) = offset[f]
          \/ offset[f] < size[f] /\ Advance(offset[f], size[f]) = Len(text[f]) * Width
        BY <1>2, <2>2, AdvanceToEnd
    <2>4. QED
        BY <1>3, <1>4, <2>3
<1>6. BoundaryInv'
    <2>1. ASSUME NEW g \in 1..Files PROVE AtLine(g, offset'[g])
        <3>1. CASE g = f
            <4>1. AtLine(f, cursor[f])
                BY <1>1 DEF BoundaryInv
            <4>2. AtLine(f, Len(text[f]) * Width)
                BY <1>2 DEF AtLine
            <4>3. QED
                BY <1>5, <3>1, <4>1, <4>2
        <3>2. CASE g # f
            BY <1>1, <1>4, <3>2 DEF BoundaryInv
        <3>3. QED
            BY <3>1, <3>2
    <2>2. QED
        BY <1>1, <2>1 DEF BoundaryInv, Ends, AtLine, Width
<1>7. ASSUME NEW r \in Requests, NEW k \in Blocks(r),
             cursor[FileOf[r]] =< Start(k), k * Width =< offset'[FileOf[r]]
      PROVE  \E j \in found'[FileOf[r]] : text[FileOf[r]][j] = r
    <2>1. CASE FileOf[r] = f
        <3>1. k \in 1..Len(text[f]) /\ text[f][k] = r
            BY <2>1 DEF Blocks
        <3>2. /\ k * Width = Start(k) + Width /\ Start(k) \in Nat
              /\ Width \in Nat /\ Width >= 2 /\ Content \in Nat /\ Width = Content + 1
            BY <1>2, <3>1, LinesInARow, StartType DEF Width
        <3>3. cursor[f] \in Nat
            BY <1>1 DEF TypeOK
        <3>4. offset'[f] # cursor[f]
            BY <1>7, <2>1, <3>2, <3>3
        <3>5. offset'[f] = Len(text[f]) * Width
            BY <1>5, <3>4
        <3>6. size[f] >= Len(text[f]) * Width - 1
            <4>1. Len(text[f]) * Width \in Nat
                BY <1>2, LinesInARow
            <4>2. QED
                BY <1>1, <1>2, <4>1 DEF BoundaryInv, Ends
        <3>7. Start(k) + Content =< size[f]
            <4>1. Len(text[f]) * Width \in Nat
                BY <1>2, LinesInARow
            <4>2. Start(k) + Width =< Len(text[f]) * Width
                BY <1>7, <2>1, <3>2, <3>5
            <4>3. \A a, b, w, l, n \in Nat :
                      w = b + 1 /\ a + w =< l /\ n >= l - 1 => a + b =< n
                OBVIOUS
            <4>4. Width = Content + 1
                BY DEF Width
            <4>5. QED
                BY <1>2, <3>2, <3>6, <4>1, <4>2, <4>3, <4>4
        <3>8. k \in lines
            BY <1>3, <1>7, <2>1, <3>1, <3>7 DEF lines, Scanned
        <3>9. lines \in SUBSET (1..Len(text[f]))
            BY DEF lines, Scanned
        <3>10. QED
            BY <1>2, <1>4, <2>1, <3>1, <3>8, <3>9, ScanFindsResponse
    <2>2. CASE FileOf[r] # f
        <3>1. FileOf[r] \in 1..Files
            BY LinesAssumption
        <3>2. QED
            BY <1>1, <1>4, <1>7, <2>2, <3>1 DEF CoverInv
    <2>3. QED
        BY <2>1, <2>2
<1>8. CoverInv'
    BY <1>1, <1>7 DEF CoverInv, Blocks, Start, Width
<1>9. QED
    BY <1>6, <1>8

\* What leaves the cycle and moves behind the cursor is stored.
LEMMA EndCycleKeepsLineInv ==
    ASSUME LineInv, TypeInv', CycleInv', EndCycle
    PROVE  BoundaryInv' /\ CoverInv'
<1> USE DEF LineInv, TypeInv
<1> DEFINE B(r) == {k \in found[FileOf[r]] : text[FileOf[r]][k] = r}
<1>1. /\ emitted' = [r \in Requests |-> emitted[r] + Cardinality(B(r))]
      /\ cursor' = offset /\ next # 0 /\ next' = 0
      /\ UNCHANGED <<text, size, offset, found>>
    BY SizesAssumption DEF EndCycle, transcripts
<1>2. BoundaryInv'
    BY <1>1 DEF BoundaryInv, Ends, AtLine, Width
<1>3. ASSUME NEW r \in Requests, NEW k \in Blocks(r), k * Width =< offset[FileOf[r]]
      PROVE  emitted'[r] >= 1
    <2>1. FileOf[r] \in 1..Files
        BY LinesAssumption
    <2>2. /\ emitted[r] \in Nat /\ cursor[FileOf[r]] \in Nat /\ Len(text[FileOf[r]]) \in Nat
          /\ emitted'[r] = emitted[r] + Cardinality(B(r))
        BY <1>1, <2>1 DEF TypeOK
    <2>3. B(r) \in SUBSET found[FileOf[r]]
        OBVIOUS
    <2>4. IsFiniteSet(B(r)) /\ Cardinality(B(r)) \in Nat
        BY <2>3, StoredBlocks
    <2>5. CASE k * Width =< cursor[FileOf[r]]
        <3>1. emitted[r] >= 1
            BY <2>5 DEF CoverInv
        <3>2. QED
            BY <2>2, <2>4, <3>1
    <2>6. CASE ~(k * Width =< cursor[FileOf[r]])
        <3>1. PICK m \in 0..Len(text[FileOf[r]]) : cursor[FileOf[r]] = m * Width
            BY <2>1 DEF BoundaryInv, AtLine
        <3>2. k \in Nat \ {0} /\ m \in Nat
            BY <2>2, <3>1 DEF Blocks
        <3>3. k * Width \in Nat /\ Start(k) = (k - 1) * Width
            BY <3>2, LinesInARow
        <3>4. k * Width > m * Width
            BY <2>2, <2>6, <3>1, <3>3
        <3>5. (k - 1) * Width >= m * Width
            BY <3>2, <3>4, LinesInARow
        <3>6. Start(k) \in Nat
            BY <3>2, StartType
        <3>7. cursor[FileOf[r]] =< Start(k)
            BY <2>2, <3>1, <3>3, <3>5, <3>6
        <3>8. PICK j \in found[FileOf[r]] : text[FileOf[r]][j] = r
            BY <1>1, <1>3, <3>7 DEF CoverInv
        <3>9. B(r) # {}
            BY <3>8
        <3> HIDE DEF B
        <3>10. Cardinality(B(r)) # 0
            BY <2>4, <3>9, FS_EmptySet
        <3>11. QED
            BY <2>2, <2>4, <3>10
    <2>7. QED
        BY <2>5, <2>6
<1>4. CoverInv'
    BY <1>1, <1>3 DEF CoverInv, Blocks, Start, Width
<1>5. QED
    BY <1>2, <1>4

LEMMA InitLineInv == Init => LineInv
<1> SUFFICES ASSUME Init PROVE LineInv
    OBVIOUS
<1>1. TypeInv /\ CycleInv
    BY InitReadInv DEF ReadInv
<1>2. ASSUME NEW f \in 1..Files PROVE Ends(f) /\ AtLine(f, cursor[f])
    <2>1. size[f] = 0 /\ cursor[f] = 0 /\ Len(text[f]) = 0
        BY DEF Init
    <2>2. 0 * Width = 0
        BY StartType
    <2>3. QED
        BY <2>1, <2>2 DEF Ends, AtLine
<1>3. ASSUME NEW r \in Requests PROVE Blocks(r) = {}
    <2>1. Len(text[FileOf[r]]) = 0
        BY LinesAssumption DEF Init
    <2>2. QED
        BY <2>1 DEF Blocks
<1>4. next = 0
    BY DEF Init
<1>5. QED
    BY <1>1, <1>2, <1>3, <1>4 DEF LineInv, BoundaryInv, CoverInv

LEMMA NextLineInv ==
    ASSUME Pieces \subseteq {Content}, ReadInv, LineInv, [Next]_vars
    PROVE  LineInv'
<1>1. /\ TypeInv /\ TypeInv' /\ CycleInv /\ CycleInv' /\ BoundaryInv /\ CoverInv
    BY NextReadInv DEF ReadInv, LineInv
<1>2. CASE Write
    <2>1. PICK f \in 1..Files, line \in Requests \cup Titles, bytes \in Pieces \cup {Width} :
              WriteLine(f, line, bytes)
        BY <1>2 DEF Write
    <2>2. QED
        BY <1>1, <2>1, WriteKeepsLineInv DEF LineInv
<1>3. ASSUME NEW f \in 1..Files, FinishLine(f) PROVE LineInv'
    <2>1. /\ size' = [size EXCEPT ![f] = Len(text[f]) * Width]
          /\ UNCHANGED <<text, next, offset, found, cursor, emitted>>
        BY <1>3 DEF FinishLine, cycle, stored
    <2>2. \A g \in 1..Files : Ends(g)'
        BY <1>1, <2>1 DEF TypeInv, TypeOK, BoundaryInv, Ends, Width
    <2>3. BoundaryInv'
        BY <1>1, <2>1, <2>2 DEF BoundaryInv, AtLine, Width
    <2>4. CoverInv'
        BY <1>1, <2>1 DEF CoverInv, Blocks, Start, Width
    <2>5. QED
        BY <1>1, <2>3, <2>4 DEF LineInv
<1>4. CASE StartCycle
    <2>1. /\ next' = 1 /\ offset' = cursor /\ UNCHANGED <<text, size, cursor, emitted>>
        BY <1>4 DEF StartCycle, transcripts, stored
    <2>2. BoundaryInv'
        BY <1>1, <2>1 DEF BoundaryInv, Ends, AtLine, Width
    <2>3. ASSUME NEW r \in Requests, NEW k \in Blocks(r), cursor[FileOf[r]] =< Start(k)
          PROVE  ~(k * Width =< cursor[FileOf[r]])
        <3>1. FileOf[r] \in 1..Files
            BY LinesAssumption
        <3>2. Len(text[FileOf[r]]) \in Nat /\ cursor[FileOf[r]] \in Nat
            BY <1>1, <3>1, TypedTranscripts DEF TypeInv
        <3>3. k \in Nat \ {0}
            BY <3>2 DEF Blocks
        <3>4. k * Width = Start(k) + Width /\ Start(k) \in Nat /\ Width \in Nat /\ Width >= 2
            BY <3>3, LinesInARow, StartType
        <3>5. QED
            BY <2>3, <3>2, <3>4
    <2>4. CoverInv'
        BY <1>1, <2>1, <2>3 DEF CoverInv, Blocks, Start, Width
    <2>5. QED
        BY <1>1, <2>2, <2>4 DEF LineInv
<1>5. CASE ReadFile
    BY <1>1, <1>5, ReadFileKeepsLineInv DEF LineInv
<1>6. CASE EndCycle
    BY <1>1, <1>6, EndCycleKeepsLineInv DEF LineInv
<1>7. CASE FailCycle
    <2>1. next' = 0 /\ UNCHANGED <<text, size, cursor, emitted>>
        BY <1>7 DEF FailCycle, transcripts, stored
    <2>2. BoundaryInv' /\ CoverInv'
        BY <1>1, <2>1 DEF BoundaryInv, Ends, AtLine, CoverInv, Blocks, Start, Width
    <2>3. QED
        BY <1>1, <2>2 DEF LineInv
<1>8. CASE UNCHANGED vars
    <2>1. UNCHANGED <<text, size, next, offset, found, cursor, emitted>>
        BY <1>8 DEF vars, transcripts, cycle, stored
    <2>2. BoundaryInv' /\ CoverInv'
        BY <1>1, <2>1 DEF BoundaryInv, Ends, AtLine, CoverInv, Blocks, Start, Width
    <2>3. QED
        BY <1>1, <2>2 DEF LineInv
<1>9. QED
    BY <1>2, <1>3, <1>4, <1>5, <1>6, <1>7, <1>8 DEF Next, Read

\* While Claude Code writes a line whole, or whole but for its newline, every
\* response with a complete line behind the cursor has been stored.
THEOREM NoLineIsPassedOver ==
    ASSUME Pieces \subseteq {Content}
    PROVE  Spec => []NoLinePassedOver
<1>1. ReadInv /\ LineInv /\ [Next]_vars => (ReadInv /\ LineInv)'
    BY NextReadInv, NextLineInv
<1>2. LineInv => NoLinePassedOver
    BY DEF LineInv, CoverInv, NoLinePassedOver
<1>3. QED
    BY <1>1, <1>2, InitReadInv, InitLineInv, PTL DEF Spec

-----------------------------------------------------------------------------
(* A fresh read is named, wherever the writes stop.                         *)

\* The title lines of file f before position c, and the title that the last of
\* them gives.
TitlesIn(f, c) == {k \in 1..Len(text[f]) : text[f][k] \in Titles /\ k * Width =< c}

Named(f, c, title) ==
    \/ TitlesIn(f, c) = {} /\ title = None
    \/ \E k \in TitlesIn(f, c) :
          (\A j \in TitlesIn(f, c) : j =< k) /\ title = text[f][k]

\* A file that was read from its beginning has the title of what was read; the
\* cursor may be a byte ahead of its end, but never in a line that is yet to come.
NameInv ==
    /\ \A f \in 1..Files : size[f] =< Len(text[f]) * Width
    /\ next # 0 => \A f \in 1..Files :
          f < next /\ cursor[f] = 0 =>
             offset[f] =< Len(text[f]) * Width /\ Named(f, offset[f], name[f])

\* The lines of a scan from the beginning are those behind the cursor after it.
LEMMA ScanFromStart ==
    ASSUME NEW l \in Nat, NEW n \in Nat, n =< l * Width
    PROVE  /\ Advance(0, n) =< l * Width
           /\ \A k \in 1..l : k * Width =< Advance(0, n)
                              <=> 0 =< Start(k) /\ Start(k) + Content =< n
<1>1. /\ Width \in Nat /\ Width >= 2 /\ Width = Content + 1 /\ Content \in Nat
      /\ Content >= 1 /\ l * Width \in Nat
    BY StartType, LinesInARow DEF Width
<1>2. \A k \in 1..l : /\ k \in Nat /\ Start(k) \in Nat /\ k * Width \in Nat
                      /\ k * Width = Start(k) + Content + 1
    <2>1. ASSUME NEW k \in 1..l
          PROVE  /\ k \in Nat /\ Start(k) \in Nat /\ k * Width \in Nat
                 /\ k * Width = Start(k) + Content + 1
        <3>1. k \in Nat \ {0}
            OBVIOUS
        <3>2. /\ Start(k) \in Nat /\ k * Width \in Nat
              /\ k * Width = Start(k) + Width
            BY <3>1, StartType, LinesInARow
        <3>3. QED
            BY <1>1, <3>1, <3>2
    <2>2. QED
        BY <2>1
<1>3. CASE n = 0
    <2>1. Advance(0, n) = 0
        BY <1>3 DEF Advance
    <2>2. QED
        BY <1>1, <1>2, <1>3, <2>1
<1>4. CASE n # 0 /\ n % Width = 0
    <2>1. Advance(0, n) = n
        BY <1>4 DEF Advance
    <2>2. PICK m \in Nat : n = m * Width
        <3>1. ASSUME NEW w \in Nat, w >= 2, n % w = 0 PROVE \E m \in Nat : n = m * w
            <4>1. n \div w \in Nat /\ n = (n \div w) * w
                BY <3>1
            <4>2. QED
                BY <4>1
        <3>2. QED
            BY <1>1, <1>4, <3>1
    <2>3. ASSUME NEW k \in 1..l, Start(k) + Content =< n PROVE k * Width =< n
        <3>1. k * Width =< n + 1 /\ k \in Nat
            BY <1>1, <1>2, <2>3
        <3>2. (m + 1) * Width = m * Width + Width /\ m * Width \in Nat
            BY LinesInARow
        <3>3. k =< m
            <4>1. ~(m + 1 =< k)
                <5>1. m + 1 =< k => (m + 1) * Width =< k * Width
                    BY <3>1, LinesInARow
                <5>2. ~((m + 1) * Width =< k * Width)
                    BY <1>1, <1>2, <2>2, <3>1, <3>2
                <5>3. QED
                    BY <5>1, <5>2
            <4>2. QED
                BY <3>1, <4>1
        <3>4. QED
            BY <1>2, <2>2, <3>3, LinesInARow
    <2>4. QED
        BY <1>1, <1>2, <2>1, <2>3, n =< l * Width
<1>5. CASE n # 0 /\ n % Width # 0
    <2>1. Advance(0, n) = n + 1
        BY <1>5 DEF Advance
    <2>2. n # l * Width
        BY <1>5, Remainders
    <2>3. QED
        BY <1>1, <1>2, <2>1, <2>2, n =< l * Width
<1>6. QED
    BY <1>3, <1>4, <1>5

\* LastTitle picks the last title line.
LEMMA LastTitleIsLast ==
    ASSUME NEW f, NEW lines \in SUBSET (1..Len(text[f])), Len(text[f]) \in Nat,
           NEW T, T = {k \in lines : text[f][k] \in Titles}
    PROVE  \/ T = {} /\ LastTitle(f, lines) = None
           \/ \E k \in T : (\A j \in T : j =< k) /\ LastTitle(f, lines) = text[f][k]
<1>1. CASE T = {}
    BY <1>1 DEF LastTitle
<1>2. CASE T # {}
    <2>1. T \in SUBSET (1..Len(text[f]))
        OBVIOUS
    <2>2. \E k \in T : \A j \in T : j =< k
        BY <1>2, <2>1, FirstAndLast
    <2>3. PICK k : k = CHOOSE i \in T : \A j \in T : j =< i
        OBVIOUS
    <2>4. k \in T /\ \A j \in T : j =< k
        BY <2>2, <2>3
    <2>5. LastTitle(f, lines) = text[f][k]
        BY <1>2, <2>3 DEF LastTitle
    <2>6. QED
        BY <2>4, <2>5
<1>3. QED
    BY <1>1, <1>2

\* Reading a file from its beginning names it.
LEMMA ReadFileNames ==
    ASSUME ReadInv, NameInv, TypeInv', ReadFile
    PROVE  NameInv'
<1>0. PICK f \in 1..Files : f = next
    BY DEF ReadFile
<1>1. /\ TypeOK /\ CycleInv /\ next' = f + 1
      /\ name' = [name EXCEPT ![f] = LastTitle(f, Scanned(f, offset[f], size[f]))]
      /\ offset' = [offset EXCEPT ![f] = Advance(offset[f], size[f])]
      /\ UNCHANGED <<text, size, cursor>> /\ f # 0
    BY <1>0, SizesAssumption DEF ReadFile, transcripts, stored, ReadInv, TypeInv
<1>2. ASSUME cursor[f] = 0
      PROVE  offset'[f] =< Len(text[f]) * Width /\ Named(f, offset'[f], name'[f])
    <2>1. offset[f] = 0
        BY <1>0, <1>1, <1>2 DEF CycleInv, Pending
    <2>2. /\ Len(text[f]) \in Nat /\ size[f] \in Nat /\ size[f] =< Len(text[f]) * Width
          /\ offset'[f] = Advance(0, size[f])
          /\ name'[f] = LastTitle(f, Scanned(f, 0, size[f]))
        BY <1>1, <2>1, TypedTranscripts DEF TypeOK, NameInv
    <2>3. /\ offset'[f] =< Len(text[f]) * Width
          /\ \A k \in 1..Len(text[f]) :
                k * Width =< offset'[f] <=> 0 =< Start(k) /\ Start(k) + Content =< size[f]
        BY <2>2, ScanFromStart
    <2>4. TitlesIn(f, offset'[f])
          = {k \in Scanned(f, 0, size[f]) : text[f][k] \in Titles}
        BY <2>3 DEF TitlesIn, Scanned
    <2>5. Scanned(f, 0, size[f]) \in SUBSET (1..Len(text[f]))
        BY DEF Scanned
    <2>6. QED
        BY <2>2, <2>3, <2>4, <2>5, LastTitleIsLast DEF Named
<1>3. ASSUME NEW g \in 1..Files, g < next', cursor[g] = 0, g # f
      PROVE  offset'[g] =< Len(text[g]) * Width /\ Named(g, offset'[g], name'[g])
    <2>1. g < next /\ next # 0 /\ offset'[g] = offset[g] /\ name'[g] = name[g]
        BY <1>0, <1>1, <1>3, SizesAssumption DEF TypeOK
    <2>2. QED
        BY <1>3, <2>1 DEF NameInv
<1>4. QED
    BY <1>1, <1>2, <1>3 DEF NameInv, Named, TitlesIn, Width

\* A line that is written after a scan is none of those it has seen.
LEMMA WriteNames ==
    ASSUME TypeInv, NameInv, NEW f \in 1..Files, NEW line \in Requests \cup Titles,
           NEW bytes \in Pieces \cup {Width}, WriteLine(f, line, bytes)
    PROVE  NameInv'
<1>1. /\ UNCHANGED <<next, offset, name, cursor>>
      /\ size[f] = Len(text[f]) * Width
      /\ size' = [size EXCEPT ![f] = size[f] + bytes]
      /\ text' = [text EXCEPT ![f] = Append(text[f], line)]
    BY DEF WriteLine, cycle, stored
<1>2. \A g \in 1..Files : /\ text[g] \in Seq(Requests \cup Titles) /\ Len(text[g]) \in Nat
                          /\ size[g] \in Nat /\ offset[g] \in Nat
    BY TypedTranscripts DEF TypeInv
<1>3. /\ DOMAIN text = 1..Files /\ DOMAIN size = 1..Files
    BY DEF TypeInv, TypeOK
<1>4. /\ Len(text'[f]) = Len(text[f]) + 1 /\ text'[f][Len(text[f]) + 1] = line
      /\ \A k \in 1..Len(text[f]) : text'[f][k] = text[f][k]
    <2>1. TypeOK /\ bytes \in Nat
        BY WriteSizes DEF TypeInv
    <2>2. QED
        BY <2>1, WriteKeepsLines
<1>5. /\ bytes \in Nat /\ bytes =< Width /\ Width \in Nat
      /\ Len(text'[f]) * Width = Len(text[f]) * Width + Width
      /\ Len(text[f]) * Width \in Nat
    <2>1. bytes \in Nat /\ bytes =< Width /\ Width \in Nat
        BY WriteSizes, StartType
    <2>2. Len(text[f]) \in Nat
        BY <1>2
    <2>3. /\ (Len(text[f]) + 1) * Width = Len(text[f]) * Width + Width
          /\ Len(text[f]) * Width \in Nat
        BY <2>2, LinesInARow
    <2>4. QED
        BY <1>4, <2>1, <2>3
<1>6. ASSUME NEW g \in 1..Files PROVE size'[g] =< Len(text'[g]) * Width
    BY <1>1, <1>2, <1>3, <1>5 DEF NameInv
<1>7. ASSUME next # 0, NEW g \in 1..Files, g < next, cursor[g] = 0
      PROVE  offset[g] =< Len(text'[g]) * Width /\ Named(g, offset[g], name[g])'
    <2>1. offset[g] =< Len(text[g]) * Width /\ Named(g, offset[g], name[g])
        BY <1>7 DEF NameInv
    <2>2. CASE g # f
        <3>1. text'[g] = text[g]
            BY <1>1, <1>3, <2>2
        <3>2. QED
            BY <1>1, <2>1, <3>1 DEF Named, TitlesIn, Width
    <2>3. CASE g = f
        <3>1. ~(Len(text'[f]) * Width =< offset[f])
            BY <1>2, <1>5, <2>1, <2>3, StartType
        <3>2. \A k \in 1..Len(text'[f]) : k \in 1..Len(text[f]) \/ k = Len(text'[f])
            BY <1>2, <1>4
        <3>3. TitlesIn(f, offset[f])' = TitlesIn(f, offset[f])
            BY <1>1, <1>2, <1>4, <3>1, <3>2 DEF TitlesIn, Width
        <3>4. \A k \in TitlesIn(f, offset[f]) : text'[f][k] = text[f][k]
            BY <1>4 DEF TitlesIn
        <3>5. Named(f, offset[f], name[f])'
            BY <1>1, <2>1, <2>3, <3>3, <3>4 DEF Named
        <3>6. QED
            BY <1>2, <1>5, <2>1, <2>3, <3>5
    <2>4. QED
        BY <2>2, <2>3
<1>8. QED
    BY <1>1, <1>6, <1>7 DEF NameInv, Width

\* NameInv over the steps.
LEMMA NextNameInv == ReadInv /\ NameInv /\ [Next]_vars => NameInv'
<1> SUFFICES ASSUME ReadInv, NameInv, [Next]_vars PROVE NameInv'
    OBVIOUS
<1>1. TypeInv /\ TypeInv'
    BY NextTypes DEF ReadInv
<1>2. CASE Write
    <2>1. PICK f \in 1..Files, line \in Requests \cup Titles, bytes \in Pieces \cup {Width} :
              WriteLine(f, line, bytes)
        BY <1>2 DEF Write
    <2>2. QED
        BY <1>1, <2>1, WriteNames
<1>3. ASSUME NEW f \in 1..Files, FinishLine(f) PROVE NameInv'
    <2>1. /\ size' = [size EXCEPT ![f] = Len(text[f]) * Width]
          /\ UNCHANGED <<text, next, offset, name, cursor>>
        BY <1>3 DEF FinishLine, cycle, stored
    <2>2. \A g \in 1..Files : size'[g] =< Len(text[g]) * Width
        <3>1. Len(text[f]) * Width \in Nat /\ DOMAIN size = 1..Files
            <4>1. Len(text[f]) \in Nat /\ DOMAIN size = 1..Files
                BY <1>1, TypedTranscripts DEF TypeInv, TypeOK
            <4>2. QED
                BY <4>1, LinesInARow
        <3>2. QED
            BY <2>1, <3>1 DEF NameInv
    <2>3. QED
        BY <2>1, <2>2 DEF NameInv, Named, TitlesIn, Width
<1>4. CASE StartCycle
    <2>1. next' = 1 /\ UNCHANGED <<text, size>>
        BY <1>4 DEF StartCycle, transcripts
    <2>2. \A f \in 1..Files : ~(f < next')
        BY <2>1
    <2>3. QED
        BY <2>1, <2>2 DEF NameInv, Width
<1>5. CASE ReadFile
    BY <1>1, <1>5, ReadFileNames
<1>6. CASE EndCycle \/ FailCycle
    <2>1. next' = 0 /\ UNCHANGED <<text, size>>
        BY <1>6 DEF EndCycle, FailCycle, transcripts
    <2>2. QED
        BY <2>1 DEF NameInv, Width
<1>7. CASE UNCHANGED vars
    BY <1>7 DEF vars, transcripts, cycle, stored, NameInv, Named, TitlesIn, Width
<1>8. QED
    BY <1>2, <1>3, <1>4, <1>5, <1>6, <1>7 DEF Next, Read

\* What a cycle stores of a file it has read from the beginning, it stores under
\* the name the file had.
LEMMA EndCycleNames ==
    ASSUME ReadInv, NameInv, EndCycle, NEW r \in Requests,
           emitted'[r] > emitted[r], cursor[FileOf[r]] = 0
    PROVE  \/ TitleLines(r) = {} /\ label'[r] = None
           \/ \E k \in TitleLines(r) : /\ \A j \in TitleLines(r) : j =< k
                                       /\ label'[r] = text[FileOf[r]][k]
<1> DEFINE f == FileOf[r]
           B == {k \in found[f] : text[f][k] = r}
<1>1. /\ next = Files + 1 /\ next # 0 /\ cursor' = offset /\ f \in 1..Files /\ f < next
      /\ emitted'[r] = emitted[r] + Cardinality(B)
      /\ label'[r] = IF B = {} THEN label[r] ELSE name[f]
    BY LinesAssumption, SizesAssumption DEF EndCycle
<1>2. Named(f, offset[f], name[f])
    BY <1>1 DEF NameInv
<1>3. B # {}
    <2>1. SUFFICES ASSUME B = {} PROVE FALSE
        OBVIOUS
    <2>2. Cardinality(B) = 0 /\ emitted[r] \in Nat
        BY <2>1, FS_EmptySet DEF ReadInv, TypeInv, TypeOK
    <2>3. QED
        BY <1>1, <2>2
<1>4. TitleLines(r) = TitlesIn(f, offset[f])
    BY <1>1 DEF TitleLines, TitlesIn
<1>5. QED
    BY <1>1, <1>2, <1>3, <1>4 DEF Named

\* Whatever Claude Code has written when a file is read from its beginning, and
\* whatever it writes before the cycle ends, the events of that reading are stored
\* under the newest title that was complete behind the new cursor.
THEOREM AFreshReadIsNamed == Spec => FreshReadIsNamed
<1>1. Init => NameInv
    <2>1. Init => next = 0 /\ \A f \in 1..Files : size[f] = 0 /\ Len(text[f]) = 0
        BY EmptySeq DEF Init
    <2>2. 0 * Width = 0
        BY StartType
    <2>3. QED
        BY <2>1, <2>2 DEF NameInv
<1>2. ReadInv /\ NameInv /\ [Next]_vars
      => [\A r \in Requests :
            emitted'[r] > emitted[r] /\ cursor[FileOf[r]] = 0 =>
               \/ TitleLines(r) = {} /\ label'[r] = None
               \/ \E k \in TitleLines(r) : /\ \A j \in TitleLines(r) : j =< k
                                           /\ label'[r] = text[FileOf[r]][k]]_vars
    <2> SUFFICES ASSUME ReadInv, NameInv, [Next]_vars, NEW r \in Requests,
                        emitted'[r] > emitted[r], cursor[FileOf[r]] = 0
                 PROVE  \/ TitleLines(r) = {} /\ label'[r] = None
                        \/ \E k \in TitleLines(r) : /\ \A j \in TitleLines(r) : j =< k
                                                    /\ label'[r] = text[FileOf[r]][k]
        OBVIOUS
    <2>1. EndCycle
        <3>1. EndCycle \/ emitted' = emitted
            BY DEF Next, Write, Read, WriteLine, FinishLine, StartCycle, ReadFile,
               FailCycle, vars, stored
        <3>2. emitted[r] \in Nat
            BY DEF ReadInv, TypeInv, TypeOK
        <3>3. QED
            BY <3>1, <3>2
    <2>2. QED
        BY <2>1, EndCycleNames
<1>3. QED
    BY <1>1, <1>2, InitReadInv, NextReadInv, NextNameInv, PTL
    DEF Spec, FreshReadIsNamed
=============================================================================
