----------------------------- MODULE Transcripts ----------------------------
(***************************************************************************)
(* The Claude Code transcripts and the reader that follows them.  A        *)
(* transcript is a JSONL file that Claude Code appends to at any time, in  *)
(* one write or in several; ReadNewEvents visits every file in turn, seeks *)
(* to the byte offset the checkpoint holds for it and scans to the end of  *)
(* what is there.  The offsets are kept if the rest of the cycle succeeds. *)
(*                                                                         *)
(* Data abstraction.  Every line is Content bytes and a newline.  A line   *)
(* is a block of an assistant response (identified by its request), or a   *)
(* custom-title line of the file's session.  A piece of a line is not JSON *)
(* and is skipped as malformed; the whole content without its newline is   *)
(* JSON already.                                                           *)
(***************************************************************************)
EXTENDS Naturals, Sequences, FiniteSets

CONSTANTS
    Requests,   \* request ids of the assistant responses
    Titles,     \* names the user may give the sessions
    Files,      \* how many transcripts there are; visited as 1..Files
    FileOf,     \* the transcript each response is written to
    Content,    \* bytes of a line before its newline
    Pieces,     \* how many bytes of a line one write may stop after
    MaxLines,   \* bound on the lines of each transcript
    MaxFails    \* bound on the cycles that fail after reading

ASSUME SizesAssumption ==
    /\ Files \in Nat /\ Content \in Nat \ {0}
    /\ Pieces \subseteq 1..Content
    /\ MaxLines \in [1..Files -> Nat] /\ MaxFails \in Nat
ASSUME LinesAssumption ==
    FileOf \in [Requests -> 1..Files] /\ Requests \cap Titles = {}

VARIABLES
    text,     \* the lines of each transcript, the one being written included
    size,     \* bytes of it that are on disk
    cursor,   \* ClaudeCodeFileCursors of the checkpoint
    next,     \* the file ReadNewEvents visits next, 0 between two cycles
    offset,   \* newCursors of the running cycle
    found,    \* the lines that became events in the running cycle
    name,     \* titleBySession of the running cycle
    emitted,  \* how many events of each request have been stored
    label,    \* the session_name the last of them was stored with
    fails

transcripts == <<text, size>>
cycle       == <<next, offset, found, name>>
stored      == <<cursor, emitted, label>>
vars        == <<transcripts, cycle, stored, fails>>

None == "no title"

Width    == Content + 1
Start(k) == (k - 1) * Width

\* Line k of file f has reached the disk with its newline.
Complete(f, k) == k \in 1..Len(text[f]) /\ k * Width =< size[f]

-----------------------------------------------------------------------------
(* readNewEventsFromFile                                                   *)

\* Mutant of Advance: bytesRead starts at 0 instead of the offset.
AdvanceFromZero(c, n) ==
    IF c >= n THEN 0
    ELSE IF n % Width = 0 THEN n - c ELSE n + 1 - c

\* bytesRead: every token counts one byte more than it has, for the newline.
Advance(c, n) ==
    IF c >= n THEN c
    ELSE IF n % Width = 0 THEN n ELSE n + 1

\* The tokens that are whole lines when the scan goes from c to n.
Scanned(f, c, n) ==
    {k \in 1..Len(text[f]) : c =< Start(k) /\ Start(k) + Content =< n}

\* Mutant of FirstBlocks: the last block of a response becomes the event, and
\* only when another line follows it.
ClosedBlocks(f, lines) ==
    {k \in lines : text[f][k] \in Requests
                   /\ \E j \in lines : j > k /\ text[f][j] # text[f][k]}

\* Mutant of FirstBlocks: a block is dropped only if it repeats the line before.
RepeatedBlocks(f, lines) ==
    {k \in lines : text[f][k] \in Requests
                   /\ \A j \in lines : j = k - 1 => text[f][j] # text[f][k]}

\* seenRequestIDs: the first block of each response becomes the event.
FirstBlocks(f, lines) ==
    {k \in lines : text[f][k] \in Requests
                   /\ \A j \in lines : j < k => text[f][j] # text[f][k]}

\* Mutant of LastTitle: the first one does.
FirstTitle(f, lines) ==
    LET titled == {k \in lines : text[f][k] \in Titles}
    IN  IF titled = {} THEN None
        ELSE text[f][CHOOSE k \in titled : \A j \in titled : k =< j]

\* Mutant of LastTitle: the kind of the line is not looked at.
LastLine(f, lines) ==
    IF lines = {} THEN None
    ELSE text[f][CHOOSE k \in lines : \A j \in lines : j =< k]

\* dedupTitles: the last title line wins.
LastTitle(f, lines) ==
    LET titled == {k \in lines : text[f][k] \in Titles}
    IN  IF titled = {} THEN None
        ELSE text[f][CHOOSE k \in titled : \A j \in titled : j =< k]

-----------------------------------------------------------------------------
Init ==
    /\ text = [f \in 1..Files |-> <<>>] /\ size = [f \in 1..Files |-> 0]
    /\ cursor = [f \in 1..Files |-> 0]
    /\ next = 0 /\ offset = cursor /\ found = [f \in 1..Files |-> {}]
    /\ name = [f \in 1..Files |-> None]
    /\ emitted = [r \in Requests |-> 0] /\ label = [r \in Requests |-> None]
    /\ fails = 0

\* Claude Code starts a line: a further block of a response, or the title of
\* the session.  The write may stop before the end of the line.
WriteLine(f, line, bytes) ==
    /\ size[f] = Len(text[f]) * Width /\ Len(text[f]) < MaxLines[f]
    /\ text' = [text EXCEPT ![f] = Append(@, line)]
    /\ size' = [size EXCEPT ![f] = @ + bytes]
    /\ UNCHANGED <<cycle, stored, fails>>

\* The rest of the line follows.
FinishLine(f) ==
    /\ size[f] < Len(text[f]) * Width
    /\ size' = [size EXCEPT ![f] = Len(text[f]) * Width]
    /\ UNCHANGED <<text, cycle, stored, fails>>

StartCycle ==
    /\ next = 0
    /\ next' = 1
    /\ offset' = cursor /\ found' = [f \in 1..Files |-> {}]
    /\ name' = [f \in 1..Files |-> None]
    /\ UNCHANGED <<transcripts, stored, fails>>

ReadFile ==
    /\ next \in 1..Files
    /\ LET f     == next
           lines == Scanned(f, offset[f], size[f])
       IN  /\ found' = [found EXCEPT ![f] = FirstBlocks(f, lines)]
           /\ name' = [name EXCEPT ![f] = LastTitle(f, lines)]
           /\ offset' = [offset EXCEPT ![f] = Advance(@, size[f])]
    /\ next' = next + 1
    /\ UNCHANGED <<transcripts, stored, fails>>

\* The events are stored with the titles of this cycle, and the offsets are
\* saved with them (Exporter says what can come between the two).
EndCycle ==
    /\ next = Files + 1
    /\ next' = 0
    /\ cursor' = offset
    /\ LET blocks(r) == {k \in found[FileOf[r]] : text[FileOf[r]][k] = r}
       IN  /\ emitted' = [r \in Requests |-> emitted[r] + Cardinality(blocks(r))]
           /\ label' = [r \in Requests |-> IF blocks(r) = {} THEN label[r]
                                           ELSE name[FileOf[r]]]
    /\ UNCHANGED <<transcripts, offset, found, name, fails>>

\* Mutant of FailCycle: the offsets are kept although the events are not.
FailCycleKeepsOffsets ==
    /\ next # 0 /\ fails < MaxFails
    /\ next' = 0
    /\ fails' = fails + 1
    /\ cursor' = offset
    /\ UNCHANGED <<transcripts, offset, found, name, emitted, label>>

\* Something in the cycle fails, a file or the quota poll: nothing is kept.
FailCycle ==
    /\ next # 0 /\ fails < MaxFails
    /\ next' = 0
    /\ fails' = fails + 1
    /\ UNCHANGED <<transcripts, offset, found, name, stored>>

-----------------------------------------------------------------------------
Write ==
    \E f \in 1..Files, bytes \in Pieces \cup {Width} :
        \/ \E r \in Requests : FileOf[r] = f /\ WriteLine(f, r, bytes)
        \/ \E t \in Titles : WriteLine(f, t, bytes)

Read == StartCycle \/ ReadFile \/ EndCycle

Next ==
    \/ Write
    \/ \E f \in 1..Files : FinishLine(f)
    \/ Read
    \/ FailCycle

\* The ticker keeps starting cycles and each of them runs to its end; nothing
\* makes Claude Code write, or finish, a line.
Spec == Init /\ [][Next]_vars /\ WF_vars(Read)

-----------------------------------------------------------------------------
\* The type invariant.
TypeOK ==
    /\ text \in [1..Files -> Seq(Requests \cup Titles)]
    /\ size \in [1..Files -> Nat] /\ cursor \in [1..Files -> Nat]
    /\ next \in 0..(Files + 1) /\ offset \in [1..Files -> Nat]
    /\ found \in [1..Files -> SUBSET Nat]
    /\ \A f \in 1..Files : found[f] \subseteq 1..MaxLines[f]
    /\ name \in [1..Files -> Titles \cup {None}]
    /\ emitted \in [Requests -> Nat] /\ label \in [Requests -> Titles \cup {None}]
    /\ fails \in 0..MaxFails

Blocks(r) == {k \in 1..Len(text[FileOf[r]]) : text[FileOf[r]][k] = r}

\* No line is read twice: a response never gives more events than it has
\* lines, however the scans, the writes and the failed cycles interleave.
NoLineTwice == \A r \in Requests : emitted[r] =< Cardinality(Blocks(r))

\* No line is passed over: a response with a complete line behind the cursor
\* has been stored.
NoLinePassedOver ==
    \A r \in Requests :
        (\E k \in Blocks(r) : k * Width =< cursor[FileOf[r]] /\ Complete(FileOf[r], k))
        => emitted[r] >= 1

\* However many blocks of a response one scan meets, whole, without their last
\* newline or apart from each other, they give one event.  Blocks met by two
\* scans give two.
OneEventPerScan == [][\A r \in Requests : emitted'[r] =< emitted[r] + 1]_vars

\* Every response with a complete line is eventually stored.
EventuallyStored ==
    \A r \in Requests :
        (\E k \in Blocks(r) : Complete(FileOf[r], k)) ~> emitted[r] >= 1

\* The title lines of r's session that are behind the cursors just saved.
TitleLines(r) ==
    {k \in 1..Len(text[FileOf[r]]) :
        text[FileOf[r]][k] \in Titles /\ k * Width =< cursor'[FileOf[r]]}

\* An event read from a transcript in one go (a backfill, a new session) has
\* the newest title that was complete when the file was visited.
FreshReadIsNamed ==
    [][\A r \in Requests :
          emitted'[r] > emitted[r] /\ cursor[FileOf[r]] = 0 =>
             \/ TitleLines(r) = {} /\ label'[r] = None
             \/ \E k \in TitleLines(r) : /\ \A j \in TitleLines(r) : j =< k
                                         /\ label'[r] = text[FileOf[r]][k]]_vars
=============================================================================
