-------------------------- MODULE CopilotSessions ---------------------------
(***************************************************************************)
(* The reader of Copilot CLI sessions inside the ingest loop.  A session   *)
(* is a directory: events.jsonl, whose "session.shutdown" lines carry the  *)
(* usage, and workspace.yaml, whose name a user may set or change at any   *)
(* time.  A session is read as a whole, once, and then remembered in the   *)
(* read-set of the checkpoint; until its shutdown line is there, every     *)
(* cycle visits it again.                                                  *)
(*                                                                         *)
(* Data abstraction.  A line that is not complete does not decode and is   *)
(* as good as absent, so lines come whole; other lines carry nothing.  The *)
(* usage of a session's n-th shutdown line is n, its n-th name is n; a     *)
(* name cut off while workspace.yaml is rewritten is as good as none.  How *)
(* the log and the accumulator keep what is stored is Exporter's subject.  *)
(***************************************************************************)
EXTENDS Naturals, Sequences

CONSTANTS
    Sessions,     \* natural numbers, in the order of their names
    MaxShutdowns, \* bound on the shutdown lines of a session
    MaxNames,     \* bound on its names
    MaxUpsets     \* bound on crashes, failed saves and failed cycles

ASSUME SessionsAssumption == Sessions \subseteq Nat
ASSUME BoundsAssumption   == {MaxShutdowns, MaxNames, MaxUpsets} \subseteq Nat

Event == [usage : 1..MaxShutdowns, name : 0..MaxNames]

VARIABLES
    dirs,      \* the session directories
    undated,   \* those whose start line has no readable time
    shutdowns, \* how many shutdown lines each session has
    name,      \* the name it has; 0 is none
    pc,        \* "idle", "title", "session", "append" or "save"
    todo,      \* listed sessions the cycle has yet to visit
    titles,    \* the names the cycle has found
    untitled,  \* the sessions whose name it could not read
    found,     \* the usage of the sessions it has parsed; 0 is none
    read,      \* CopilotReadSessions: of the loop,
    newRead,   \*   of the cycle,
    saved,     \*   on disk
    stored,    \* what the log has of each session, in order
    upsets,
    atStart,   \* what was there when the cycle began
    resumed    \* the sessions shut down again since a cycle read them

files == <<dirs, undated, shutdowns, name>>
cycle == <<pc, todo, titles, untitled, found, newRead, atStart>>
vars  == <<files, cycle, read, saved, stored, upsets, resumed>>

Nothing == [s \in Sessions |-> 0]
First   == CHOOSE s \in todo : \A t \in todo : s =< t

Upset == upsets < MaxUpsets /\ upsets' = upsets + 1

\* The cycle ends, and nothing of it is kept.
Drop ==
    /\ pc' = "idle" /\ todo' = {} /\ newRead' = {} /\ untitled' = {}
    /\ titles' = Nothing /\ found' = Nothing
    /\ atStart' = [shutdowns |-> Nothing, name |-> Nothing]

-----------------------------------------------------------------------------
Init ==
    /\ dirs = {} /\ undated = {} /\ shutdowns = Nothing /\ name = Nothing
    /\ pc = "idle" /\ todo = {} /\ titles = Nothing /\ found = Nothing
    /\ untitled = {} /\ resumed = {}
    /\ read = {} /\ newRead = {} /\ saved = {}
    /\ stored = [s \in Sessions |-> <<>>] /\ upsets = 0
    /\ atStart = [shutdowns |-> Nothing, name |-> Nothing]

(* The Copilot CLI and its user. *)

StartSession(s) ==
    /\ s \notin dirs
    /\ dirs' = dirs \cup {s}
    /\ undated' \in {undated, undated \cup {s}}
    /\ UNCHANGED <<shutdowns, name, cycle, read, saved, stored, upsets,
                   resumed>>

\* The session is shut down, for the first time or after it was resumed.
ShutDown(s) ==
    /\ s \in dirs /\ shutdowns[s] < MaxShutdowns
    /\ shutdowns' = [shutdowns EXCEPT ![s] = @ + 1]
    /\ resumed' = resumed \cup ({s} \cap (newRead \cup read))
    /\ UNCHANGED <<dirs, undated, name, cycle, read, saved, stored, upsets>>

SetName(s) ==
    /\ s \in dirs /\ name[s] < MaxNames
    /\ name' = [name EXCEPT ![s] = @ + 1]
    /\ UNCHANGED <<dirs, undated, shutdowns, cycle, read, saved, stored,
                   upsets, resumed>>

-----------------------------------------------------------------------------
(* One cycle of the ingest loop.                                           *)

\* ReadNewEvents copies the read-set and lists the directory.
StartCycle ==
    /\ pc = "idle"
    /\ pc' = IF dirs = {} THEN "append" ELSE "title"
    /\ todo' = dirs /\ newRead' = read
    /\ atStart' = [shutdowns |-> shutdowns, name |-> name]
    /\ UNCHANGED <<titles, untitled, found, files, read, saved, stored,
                   upsets, resumed>>

\* parseTitle of the next session, read before or not.  workspace.yaml may be
\* unreadable, or malformed while it is rewritten: no title, and the cycle goes on.
ReadTitle ==
    /\ pc = "title"
    /\ \/ titles' = [titles EXCEPT ![First] = name[First]] /\ UNCHANGED untitled
       \/ untitled' = untitled \cup {First} /\ UNCHANGED titles
    /\ pc' = "session"
    /\ UNCHANGED <<todo, found, newRead, atStart, files, read, saved, stored,
                   upsets, resumed>>

\* Mutant of Parsed: the first shutdown line counts.
FirstShutdown(s) == IF s \in undated \/ shutdowns[s] = 0 THEN 0 ELSE 1


\* parseSession: the last shutdown line counts; 0 if there is no event.
Parsed(s) == IF s \in undated THEN 0 ELSE shutdowns[s]

\* Mutant of ReadSession: a session that gave an event is not marked.
ReadSessionMarksNone ==
    /\ pc = "session"
    /\ todo' = todo \ {First}
    /\ pc' = IF todo' = {} THEN "append" ELSE "title"
    /\ found' = IF First \in newRead THEN found
                ELSE [found EXCEPT ![First] = Parsed(First)]
    /\ resumed' = resumed \ {First}
    /\ UNCHANGED <<titles, untitled, newRead, atStart, files, read, saved,
                   stored, upsets>>

\* The rest of its visit: skipped if read, retried later if there is no event.
ReadSession ==
    /\ pc = "session"
    /\ todo' = todo \ {First}
    /\ pc' = IF todo' = {} THEN "append" ELSE "title"
    /\ \/ /\ First \notin newRead /\ Parsed(First) # 0
          /\ found' = [found EXCEPT ![First] = Parsed(First)]
          /\ newRead' = newRead \cup {First}
          /\ resumed' = resumed \ {First}
       \/ /\ First \in newRead \/ Parsed(First) = 0
          /\ UNCHANGED <<found, newRead, resumed>>
    /\ UNCHANGED <<titles, untitled, atStart, files, read, saved, stored,
                   upsets>>

Found == {s \in Sessions : found[s] # 0}

\* The events of these sessions, joined with their names, are in the log.
Store(S) ==
    stored' = [s \in Sessions |->
                  IF s \in S
                  THEN Append(stored[s], [usage |-> found[s], name |-> titles[s]])
                  ELSE stored[s]]

\* Mutant of AppendEvents: sessions that gave no event are stored too.
AppendAll ==
    /\ pc = "append"
    /\ Store(Sessions)
    /\ read' = newRead
    /\ pc' = "save"
    /\ UNCHANGED <<todo, titles, untitled, found, newRead, atStart, files,
                   saved, upsets, resumed>>

\* The whole batch is stored, and the loop takes the read-set over.
AppendEvents ==
    /\ pc = "append"
    /\ Store(Found)
    /\ read' = newRead
    /\ pc' = "save"
    /\ UNCHANGED <<todo, titles, untitled, found, newRead, atStart, files,
                   saved, upsets, resumed>>

\* An append that fails or dies leaves any part of its lines in the log, after a
\* failed fsync all of them.  A session counts as stored by its first line.
LeavesLines ==
    \/ UNCHANGED stored
    \/ pc = "append" /\ \E S \in SUBSET Found : Store(S)

SaveReadSessions == pc = "save" /\ saved' = read /\ Drop
                    /\ UNCHANGED <<files, read, stored, upsets, resumed>>

\* The loop goes on with the read-set in memory.
SaveFails == pc = "save" /\ Upset /\ Drop
             /\ UNCHANGED <<files, read, saved, stored, resumed>>

\* Mutant of CycleFails: what the cycle has read stays marked.
CycleFailsKeepsRead ==
    /\ pc \in {"session", "append"} /\ Upset /\ read' = newRead /\ Drop /\ LeavesLines
    /\ UNCHANGED <<files, saved, resumed>>

\* A transcript cannot be read, the quota poll or the append fails.
CycleFails == pc \in {"session", "append"} /\ Upset /\ Drop /\ LeavesLines
              /\ UNCHANGED <<files, read, saved, resumed>>

\* The process dies and is started again: Load.
Restart == Upset /\ Drop /\ LeavesLines /\ read' = saved
           /\ UNCHANGED <<files, saved, resumed>>

-----------------------------------------------------------------------------
Cycle == StartCycle \/ ReadTitle \/ ReadSession \/ AppendEvents \/ SaveReadSessions

Next ==
    \/ \E s \in Sessions : StartSession(s) \/ ShutDown(s) \/ SetName(s)
    \/ Cycle \/ SaveFails \/ CycleFails \/ Restart

\* The ticker starts one cycle after the other, and a cycle runs to its end.
Spec == Init /\ [][Next]_vars /\ WF_vars(Cycle)

-----------------------------------------------------------------------------
\* The type invariant.
TypeOK ==
    /\ dirs \subseteq Sessions /\ undated \subseteq dirs
    /\ shutdowns \in [Sessions -> 0..MaxShutdowns]
    /\ name \in [Sessions -> 0..MaxNames]
    /\ pc \in {"idle", "title", "session", "append", "save"}
    /\ todo \subseteq dirs
    /\ titles \in [Sessions -> 0..MaxNames] /\ untitled \subseteq dirs
    /\ found \in [Sessions -> 0..MaxShutdowns]
    /\ newRead \subseteq dirs /\ read \subseteq dirs /\ saved \subseteq dirs
    /\ stored \in [Sessions -> Seq(Event)]
    /\ upsets \in 0..MaxUpsets
    /\ atStart \in [shutdowns : [Sessions -> 0..MaxShutdowns],
                    name : [Sessions -> 0..MaxNames]]
    /\ resumed \subseteq dirs

\* A session that will not be read again has its usage in the log, whether the
\* loop remembers it or a restart will.
ReadIsStored == \A s \in read \cup saved : stored[s] # <<>>

\* A session is stored once, and again only for a crash or a failed save.
StoredOncePerUpset == \A s \in Sessions : Len(stored[s]) =< 1 + upsets

\* What a cycle is about to store is no older than the cycle: the last shutdown
\* and the name that were there when it began are not missed, unless the name
\* could not be read when the cycle came by.
StoresNothingStale ==
    pc = "append" => \A s \in Sessions : found[s] # 0 =>
        /\ found[s] >= atStart.shutdowns[s]
        /\ s \in untitled \/ titles[s] >= atStart.name[s]

\* The usage that the log has of a session that is not read again is all that the
\* session has, unless it was resumed and shut down again since it was read: no
\* failure, restart or shutdown during a cycle makes any other session fall short.
OnlyResumedIsShort ==
    \A s \in read :
        stored[s][Len(stored[s])].usage = shutdowns[s] <=> s \notin resumed

\* Each session that shuts down is stored and remembered in the end, whatever
\* runs beside it, if its start can be dated.
EventuallyStored ==
    \A s \in Sessions :
        shutdowns[s] > 0 /\ s \notin undated ~> stored[s] # <<>> /\ s \in saved
=============================================================================
