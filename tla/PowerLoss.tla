------------------------------ MODULE PowerLoss -----------------------------
(***************************************************************************)
(* The exporter on a machine that may lose power.  A crash of the process  *)
(* leaves every byte that write(2) accepted; a power failure only those    *)
(* that were synced.  AppendBatch syncs samples.log before it returns.     *)
(* Save replaces ingest_state.json by a rename and syncs nothing.          *)
(*                                                                         *)
(* After a power failure the log is the one of the last fsync, with any    *)
(* part of what was written since.  The checkpoint is any of those saved   *)
(* since the last failure, or the one before them, or an empty file: the   *)
(* rename may reach the disk before the data of the file it renames.  Load *)
(* cannot parse an empty file, so that neither serve nor backfill starts.  *)
(***************************************************************************)
EXTENDS Exporter

VARIABLES
    synced,     \* samples.log as the last fsync left it: lines and open
    images,     \* what ingest_state.json may be after a power failure
    unreadable, \* ingest_state.json is the empty file
    harmed      \* a line was torn or a backfill forced: see TornTail

power == <<synced, images, unreadable, harmed>>

Image(events, done) == [events |-> events, done |-> done, empty |-> FALSE]
EmptyFile           == [events |-> {}, done |-> FALSE, empty |-> TRUE]
NoFile              == Image({}, FALSE)

PowerInit ==
    /\ Init
    /\ synced = [lines |-> log, open |-> open]
    /\ images = {NoFile} /\ unreadable = FALSE /\ harmed = FALSE

\* Load succeeds in these only if there is a file that parses, or none.
Start ==
    /\ ~unreadable
    /\ \/ RunServe /\ UNCHANGED harmed
       \/ Backfill /\ harmed' = (harmed \/ backfilled)
    /\ UNCHANGED <<synced, images, unreadable>>

\* Mutant of Synced: AppendBatch flushes its buffer and leaves it at that.
FlushedOnly == AppendDone /\ UNCHANGED synced

\* The fsync at the end of AppendBatch.
Synced == AppendDone /\ synced' = [lines |-> log, open |-> open]

\* The rename replaces the file for every process at once, and on the disk at
\* some later time.
Renamed ==
    /\ SaveCheckpoint
    /\ images' = images \cup {Image(cpDisk', TRUE), EmptyFile}

\* Everything else is what it was; it may tear a line (open').
Otherwise ==
    \/ \E e \in Events : WriteTranscript(e)
    \/ Tick \/ Collect \/ AppendLine \/ AppendRefused \/ Stop
    \/ CollectFails \/ WriteFails \/ FsyncFails \/ SaveFails \/ Crash

\* What a power failure may leave of samples.log.
LeavesLog ==
    \/ log' = synced.lines /\ open' = synced.open
    \/ \E n \in Len(synced.lines)..Len(log) :
          /\ log' = SubSeq(log, 1, n)
          /\ open' = (open /\ n = Len(log))
    \/ /\ "tear" \in Faults
       /\ \E n \in Len(synced.lines)..(Len(log) - 1), whole \in BOOLEAN :
             log' = Append(SubSeq(log, 1, n),
                           [log[n + 1] EXCEPT !.ok = whole /\ @])
       /\ open' = TRUE

\* The machine goes down and comes up again: what the disk holds is now all
\* there is.
PowerFails ==
    /\ faults < MaxFaults /\ faults' = faults + 1
    /\ LeavesLog
    /\ synced' = [lines |-> log', open |-> open']
    /\ \E i \in images :
          /\ cpDisk' = i.events /\ backfilled' = i.done
          /\ unreadable' = i.empty
          /\ images' = {i}
    /\ harmed' = (harmed \/ open')
    /\ Exit
    /\ UNCHANGED written

\* Somebody deletes the empty file, the only way out.
DeleteCheckpoint ==
    /\ unreadable
    /\ unreadable' = FALSE
    /\ images' = images \cup {NoFile}
    /\ UNCHANGED <<vars, synced, harmed>>

PowerNext ==
    \/ Start
    \/ Synced /\ UNCHANGED <<images, unreadable, harmed>>
    \/ Renamed /\ UNCHANGED <<synced, unreadable, harmed>>
    \/ Otherwise /\ harmed' = (harmed \/ open')
                 /\ UNCHANGED <<synced, images, unreadable>>
    \/ PowerFails
    \/ DeleteCheckpoint

PowerSpec == PowerInit /\ [][PowerNext]_<<vars, power>>

-----------------------------------------------------------------------------
\* No usage is lost to a power failure either, whichever checkpoint comes back
\* with whichever part of the log: AppendBatch's fsync comes before Save.
CheckpointSurvivesPower == ~harmed => CheckpointIsCounted
=============================================================================
