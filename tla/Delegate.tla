------------------------------ MODULE Delegate ------------------------------
(***************************************************************************)
(* The quota of agy, polled by serve in every cycle and by each delegate   *)
(* before its task.  agy is a subprocess that may answer, fail or hang for *)
(* ever: on an exhausted quota a task has been seen to.  Only the timeout  *)
(* of execCommandRunner ends such a call.  It kills the one process that   *)
(* was started: a child that agy leaves behind keeps the standard output   *)
(* open, and the caller waiting for its end, timeout or not.               *)
(*                                                                         *)
(* agy is external: it keeps, for each group of models, buckets of quota   *)
(* that tasks and other users spend and that are refilled.  A level is a   *)
(* remaining fraction, as far as ChooseModel and agy tell them apart.      *)
(***************************************************************************)
EXTENDS Naturals, Sequences, FiniteSets

CONSTANTS
    Delegates,  \* the delegate commands, a process each
    BucketOf,   \* the group of each bucket, in the order agy lists them
    Gemini,     \* the group named "Gemini Models"
    Other,      \* the group whose models stand in when it runs low
    Low,        \* the levels below this one are under lowQuotaThreshold
    Full,       \* the level of a refilled bucket; an empty one has level 0
    Renames     \* what an update of agy may rename in its answer

Groups  == {Gemini, Other}
Buckets == DOMAIN BucketOf
Levels  == 0..Full
NoGauge == Full + 1

ASSUME BucketsAssumption == BucketOf \in Seq(Groups) /\ Gemini # Other
ASSUME LevelsAssumption  == Low \in Nat /\ Full \in Nat /\ Low =< Full
Callers == Delegates \cup {"serve"}

ASSUME DelegatesAssumption == "serve" \notin Delegates
ASSUME RenamesAssumption == Renames \subseteq {"groups", "remaining_fraction"}

VARIABLES
    left,    \* the level of each bucket
    renamed, \* what an update has renamed so far
    pc,      \* of each delegate
    model,   \* the group of the model it runs
    held,    \* the callers whose agy left a child that holds its output open
    cycle,   \* serve is polling, or waits for its next cycle
    gauge,   \* aitokens_quota_remaining_ratio of each group, from the index
    fresh    \* agy's answer has not changed since serve stored it

delegates == <<pc, model>>
vars      == <<left, renamed, delegates, held, cycle, gauge, fresh>>

-----------------------------------------------------------------------------
\* The snapshots FetchQuota makes of an answer: one per bucket.  What it does
\* not find has no element, or the value zero; neither is an error.
Snapshots ==
    IF "groups" \in renamed THEN <<>>
    ELSE [i \in Buckets |->
             [group |-> BucketOf[i],
              level |-> IF "remaining_fraction" \in renamed THEN 0 ELSE left[i]]]

Last(group, snapshots) ==
    {i \in DOMAIN snapshots :
        /\ snapshots[i].group = group
        /\ \A j \in DOMAIN snapshots : snapshots[j].group = group => j =< i}

\* Mutant of ChooseModel: the first snapshot of the group decides.
ChooseByFirst(snapshots) ==
    IF \E i \in DOMAIN snapshots :
          /\ snapshots[i].group = Gemini /\ snapshots[i].level < Low
          /\ \A j \in DOMAIN snapshots : snapshots[j].group = Gemini => i =< j
    THEN Other ELSE Gemini

\* ChooseModel: the last snapshot of the Gemini group decides, if there is one.
ChooseModel(snapshots) ==
    IF \E i \in Last(Gemini, snapshots) : snapshots[i].level < Low
    THEN Other ELSE Gemini

\* Mutant of Gauges: they are added up in the accumulator like counters.
GaugesAddUp(snapshots) ==
    [g \in Groups |->
        IF Last(g, snapshots) = {} THEN gauge[g]
        ELSE gauge[g] + snapshots[CHOOSE i \in Last(g, snapshots) : TRUE].level]

\* Quota samples of one poll have one timestamp and keep their order; in the
\* index the last one of a series replaces the others.
Gauges(snapshots) ==
    [g \in Groups |->
        IF Last(g, snapshots) = {} THEN gauge[g]
        ELSE snapshots[CHOOSE i \in Last(g, snapshots) : TRUE].level]

Exhausted(group) == \E i \in Buckets : BucketOf[i] = group /\ left[i] = 0

\* A task counts against every bucket of its group.
Spend(group) ==
    left' = [i \in Buckets |-> IF BucketOf[i] = group THEN left[i] - 1 ELSE left[i]]

-----------------------------------------------------------------------------
Init ==
    /\ left \in [Buckets -> Levels]
    /\ renamed = {}
    /\ pc = [d \in Delegates |-> "todo"] /\ model = [d \in Delegates |-> Gemini]
    /\ cycle = "waits" /\ held = {}
    /\ gauge = [g \in Groups |-> NoGauge] /\ fresh = FALSE

(***************************************************************************)
(* agy and its other users.                                                *)
(***************************************************************************)
SpendElsewhere(group) ==
    /\ ~Exhausted(group)
    /\ Spend(group)
    /\ fresh' = FALSE
    /\ UNCHANGED <<renamed, delegates, held, cycle, gauge>>

Refill(i) ==
    /\ left' = [left EXCEPT ![i] = Full]
    /\ left' # left
    /\ fresh' = FALSE
    /\ UNCHANGED <<renamed, delegates, held, cycle, gauge>>

Rename(field) ==
    /\ field \in Renames \ renamed
    /\ renamed' = renamed \cup {field}
    /\ fresh' = FALSE
    /\ UNCHANGED <<left, delegates, held, cycle, gauge>>

\* agy is at work for this caller.
Calls(c) == IF c = "serve" THEN cycle = "polls" ELSE pc[c] \in {"polls", "runs"}

LeaveChild(c) ==
    /\ Calls(c) /\ c \notin held
    /\ held' = held \cup {c}
    /\ UNCHANGED <<left, renamed, delegates, cycle, gauge, fresh>>

ChildEnds(c) ==
    /\ c \in held
    /\ held' = held \ {c}
    /\ UNCHANGED <<left, renamed, delegates, cycle, gauge, fresh>>

(***************************************************************************)
(* serve.  A cycle whose poll fails stores nothing; see Exporter.          *)
(***************************************************************************)
StartCycle ==
    /\ cycle = "waits"
    /\ cycle' = "polls"
    /\ UNCHANGED <<left, renamed, delegates, held, gauge, fresh>>

CyclePolled ==
    /\ cycle = "polls" /\ "serve" \notin held
    /\ cycle' = "waits"
    /\ gauge' = Gauges(Snapshots)
    /\ fresh' = TRUE
    /\ UNCHANGED <<left, renamed, delegates, held>>

\* agy ends with an error or an answer that is not JSON, or quotaTimeout ends it.
CycleFails ==
    /\ cycle = "polls" /\ "serve" \notin held
    /\ cycle' = "waits"
    /\ UNCHANGED <<left, renamed, delegates, held, gauge, fresh>>

(***************************************************************************)
(* delegate.                                                               *)
(***************************************************************************)
To(d, state) == pc' = [pc EXCEPT ![d] = state]

\* With --model there is no poll.
StartDelegate(d) ==
    /\ pc[d] = "todo"
    /\ \/ To(d, "polls") /\ UNCHANGED model
       \/ To(d, "runs") /\ \E g \in Groups : model' = [model EXCEPT ![d] = g]
    /\ UNCHANGED <<left, renamed, held, cycle, gauge, fresh>>

\* FetchQuota, ChooseModel, and RunAgyTask begins.
Polled(d) ==
    /\ pc[d] = "polls" /\ d \notin held
    /\ To(d, "runs")
    /\ model' = [model EXCEPT ![d] = ChooseModel(Snapshots)]
    /\ UNCHANGED <<left, renamed, held, cycle, gauge, fresh>>

\* FetchQuota fails as in CycleFails, or the complexity is unknown: must.
PollFails(d) ==
    /\ pc[d] = "polls" /\ d \notin held
    /\ To(d, "failed")
    /\ UNCHANGED <<left, renamed, model, held, cycle, gauge, fresh>>

\* agy has run the task; it hangs instead when it has no quota left for it.  An
\* answer that is not JSON ends the command without a record.
TaskAnswers(d) ==
    /\ pc[d] = "runs" /\ d \notin held /\ ~Exhausted(model[d])
    /\ Spend(model[d])
    /\ fresh' = FALSE
    /\ To(d, "ran") \/ To(d, "garbled")
    /\ UNCHANGED <<renamed, model, held, cycle, gauge>>

\* Mutant of TaskFails: there is no timeout.
TaskFailsUnlessHung(d) ==
    /\ pc[d] = "runs" /\ d \notin held /\ ~Exhausted(model[d])
    /\ To(d, "ran")
    /\ UNCHANGED <<left, renamed, model, held, cycle, gauge, fresh>>

\* agy fails, or taskTimeout ends it: a call without tokens, status ERROR.  What
\* it has spent until then is spent.
TaskFails(d) ==
    /\ pc[d] = "runs" /\ d \notin held
    /\ \/ ~Exhausted(model[d]) /\ Spend(model[d]) /\ fresh' = FALSE
       \/ UNCHANGED <<left, fresh>>
    /\ To(d, "ran")
    /\ UNCHANGED <<renamed, model, held, cycle, gauge>>

\* recordTaskCall, which is TrackedCalls' subject: it may also fail to open the
\* store or to append, and must ends the command without a record.
Record(d) ==
    /\ pc[d] = "ran"
    /\ To(d, "recorded") \/ To(d, "unrecorded")
    /\ UNCHANGED <<left, renamed, model, held, cycle, gauge, fresh>>

\* The command is killed.  agy goes on by itself: SpendElsewhere.
Kill(d) ==
    /\ pc[d] \in {"polls", "runs", "ran"}
    /\ To(d, "killed")
    /\ held' = held \ {d}
    /\ UNCHANGED <<left, renamed, model, cycle, gauge, fresh>>

-----------------------------------------------------------------------------
Poll(d) == StartDelegate(d) \/ Polled(d) \/ PollFails(d)
Task(d) == TaskAnswers(d) \/ TaskFails(d)

Next ==
    \/ \E g \in Groups : SpendElsewhere(g)
    \/ \E i \in Buckets : Refill(i)
    \/ \E field \in Renames : Rename(field)
    \/ \E c \in Callers : LeaveChild(c) \/ ChildEnds(c)
    \/ StartCycle \/ CyclePolled \/ CycleFails
    \/ \E d \in Delegates : Poll(d) \/ Task(d) \/ Record(d) \/ Kill(d)

(***************************************************************************)
(* agy owes no answer.  The timeouts end every call that has none, unless  *)
(* a child holds its output, which may be for ever; and the commands go on *)
(* by themselves.                                                          *)
(***************************************************************************)
Fairness ==
    /\ WF_vars(CycleFails)
    /\ \A d \in Delegates :
          WF_vars(PollFails(d)) /\ WF_vars(TaskFails(d)) /\ WF_vars(Record(d))

Spec == Init /\ [][Next]_vars /\ Fairness

-----------------------------------------------------------------------------
\* How a command ends: with a record, with an error (of the poll, of agy's answer,
\* of the store), or killed.
Ends == {"recorded", "failed", "garbled", "unrecorded", "killed"}

\* The type invariant.
TypeOK ==
    /\ left \in [Buckets -> Levels]
    /\ renamed \subseteq Renames
    /\ pc \in [Delegates -> {"todo", "polls", "runs", "ran"} \cup Ends]
    /\ model \in [Delegates -> Groups]
    /\ held \subseteq Callers
    /\ cycle \in {"waits", "polls"}
    /\ gauge \in [Groups -> Levels \cup {NoGauge}]
    /\ fresh \in BOOLEAN

\* The quota a dashboard shows is the one that decides: a delegate that polls
\* now takes Gemini exactly if the gauge that serve stored from the same answer
\* is not low, although several buckets are folded in two different places.
GaugeDecides ==
    fresh => (ChooseModel(Snapshots) = Gemini <=> gauge[Gemini] >= Low)

\* A delegate comes to an end whatever agy does: neither a poll nor a task that
\* hangs for want of quota keeps it, and what it was about to record, for longer
\* than the two timeouts, unless a child of agy holds the output.
DelegateEnds ==
    \A d \in Delegates : pc[d] # "todo" ~> pc[d] \in Ends \/ d \in held

\* The README on /usage: if agy changes the schema of its output, collection
\* fails loudly and records nothing inconsistent.
SchemaChangeIsLoud ==
    fresh => \A i \in Buckets :
        (\A j \in Buckets : BucketOf[j] = BucketOf[i] => j =< i)
        => gauge[BucketOf[i]] = left[i]
=============================================================================
