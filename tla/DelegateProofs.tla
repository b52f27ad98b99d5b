--------------------------- MODULE DelegateProofs ---------------------------
(* Theorems about Delegate, for every set of delegates, every list of       *)
(* buckets and every threshold.                                             *)
EXTENDS Delegate, TLAPS, WellFoundedInduction

-----------------------------------------------------------------------------
\* What FetchQuota makes of an answer is at most one snapshot per bucket.
LEMMA SnapshotsType ==
    ASSUME left \in [Buckets -> Levels]
    PROVE  \A i \in DOMAIN Snapshots :
              i \in Buckets /\ Snapshots[i].group \in Groups
              /\ Snapshots[i].level \in Levels
<1>1. CASE "groups" \in renamed
    BY <1>1 DEF Snapshots
<1>2. CASE "groups" \notin renamed
    <2>1. Snapshots = [i \in Buckets |->
             [group |-> BucketOf[i],
              level |-> IF "remaining_fraction" \in renamed THEN 0 ELSE left[i]]]
        BY <1>2 DEF Snapshots
    <2>2. \A i \in Buckets : BucketOf[i] \in Groups /\ left[i] \in Levels
        BY BucketsAssumption DEF Buckets
    <2>3. 0 \in Levels
        BY LevelsAssumption DEF Levels
    <2>4. QED
        BY <2>1, <2>2, <2>3
<1>3. QED
    BY <1>1, <1>2

\* Of a group there is one last snapshot at most.
LEMMA OneLast ==
    ASSUME left \in [Buckets -> Levels], NEW g,
           NEW i \in Last(g, Snapshots), NEW j \in Last(g, Snapshots)
    PROVE  i = j
<1>1. i \in Nat /\ j \in Nat
    BY SnapshotsType, BucketsAssumption DEF Last, Buckets
<1>2. i =< j /\ j =< i
    BY DEF Last
<1>3. QED
    BY <1>1, <1>2

\* What a poll stores of a group.
LEMMA GaugesValue ==
    ASSUME left \in [Buckets -> Levels], NEW g \in Groups
    PROVE  /\ Last(g, Snapshots) = {} => Gauges(Snapshots)[g] = gauge[g]
           /\ \A i \in Last(g, Snapshots) :
                 Gauges(Snapshots)[g] = Snapshots[i].level
<1>1. ASSUME NEW i \in Last(g, Snapshots)
      PROVE  (CHOOSE k \in Last(g, Snapshots) : TRUE) = i
    BY OneLast
<1>2. QED
    BY <1>1 DEF Gauges

\* What agy's users spend is there.
LEMMA SpendType ==
    ASSUME left \in [Buckets -> Levels], NEW g, ~Exhausted(g), Spend(g)
    PROVE  left' \in [Buckets -> Levels]
<1>1. ASSUME NEW i \in Buckets, BucketOf[i] = g PROVE left[i] - 1 \in Levels
    BY <1>1, LevelsAssumption DEF Exhausted, Levels
<1>2. QED
    BY <1>1 DEF Spend

\* The quota, the delegates and the gauges keep their types, for any number of
\* delegates and buckets.
THEOREM DelegateTypeCorrect == Spec => []TypeOK
<1>1. Init => TypeOK
    BY DEF Init, TypeOK, Groups, Levels, NoGauge, Callers
<1>2. TypeOK /\ [Next]_vars => TypeOK'
    <2> SUFFICES ASSUME TypeOK, [Next]_vars PROVE TypeOK'
        OBVIOUS
    <2>1. ASSUME NEW g \in Groups, SpendElsewhere(g) PROVE TypeOK'
        BY <2>1, SpendType DEF TypeOK, SpendElsewhere, delegates
    <2>2. ASSUME NEW i \in Buckets, Refill(i) PROVE TypeOK'
        <3>1. Full \in Levels
            BY LevelsAssumption DEF Levels
        <3>2. QED
            BY <2>2, <3>1 DEF TypeOK, Refill, delegates
    <2>3. ASSUME NEW field \in Renames, Rename(field) PROVE TypeOK'
        BY <2>3 DEF TypeOK, Rename, delegates
    <2>4. ASSUME NEW c \in Callers, LeaveChild(c) \/ ChildEnds(c) PROVE TypeOK'
        BY <2>4 DEF TypeOK, LeaveChild, ChildEnds, delegates
    <2>5. CASE StartCycle \/ CycleFails
        BY <2>5 DEF TypeOK, StartCycle, CycleFails, delegates
    <2>6. CASE CyclePolled
        <3>1. left \in [Buckets -> Levels] /\ gauge \in [Groups -> Levels \cup {NoGauge}]
            BY DEF TypeOK
        <3>2. ASSUME NEW g \in Groups
              PROVE  Gauges(Snapshots)[g] \in Levels \cup {NoGauge}
            <4>1. CASE Last(g, Snapshots) = {}
                BY <3>1, <4>1, GaugesValue
            <4>2. CASE Last(g, Snapshots) # {}
                <5>1. PICK i \in Last(g, Snapshots) : TRUE
                    BY <4>2
                <5>2. i \in DOMAIN Snapshots
                    BY DEF Last
                <5>3. QED
                    BY <3>1, <5>2, GaugesValue, SnapshotsType
            <4>3. QED
                BY <4>1, <4>2
        <3>3. gauge' \in [Groups -> Levels \cup {NoGauge}]
            BY <2>6, <3>2 DEF CyclePolled, Gauges
        <3>4. QED
            BY <2>6, <3>3 DEF TypeOK, CyclePolled, delegates
    <2>7. ASSUME NEW d \in Delegates, Poll(d) \/ Task(d) \/ Record(d) \/ Kill(d)
          PROVE  TypeOK'
        <3>1. ChooseModel(Snapshots) \in Groups
            BY DEF ChooseModel, Groups
        <3>2. CASE StartDelegate(d) \/ Polled(d) \/ PollFails(d)
            BY <3>1, <3>2 DEF TypeOK, StartDelegate, Polled, PollFails, To, Ends
        <3>3. CASE TaskAnswers(d)
            BY <3>3, SpendType DEF TypeOK, TaskAnswers, To, Ends
        <3>4. CASE TaskFails(d)
            <4>1. left' \in [Buckets -> Levels] /\ fresh' \in BOOLEAN
                BY <3>4, SpendType DEF TypeOK, TaskFails
            <4>2. QED
                BY <3>4, <4>1 DEF TypeOK, TaskFails, To
        <3>5. CASE Record(d) \/ Kill(d)
            BY <3>5 DEF TypeOK, Record, Kill, To, Ends
        <3>6. QED
            BY <2>7, <3>2, <3>3, <3>4, <3>5 DEF Poll, Task
    <2>8. CASE UNCHANGED vars
        BY <2>8 DEF TypeOK, vars, delegates
    <2>9. QED
        BY <2>1, <2>2, <2>3, <2>4, <2>5, <2>6, <2>7, <2>8 DEF Next
<1>3. QED
    BY <1>1, <1>2, PTL DEF Spec

-----------------------------------------------------------------------------
\* A Gemini group without buckets never has a gauge, and the gauge stored from
\* an answer is the last snapshot of the group.
GaugeInv ==
    /\ (\A i \in Buckets : BucketOf[i] # Gemini) => gauge[Gemini] = NoGauge
    /\ fresh => \A i \in Last(Gemini, Snapshots) : gauge[Gemini] = Snapshots[i].level

\* GaugeInv over the steps.
LEMMA GaugeNext ==
    ASSUME TypeOK, GaugeInv, [Next]_vars
    PROVE  GaugeInv'
<1>1. left \in [Buckets -> Levels] /\ Gemini \in Groups
    BY DEF TypeOK, Groups
<1>2. ASSUME UNCHANGED <<renamed, gauge>>, fresh' = FALSE PROVE GaugeInv'
    BY <1>2 DEF GaugeInv
<1>3. ASSUME UNCHANGED <<left, renamed, gauge, fresh>> PROVE GaugeInv'
    BY <1>3 DEF GaugeInv, Last, Snapshots
<1>4. ASSUME NEW g \in Groups, SpendElsewhere(g) PROVE GaugeInv'
    BY <1>2, <1>4 DEF SpendElsewhere
<1>5. ASSUME NEW i \in Buckets, Refill(i) PROVE GaugeInv'
    BY <1>2, <1>5 DEF Refill
<1>6. ASSUME NEW field \in Renames, Rename(field) PROVE GaugeInv'
    BY <1>6 DEF Rename, GaugeInv
<1>7. ASSUME \/ StartCycle \/ CycleFails
             \/ \E c \in Callers : LeaveChild(c) \/ ChildEnds(c)
      PROVE  GaugeInv'
    BY <1>3, <1>7 DEF StartCycle, CycleFails, LeaveChild, ChildEnds
<1>8. CASE CyclePolled
    <2>1. gauge' = Gauges(Snapshots) /\ UNCHANGED <<left, renamed>>
        BY <1>8 DEF CyclePolled
    <2>2. ASSUME NEW i \in Last(Gemini, Snapshots)
          PROVE  gauge'[Gemini] = Snapshots[i].level
        BY <1>1, <2>1, GaugesValue
    <2>3. ASSUME \A i \in Buckets : BucketOf[i] # Gemini
          PROVE  gauge'[Gemini] = NoGauge
        <3>1. Last(Gemini, Snapshots) = {}
            <4>1. ASSUME NEW i \in DOMAIN Snapshots
                  PROVE  Snapshots[i].group # Gemini
                BY <2>3 DEF Snapshots
            <4>2. QED
                BY <4>1 DEF Last
        <3>2. QED
            BY <1>1, <2>1, <2>3, <3>1, GaugesValue DEF GaugeInv
    <2>4. Snapshots' = Snapshots
        BY <2>1 DEF Snapshots
    <2>5. Last(Gemini, Snapshots)' = Last(Gemini, Snapshots)
        BY <2>4 DEF Last
    <2>6. QED
        BY <2>1, <2>2, <2>3, <2>4, <2>5 DEF GaugeInv
<1>9. ASSUME NEW d \in Delegates, Poll(d) \/ Task(d) \/ Record(d) \/ Kill(d)
      PROVE  GaugeInv'
    <2>1. CASE Task(d)
        BY <1>2, <1>3, <2>1 DEF Task, TaskAnswers, TaskFails
    <2>2. CASE ~Task(d)
        BY <1>3, <1>9, <2>2 DEF Poll, StartDelegate, Polled, PollFails, Record, Kill
    <2>3. QED
        BY <2>1, <2>2
<1>10. CASE UNCHANGED vars
    BY <1>3, <1>10 DEF vars
<1>11. QED
    BY <1>4, <1>5, <1>6, <1>7, <1>8, <1>9, <1>10 DEF Next

\* A group that has a bucket has a last one: counted from the end of the list,
\* its positions have a smallest.
LEMMA LastBucket ==
    ASSUME NEW g, NEW i \in Buckets, BucketOf[i] = g
    PROVE  \E k \in Buckets :
              BucketOf[k] = g /\ \A j \in Buckets : BucketOf[j] = g => j =< k
<1>1. Buckets = 1..Len(BucketOf) /\ Len(BucketOf) \in Nat
    BY BucketsAssumption DEF Buckets
<1> DEFINE FromEnd == {Len(BucketOf) - j : j \in {k \in Buckets : BucketOf[k] = g}}
           R       == OpToRel(<, Nat)
<1>2. FromEnd \subseteq Nat /\ FromEnd # {}
    BY <1>1
<1>3. PICK n \in FromEnd : \A m \in FromEnd : ~(<<m, n>> \in R)
    <2> HIDE DEF FromEnd
    <2>1. IsWellFoundedOn(R, Nat)
        BY NatLessThanWellFounded
    <2> HIDE DEF R
    <2>2. QED
        BY <1>2, <2>1, WFMin, Zenon
<1>4. PICK k \in Buckets : BucketOf[k] = g /\ n = Len(BucketOf) - k
    OBVIOUS
<1>5. ASSUME NEW j \in Buckets, BucketOf[j] = g, ~(j =< k) PROVE FALSE
    <2> DEFINE m == Len(BucketOf) - j
    <2>1. m \in FromEnd /\ m \in Nat /\ n \in Nat /\ m < n
        BY <1>1, <1>4, <1>5
    <2>2. <<m, n>> \in Nat \X Nat /\ <<m, n>>[1] < <<m, n>>[2]
        BY <2>1
    <2>3. <<m, n>> \in R
        BY <2>2, Zenon DEF OpToRel
    <2>4. QED
        BY <1>3, <2>1, <2>3
<1>6. QED
    BY <1>4, <1>5

\* The quota that a dashboard shows is the one that decides, as long as agy does
\* not rename the groups of its answer; what it calls a fraction may change.
THEOREM GaugeAgrees ==
    ASSUME "groups" \notin Renames
    PROVE  Spec => []GaugeDecides
<1>1. Init => GaugeInv
    BY DEF Init, GaugeInv, Groups
<1>2. TypeOK /\ GaugeInv => GaugeDecides
    <2> SUFFICES ASSUME TypeOK, GaugeInv, fresh
                 PROVE  ChooseModel(Snapshots) = Gemini <=> gauge[Gemini] >= Low
        BY DEF GaugeDecides
    <2>1. Snapshots = [i \in Buckets |->
             [group |-> BucketOf[i],
              level |-> IF "remaining_fraction" \in renamed THEN 0 ELSE left[i]]]
        BY DEF TypeOK, Snapshots
    <2>2. ChooseModel(Snapshots) = Gemini
             <=> ~\E i \in Last(Gemini, Snapshots) : Snapshots[i].level < Low
        BY BucketsAssumption DEF ChooseModel
    <2>3. CASE \A i \in Buckets : BucketOf[i] # Gemini
        <3>1. Last(Gemini, Snapshots) = {}
            BY <2>1, <2>3 DEF Last
        <3>2. gauge[Gemini] = NoGauge
            BY <2>3 DEF GaugeInv
        <3>3. QED
            BY <2>2, <3>1, <3>2, LevelsAssumption DEF NoGauge
    <2>4. CASE \E i \in Buckets : BucketOf[i] = Gemini
        <3>1. PICK k \in Buckets :
                 /\ BucketOf[k] = Gemini
                 /\ \A j \in Buckets : BucketOf[j] = Gemini => j =< k
            BY <2>4, LastBucket
        <3>2. k \in Last(Gemini, Snapshots)
            BY <2>1, <3>1 DEF Last
        <3>3. left \in [Buckets -> Levels]
            BY DEF TypeOK
        <3>4. \A i \in Last(Gemini, Snapshots) : i = k
            BY <3>2, <3>3, OneLast
        <3>5. gauge[Gemini] = Snapshots[k].level
            BY <3>2 DEF GaugeInv
        <3>6. Snapshots[k].level \in Levels
            BY <3>2, <3>3, SnapshotsType DEF Last
        <3>7. QED
            BY <2>2, <3>2, <3>4, <3>5, <3>6, LevelsAssumption DEF Levels
    <2>5. QED
        BY <2>3, <2>4
<1>3. Spec => [](TypeOK /\ GaugeInv)
    <2>1. TypeOK /\ GaugeInv /\ [Next]_vars /\ TypeOK' => GaugeInv'
        BY GaugeNext
    <2>2. QED
        BY <1>1, <2>1, DelegateTypeCorrect, PTL DEF Spec
<1>4. QED
    BY <1>2, <1>3, PTL
=============================================================================
