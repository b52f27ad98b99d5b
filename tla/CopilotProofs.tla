--------------------------- MODULE CopilotProofs ----------------------------
(***************************************************************************)
(* Theorems about CopilotSessions, for any set of sessions and any bounds: *)
(* the types, and the promises that the read-set makes.                    *)
(***************************************************************************)
EXTENDS CopilotSessions, SequenceTheorems, WellFoundedInduction, TLAPS

\* A set of sessions has a first one.
LEMMA Smallest ==
  ASSUME NEW T \in SUBSET Nat, T # {}
  PROVE  \E s \in T : \A t \in T : s =< t
<1> DEFINE R == OpToRel(<, Nat)
<1>1. IsWellFoundedOn(R, Nat)
  BY NatLessThanWellFounded
<1>2. \E x \in T : \A y \in T : ~(<<y, x>> \in R)
  <2> HIDE DEF R
  <2>1. T \subseteq Nat
    OBVIOUS
  <2>2. QED
    BY <1>1, <2>1, WFMin, Zenon
<1>3. PICK x \in T : \A y \in T : ~(<<y, x>> \in R)
  BY <1>2, Zenon
<1>4. ASSUME NEW y \in T, y < x PROVE FALSE
  <2>1. <<y, x>> \in Nat \X Nat /\ <<y, x>>[1] < <<y, x>>[2]
    BY <1>4
  <2>2. <<y, x>> \in R
    BY <2>1, Zenon DEF OpToRel
  <2>3. QED
    BY <2>2, <1>3
<1>5. QED
  BY <1>4, SMT

-----------------------------------------------------------------------------
(* Types.                                                                  *)

\* The types, and: a cycle that is still visiting has a session to visit.
TypeInv == TypeOK /\ (pc \in {"title", "session"} => todo # {})

\* The session that a cycle visits next is one that it listed.
LEMMA FirstIsListed ==
  ASSUME TypeInv, todo # {}
  PROVE  First \in todo /\ First \in dirs /\ First \in Sessions
<1>1. todo \in SUBSET Nat
  BY SessionsAssumption DEF TypeInv, TypeOK
<1>2. \E s \in todo : \A t \in todo : s =< t
  BY <1>1, Smallest
<1>3. First \in todo
  BY <1>2 DEF First
<1>4. QED
  BY <1>3 DEF TypeInv, TypeOK

\* Dropping a cycle keeps the types of its variables.
LEMMA DropTypes ==
  ASSUME TypeInv, Drop
  PROVE  /\ pc' = "idle" /\ todo' = {} /\ newRead' = {} /\ untitled' = {}
         /\ titles' \in [Sessions -> 0..MaxNames]
         /\ found' \in [Sessions -> 0..MaxShutdowns]
         /\ atStart' \in [shutdowns : [Sessions -> 0..MaxShutdowns],
                          name : [Sessions -> 0..MaxNames]]
BY BoundsAssumption DEF Drop, Nothing

\* An upset stays within its bound.
LEMMA UpsetTypes ==
  ASSUME TypeInv, Upset
  PROVE  upsets' \in 0..MaxUpsets /\ upsets' = upsets + 1 /\ upsets \in Nat
BY BoundsAssumption DEF Upset, TypeInv, TypeOK

\* What is stored are events, whichever of the found sessions it is.
LEMMA StoreTypes ==
  ASSUME TypeInv, NEW S \in SUBSET Found, Store(S)
  PROVE  stored' \in [Sessions -> Seq(Event)]
<1>1. ASSUME NEW s \in Found
      PROVE  [usage |-> found[s], name |-> titles[s]] \in Event
  BY DEF Found, Event, TypeInv, TypeOK
<1>2. QED
  BY <1>1 DEF Store, TypeInv, TypeOK

\* Whether a failed append has left lines or not.
LEMMA LeavesTypes ==
  ASSUME TypeInv, LeavesLines
  PROVE  stored' \in [Sessions -> Seq(Event)]
BY StoreTypes DEF LeavesLines, TypeInv, TypeOK

\* The initial state has the types.
LEMMA InitTypes == Init => TypeInv
<1>1. ASSUME Init PROVE <<>> \in Seq(Event)
  OBVIOUS
<1>2. QED
  BY <1>1, BoundsAssumption DEF Init, TypeInv, TypeOK, Nothing

\* Every step keeps the types.
LEMMA NextTypes == TypeInv /\ [Next]_vars => TypeInv'
<1> SUFFICES ASSUME TypeInv, [Next]_vars PROVE TypeInv'
  OBVIOUS
<1> USE BoundsAssumption
<1>1. ASSUME NEW s \in Sessions, StartSession(s) PROVE TypeInv'
  BY <1>1 DEF StartSession, TypeInv, TypeOK, cycle
<1>2. ASSUME NEW s \in Sessions, ShutDown(s) PROVE TypeInv'
  <2>1. shutdowns' \in [Sessions -> 0..MaxShutdowns]
    BY <1>2 DEF ShutDown, TypeInv, TypeOK
  <2>2. resumed' \subseteq dirs
    BY <1>2 DEF ShutDown, TypeInv, TypeOK
  <2>3. QED
    BY <1>2, <2>1, <2>2 DEF ShutDown, TypeInv, TypeOK, cycle
<1>3. ASSUME NEW s \in Sessions, SetName(s) PROVE TypeInv'
  <2>1. name' \in [Sessions -> 0..MaxNames]
    BY <1>3 DEF SetName, TypeInv, TypeOK
  <2>2. QED
    BY <1>3, <2>1 DEF SetName, TypeInv, TypeOK, cycle
<1>4. CASE StartCycle
  BY <1>4 DEF StartCycle, TypeInv, TypeOK, files
<1>5. CASE ReadTitle
  <2>1. First \in Sessions /\ First \in dirs /\ todo # {}
    BY <1>5, FirstIsListed DEF ReadTitle, TypeInv
  <2>2. titles' \in [Sessions -> 0..MaxNames] /\ untitled' \subseteq dirs
    BY <1>5, <2>1 DEF ReadTitle, TypeInv, TypeOK
  <2>3. QED
    BY <1>5, <2>1, <2>2 DEF ReadTitle, TypeInv, TypeOK, files
<1>6. CASE ReadSession
  <2>1. First \in Sessions /\ First \in dirs
    BY <1>6, FirstIsListed DEF ReadSession, TypeInv
  <2>2. Parsed(First) \in 0..MaxShutdowns
    BY <2>1 DEF Parsed, TypeInv, TypeOK
  <2>3. /\ found' \in [Sessions -> 0..MaxShutdowns]
        /\ newRead' \subseteq dirs /\ resumed' \subseteq dirs
    <3>1. CASE UNCHANGED <<found, newRead, resumed>>
      BY <3>1 DEF TypeInv, TypeOK
    <3>2. CASE /\ found' = [found EXCEPT ![First] = Parsed(First)]
               /\ newRead' = newRead \cup {First} /\ resumed' = resumed \ {First}
      BY <2>1, <2>2, <3>2 DEF TypeInv, TypeOK
    <3>3. QED
      BY <1>6, <3>1, <3>2 DEF ReadSession
  <2>4. todo' \subseteq dirs /\ (pc' \in {"title", "session"} => todo' # {})
        /\ pc' \in {"append", "title"}
    BY <1>6 DEF ReadSession, TypeInv, TypeOK
  <2>5. UNCHANGED <<dirs, undated, shutdowns, name, read, saved, stored, upsets,
                  titles, untitled, atStart>>
    BY <1>6 DEF ReadSession, files
  <2>6. QED
    BY <2>3, <2>4, <2>5 DEF TypeInv, TypeOK
<1>7. CASE AppendEvents
  <2>1. stored' \in [Sessions -> Seq(Event)]
    BY <1>7, StoreTypes DEF AppendEvents
  <2>2. QED
    BY <1>7, <2>1 DEF AppendEvents, TypeInv, TypeOK, files
<1>8. CASE SaveReadSessions
  BY <1>8, DropTypes DEF SaveReadSessions, TypeInv, TypeOK, files
<1>9. CASE SaveFails
  BY <1>9, DropTypes, UpsetTypes DEF SaveFails, TypeInv, TypeOK, files
<1>10. CASE CycleFails
  BY <1>10, DropTypes, UpsetTypes, LeavesTypes DEF CycleFails, TypeInv, TypeOK, files
<1>11. CASE Restart
  BY <1>11, DropTypes, UpsetTypes, LeavesTypes DEF Restart, TypeInv, TypeOK, files
<1>12. CASE UNCHANGED vars
  BY <1>12 DEF vars, files, cycle, TypeInv, TypeOK
<1>13. QED
  BY <1>1, <1>2, <1>3, <1>4, <1>5, <1>6, <1>7, <1>8, <1>9, <1>10, <1>11, <1>12
     DEF Next, Cycle

\* The variables of the reader keep their types, for any sessions and bounds.
THEOREM CopilotTypeCorrect == Spec => []TypeOK
<1>1. TypeInv => TypeOK
  BY DEF TypeInv
<1>2. QED
  BY InitTypes, NextTypes, <1>1, PTL DEF Spec

-----------------------------------------------------------------------------
(* The read-set.                                                           *)

Visiting == pc \in {"title", "session", "append"}

\* What a cycle has marked beyond the loop is what it has found.
MarkedIsFound ==
  /\ pc = "idle" => found = Nothing
  /\ Visiting => /\ read \subseteq newRead
                 /\ \A s \in Sessions : found[s] # 0 <=> s \in newRead \ read

\* An upset pays for every time a session is stored before it is remembered.
StoredIsPaid ==
  \A s \in Sessions :
    /\ Len(stored[s]) =< 1 + upsets
    /\ s \notin read => Len(stored[s]) =< upsets

\* What a cycle has read is no older than what was there when it began.
FoundIsCurrent ==
  Visiting =>
    /\ \A s \in Sessions : /\ shutdowns[s] >= atStart.shutdowns[s]
                           /\ name[s] >= atStart.name[s]
    /\ \A s \in Sessions : found[s] # 0 =>
          /\ found[s] >= atStart.shutdowns[s]
          /\ s \in untitled \/ titles[s] >= atStart.name[s]
    /\ pc = "session" => First \in untitled \/ titles[First] >= atStart.name[First]

\* A session falls short only by shutdowns that came after it was read, whether
\* what was read is in the log already or in the hands of the cycle.
LastUsage(s) == stored[s][Len(stored[s])].usage

ShortIfResumed ==
  /\ saved \subseteq read
  /\ \A s \in read : /\ LastUsage(s) =< shutdowns[s]
                     /\ LastUsage(s) = shutdowns[s] <=> s \notin resumed
  /\ \A s \in newRead \ read : /\ found[s] =< shutdowns[s]
                               /\ found[s] = shutdowns[s] <=> s \notin resumed

SafeInv == /\ TypeInv /\ MarkedIsFound /\ ReadIsStored /\ StoredIsPaid
           /\ FoundIsCurrent /\ ShortIfResumed

\* The invariant holds at first.
LEMMA InitSafe == Init => SafeInv
<1> SUFFICES ASSUME Init PROVE SafeInv
  OBVIOUS
<1>1. TypeInv
  BY InitTypes
<1>2. MarkedIsFound /\ ReadIsStored /\ FoundIsCurrent /\ ShortIfResumed
  BY DEF Init, MarkedIsFound, ReadIsStored, FoundIsCurrent, ShortIfResumed, Visiting
<1>3. StoredIsPaid
  <2>1. ASSUME NEW s \in Sessions PROVE Len(stored[s]) = 0
    <3>1. stored[s] = <<>>
      BY DEF Init
    <3>2. QED
      BY <3>1, EmptySeq
  <2>2. upsets \in Nat /\ upsets = 0
    BY DEF Init
  <2>3. ASSUME NEW s \in Sessions
        PROVE  Len(stored[s]) =< 1 + upsets /\ Len(stored[s]) =< upsets
    BY <2>1, <2>2
  <2>4. QED
    BY <2>3, Zenon DEF StoredIsPaid
<1>4. QED
  BY <1>1, <1>2, <1>3 DEF SafeInv

\* The CLI writes no part of what the read-set is about, and only more of the rest.
LEMMA FilesSafe ==
  ASSUME SafeInv, TypeInv', NEW s \in Sessions,
         StartSession(s) \/ ShutDown(s) \/ SetName(s)
  PROVE  SafeInv'
<1>1. UNCHANGED <<cycle, read, saved, stored, upsets>>
  BY DEF StartSession, ShutDown, SetName
<1>2. First' = First
  BY <1>1 DEF First, cycle
<1>3. MarkedIsFound' /\ ReadIsStored' /\ StoredIsPaid'
  BY <1>1 DEF SafeInv, MarkedIsFound, ReadIsStored, StoredIsPaid, Visiting, cycle
<1>4. \A t \in Sessions : /\ shutdowns[t] \in Nat /\ shutdowns'[t] \in Nat
                          /\ name[t] \in Nat /\ name'[t] \in Nat
                          /\ atStart.shutdowns[t] \in Nat /\ atStart.name[t] \in Nat
  BY BoundsAssumption DEF SafeInv, TypeInv, TypeOK
<1>5. ASSUME NEW t \in Sessions
      PROVE  shutdowns'[t] >= shutdowns[t] /\ name'[t] >= name[t]
  <2>1. shutdowns' = shutdowns \/ shutdowns' = [shutdowns EXCEPT ![s] = @ + 1]
    BY DEF StartSession, ShutDown, SetName
  <2>2. name' = name \/ name' = [name EXCEPT ![s] = @ + 1]
    BY DEF StartSession, ShutDown, SetName
  <2>3. DOMAIN shutdowns = Sessions /\ DOMAIN name = Sessions
    BY DEF SafeInv, TypeInv, TypeOK
  <2>4. QED
    BY <1>4, <2>1, <2>2, <2>3
<1>6. FoundIsCurrent'
  BY <1>1, <1>2, <1>4, <1>5 DEF SafeInv, FoundIsCurrent, Visiting, cycle
<1>7. ShortIfResumed'
  <2>1. ShortIfResumed /\ newRead \subseteq Sessions /\ read \subseteq Sessions
    BY DEF SafeInv, TypeInv, TypeOK
  <2>2. UNCHANGED <<found, newRead, read, saved, stored>>
    BY <1>1 DEF cycle
  <2>3. ASSUME NEW t \in read PROVE LastUsage(t) \in Nat
    <3>1. stored[t] \in Seq(Event) /\ stored[t] # <<>>
      BY <2>1 DEF SafeInv, ReadIsStored, TypeInv, TypeOK
    <3>2. stored[t][Len(stored[t])] \in Event
      BY <3>1
    <3>3. QED
      BY <3>2, BoundsAssumption DEF LastUsage, Event
  <2>4. \A t \in Sessions : found[t] \in Nat
    BY BoundsAssumption DEF SafeInv, TypeInv, TypeOK
  <2>5. CASE UNCHANGED <<shutdowns, resumed>>
    BY <2>1, <2>2, <2>5 DEF ShortIfResumed, LastUsage
  <2>6. CASE ShutDown(s)
    <3>1. /\ shutdowns' = [shutdowns EXCEPT ![s] = @ + 1]
          /\ resumed' = resumed \cup ({s} \cap (newRead \cup read))
          /\ DOMAIN shutdowns = Sessions
      BY <2>6 DEF ShutDown, SafeInv, TypeInv, TypeOK
    <3>2. shutdowns'[s] = shutdowns[s] + 1
          /\ \A t \in Sessions \ {s} : shutdowns'[t] = shutdowns[t]
      BY <3>1
    <3>3. \A t \in newRead \cup read : t \in resumed' <=> t \in resumed \/ t = s
      BY <3>1
    <3>4. \A t \in read : LastUsage(t)' = LastUsage(t)
      BY <2>2 DEF LastUsage
    <3>5. QED
      BY <1>4, <2>1, <2>2, <2>3, <2>4, <3>2, <3>3, <3>4 DEF ShortIfResumed
  <2>7. QED
    BY <2>5, <2>6 DEF StartSession, SetName
<1>8. QED
  BY <1>3, <1>6, <1>7 DEF SafeInv

\* A session with one more event than before is stored.
LEMMA StoreGrows ==
  ASSUME SafeInv, NEW S \in SUBSET Found, Store(S), NEW s \in Sessions
  PROVE  /\ s \in S => /\ Len(stored'[s]) = Len(stored[s]) + 1 /\ stored'[s] # <<>>
                       /\ LastUsage(s)' = found[s]
         /\ s \notin S => stored'[s] = stored[s] /\ LastUsage(s)' = LastUsage(s)
<1>1. ASSUME s \in S
      PROVE  /\ Len(stored'[s]) = Len(stored[s]) + 1 /\ stored'[s] # <<>>
             /\ LastUsage(s)' = found[s]
  <2> DEFINE e == [usage |-> found[s], name |-> titles[s]]
  <2>1. stored'[s] = Append(stored[s], e)
    BY <1>1 DEF Store
  <2>2. e \in Event /\ e.usage = found[s]
    BY <1>1 DEF Found, SafeInv, TypeInv, TypeOK, Event
  <2>3. stored[s] \in Seq(Event)
    BY DEF SafeInv, TypeInv, TypeOK
  <2> HIDE DEF e
  <2>4. /\ Len(stored'[s]) = Len(stored[s]) + 1 /\ stored'[s] # <<>>
        /\ stored'[s][Len(stored'[s])] = e
    BY <2>1, <2>2, <2>3
  <2>5. QED
    BY <2>2, <2>4 DEF LastUsage
<1>2. ASSUME s \notin S
      PROVE  stored'[s] = stored[s] /\ LastUsage(s)' = LastUsage(s)
  BY <1>2 DEF Store, LastUsage
<1>3. QED
  BY <1>1, <1>2

\* Only what the loop has not read may be left behind by a failed append.
LEMMA LeavesUnread ==
  ASSUME SafeInv, LeavesLines, NEW s \in Sessions
  PROVE  /\ Len(stored'[s]) =< Len(stored[s]) + 1
         /\ s \in read => stored'[s] = stored[s] /\ LastUsage(s)' = LastUsage(s)
<1>1. Len(stored[s]) \in Nat
  BY DEF SafeInv, TypeInv, TypeOK
<1>2. CASE UNCHANGED stored
  BY <1>1, <1>2 DEF LastUsage
<1>3. CASE pc = "append" /\ \E S \in SUBSET Found : Store(S)
  <2>1. PICK S \in SUBSET Found : Store(S)
    BY <1>3
  <2>2. s \in read => s \notin S
    BY <1>3, <2>1 DEF SafeInv, MarkedIsFound, Visiting, Found
  <2>3. QED
    BY <1>1, <2>1, <2>2, StoreGrows
<1>4. QED
  BY <1>2, <1>3 DEF LeavesLines

\* Ending a cycle keeps the invariant, whatever a failed append has left, if the
\* read-set of the loop stays or goes back to the one on disk.
LEMMA DropSafe ==
  ASSUME SafeInv, TypeInv', Drop, UNCHANGED <<files, resumed>>,
         \/ stored' = stored /\ read' = read /\ saved' \in {saved, read}
            /\ upsets' \in {upsets, upsets + 1}
         \/ LeavesLines /\ read' \in {read, saved} /\ saved' = saved /\ upsets' = upsets + 1
  PROVE  SafeInv'
<1>1. MarkedIsFound' /\ FoundIsCurrent'
  <2>1. pc' = "idle" /\ found' = Nothing'
    BY DEF Drop, Nothing
  <2>2. QED
    BY <2>1 DEF MarkedIsFound, FoundIsCurrent, Visiting
<1>2. /\ read \subseteq Sessions /\ saved \subseteq read
      /\ read' \subseteq read /\ saved' \subseteq read'
  BY DEF SafeInv, ShortIfResumed, TypeInv, TypeOK
<1>3. ASSUME NEW s \in Sessions
      PROVE  /\ Len(stored'[s]) =< Len(stored[s]) + 1
             /\ stored' = stored \/ upsets' = upsets + 1
             /\ s \in read => stored'[s] = stored[s] /\ LastUsage(s)' = LastUsage(s)
  <2>1. CASE stored' = stored
    <3>1. Len(stored[s]) \in Nat
      BY DEF SafeInv, TypeInv, TypeOK
    <3>2. QED
      BY <2>1, <3>1 DEF LastUsage
  <2>2. CASE LeavesLines /\ upsets' = upsets + 1
    BY <2>2, LeavesUnread
  <2>3. QED
    BY <2>1, <2>2
<1>4. ReadIsStored'
  BY <1>2, <1>3 DEF SafeInv, ReadIsStored
<1>5. ShortIfResumed'
  <2>1. newRead' = {} /\ shutdowns' = shutdowns /\ resumed' = resumed
    BY DEF Drop, files
  <2>2. \A s \in read' : s \in read /\ LastUsage(s)' = LastUsage(s)
    BY <1>2, <1>3
  <2>3. QED
    BY <1>2, <2>1, <2>2 DEF SafeInv, ShortIfResumed
<1>6. ASSUME NEW s \in Sessions
      PROVE  /\ Len(stored'[s]) =< 1 + upsets'
             /\ s \notin read' => Len(stored'[s]) =< upsets'
  <2>1. /\ Len(stored[s]) \in Nat /\ upsets \in Nat
        /\ Len(stored'[s]) \in Nat
    <3>1. stored[s] \in Seq(Event) /\ stored'[s] \in Seq(Event)
      BY DEF SafeInv, TypeInv, TypeOK
    <3>2. upsets \in Nat
      BY BoundsAssumption DEF SafeInv, TypeInv, TypeOK
    <3>3. QED
      BY <3>1, <3>2
  <2>2. Len(stored[s]) =< 1 + upsets /\ (s \notin read => Len(stored[s]) =< upsets)
    BY DEF SafeInv, StoredIsPaid
  <2>3. CASE stored' = stored /\ read' = read
    BY <2>1, <2>2, <2>3
  <2>4. CASE upsets' = upsets + 1
    BY <1>3, <2>1, <2>2, <2>4
  <2>5. QED
    BY <2>3, <2>4
<1>7. QED
  BY <1>1, <1>4, <1>5, <1>6 DEF SafeInv, StoredIsPaid

\* A new cycle starts with the read-set of the loop and with nothing found.
LEMMA StartSafe == SafeInv /\ TypeInv' /\ StartCycle => SafeInv'
<1> SUFFICES ASSUME SafeInv, TypeInv', StartCycle PROVE SafeInv'
  OBVIOUS
<1>1. found = Nothing /\ pc = "idle"
  BY DEF StartCycle, SafeInv, MarkedIsFound
<1>2. /\ pc' \in {"title", "append"} /\ newRead' = read /\ read' = read
      /\ found' = Nothing /\ titles' = titles
      /\ UNCHANGED <<files, saved, stored, upsets, resumed>>
      /\ atStart' = [shutdowns |-> shutdowns, name |-> name]
  BY <1>1 DEF StartCycle
<1>3. MarkedIsFound'
  BY <1>2 DEF MarkedIsFound, Visiting, Nothing
<1>4. ReadIsStored' /\ StoredIsPaid' /\ ShortIfResumed'
  BY <1>2 DEF SafeInv, ReadIsStored, StoredIsPaid, ShortIfResumed, LastUsage, files
<1>5. FoundIsCurrent'
  <2>1. \A s \in Sessions : shutdowns[s] \in Nat /\ name[s] \in Nat
    BY BoundsAssumption DEF SafeInv, TypeInv, TypeOK
  <2>2. \A s \in Sessions : found'[s] = 0
    BY <1>2 DEF Nothing
  <2>3. shutdowns' = shutdowns /\ name' = name
    BY <1>2 DEF files
  <2>4. QED
    BY <1>2, <2>1, <2>2, <2>3 DEF FoundIsCurrent
<1>6. QED
  BY <1>3, <1>4, <1>5 DEF SafeInv

\* The title read is the one that is there now, if it can be read.
LEMMA TitleSafe == SafeInv /\ TypeInv' /\ ReadTitle => SafeInv'
<1> SUFFICES ASSUME SafeInv, TypeInv', ReadTitle PROVE SafeInv'
  OBVIOUS
<1>1. First \in Sessions
  BY FirstIsListed DEF ReadTitle, SafeInv, TypeInv
<1>2. /\ pc = "title" /\ pc' = "session"
      /\ \/ titles' = [titles EXCEPT ![First] = name[First]] /\ untitled' = untitled
         \/ titles' = titles /\ untitled' = untitled \cup {First}
      /\ todo' = todo /\ found' = found /\ newRead' = newRead /\ atStart' = atStart
      /\ read' = read /\ saved' = saved /\ stored' = stored /\ upsets' = upsets
      /\ shutdowns' = shutdowns /\ name' = name /\ resumed' = resumed
  BY DEF ReadTitle, files
<1>3. First' = First
  BY <1>2 DEF First
<1>4. MarkedIsFound' /\ ReadIsStored' /\ StoredIsPaid' /\ ShortIfResumed'
  BY <1>2 DEF SafeInv, MarkedIsFound, ReadIsStored, StoredIsPaid, ShortIfResumed,
     LastUsage, Visiting
<1>5. FoundIsCurrent'
  <2>1. DOMAIN titles = Sessions
    BY DEF SafeInv, TypeInv, TypeOK
  <2>2. FoundIsCurrent /\ Visiting
    BY <1>2 DEF SafeInv, Visiting
  <2>3. First \in untitled' \/ titles'[First] >= atStart.name[First]
    BY <1>1, <1>2, <2>1, <2>2 DEF FoundIsCurrent
  <2>4. ASSUME NEW s \in Sessions, found[s] # 0
        PROVE  s \in untitled' \/ titles'[s] >= atStart.name[s]
    BY <1>2, <2>1, <2>2, <2>3, <2>4 DEF FoundIsCurrent
  <2>5. QED
    BY <1>2, <1>3, <2>2, <2>3, <2>4 DEF FoundIsCurrent
<1>6. QED
  BY <1>4, <1>5 DEF SafeInv

\* A session is marked exactly when an event of it is found.
LEMMA SessionSafe == SafeInv /\ TypeInv' /\ ReadSession => SafeInv'
<1> SUFFICES ASSUME SafeInv, TypeInv', ReadSession PROVE SafeInv'
  OBVIOUS
<1>1. First \in Sessions
  BY FirstIsListed DEF ReadSession, SafeInv, TypeInv
<1>2. /\ pc = "session" /\ pc' \in {"title", "append"}
      /\ titles' = titles /\ untitled' = untitled /\ atStart' = atStart
      /\ read' = read /\ saved' = saved /\ stored' = stored /\ upsets' = upsets
      /\ shutdowns' = shutdowns /\ name' = name
  BY DEF ReadSession, files
<1>3. ReadIsStored' /\ StoredIsPaid'
  BY <1>2 DEF SafeInv, ReadIsStored, StoredIsPaid
<1>4. FoundIsCurrent /\ MarkedIsFound /\ Visiting /\ Visiting'
  BY <1>2 DEF SafeInv, Visiting
<1>5. CASE UNCHANGED <<found, newRead, resumed>>
  BY <1>2, <1>3, <1>4, <1>5
     DEF SafeInv, MarkedIsFound, FoundIsCurrent, ShortIfResumed, LastUsage
<1>6. CASE /\ First \notin newRead /\ Parsed(First) # 0
           /\ found' = [found EXCEPT ![First] = Parsed(First)]
           /\ newRead' = newRead \cup {First}
           /\ resumed' = resumed \ {First}
  <2>1. DOMAIN found = Sessions
    BY DEF SafeInv, TypeInv, TypeOK
  <2>2. found'[First] = Parsed(First)
        /\ \A s \in Sessions : s # First => found'[s] = found[s]
    BY <1>1, <1>6, <2>1
  <2>3. MarkedIsFound'
    BY <1>1, <1>2, <1>4, <1>6, <2>2 DEF MarkedIsFound
  <2>4. Parsed(First) = shutdowns[First]
    BY <1>6 DEF Parsed
  <2>5. FoundIsCurrent'
    BY <1>1, <1>2, <1>4, <2>2, <2>4 DEF FoundIsCurrent
  <2>6. ShortIfResumed'
    <3>1. /\ ShortIfResumed /\ First \notin read /\ shutdowns[First] \in Nat
          /\ newRead \subseteq Sessions
      BY <1>1, <1>4, <1>6, BoundsAssumption DEF SafeInv, MarkedIsFound, TypeInv, TypeOK
    <3>2. \A s \in read : LastUsage(s)' = LastUsage(s)
      BY <1>2 DEF LastUsage
    <3>3. QED
      BY <1>2, <1>6, <2>2, <2>4, <3>1, <3>2 DEF ShortIfResumed
  <2>7. QED
    BY <1>3, <2>3, <2>5, <2>6 DEF SafeInv
<1>7. QED
  BY <1>5, <1>6 DEF ReadSession

\* What has been found is stored before the loop takes the read-set over.
LEMMA AppendSafe == SafeInv /\ TypeInv' /\ AppendEvents => SafeInv'
<1> SUFFICES ASSUME SafeInv, TypeInv', AppendEvents PROVE SafeInv'
  OBVIOUS
<1>1. /\ pc = "append" /\ pc' = "save" /\ read' = newRead
      /\ saved' = saved /\ upsets' = upsets /\ newRead' = newRead
      /\ shutdowns' = shutdowns /\ resumed' = resumed /\ Store(Found)
  BY DEF AppendEvents, files
<1>2. MarkedIsFound' /\ FoundIsCurrent'
  BY <1>1 DEF MarkedIsFound, FoundIsCurrent, Visiting
<1>3. MarkedIsFound /\ Visiting
  BY <1>1 DEF SafeInv, Visiting
<1>4. /\ newRead \subseteq Sessions /\ saved \subseteq Sessions
      /\ \A s \in Sessions : stored[s] \in Seq(Event)
  BY DEF SafeInv, TypeInv, TypeOK
<1>5. ASSUME NEW s \in Sessions, found[s] = 0
      PROVE  /\ stored'[s] = stored[s] /\ LastUsage(s)' = LastUsage(s)
             /\ s \in newRead <=> s \in read
  BY <1>1, <1>3, <1>5, StoreGrows DEF Found, MarkedIsFound
<1>6. ASSUME NEW s \in Sessions, found[s] # 0
      PROVE  /\ Len(stored'[s]) = Len(stored[s]) + 1 /\ stored'[s] # <<>>
             /\ LastUsage(s)' = found[s]
             /\ s \in newRead /\ s \notin read
  BY <1>1, <1>3, <1>6, StoreGrows DEF Found, MarkedIsFound
<1>7. ReadIsStored'
  BY <1>1, <1>4, <1>5, <1>6 DEF SafeInv, ReadIsStored
<1>8. ASSUME NEW s \in Sessions
      PROVE  /\ Len(stored'[s]) =< 1 + upsets
             /\ s \notin newRead => Len(stored'[s]) =< upsets
  <2>1. Len(stored[s]) \in Nat /\ upsets \in Nat
    BY <1>4, BoundsAssumption DEF SafeInv, TypeInv, TypeOK
  <2>2. Len(stored[s]) =< 1 + upsets /\ (s \notin read => Len(stored[s]) =< upsets)
    BY DEF SafeInv, StoredIsPaid
  <2>3. QED
    BY <1>5, <1>6, <2>1, <2>2
<1>9. ShortIfResumed'
  BY <1>1, <1>3, <1>4, <1>5, <1>6 DEF SafeInv, MarkedIsFound, ShortIfResumed
<1>10. QED
  BY <1>1, <1>2, <1>7, <1>8, <1>9 DEF SafeInv, StoredIsPaid

\* Every step keeps the invariant.
LEMMA NextSafe == SafeInv /\ [Next]_vars => SafeInv'
<1> SUFFICES ASSUME SafeInv, [Next]_vars PROVE SafeInv'
  OBVIOUS
<1>1. TypeInv'
  BY NextTypes DEF SafeInv
<1>2. CASE \E s \in Sessions : StartSession(s) \/ ShutDown(s) \/ SetName(s)
  BY <1>1, <1>2, FilesSafe
<1>3. CASE SaveReadSessions
  BY <1>1, <1>3, DropSafe DEF SaveReadSessions
<1>4. CASE SaveFails
  BY <1>1, <1>4, DropSafe DEF SaveFails, Upset
<1>5. CASE CycleFails
  BY <1>1, <1>5, DropSafe DEF CycleFails, Upset
<1>6. CASE Restart
  BY <1>1, <1>6, DropSafe DEF Restart, Upset
<1>7. CASE UNCHANGED vars
  <2>1. First' = First
    BY <1>7 DEF vars, cycle, First
  <2>2. QED
    BY <1>1, <1>7, <2>1 DEF vars, files, cycle, SafeInv, MarkedIsFound,
       ReadIsStored, StoredIsPaid, FoundIsCurrent, ShortIfResumed, LastUsage, Visiting
<1>8. QED
  BY <1>1, <1>2, <1>3, <1>4, <1>5, <1>6, <1>7, StartSafe, TitleSafe, SessionSafe,
     AppendSafe DEF Next, Cycle

\* A session that will not be read again has its usage in the log.
THEOREM MarkedSessionsAreStored == Spec => []ReadIsStored
<1>1. SafeInv => ReadIsStored
  BY DEF SafeInv
<1>2. QED
  BY InitSafe, NextSafe, <1>1, PTL DEF Spec

\* A session is stored once, and again only for an upset.
THEOREM StoredAgainOnlyByUpset == Spec => []StoredOncePerUpset
<1>1. SafeInv => StoredOncePerUpset
  BY DEF SafeInv, StoredIsPaid, StoredOncePerUpset
<1>2. QED
  BY InitSafe, NextSafe, <1>1, PTL DEF Spec

\* What a cycle stores is no older than the cycle, but for names it could not read.
THEOREM NothingStaleIsStored == Spec => []StoresNothingStale
<1>1. SafeInv => StoresNothingStale
  BY DEF SafeInv, FoundIsCurrent, Visiting, StoresNothingStale
<1>2. QED
  BY InitSafe, NextSafe, <1>1, PTL DEF Spec

\* The log has all the usage of a session that is not read again, unless it was
\* resumed and shut down after it was read.
THEOREM NothingElseIsShort == Spec => []OnlyResumedIsShort
<1>1. SafeInv => OnlyResumedIsShort
  BY DEF SafeInv, ShortIfResumed, LastUsage, OnlyResumedIsShort
<1>2. QED
  BY InitSafe, NextSafe, <1>1, PTL DEF Spec
=============================================================================
