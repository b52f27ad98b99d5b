------------------------------- MODULE Ledger -------------------------------
(***************************************************************************)
(* What the exporter promises to whoever reads its totals, without the log,*)
(* the processes or the failures: a ledger that is first built and then    *)
(* opened.  Once it is open its totals only grow, and an event is never    *)
(* confirmed (put behind the checkpoint, not to be read again) before it   *)
(* is counted, nor uncounted or forgotten afterwards.                      *)
(***************************************************************************)
EXTENDS Naturals

CONSTANT Events

VARIABLES
    counted,    \* how often each event is in its series' total
    confirmed,  \* the events that will not be read again
    opened      \* the history is complete, readers may rely on the totals

ledger == <<counted, confirmed, opened>>

Counts == [Events -> Nat]

Init ==
    /\ counted = [e \in Events |-> 0]
    /\ confirmed = {}
    /\ opened = FALSE

\* The history is written, as often as it takes, from the start.
Build ==
    /\ ~opened
    /\ counted' \in Counts
    /\ UNCHANGED <<confirmed, opened>>

\* New usage is added to the totals.
Raise ==
    /\ opened
    /\ counted' \in Counts
    /\ \A e \in Events : counted'[e] >= counted[e]
    /\ UNCHANGED <<confirmed, opened>>

\* Counted events are confirmed; the first time opens the ledger.
Confirm ==
    /\ confirmed \subseteq confirmed'
    /\ confirmed' \subseteq {e \in Events : counted[e] >= 1}
    /\ opened' = TRUE
    /\ UNCHANGED counted

Next == Build \/ Raise \/ Confirm

Spec == Init /\ [][Next]_ledger
=============================================================================
