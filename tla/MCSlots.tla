------------------------------- MODULE MCSlots -------------------------------
(***************************************************************************)
(* For TLC: the model's slots, and the workers of a cluster that was left   *)
(* and watched again.  They share no state; a behaviour is one of them, with *)
(* the other at rest.                                                        *)
(***************************************************************************)
EXTENDS ModelSlots, Sweep

CONSTANTS u1, k1, k2, w1, w2

VARIABLE part  \* which of them moves

partVars == <<vars, sweepVars, part>>

PartsInit == Init /\ SweepInit /\ part \in {"slots", "sweep"}

PartsNext ==
    /\ UNCHANGED part
    /\ \/ part = "slots" /\ Next /\ UNCHANGED sweepVars
       \/ part = "sweep" /\ SweepNext /\ UNCHANGED vars

\* Both Fairness, of which nothing is enabled in a part at rest: so one strongly fair
\* action of each can share a condition, which keeps TLC's work small.
PartsFairness ==
    /\ WeakFairness /\ SweepWeakFairness
    /\ SF_partVars(\/ StopNote(u1) /\ UNCHANGED <<sweepVars, part>>
                   \/ Reaches(w1, 1) /\ UNCHANGED <<vars, part>>)
    /\ SF_partVars(\/ GiveUp(u1) /\ UNCHANGED <<sweepVars, part>>
                   \/ Reaches(w1, 2) /\ UNCHANGED <<vars, part>>)
    /\ SF_partVars(\/ Ends(k1) /\ UNCHANGED <<sweepVars, part>>
                   \/ Reaches(w2, 1) /\ UNCHANGED <<vars, part>>)
    /\ SF_partVars(\/ Ends(k2) /\ UNCHANGED <<sweepVars, part>>
                   \/ Reaches(w2, 2) /\ UNCHANGED <<vars, part>>)

PartsSpec == PartsInit /\ [][PartsNext]_partVars /\ PartsFairness
==============================================================================
