------------------------------- MODULE SlotPool -------------------------------
(***************************************************************************)
(* What the model slots promise: a bounded pool.  A caller holds one slot  *)
(* at most, the counter llmActiveCalls is the number of slots held, and    *)
(* never more than MaxCalls are.  ModelSlots implements it.                *)
(***************************************************************************)
EXTENDS Integers

CONSTANTS
    Callers,   \* whatever may hold a slot
    MaxCalls   \* the largest limit the settings accept

VARIABLES
    active,    \* the slots in use
    held       \* the callers that hold one

poolVars == <<active, held>>

PoolInit == active = 0 /\ held = {}

Acquire(h) ==
    /\ h \notin held
    /\ active < MaxCalls
    /\ active' = active + 1
    /\ held' = held \cup {h}

Release(h) ==
    /\ h \in held
    /\ active' = active - 1
    /\ held' = held \ {h}

PoolNext == \E h \in Callers : Acquire(h) \/ Release(h)

PoolSpec == PoolInit /\ [][PoolNext]_poolVars

==============================================================================
