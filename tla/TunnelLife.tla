------------------------------ MODULE TunnelLife ------------------------------
(***************************************************************************)
(* What the tunnels promise: the life of a tunnel as its user sees it.  A   *)
(* tunnel owns one process while it shows "starting" or "running" and none  *)
(* otherwise, no two own the same, and only what is said here changes what   *)
(* it shows.  Tunnels implements it.                                        *)
(***************************************************************************)
CONSTANTS Runs, Procs

VARIABLES
    state,   \* what a tunnel shows
    owned,   \* its processes that nobody has told to end
    asked    \* the tunnels somebody is about to start

lifeVars == <<state, owned, asked>>

LifeInit ==
    /\ state = [r \in Runs |-> "stopped"]
    /\ owned = [r \in Runs |-> {}]
    /\ asked = {}

Shows(r, s) == state' = [state EXCEPT ![r] = s]

\* It may be started: by somebody, or again after its process has dropped.
Startable(r) ==
    /\ owned[r] = {}
    /\ state[r] = "exited" \/ (state[r] \in {"stopped", "failed"} /\ r \in asked)

Start(r) ==
    /\ Startable(r) /\ Shows(r, "starting")
    /\ \E p \in Procs : /\ \A s \in Runs : p \notin owned[s]
                        /\ owned' = [owned EXCEPT ![r] = {p}]

StartFails(r) == Startable(r) /\ Shows(r, "failed") /\ UNCHANGED owned

\* Another program serves its port.
Adopt(r) == Startable(r) /\ r \in asked /\ Shows(r, "external") /\ UNCHANGED owned

Ready(r) == state[r] = "starting" /\ Shows(r, "running") /\ UNCHANGED owned

\* It was not ready in time; its process is told to end.
GiveUp(r) ==
    /\ state[r] = "starting" /\ owned[r] # {}
    /\ Shows(r, "failed") /\ owned' = [owned EXCEPT ![r] = {}]

\* Its process has ended by itself.
Drop(r) ==
    /\ state[r] \in {"starting", "running"} /\ owned[r] # {}
    /\ Shows(r, "exited") /\ owned' = [owned EXCEPT ![r] = {}]

\* What served its port was its own stopped process, which has ended now.
Lose(r) == state[r] = "external" /\ Shows(r, "exited") /\ UNCHANGED owned

\* One is stopped, or all at the end.
Stop(S) ==
    /\ state' = [r \in Runs |-> IF r \in S THEN "stopped" ELSE state[r]]
    /\ owned' = [r \in Runs |-> IF r \in S THEN {} ELSE owned[r]]

Live(r) ==
    \/ Start(r) \/ StartFails(r) \/ Adopt(r) \/ Ready(r)
    \/ GiveUp(r) \/ Drop(r) \/ Lose(r)

\* Requests come and go at any step.
LifeNext ==
    /\ asked' \subseteq Runs
    /\ (\E r \in Runs : Live(r)) \/ (\E S \in SUBSET Runs : Stop(S)) \/ UNCHANGED <<state, owned>>

LifeSpec == LifeInit /\ [][LifeNext]_lifeVars

==============================================================================
