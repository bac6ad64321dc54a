------------------------------- MODULE Clusters -------------------------------
(***************************************************************************)
(* Which clusters KubeHealth has loaded and which one it watches           *)
(* (cluster.go), and how an edit of a tunnel replaces their clients        *)
(* (saveTunnel and reloadClusters, tunnels.go).                            *)
(*                                                                         *)
(* A cluster is an object: its clients are made once, through the tunnel   *)
(* its context has then, and a reload puts a new object in its place.      *)
(* switchCluster and reloadClusters each hold the clusters lock from start *)
(* to end and are one step.  What a watched cluster's worker does is in    *)
(* Sweep, whose Start and Stop are start() and stop() here.                *)
(***************************************************************************)
EXTENDS Naturals, FiniteSets, Functions

CONSTANTS
    Contexts,  \* kubeconfig contexts
    Routes,    \* ways to reach an API server: a tunnel, or none
    ClusterStates,   \* clusterState objects that may exist at once
    Editors,   \* requests that save or delete a tunnel
    Faults,    \* "load": newClusterState may fail; "disk": savePrefsLocked may
    None       \* nil

ASSUME ClustersAssumption ==
    /\ None \notin Contexts /\ None \notin Routes /\ None \notin ClusterStates
    /\ Faults \subseteq {"load", "disk"}

VARIABLES
    route,    \* prefs.Tunnels: the route of each context
    byName,   \* clusters.byName
    active,   \* clusters.active
    cluster,  \* the clusterState objects
    changed,  \* what each editor has changed and still has to reload
    skipped   \* history: contexts whose reload was skipped after an error

clustersVars == <<route, byName, active, cluster, changed, skipped>>

------------------------------------------------------------------------------
(* State *)

\* runs: stopRun # nil, the cluster's worker and owner resolver run.
Cluster == [name : Contexts \cup {None}, route : Routes \cup {None}, runs : BOOLEAN]

NoCluster == [name |-> None, route |-> None, runs |-> FALSE]

TypeOK ==
    /\ route \in [Contexts -> Routes]
    /\ byName \in [Contexts -> ClusterStates \cup {None}]
    /\ active \in ClusterStates
    /\ cluster \in [ClusterStates -> Cluster]
    /\ changed \in [Editors -> SUBSET Contexts]
    /\ skipped \subseteq Contexts

\* newClusterState: clients for context n, as its tunnel is now.
NewCluster(n) == [name |-> n, route |-> route[n], runs |-> FALSE]

\* Mutant: stop() does not cancel the worker.
StoppedNothing(c) == c

\* start() and stop() on a cluster
Started(c) == [c EXCEPT !.runs = TRUE]
Stopped(c) == [c EXCEPT !.runs = FALSE]

\* After initClusters: the kubeconfig's current context is loaded and watched.
ClustersInit ==
    /\ route \in [Contexts -> Routes]
    /\ changed = [e \in Editors |-> {}]
    /\ skipped = {}
    /\ \E n \in Contexts, o \in ClusterStates :
         /\ active = o
         /\ byName = [m \in Contexts |-> IF m = n THEN o ELSE None]
         /\ cluster = [x \in ClusterStates |-> IF x = o THEN Started(NewCluster(n)) ELSE NoCluster]

------------------------------------------------------------------------------
(* switchCluster *)

\* An object nothing refers to and whose worker was stopped is collected.
Spare == {o \in ClusterStates : cluster[o] = NoCluster}

Unless(referred, c) == IF referred \/ c.runs THEN c ELSE NoCluster

\* The context is watched already, it is loaded, or it is loaded now.  An error
\* changes nothing.
SwitchTo(n, o) ==
    /\ cluster[active].name # n
    /\ \/ o = byName[n] /\ UNCHANGED byName
       \/ byName[n] = None /\ o \in Spare /\ byName' = [byName EXCEPT ![n] = o]
    /\ cluster' = [x \in ClusterStates |->
                     CASE x = o -> Started(IF byName[n] = None THEN NewCluster(n) ELSE cluster[x])
                       [] x = active /\ x # o ->
                            Unless(\E m \in Contexts : byName[m] = x, Stopped(cluster[x]))
                       [] OTHER -> cluster[x]]
    /\ active' = o
    /\ UNCHANGED <<route, changed, skipped>>

Switch(n) == \E o \in ClusterStates : SwitchTo(n, o)

------------------------------------------------------------------------------
(* Edits of the tunnels *)

\* saveTunnel or deleteTunnel: the routes of some contexts change, in memory
\* first and then on disk.  Without the file nothing is reloaded.
Edit(e, new) ==
    LET names == {n \in Contexts : new[n] # route[n]}
    IN /\ changed[e] = {}
       /\ names # {}
       /\ route' = new
       /\ \/ changed' = [changed EXCEPT ![e] = names] /\ UNCHANGED skipped
          \/ "disk" \in Faults /\ skipped' = skipped \cup names /\ UNCHANGED changed
       /\ UNCHANGED <<byName, active, cluster>>

\* reloadClusters, when newClusterState succeeds for the contexts in ok: every
\* loaded one is stopped and replaced, or dropped; the watched one starts again.
Reloaded(names, ok, new) ==
    /\ byName' = [n \in Contexts |-> CASE n \in ok -> new[n]
                                       [] n \in names \ ok -> None
                                       [] OTHER -> byName[n]]
    /\ active' = IF \E n \in ok : byName[n] = active
                 THEN new[cluster[active].name] ELSE active
    /\ cluster' = [x \in ClusterStates |->
                     CASE \E n \in ok : new[n] = x ->
                            LET n == CHOOSE m \in ok : new[m] = x
                            IN IF byName[n] = active THEN Started(NewCluster(n))
                               ELSE NewCluster(n)
                       [] \E n \in names : byName[n] = x -> Unless(active' = x, Stopped(cluster[x]))
                       [] OTHER -> cluster[x]]

\* Mutant: only the watched cluster is rebuilt.
ReloadWatched(e) ==
    LET names == {n \in changed[e] : byName[n] = active}
    IN /\ changed[e] # {}
       /\ changed' = [changed EXCEPT ![e] = {}]
       /\ \E ok \in (IF "load" \in Faults THEN SUBSET names ELSE {names}) :
            \E new \in Injection(ok, Spare) : Reloaded(names, ok, new)
       /\ skipped' = skipped \ names
       /\ UNCHANGED route

\* The editor's call of reloadClusters; contexts that are not loaded are skipped.
Reload(e) ==
    LET names == {n \in changed[e] : byName[n] # None}
    IN /\ changed[e] # {}
       /\ changed' = [changed EXCEPT ![e] = {}]
       /\ \E ok \in (IF "load" \in Faults THEN SUBSET names ELSE {names}) :
            \E new \in Injection(ok, Spare) : Reloaded(names, ok, new)
       /\ skipped' = skipped \ names
       /\ UNCHANGED route

ClustersNext ==
    \/ \E n \in Contexts : Switch(n)
    \/ \E e \in Editors : Reload(e) \/ \E new \in [Contexts -> Routes] : Edit(e, new)

ClustersSpec == ClustersInit /\ [][ClustersNext]_clustersVars

------------------------------------------------------------------------------
(* Properties *)

\* cluster.go: "One cluster is active at a time and only its worker polls":
\* neither a switch nor a reload of the watched cluster, or of others, leaves a
\* second worker behind.
OnlyActivePolls == \A o \in ClusterStates : cluster[o].runs => o = active

\* tunnels.go: reloadClusters "rebuilds the clients of loaded contexts, after
\* their tunnel changed": a loaded cluster is reached through the tunnel its
\* context has now, or a reload is on its way, however edits and switches
\* overlap (newClusterState reads the tunnels as they are when it runs).  The
\* one exception is a context whose reload a failed write of prefs.json skipped.
ClientsFollow ==
    \A n \in Contexts :
        byName[n] # None /\ cluster[byName[n]].route # route[n] =>
            n \in skipped \/ \E e \in Editors : n \in changed[e]

\* tunnels.go: of the clusters a reload rebuilds "the watched one starts again
\* right away"; so the active cluster's worker runs.
ActivePolls == cluster[active].runs

------------------------------------------------------------------------------
(* The inductive invariant the proofs in ClustersProofs rest on *)

\* A cluster is loaded under its own name; so no object is loaded twice.
LoadedByName == \A n \in Contexts : byName[n] # None => cluster[byName[n]].name = n

IndInv == TypeOK /\ LoadedByName /\ OnlyActivePolls

==============================================================================
