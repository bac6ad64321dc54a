--------------------------- MODULE ClustersProofs ---------------------------
(* Proofs about Clusters: one worker at most, and clients that follow the  *)
(* tunnels, for any contexts, routes, objects and editors.                 *)
EXTENDS Clusters, TLAPS

\* The objects a step makes or changes are clusters (newClusterState, start, stop).
LEMMA ClusterTypes ==
    ASSUME route \in [Contexts -> Routes]
    PROVE  /\ NoCluster \in Cluster
           /\ \A n \in Contexts : NewCluster(n) \in Cluster
           /\ \A c \in Cluster : Started(c) \in Cluster /\ Stopped(c) \in Cluster
  BY DEF NoCluster, NewCluster, Started, Stopped, Cluster

\* The fields of those objects.
LEMMA ClusterFields ==
    /\ NoCluster.name = None /\ ~NoCluster.runs
    /\ \A n \in Contexts : /\ NewCluster(n).name = n
                           /\ NewCluster(n).route = route[n]
                           /\ ~NewCluster(n).runs
    /\ \A c \in Cluster : /\ Started(c).name = c.name /\ Started(c).route = c.route
                          /\ Stopped(c).name = c.name /\ Stopped(c).route = c.route
                          /\ ~Stopped(c).runs
  BY DEF NoCluster, NewCluster, Started, Stopped, Unless, Cluster

\* switchCluster keeps the invariant.
LEMMA SwitchStep ==
    ASSUME IndInv, NEW n \in Contexts, NEW o \in ClusterStates, SwitchTo(n, o)
    PROVE  IndInv'
  <1> USE ClustersAssumption
  <1>1. TypeOK'
    <2>1. byName' \in [Contexts -> ClusterStates \cup {None}]
      BY DEF IndInv, TypeOK, SwitchTo
    <2>2. \A x \in ClusterStates : cluster[x] \in Cluster
      BY DEF IndInv, TypeOK
    <2>3. \A x \in ClusterStates : cluster'[x] \in Cluster
      BY <2>2, ClusterTypes DEF IndInv, TypeOK, SwitchTo, Unless
    <2>4. cluster' \in [ClusterStates -> Cluster]
      BY <2>3 DEF SwitchTo
    <2> QED BY <2>1, <2>4 DEF IndInv, TypeOK, SwitchTo
  <1>2. LoadedByName'
    <2> SUFFICES ASSUME NEW m \in Contexts, byName'[m] # None
                 PROVE  cluster'[byName'[m]].name = m
      BY DEF LoadedByName
    <2>0. \A x \in ClusterStates : cluster[x] \in Cluster
      BY DEF IndInv, TypeOK
    <2>1. CASE m = n
      <3>1. byName'[m] = o
        BY <2>1 DEF SwitchTo, IndInv, TypeOK
      <3>2. cluster'[o] = Started(IF byName[n] = None THEN NewCluster(n) ELSE cluster[o])
        BY DEF SwitchTo
      <3>3. CASE byName[n] = None
        BY <3>1, <3>2, <3>3, <2>1, ClusterTypes, ClusterFields DEF IndInv, TypeOK
      <3>4. CASE byName[n] # None
        <4>1. o = byName[n] /\ cluster[o].name = n
          BY <3>4 DEF SwitchTo, IndInv, LoadedByName
        <4> QED BY <3>1, <3>2, <3>4, <4>1, <2>0, <2>1, ClusterFields
      <3> QED BY <3>3, <3>4
    <2>2. CASE m # n
      <3> DEFINE x == byName[m]
      <3>1. byName'[m] = x /\ x \in ClusterStates /\ cluster[x].name = m
        BY <2>2 DEF SwitchTo, IndInv, TypeOK, LoadedByName
      <3>2. x # o
        <4>1. CASE o \in Spare
          BY <4>1, <3>1, ClusterFields DEF Spare
        <4>2. CASE o = byName[n]
          BY <4>2, <3>1, <2>2 DEF IndInv, LoadedByName
        <4> QED BY <4>1, <4>2 DEF SwitchTo
      <3>3. cluster'[x] = cluster[x] \/ cluster'[x] = Stopped(cluster[x])
        <4>1. CASE x = active
          <5>1. cluster'[x] = Unless(\E k \in Contexts : byName[k] = x, Stopped(cluster[x]))
            BY <4>1, <3>1, <3>2 DEF SwitchTo
          <5>2. \E k \in Contexts : byName[k] = x
            OBVIOUS
          <5> QED BY <5>1, <5>2 DEF Unless
        <4>2. CASE x # active
          BY <4>2, <3>1, <3>2 DEF SwitchTo
        <4> QED BY <4>1, <4>2
      <3> QED BY <3>1, <3>3, <2>0, ClusterFields
    <2> QED BY <2>1, <2>2
  <1>3. OnlyActivePolls'
    <2> SUFFICES ASSUME NEW x \in ClusterStates, x # o
                 PROVE  ~cluster'[x].runs
      BY DEF OnlyActivePolls, SwitchTo
    <2>0. cluster[x] \in Cluster
      BY DEF IndInv, TypeOK
    <2>1. CASE x = active
      <3>1. cluster'[x] = Unless(\E k \in Contexts : byName[k] = x, Stopped(cluster[x]))
        BY <2>1 DEF SwitchTo
      <3>2. cluster'[x] = Stopped(cluster[x]) \/ cluster'[x] = NoCluster
        BY <3>1 DEF Unless
      <3> QED BY <3>2, <2>0, ClusterFields
    <2>2. CASE x # active
      BY <2>2 DEF SwitchTo, IndInv, OnlyActivePolls
    <2> QED BY <2>1, <2>2
  <1> QED BY <1>1, <1>2, <1>3 DEF IndInv

\* reloadClusters keeps it.
LEMMA ReloadStep ==
    ASSUME IndInv, NEW e \in Editors, Reload(e)
    PROVE  IndInv'
  <1> USE ClustersAssumption
  <1> DEFINE names == {n \in changed[e] : byName[n] # None}
  <1>1. PICK ok \in SUBSET names : \E new \in Injection(ok, Spare) : Reloaded(names, ok, new)
    BY DEF Reload
  <1>2. PICK new \in Injection(ok, Spare) : Reloaded(names, ok, new)
    BY <1>1
  <1> HIDE DEF names
  <1>n. names \subseteq Contexts /\ \A n \in names : byName[n] \in ClusterStates
    BY DEF names, IndInv, TypeOK
  <1>f. /\ new \in [ok -> Spare]
        /\ \A m, n \in ok : new[m] = new[n] => m = n
        /\ ok \subseteq names
    BY <1>1, <1>2 DEF Injection, IsInjective
  <1>c. \A x \in ClusterStates : cluster[x] \in Cluster
    BY DEF IndInv, TypeOK
  \* The four things that may happen to an object.
  <1>3. \A n \in ok : /\ new[n] \in ClusterStates
                      /\ cluster[new[n]] = NoCluster
                      /\ cluster'[new[n]] = IF byName[n] = active THEN Started(NewCluster(n))
                                            ELSE NewCluster(n)
    <2> TAKE n \in ok
    <2>1. new[n] \in ClusterStates /\ cluster[new[n]] = NoCluster
      BY <1>f DEF Spare
    <2>2. n = CHOOSE m \in ok : new[m] = new[n]
      BY <1>f
    <2>3. cluster'[new[n]] = LET k == CHOOSE m \in ok : new[m] = new[n]
                             IN IF byName[k] = active THEN Started(NewCluster(k))
                                ELSE NewCluster(k)
      <3>1. \A m \in names : byName[m] # new[n]
        BY <2>1, <1>n, ClusterFields DEF IndInv, LoadedByName
      <3> QED BY <1>2, <2>1, <3>1 DEF Reloaded
    <2> QED BY <2>1, <2>2, <2>3
  <1>4. \A n \in names : /\ (\A m \in ok : new[m] # byName[n])
                         /\ cluster'[byName[n]] = Unless(active' = byName[n],
                                                        Stopped(cluster[byName[n]]))
    <2> TAKE n \in names
    <2>1. cluster[byName[n]].name = n /\ byName[n] \in ClusterStates
      BY <1>n DEF IndInv, LoadedByName
    <2>2. \A m \in ok : new[m] # byName[n]
      BY <1>3, <1>n, <2>1, ClusterFields
    <2> QED BY <1>2, <2>1, <2>2 DEF Reloaded
  <1>5. \A x \in ClusterStates : (\A m \in ok : new[m] # x) /\ (\A n \in names : byName[n] # x)
                             => cluster'[x] = cluster[x]
    BY <1>2 DEF Reloaded
  <1>a. /\ (\E n \in ok : byName[n] = active) =>
             cluster[active].name \in ok /\ active' = new[cluster[active].name]
                /\ byName[cluster[active].name] = active
        /\ ~(\E n \in ok : byName[n] = active) => active' = active
    BY <1>2, <1>f, <1>n DEF Reloaded, IndInv, LoadedByName
  <1>b. \A n \in Contexts : byName'[n] = CASE n \in ok -> new[n]
                                           [] n \in names \ ok -> None
                                           [] OTHER -> byName[n]
    BY <1>2 DEF Reloaded
  <1>6. TypeOK'
    <2>1. byName' \in [Contexts -> ClusterStates \cup {None}]
      <3>1. \A n \in Contexts : byName'[n] \in ClusterStates \cup {None}
        BY <1>b, <1>3 DEF IndInv, TypeOK
      <3> QED BY <3>1, <1>2 DEF Reloaded
    <2>2. active' \in ClusterStates
      BY <1>a, <1>3 DEF IndInv, TypeOK
    <2>3. \A x \in ClusterStates : cluster'[x] \in Cluster
      <3> TAKE x \in ClusterStates
      <3>1. CASE \E n \in ok : new[n] = x
        BY <3>1, <1>3, <1>f, <1>n, ClusterTypes DEF IndInv, TypeOK
      <3>2. CASE \E n \in names : byName[n] = x
        BY <3>2, <1>4, <1>c, ClusterTypes DEF IndInv, TypeOK, Unless
      <3> QED BY <3>1, <3>2, <1>5, <1>c
    <2>4. cluster' \in [ClusterStates -> Cluster]
      BY <2>3, <1>2 DEF Reloaded
    <2>5. /\ changed' \in [Editors -> SUBSET Contexts]
          /\ route' = route
          /\ skipped' \subseteq Contexts
      BY DEF Reload, IndInv, TypeOK
    <2> QED BY <2>1, <2>2, <2>4, <2>5 DEF IndInv, TypeOK
  <1>7. LoadedByName'
    <2> SUFFICES ASSUME NEW n \in Contexts, byName'[n] # None
                 PROVE  cluster'[byName'[n]].name = n
      BY DEF LoadedByName
    <2>1. CASE n \in ok
      BY <2>1, <1>3, <1>b, ClusterFields, ClusterTypes, SMTT(30) DEF IndInv, TypeOK
    <2>2. CASE n \notin ok
      <3>1. n \notin names /\ byName'[n] = byName[n]
        BY <2>2, <1>b
      <3>2. byName[n] \in ClusterStates /\ cluster[byName[n]].name = n
        BY <3>1 DEF IndInv, TypeOK, LoadedByName
      <3>3. \A m \in ok : new[m] # byName[n]
        BY <3>2, <1>3, ClusterFields
      <3>4. \A m \in names : byName[m] # byName[n]
        BY <3>1, <3>2, <1>n DEF IndInv, LoadedByName
      <3> QED BY <3>1, <3>2, <3>3, <3>4, <1>5
    <2> QED BY <2>1, <2>2
  <1>8. OnlyActivePolls'
    <2> SUFFICES ASSUME NEW x \in ClusterStates, cluster'[x].runs
                 PROVE  x = active'
      BY DEF OnlyActivePolls
    <2>1. CASE \E n \in ok : new[n] = x
      <3>1. PICK n \in ok : new[n] = x
        BY <2>1
      <3>2. byName[n] = active
        BY <3>1, <1>3, <1>f, <1>n, ClusterFields
      <3>3. cluster[active].name = n
        BY <3>2, <1>f, <1>n DEF IndInv, LoadedByName, TypeOK
      <3> QED BY <3>1, <3>2, <3>3, <1>a
    <2>2. CASE \E n \in names : byName[n] = x
      <3>1. PICK n \in names : byName[n] = x
        BY <2>2
      <3>2. \/ cluster'[x] = NoCluster
            \/ cluster'[x] = Stopped(cluster[x])
        BY <3>1, <1>4 DEF Unless
      <3> QED BY <3>2, <1>c, ClusterFields
    <2>3. CASE (\A n \in ok : new[n] # x) /\ (\A n \in names : byName[n] # x)
      <3>1. cluster[x].runs
        BY <2>3, <1>5
      <3>2. x = active
        BY <3>1 DEF IndInv, OnlyActivePolls
      <3>3. ~ \E n \in ok : byName[n] = active
        BY <2>3, <3>2, <1>f
      <3> QED BY <3>2, <3>3, <1>a
    <2> QED BY <2>1, <2>2, <2>3
  <1> QED BY <1>6, <1>7, <1>8 DEF IndInv

\* saveTunnel and deleteTunnel touch no cluster.
LEMMA EditStep ==
    ASSUME IndInv, NEW e \in Editors, NEW new \in [Contexts -> Routes], Edit(e, new)
    PROVE  IndInv'
  <1>1. TypeOK'
    BY DEF IndInv, TypeOK, Edit
  <1> QED BY <1>1 DEF IndInv, LoadedByName, OnlyActivePolls, Edit

\* TypeOK, LoadedByName and OnlyActivePolls together are invariant.
THEOREM Inductive == ClustersSpec => []IndInv
  <1>1. ClustersInit => IndInv
    <2> SUFFICES ASSUME ClustersInit PROVE IndInv
      OBVIOUS
    <2>0. route \in [Contexts -> Routes]
      BY DEF ClustersInit
    <2>1. PICK n \in Contexts, o \in ClusterStates :
            /\ active = o
            /\ byName = [m \in Contexts |-> IF m = n THEN o ELSE None]
            /\ cluster = [x \in ClusterStates |-> IF x = o THEN Started(NewCluster(n)) ELSE NoCluster]
      BY DEF ClustersInit
    <2>2. Started(NewCluster(n)) \in Cluster /\ Started(NewCluster(n)).name = n
      BY <2>0, ClusterTypes, ClusterFields
    <2>3. /\ cluster[o] = Started(NewCluster(n))
          /\ \A x \in ClusterStates : x # o => cluster[x] = NoCluster
      BY <2>1
    <2>4. cluster \in [ClusterStates -> Cluster]
      <3>1. \A x \in ClusterStates : cluster[x] \in Cluster
        BY <2>0, <2>2, <2>3, ClusterTypes
      <3> QED BY <2>1, <3>1
    <2>5. TypeOK
      BY <2>0, <2>1, <2>4 DEF TypeOK, ClustersInit
    <2>6. LoadedByName
      BY <2>1, <2>2, <2>3 DEF LoadedByName
    <2>7. OnlyActivePolls
      BY <2>1, <2>3 DEF OnlyActivePolls, NoCluster
    <2> QED BY <2>5, <2>6, <2>7 DEF IndInv
  <1>2. IndInv /\ [ClustersNext]_clustersVars => IndInv'
    <2> SUFFICES ASSUME IndInv, [ClustersNext]_clustersVars PROVE IndInv'
      OBVIOUS
    <2>1. ASSUME NEW n \in Contexts, Switch(n) PROVE IndInv'
      BY <2>1, SwitchStep DEF Switch
    <2>2. ASSUME NEW e \in Editors, Reload(e) PROVE IndInv'
      BY <2>2, ReloadStep
    <2>3. ASSUME NEW e \in Editors, NEW new \in [Contexts -> Routes], Edit(e, new)
          PROVE IndInv'
      BY <2>3, EditStep
    <2>4. CASE UNCHANGED clustersVars
      BY <2>4 DEF clustersVars, IndInv, TypeOK, LoadedByName, OnlyActivePolls
    <2> QED BY <2>1, <2>2, <2>3, <2>4 DEF ClustersNext
  <1> QED BY <1>1, <1>2, PTL DEF ClustersSpec

\* Type correctness of every reachable state.
THEOREM TypeCorrect == ClustersSpec => []TypeOK
  <1>1. IndInv => TypeOK
    BY DEF IndInv
  <1> QED BY <1>1, Inductive, PTL

\* Only the active cluster's worker polls, whatever switches, edits and reloads
\* (failed ones too) come in whatever order.
THEOREM OnlyActivePollsAlways == ClustersSpec => []OnlyActivePolls
  <1>1. IndInv => OnlyActivePolls
    BY DEF IndInv
  <1> QED BY <1>1, Inductive, PTL

\* A switch leaves ClientsFollow true: what it loads is loaded as the tunnels are.
LEMMA SwitchFollows ==
    ASSUME IndInv, ClientsFollow, NEW n \in Contexts, NEW o \in ClusterStates, SwitchTo(n, o)
    PROVE  ClientsFollow'
  <1> USE ClustersAssumption
  <1> SUFFICES ASSUME NEW m \in Contexts, byName'[m] # None,
                      cluster'[byName'[m]].route # route[m]
               PROVE  byName[m] # None /\ cluster[byName[m]].route # route[m]
    BY DEF ClientsFollow, SwitchTo
  <1>0. \A x \in ClusterStates : cluster[x] \in Cluster
    BY DEF IndInv, TypeOK
  <1>1. CASE m = n
    <2>1. byName'[m] = o
      BY <1>1 DEF SwitchTo, IndInv, TypeOK
    <2>2. cluster'[o] = Started(IF byName[n] = None THEN NewCluster(n) ELSE cluster[o])
      BY DEF SwitchTo
    <2>3. byName[n] # None
      BY <1>1, <2>1, <2>2, ClusterTypes, ClusterFields, SMTT(30) DEF IndInv, TypeOK
    <2>4. o = byName[n]
      BY <2>3 DEF SwitchTo
    <2> QED BY <1>0, <1>1, <2>1, <2>2, <2>3, <2>4, ClusterFields
  <1>2. CASE m # n
    <2> DEFINE x == byName[m]
    <2>1. byName'[m] = x /\ x \in ClusterStates /\ cluster[x].name = m /\ x # None
      BY <1>2 DEF SwitchTo, IndInv, TypeOK, LoadedByName
    <2>2. x # o
      <3>1. CASE o \in Spare
        BY <3>1, <2>1, ClusterFields DEF Spare
      <3>2. CASE o = byName[n]
        BY <3>2, <2>1, <1>2 DEF IndInv, LoadedByName
      <3> QED BY <3>1, <3>2 DEF SwitchTo
    <2>3. cluster'[x] = cluster[x] \/ cluster'[x] = Stopped(cluster[x])
      <3>1. CASE x = active
        <4>1. cluster'[x] = Unless(\E k \in Contexts : byName[k] = x, Stopped(cluster[x]))
          BY <3>1, <2>1, <2>2 DEF SwitchTo
        <4>2. \E k \in Contexts : byName[k] = x
          OBVIOUS
        <4> QED BY <4>1, <4>2 DEF Unless
      <3>2. CASE x # active
        BY <3>2, <2>1, <2>2 DEF SwitchTo
      <3> QED BY <3>1, <3>2
    <2> QED BY <1>0, <2>1, <2>3, ClusterFields
  <1> QED BY <1>1, <1>2

\* So does a reload: what it rebuilds has the current route, and what it does not
\* touch was not on its list.
LEMMA ReloadFollows ==
    ASSUME IndInv, ClientsFollow, NEW e \in Editors, Reload(e)
    PROVE  ClientsFollow'
  <1> USE ClustersAssumption
  <1> DEFINE names == {n \in changed[e] : byName[n] # None}
  <1>1. PICK ok \in SUBSET names : \E new \in Injection(ok, Spare) : Reloaded(names, ok, new)
    BY DEF Reload
  <1>2. PICK new \in Injection(ok, Spare) : Reloaded(names, ok, new)
    BY <1>1
  <1>n. \A n \in Contexts : n \in names <=> n \in changed[e] /\ byName[n] # None
    OBVIOUS
  <1>m. names \subseteq Contexts
    BY DEF IndInv, TypeOK
  <1> HIDE DEF names
  <1>f. /\ new \in [ok -> Spare]
        /\ \A m, n \in ok : new[m] = new[n] => m = n
        /\ ok \subseteq names
    BY <1>1, <1>2 DEF Injection, IsInjective
  <1> SUFFICES ASSUME NEW n \in Contexts, byName'[n] # None,
                      cluster'[byName'[n]].route # route[n]
               PROVE  n \in skipped' \/ \E d \in Editors : n \in changed'[d]
    BY DEF ClientsFollow, Reload
  <1>3. n \notin ok
    <2> SUFFICES ASSUME n \in ok PROVE FALSE
      OBVIOUS
    <2>1. byName'[n] = new[n] /\ new[n] \in ClusterStates /\ cluster[new[n]] = NoCluster
      BY <1>2, <1>f DEF Reloaded, Spare
    <2>2. \A m \in names : byName[m] # new[n]
      BY <2>1, <1>n, <1>m, ClusterFields DEF IndInv, LoadedByName
    <2>3. n = CHOOSE m \in ok : new[m] = new[n]
      BY <1>f
    <2>4. cluster'[new[n]] = LET k == CHOOSE m \in ok : new[m] = new[n]
                             IN IF byName[k] = active THEN Started(NewCluster(k))
                                ELSE NewCluster(k)
      BY <1>2, <2>1, <2>2 DEF Reloaded
    <2>5. cluster'[new[n]] \in {Started(NewCluster(n)), NewCluster(n)}
      BY <2>3, <2>4
    <2> QED BY <2>1, <2>5, ClusterFields, ClusterTypes, SMTT(30) DEF IndInv, TypeOK
  <1>4. n \notin names /\ byName'[n] = byName[n] /\ byName[n] \in ClusterStates
    BY <1>2, <1>3 DEF Reloaded, IndInv, TypeOK
  <1>5. cluster[byName[n]].name = n
    BY <1>4 DEF IndInv, LoadedByName, TypeOK
  <1>6. cluster'[byName[n]] = cluster[byName[n]]
    <2>1. \A m \in ok : new[m] # byName[n]
      BY <1>5, <1>f, ClusterFields DEF Spare
    <2>2. \A m \in names : byName[m] # byName[n]
      BY <1>4, <1>5, <1>n, <1>m DEF IndInv, LoadedByName
    <2> QED BY <1>2, <1>4, <2>1, <2>2 DEF Reloaded
  <1>7. CASE n \in skipped
    BY <1>4, <1>7 DEF Reload, names
  <1>8. CASE \E d \in Editors : n \in changed[d]
    <2>1. PICK d \in Editors : n \in changed[d]
      BY <1>8
    <2>2. d # e
      BY <1>4, <2>1, <1>n
    <2> QED BY <2>1, <2>2 DEF Reload, IndInv, TypeOK
  <1> QED BY <1>4, <1>6, <1>7, <1>8 DEF ClientsFollow

\* Every loaded cluster is reached through the tunnel its context has, is about
\* to be reloaded, or missed a reload because prefs.json could not be written.
THEOREM ClientsFollowAlways == ClustersSpec => []ClientsFollow
  <1>1. ClustersInit => ClientsFollow
    <2> SUFFICES ASSUME ClustersInit, NEW n \in Contexts, byName[n] # None
                 PROVE  cluster[byName[n]].route = route[n]
      BY DEF ClientsFollow
    <2>1. PICK k \in Contexts, o \in ClusterStates :
            /\ byName = [m \in Contexts |-> IF m = k THEN o ELSE None]
            /\ cluster = [x \in ClusterStates |-> IF x = o THEN Started(NewCluster(k)) ELSE NoCluster]
      BY DEF ClustersInit
    <2>2. n = k /\ cluster[byName[n]] = Started(NewCluster(n))
      BY <2>1
    <2> QED BY <2>2 DEF Started, NewCluster
  <1>2. IndInv /\ ClientsFollow /\ [ClustersNext]_clustersVars => ClientsFollow'
    <2> SUFFICES ASSUME IndInv, ClientsFollow, [ClustersNext]_clustersVars PROVE ClientsFollow'
      OBVIOUS
    <2>1. ASSUME NEW n \in Contexts, Switch(n) PROVE ClientsFollow'
      BY <2>1, SwitchFollows DEF Switch
    <2>2. ASSUME NEW e \in Editors, Reload(e) PROVE ClientsFollow'
      BY <2>2, ReloadFollows
    <2>3. ASSUME NEW e \in Editors, NEW new \in [Contexts -> Routes], Edit(e, new)
          PROVE ClientsFollow'
      <3> SUFFICES ASSUME NEW n \in Contexts, byName[n] # None,
                          cluster[byName[n]].route # new[n]
                   PROVE  n \in skipped' \/ \E d \in Editors : n \in changed'[d]
        BY <2>3 DEF ClientsFollow, Edit
      <3> DEFINE names == {m \in Contexts : new[m] # route[m]}
      <3>1. /\ \/ changed' = [changed EXCEPT ![e] = names] /\ skipped' = skipped
               \/ skipped' = skipped \cup names /\ changed' = changed
            /\ changed[e] = {}
        BY <2>3 DEF Edit
      <3>2. CASE new[n] # route[n]
        BY <3>1, <3>2 DEF IndInv, TypeOK
      <3>3. CASE new[n] = route[n]
        <4>1. CASE n \in skipped
          BY <3>1, <4>1
        <4>2. CASE \E d \in Editors : n \in changed[d]
          <5>1. PICK d \in Editors : n \in changed[d]
            BY <4>2
          <5>2. d # e
            BY <3>1, <5>1
          <5> QED BY <3>1, <5>1, <5>2 DEF IndInv, TypeOK
        <4> QED BY <3>3, <4>1, <4>2 DEF ClientsFollow
      <3> QED BY <3>2, <3>3
    <2>4. CASE UNCHANGED clustersVars
      BY <2>4 DEF clustersVars, ClientsFollow
    <2> QED BY <2>1, <2>2, <2>3, <2>4 DEF ClustersNext
  <1> QED BY <1>1, <1>2, Inductive, PTL DEF ClustersSpec

=============================================================================
