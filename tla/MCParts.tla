------------------------------- MODULE MCParts -------------------------------
(***************************************************************************)
(* Parts that share no state, for TLC: the loaded clusters, the bundled      *)
(* server, what is done with a model (analyses, RCAs and their first prompt), *)
(* snapshots, and what the pages are built from.  A behaviour is one of them *)
(* with the others at rest; a call that finds no slot or no server is a      *)
(* failure in each.                                                          *)
(***************************************************************************)
EXTENDS Clusters, Embedded, Analyses, Rca, Evidence, Links, Events, Home, Families, Snapshot

VARIABLE part  \* which of them moves

builtVars == <<prompt, links, shown, home, page>>
vars == <<clustersVars, embVars, rcaVars, anVars, snapVars, builtVars, part>>

------------------------------------------------------------------------------
(* RCAs: the trail of a Pod that never ran, with an object linked to it *)

SomeTrails == {<<"unavailable", "done">>}

------------------------------------------------------------------------------
(* Prompts: lines shorter and longer than a note; logs with nothing worth reading *)

Ev(at, size) == [at |-> at, size |-> size]
Ln(error, size) == [error |-> error, size |-> size]
Warn(of, reason, at, size) == [of |-> of, reason |-> reason, at |-> at, size |-> size]

SomeLogs ==
    {NoLogs, [raw |-> 1, lines |-> <<>>],
     [raw |-> 9, lines |-> <<Ln(TRUE, 2), Ln(FALSE, 1), Ln(TRUE, 4), Ln(FALSE, 3)>>]}

SomeGathered ==
    LET common == [fixed : {5}, overhead : {3},
                   events : {<<>>, <<Ev(2, 3), Ev(1, 1)>>, <<Ev(1, 1), Ev(2, 4)>>},
                   linked : {<<>>, <<[size |-> 2, lines |-> <<1, 1>>], [size |-> 1, lines |-> <<2>>]>>}]
        ofPod == [isPod : {TRUE}, warns : {<<>>}, logs : [{0} -> SomeLogs]]
        ofOwner == [isPod : {FALSE}, logs : [1..2 -> SomeLogs],
                    warns : {<<>>, <<Warn(2, "a", 3, 1), Warn(1, "a", 3, 4)>>,
                             <<Warn(1, "a", 3, 2), Warn(0, "b", 3, 1), Warn(2, "a", 2, 3), Warn(2, "b", 4, 1)>>}]
    IN {a @@ b : a \in common, b \in ofPod \cup ofOwner}

------------------------------------------------------------------------------
(* Links: objects that two rules reach, that are missing or cannot be read *)

Sec(n) == <<"Secret", n>>
Pvc(n) == <<"PersistentVolumeClaim", n>>
Svc(n) == <<"Service", n>>

SomeObjects ==
    {<<"Deployment", "d">>, <<"Pod", "p1">>, <<"ServiceAccount", "a">>, <<"StorageClass", "x">>}
    \cup {Sec(n) : n \in {"s1", "s2"}} \cup {Pvc(n) : n \in {"c1", "c2"}}
    \cup {Svc(n) : n \in {"v1", "v2", "v3", "v4"}} \cup {<<"Node", n>> : n \in 1..3}

Plain == [of |-> NoPod, absent |-> <<>>, hosts |-> <<>>, connect |-> FALSE, mounts |-> {},
          volume |-> FALSE, refused |-> FALSE, placement |-> FALSE]

SomeWarnings ==
    {[Plain EXCEPT !.of = "p1", !.absent = <<Sec("s1"), Sec("s2")>>],
     [Plain EXCEPT !.of = "p2", !.volume = TRUE, !.placement = TRUE],
     [Plain EXCEPT !.of = "p1", !.mounts = {Pvc("c2")}],
     [Plain EXCEPT !.of = "p2", !.refused = TRUE, !.connect = TRUE, !.hosts = <<Svc("v1"), Svc("v4")>>]}

SomeLines ==
    {<<>>, <<[Plain EXCEPT !.hosts = <<Svc("v2"), Svc("v3")>>],
             [Plain EXCEPT !.connect = TRUE, !.hosts = <<Svc("v1"), Svc("v4")>>, !.absent = <<Sec("s1")>>]>>}

Pod(pending, claimed, secrets, own) ==
    [pending |-> pending, claims |-> claimed, secrets |-> secrets, account |-> <<"ServiceAccount", "a">>,
     services |-> own, nodes |-> {<<"Node", 2>>}]

SomeViews ==
    [anchor : {<<"Deployment", "d">>, <<"Pod", "p1">>, Pvc("c1"), Sec("s1")},
     warnings : BoundedSeq(SomeWarnings, 2) \cup {<<a, b, a>> : a, b \in SomeWarnings},
     logs : SomeLines,
     absent : {{}, {Pvc("c1"), Sec("s1"), Svc("v2")}}, denied : {{}, {Sec("s2"), Pvc("c2"), <<"Pod", "p1">>}},
     bound : {{Pvc("c2")}}, class : {<<>>, <<<<"StorageClass", "x">>>>}, accountSecrets : {<<>>, <<Sec("s1")>>},
     pods : {("p1" :> Pod(TRUE, <<Pvc("c1"), Pvc("c2")>>, <<>>, {Svc("v1")}))
             @@ ("p2" :> Pod(FALSE, <<Pvc("c1")>>, <<Sec("s2")>>, {}))},
     nodes : {<<<<"Node", 1>>, <<"Node", 2>>, <<"Node", 3>>>>}]

------------------------------------------------------------------------------
(* Events: copies of one history, occurrences within a second of each other *)

SomeCaches ==
    LET Copy(ns, n, k) == [ns |-> ns, name |-> n, last |-> 2 + k \div 2, count |-> k,
                           obj |-> IF n < 3 THEN 1 ELSE n,
                           first |-> IF n = 1 THEN 0 ELSE 2, namespaced |-> n # 3]
        Held(ns) == {SelectSeq(<<Copy(ns, 1, a), Copy(ns, 2, b), Copy(ns, 3, c)>>, LAMBDA e : e.count > 0) :
                       a, b \in 0..3, c \in {0, 6}}
    IN [sweep : {(1 :> sortNewestFirst(ToSet(h))) : h \in Held(1)},
        feed : {(1 :> h) @@ (2 :> <<Copy(2, 4, 3)>>) : h \in Held(1)} \cup {<<>>},
        ns : {1, clusterScopeNS}, obj : {1, 3}]

------------------------------------------------------------------------------
(* The home page: three problems in two or three namespaces, groups whose members a *)
(* map gives in any order, cluster-scoped warnings                                   *)

SomeHomes ==
    LET W(r, n, f, l) == [reason |-> r, count |-> n, first |-> f, last |-> l]
        M(p, d, w, l) == [pod |-> p, depth |-> d, warn |-> w, last |-> l]
        Group(n, t, f, r) == [ns |-> n, title |-> t, since |-> 0, members |-> <<M(0, 0, TRUE, 0)>>,
                              warnings |-> {W(r, 1, f, Max({f, 5}))}]
        three == {[i \in 1..3 |-> Group(n[i], t[i], f[i], r[i])] :
                    n \in {<<1, 2, 3>>, <<1, 2, 1>>}, t \in {<<"a", "b", "a">>, <<"a", "b", "c">>},
                    f \in [1..3 -> {1, 2, 4, 8}], r \in [1..3 -> {1, 2}]}
        orders == SetToSeqs({M(0, 0, TRUE, 1), M(1, 1, TRUE, 2), M(2, 1, TRUE, 2)})
                  \cup SetToSeqs({M(1, 1, TRUE, 0), M(2, 2, FALSE, 0), M(3, 1, TRUE, 1)})
        one == {<<g>> : g \in [ns : {1}, title : {"a"}, since : {0, 1}, members : orders,
                               warnings : {{W(1, 2, 0, 9), W(2, 2, 8, 8)}}]}
        about == {W(1, 1, 3, 4) @@ [kind |-> "Node"], W(1, 1, 3, 9) @@ [kind |-> "Node"]}
    IN [groups : three \cup one, cluster : {{}}, namespaces : {{1, 2, 3, 4}}, events : {{1, 2, 3, 5}}, own : {{1, 2, 3}}]
       \cup [groups : {<<>>}, cluster : {about}, namespaces : {{1}}, events : {{1}, {2}}, own : {{}, {1}}]

------------------------------------------------------------------------------
(* Namespace pages: names that could be those of several controllers' objects *)

SomePages ==
    LET Part(n, digits) == [len |-> n, digits |-> digits]
        app == <<Part(3, FALSE)>>
        mid == Append(app, Part(9, TRUE))
        objects == {<<"Deployment", app>>, <<"CronJob", app>>, <<"ReplicaSet", mid>>, <<"Job", mid>>,
                    <<"StatefulSet", mid>>, <<"Pod", Append(mid, Part(5, TRUE))>>, <<"Pod", Append(mid, Part(5, FALSE))>>}
        Event(o, type, stale) == [kind |-> o[1], name |-> o[2], type |-> type, stale |-> stale]
        Of(f) == UNION {CASE f[o] = 0 -> {} [] f[o] = 1 -> {Event(o, "Normal", FALSE)}
                          [] f[o] = 2 -> {Event(o, "Warning", TRUE), Event(o, "Normal", FALSE)} : o \in objects}
    IN {Of(f) : f \in [objects -> 0..2]}
       \cup {{Event(<<"Deployment", app>>, "Warning", a), Event(<<"ReplicaSet", mid>>, "Warning", b)} : a, b \in BOOLEAN}

------------------------------------------------------------------------------
(* Snapshots *)

SomeFound ==
    LET P(ph, waiting, ready) == [phase |-> ph, reason |-> "Evicted", waiting |-> waiting, ready |-> ready, old |-> TRUE]
        Lists(l) == [failed |-> FALSE, list |-> l]
    IN [k \in Kinds |->
          CASE k = "Deployment" -> {Lists(<<[ready |-> 0, want |-> 1], [ready |-> 1, want |-> 2]>>)}
            [] k = "StatefulSet" -> {[failed |-> TRUE, list |-> <<>>]}
            [] k = "Pod" -> {Lists(<<P("Failed", "", FALSE), P("Running", "Crash", FALSE), P("Running", "Crash", FALSE),
                                     P("Pending", "", FALSE), P("Running", "", TRUE)>>)}
            [] k = "Node" -> {Lists(<<[ready |-> FALSE, pressure |-> TRUE, cordoned |-> FALSE]>>)}
            [] k = "CronJob" -> {Lists(<<[suspended |-> FALSE, last |-> 2, success |-> 0]>>)}
            [] OTHER -> {Lists(<<>>)}]

------------------------------------------------------------------------------
Unbuilt == PromptInit /\ LinksInit /\ EventsInit /\ HomeInit /\ PageInit

\* The clusters of the other parts: one of their initial states.
Loaded ==
    /\ active = CHOOSE o \in ClusterStates : TRUE
    /\ cluster[active].name = CHOOSE n \in Contexts : TRUE
    /\ route = [n \in Contexts |-> CHOOSE r \in Routes : TRUE]

Init ==
    /\ ClustersInit /\ EmbInit /\ RcaInit /\ AnInit /\ Unbuilt /\ SnapInit
    /\ part \in {"clusters", "server", "analysis", "rca", "built", "snapshot"}
    /\ part # "snapshot" => scope = ClusterScope
    /\ part # "clusters" => Loaded

Next ==
    /\ UNCHANGED part
    /\ \/ part = "clusters" /\ ClustersNext /\ UNCHANGED <<embVars, rcaVars, anVars, snapVars, builtVars>>
       \/ part = "server" /\ EmbNext /\ UNCHANGED <<clustersVars, rcaVars, anVars, snapVars, builtVars>>
       \/ part = "rca" /\ RcaNext /\ UNCHANGED <<clustersVars, embVars, anVars, snapVars, builtVars>>
       \/ part = "analysis" /\ AnNext /\ UNCHANGED <<clustersVars, embVars, rcaVars, snapVars, builtVars>>
       \/ part = "snapshot" /\ SnapNext /\ UNCHANGED <<clustersVars, embVars, rcaVars, anVars, builtVars>>
       \/ /\ part = "built" /\ Unbuilt /\ UNCHANGED <<clustersVars, embVars, rcaVars, anVars, snapVars>>
          /\ \/ BuildPrompt /\ UNCHANGED <<links, shown, home, page>>
             \/ FollowLinks /\ UNCHANGED <<prompt, shown, home, page>>
             \/ ReadEvents /\ UNCHANGED <<prompt, links, home, page>>
             \/ BuildHome /\ UNCHANGED <<prompt, links, shown, page>>
             \/ BuildPage /\ UNCHANGED <<prompt, links, shown, home>>

Spec == Init /\ [][Next]_vars /\ RcaFairness /\ AnFairness
==============================================================================
