--------------------------------- MODULE Home ---------------------------------
(***************************************************************************)
(* The home page (problems.go): problems from groups of warnings (Owners says *)
(* which warnings a group has), patterns over them, and the rail of           *)
(* namespaces.  Times are numbers, 0 the zero time; reasons and Pods are       *)
(* numbers, ordered as their names are; texts shown to the user are left out.  *)
(***************************************************************************)
EXTENDS Integers, FiniteSets, Sequences, SequencesExt

CONSTANTS
    Now, NewMax, OngoingMax, IdleAfter,  \* now, tierNewMax, tierOngoingMax, idleAfter
    Window,                              \* patternStartWindow
    Infra,                               \* infraReasons
    Homes                                \* what may be known when the page is built

VARIABLE home   \* the page built last; <<>>: none

\* Warnings have been counted and dated.  A group has some, of a namespace events are
\* known of, and members with the time of their last warning.
ASSUME HomesAssumption ==
    LET Known(warnings) == IsFiniteSet(warnings) /\ \A w \in warnings : {w.count, w.first, w.last} \subseteq Nat
    IN /\ {Now, NewMax, OngoingMax, IdleAfter, Window} \subseteq Nat
       /\ \A v \in Homes :
            /\ Known(v.cluster)
            /\ Len(v.groups) \in Nat /\ DOMAIN v.groups = 1..Len(v.groups)
            /\ \A i \in DOMAIN v.groups :
                 LET g == v.groups[i]
                 IN /\ Known(g.warnings) /\ g.warnings # {} /\ g.since \in Nat /\ g.ns \in v.events
                    /\ g.members \in Seq([pod : Nat, depth : Nat, warn : BOOLEAN, last : Nat])

------------------------------------------------------------------------------
(* Problems *)

Tier(first) ==
    IF Now - first < NewMax THEN "new" ELSE IF Now - first < OngoingMax THEN "ongoing" ELSE "chronic"

\* fillFromWarnings, setTiming and, for a CronJob that has failed since before its
\* warnings, cronJobFailingSince (since, 0 for none).
fillFromWarnings(warnings, since) ==
    LET at(w) == IF w.first = 0 THEN w.last ELSE w.first
        seen == Min({at(w) : w \in warnings})
        first == IF since # 0 /\ since < seen THEN since ELSE seen
        last == Max({w.last : w \in warnings})
        counts(ws) == SumFunction([w \in ws |-> w.count])
    IN [reasons |-> [r \in {w.reason : w \in warnings} |-> counts({w \in warnings : w.reason = r})],
        occurrences |-> counts(warnings),
        first |-> first, last |-> last, tier |-> Tier(first), idle |-> Now - last >= IdleAfter]

\* The Pod named, in a loop over the members in the order the map gives them; 0: none.
newestPod(members) ==
    LET newer(m, best) == m.last > best.last \/ (m.last = best.last /\ best.pod # 0 /\ m.pod < best.pod)
        one(best, m) == IF m.pod # 0 /\ m.warn /\ newer(m, best) THEN [pod |-> m.pod, last |-> m.last] ELSE best
        best[i \in 0..Len(members)] == IF i = 0 THEN [pod |-> 0, last |-> 0] ELSE one(best[i - 1], members[i])
    IN best[Len(members)].pod

\* Warnings at two levels of the chain, and every member at the deepest failing.
cascade(members) ==
    LET m == ToSet(members)
        deepest == Max({x.depth : x \in m})
    IN /\ Cardinality({x.depth : x \in {y \in m : y.warn}}) >= 2
       /\ \A x \in m : x.depth = deepest => x.warn

groupProblem(g) ==
    [scope |-> "namespace", ns |-> g.ns, title |-> g.title, of |-> fillFromWarnings(g.warnings, g.since),
     pod |-> newestPod(g.members), cascade |-> cascade(g.members)]

\* By kind and reason.
clusterProblems(warnings) ==
    {[scope |-> "cluster", kind |-> k[1], cascade |-> FALSE,
      of |-> fillFromWarnings({w \in warnings : <<w.kind, w.reason>> = k}, 0)] :
        k \in {<<w.kind, w.reason>> : w \in warnings}}

------------------------------------------------------------------------------
(* Patterns: ps is a sequence of namespace problems *)

primary(p) == LET r == p.of.reasons
              IN CHOOSE x \in DOMAIN r : \A y \in DOMAIN r : r[x] > r[y] \/ (r[x] = r[y] /\ x <= y)

Alike(p, q) ==
    /\ p.ns # q.ns /\ p.of.tier = q.of.tier
    /\ \/ p.of.first - q.of.first \in -Window..Window
       \/ p.title = q.title /\ primary(p) = primary(q)

\* Mutant: one of the two is moved, not all that are with it.
unionOne(parent, a, b) == [parent EXCEPT ![a] = parent[b]]

\* find and union: parent[i] is the root of i's tree.
union(parent, a, b) == [i \in DOMAIN parent |-> IF parent[i] = parent[a] THEN parent[b] ELSE parent[i]]

\* byReason: the problems with one infrastructure reason in one tier, from three
\* namespaces up.
Shared(ps) ==
    LET key(i) == <<primary(ps[i]), ps[i].of.tier>>
        byReason == {{j \in DOMAIN ps : key(j) = key(i)} : i \in {k \in DOMAIN ps : primary(ps[k]) \in Infra}}
    IN {s \in byReason : Cardinality({ps[i].ns : i \in s}) >= 3}

\* The pairs that are joined, the order of the second loop being that of a map.
Joins(ps) ==
    SetToSeq({e \in (DOMAIN ps) \X (DOMAIN ps) : e[1] < e[2] /\ Alike(ps[e[1]], ps[e[2]])})
    \o SetToSeq(UNION {{Min(s)} \X (s \ {Min(s)}) : s \in Shared(ps)})

Joined(ps) ==
    LET e == Joins(ps)
        parent[k \in 0..Len(e)] == IF k = 0 THEN [i \in DOMAIN ps |-> i] ELSE union(parent[k - 1], e[k][1], e[k][2])
    IN parent[Len(e)]

\* makePattern, of the problems with the indexes m.
makePattern(ps, m) ==
    LET last == Max({ps[i].of.last : i \in m})
    IN [scope |-> "pattern", members |-> m, namespaces |-> {ps[i].ns : i \in m},
        occurrences |-> SumFunction([i \in m |-> ps[i].of.occurrences]),
        first |-> Min({ps[i].of.first : i \in m}), last |-> last,
        tier |-> ps[CHOOSE i \in m : TRUE].of.tier,
        idle |-> Now - last >= IdleAfter, cascade |-> \E i \in m : ps[i].cascade]

Alone(ps, i) == [makePattern(ps, {i}) EXCEPT !.scope = "namespace"]

groupPatterns(ps) ==
    LET parent == Joined(ps)
        comps == {{j \in DOMAIN ps : parent[j] = parent[i]} : i \in DOMAIN ps}
        wide == {m \in comps : Cardinality({ps[i].ns : i \in m}) >= 2}
    IN {makePattern(ps, m) : m \in wide} \cup {Alone(ps, i) : i \in DOMAIN ps \ UNION wide}

------------------------------------------------------------------------------
(* The rail and the page *)

tierOrder == [new |-> 0, ongoing |-> 1, chronic |-> 2]

\* sortProblems: newest tier, cascades, what is not idle, last seen; then by key, which
\* is in the order of the problems and, for a pattern, after those of problems alone.
Before(p, q) ==
    IF p.tier # q.tier THEN tierOrder[p.tier] < tierOrder[q.tier]
    ELSE IF p.cascade # q.cascade THEN p.cascade
    ELSE IF p.idle # q.idle THEN q.idle
    ELSE IF p.last # q.last THEN p.last > q.last
    ELSE IF p.scope # q.scope THEN p.scope = "namespace"
    ELSE Min(p.members) < Min(q.members)

\* At i the row that has i - 1 before it.
sortProblems(rows) ==
    [i \in 1..Cardinality(rows) |-> CHOOSE p \in rows : Cardinality({q \in rows : Before(q, p)}) = i - 1]

stateRank(p) == tierOrder[p.tier] * 3 + (IF p.cascade THEN 0 ELSE IF p.idle THEN 2 ELSE 1)

\* Best rank of the rows that name the namespace.
Active(rows) ==
    [ns \in UNION {p.namespaces : p \in rows} |-> Min({stateRank(p) : p \in {q \in rows : ns \in q.namespaces}})]

HomeInit == home = <<>>

\* v.groups: the groups of warnings; v.cluster: warnings about cluster-scoped objects;
\* v.namespaces: those the sweep knows; v.events: those events are known of; v.own: those
\* of them with an event about an object of their own.
buildHome(v) ==
    LET ps == [i \in DOMAIN v.groups |-> groupProblem(v.groups[i])]
        rows == groupPatterns(ps)
        active == Active(rows)
        other == (v.namespaces \cup v.events) \ DOMAIN active
    IN [v |-> v, problems |-> ps, rows |-> rows,
        list |-> sortProblems(rows), cluster |-> clusterProblems(v.cluster),
        active |-> active, normal |-> other \cap v.own, quiet |-> other \ v.own]

BuildHome == home = <<>> /\ \E v \in Homes : home' = buildHome(v)

HomeSpec == HomeInit /\ [][BuildHome]_home

------------------------------------------------------------------------------
(* Properties *)

\* Alike, or two of those that share an infrastructure reason.
Direct(ps, i, j) == Alike(ps[i], ps[j]) \/ \E s \in Shared(ps) : {i, j} \subseteq s

\* The problems of i's cause, by the comment on groupPatterns: those that chains of
\* problems alike reach, which every set that has i and is closed under Direct has.
Closed(ps, S) == \A a \in S : \A b \in DOMAIN ps : Direct(ps, a, b) => b \in S

Cause(ps, i) == {j \in DOMAIN ps : \A S \in SUBSET (DOMAIN ps) : i \in S /\ Closed(ps, S) => j \in S}

\* Of several namespaces.
Wide(ps, i) == Cardinality({ps[j].ns : j \in Cause(ps, i)}) >= 2

\* Every problem is in one row, with the problems of its cause if they span namespaces
\* and alone otherwise; a row has its members' tier and is idle with all of them.
RowsSound ==
    LET ps == home.problems
    IN /\ {p.members : p \in home.rows} = {IF Wide(ps, i) THEN Cause(ps, i) ELSE {i} : i \in DOMAIN ps}
       /\ \A p \in home.rows : \A i \in p.members : p.tier = ps[i].of.tier /\ (p.idle => ps[i].of.idle)

\* No occurrence of a warning is lost or shown in two rows.
Counted ==
    LET v == home.v
        Sum(warnings) == SumFunction([w \in warnings |-> w.count])
    IN /\ SumFunction([p \in home.rows |-> p.occurrences]) = SumFunction([i \in DOMAIN v.groups |-> Sum(v.groups[i].warnings)])
       /\ SumFunction([p \in home.cluster |-> p.of.occurrences]) = Sum(v.cluster)

\* Every namespace is at one place of the rail; one with problems shows the state of the
\* first row that names it.
RailSound ==
    /\ DOMAIN home.active \cup home.normal \cup home.quiet = home.v.namespaces \cup home.v.events
    /\ home.normal \cap home.quiet = {} /\ (home.normal \cup home.quiet) \cap DOMAIN home.active = {}
    /\ \A i \in DOMAIN home.problems : home.problems[i].ns \in DOMAIN home.active
    /\ \A ns \in DOMAIN home.active :
         LET naming == {i \in DOMAIN home.list : ns \in home.list[i].namespaces}
         IN home.active[ns] = stateRank(home.list[Min(naming)])

\* A group names the Pod whose warning is the newest, the first by name of several.
PodSettled ==
    \A i \in DOMAIN home.problems :
       LET pods == {m \in ToSet(home.v.groups[i].members) : m.pod # 0 /\ m.warn /\ m.last > 0}
           newest == {m \in pods : \A n \in pods : n.last <= m.last}
       IN home.problems[i].pod = (IF pods = {} THEN 0 ELSE Min({m.pod : m \in newest}))

\* The home page (buildHome) shows each cause once: patterns are the connected problems,
\* joined pair by pair in whatever order, a new problem is never hidden in an old pattern
\* nor an active one in an idle row, every occurrence is counted once, every namespace is
\* on the rail once, as its first row says, and the Pod a problem names does not depend
\* on the order of a map.
HomeSound == home # <<>> => RowsSound /\ Counted /\ RailSound /\ PodSettled
==============================================================================
