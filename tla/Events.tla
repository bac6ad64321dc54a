-------------------------------- MODULE Events --------------------------------
(***************************************************************************)
(* What the pages know of a namespace's events: the sweep's copies merged with *)
(* the warning feed's (warnings.go), and the events correlated with an object's *)
(* (correlate.go).  Namespaces and event names are numbers, ordered as they are. *)
(***************************************************************************)
EXTENDS Integers, FiniteSets, Sequences, SequencesExt

CONSTANTS
    Buffer,   \* correlateBufferMin
    Caches    \* what the two caches may hold, and an anchor: see ReadEvents

VARIABLE shown   \* what was read last; <<>>: nothing

\* The pseudo-namespace of the objects that have none.
clusterScopeNS == 0

\* Is sorted before: newest first, then by namespace and name.
Precedes(a, b) ==
    \/ a.last > b.last
    \/ a.last = b.last /\ a.ns < b.ns
    \/ a.last = b.last /\ a.ns = b.ns /\ a.name < b.name

\* The events of a set in that order: at i the one that has i - 1 before it.
sortNewestFirst(evs) ==
    [i \in 1..Cardinality(evs) |-> CHOOSE e \in evs : Cardinality({x \in evs : Precedes(x, e)}) = i - 1]

EventSummary == [ns : Nat, name : Nat, last : Nat, count : Nat, first : Nat, obj : Nat, namespaced : BOOLEAN]

Copies(f, ns) == IF ns \in DOMAIN f THEN ToSet(f[ns]) ELSE {}

\* What the caches hold.  A list has the events of its namespace, each once, and that of
\* the sweep is sorted.  The copies of one event are states of one object in the cluster,
\* in which every occurrence is counted; an object has a namespace or not by its kind.
ASSUME CacheAssumption ==
    /\ Buffer \in Nat \ {0}
    /\ \A v \in Caches :
         LET namespaces == DOMAIN v.sweep \cup DOMAIN v.feed
             held(ns) == Copies(v.sweep, ns) \cup Copies(v.feed, ns)
         IN /\ IsFiniteSet(namespaces) /\ namespaces \subseteq Nat \ {clusterScopeNS}
            /\ \A ns \in DOMAIN v.sweep : v.sweep[ns] \in Seq(EventSummary) /\ v.sweep[ns] = sortNewestFirst(ToSet(v.sweep[ns]))
            /\ \A ns \in DOMAIN v.feed : v.feed[ns] \in Seq(EventSummary)
            /\ \A f \in {v.sweep, v.feed} : \A ns \in DOMAIN f : \A i, j \in DOMAIN f[ns] :
                 i # j => f[ns][i].name # f[ns][j].name
            /\ \A ns \in namespaces : \A c, e \in held(ns) :
                 /\ c.ns = ns
                 /\ c.name = e.name => (c.last < e.last => c.count < e.count) /\ (c.count = e.count => c = e)
                 /\ c.obj = e.obj => c.namespaced = e.namespaced

\* Mutant: within a second the copy that is there stays.
NewerByTime(e, old) == e.last > old.last

Newer(e, old) == e.last > old.last \/ e.count > old.count

\* The loop over extra; out is a set, since what it yields is sorted.
merged(base, extra) ==
    LET one(out, e) == LET old == {x \in out : x.name = e.name}
                       IN IF \E x \in old : ~Newer(e, x) THEN out ELSE (out \ old) \cup {e}
        out[i \in 0..Len(extra)] == IF i = 0 THEN ToSet(base) ELSE one(out[i - 1], extra[i])
    IN out[Len(extra)]

mergeEvents(base, extra) == IF extra = <<>> THEN base ELSE sortNewestFirst(merged(base, extra))

\* allNamespaceEvents and namespaceEvents
allNamespaceEvents(v) ==
    [ns \in DOMAIN v.sweep \cup DOMAIN v.feed |->
       mergeEvents(IF ns \in DOMAIN v.sweep THEN v.sweep[ns] ELSE <<>>,
                   IF ns \in DOMAIN v.feed THEN v.feed[ns] ELSE <<>>)]

\* The events of a page: its namespace's own objects', or every cluster-scoped one's.
scopeEvents(all, ns) ==
    LET of == IF ns = clusterScopeNS THEN DOMAIN all ELSE DOMAIN all \cap {ns}
    IN {e \in UNION {ToSet(all[n]) : n \in of} : e.namespaced <=> ns # clusterScopeNS}

\* buildCorrelateResponse, as a set: its order is total.
correlated(all, ns, obj) ==
    LET anchor == {e \in scopeEvents(all, ns) : e.obj = obj}
        latest == Max({e.last : e \in anchor})
        starts == {e.first : e \in anchor} \ {0}
        earliest == IF starts = {} THEN latest ELSE Min(starts)
        Own(n, e) == e.obj = obj /\ (n = ns \/ (ns = clusterScopeNS /\ ~e.namespaced))
        Near(n, e) == ~Own(n, e) /\ e.last > earliest - Buffer /\ e.last < latest + Buffer
    IN IF anchor = {} THEN {} ELSE UNION {{e \in ToSet(all[n]) : Near(n, e)} : n \in DOMAIN all}

EventsInit == shown = <<>>

readEvents(v) ==
    LET all == allNamespaceEvents(v)
    IN [v |-> v, all |-> all, near |-> correlated(all, v.ns, v.obj)]

ReadEvents == shown = <<>> /\ \E v \in Caches : shown' = readEvents(v)

EventsSpec == EventsInit /\ [][ReadEvents]_shown

------------------------------------------------------------------------------
(* Properties *)

\* Of the copies the sweep and the feed hold of one event, which may differ by many
\* occurrences within one second, the pages show the later (mergeEvents), each event
\* once and newest first; and what is correlated with an object (buildCorrelateResponse)
\* has every event of another object seen while the object's were, and none of its own.
EventsNewest ==
    shown # <<>> =>
       LET v == shown.v
           all == shown.all
           own == {e \in scopeEvents(all, v.ns) : e.obj = v.obj}
           While(e) == (\E a \in own : a.first # 0 /\ a.first <= e.last) /\ (\E a \in own : e.last <= a.last)
       IN /\ \A ns \in DOMAIN all :
               LET copies == Copies(v.sweep, ns) \cup Copies(v.feed, ns)
               IN /\ ToSet(all[ns]) = {e \in copies : \A c \in copies : c.name = e.name => c.count <= e.count}
                  /\ \A i, j \in DOMAIN all[ns] : i < j => all[ns][i].last >= all[ns][j].last
                                                        /\ all[ns][i].name # all[ns][j].name
          /\ own \cap shown.near = {}
          /\ \A ns \in DOMAIN all : \A e \in ToSet(all[ns]) \ own : While(e) => e \in shown.near
==============================================================================
