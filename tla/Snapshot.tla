------------------------------- MODULE Snapshot -------------------------------
(***************************************************************************)
(* Snapshots of a namespace, or of the cluster's own objects (snapshot.go):   *)
(* requests that find no fresh one list everything, one kind after the other, *)
(* and several may do so at once.  Namespaces share nothing, so one of them is *)
(* followed.  What an item says is left out.                                   *)
(***************************************************************************)
EXTENDS Integers, FiniteSets, Sequences, SequencesExt

CONSTANTS
    Scopes, ClusterScope,  \* namespaces, and clusterScopeNS among them (a page of its own)
    Readers,               \* requests served at once
    TTL, MaxItems,         \* snapshotTTL, snapshotMaxItems
    MaxTime,               \* bound on the clock
    Found                  \* kind -> what a list may return

ASSUME SnapAssumption == TTL \in Nat /\ MaxItems \in Nat /\ MaxTime \in Nat

VARIABLES
    time,      \* the clock
    scope,     \* the namespace
    byNS,      \* snapshots.byNS of it; NoSnapshot: nil
    reader     \* the requests

snapVars == <<time, scope, byNS, reader>>

NoSnapshot == [at |-> 0, reads |-> {}, found |-> <<>>, attention |-> <<>>, more |-> 0]

\* The lists in their order.
Listed(ns) ==
    IF ns = ClusterScope THEN <<"Node", "PersistentVolume">>
    ELSE <<"Deployment", "StatefulSet", "DaemonSet", "CronJob", "Job", "Pod", "PersistentVolumeClaim">>

Kinds == {"Deployment", "StatefulSet", "DaemonSet", "CronJob", "Job", "Pod", "PersistentVolumeClaim",
          "Node", "PersistentVolume"}

\* What a List call returns is a sequence.
ASSUME FoundAssumption ==
    \A kind \in Kinds : \A result \in Found[kind] :
       result.list \in Seq({result.list[i] : i \in DOMAIN result.list})

\* The items for one object, by their severity.
attend(kind, o) ==
    LET If(b, s) == IF b THEN <<s>> ELSE <<>>
    IN CASE kind \in {"Deployment", "StatefulSet"} ->
              If(o.ready < o.want, IF o.ready = 0 THEN "crit" ELSE "warn")
         [] kind = "DaemonSet" -> If(o.ready < o.want, "warn")
         [] kind = "CronJob" -> If(~o.suspended /\ o.last # 0 /\ o.success < o.last, "crit")
         [] kind = "PersistentVolumeClaim" ->
              If(o.phase # "Bound", IF o.phase = "Pending" THEN "warn" ELSE "crit")
         [] kind = "Node" ->
              If(~o.ready, "crit") \o If(o.pressure, "warn") \o If(o.cordoned, "warn")
         [] kind = "PersistentVolume" -> If(o.phase = "Failed", "crit")
         [] OTHER -> <<>>

\* Why a Pod is not well, and how bad it is; none: it is.
PodReason(p) ==
    CASE p.phase = "Succeeded" -> <<>>
      [] p.phase = "Failed" -> <<p.reason, "warn">>
      [] p.phase \notin {"Succeeded", "Failed"} /\ p.waiting # "" -> <<p.waiting, "crit">>
      [] p.phase = "Pending" /\ p.waiting = "" /\ p.old -> <<"Pending", "warn">>
      [] p.phase = "Running" /\ p.waiting = "" /\ ~p.ready -> <<"NotReady", "warn">>
      [] OTHER -> <<>>

\* What one more object adds to those before it.  A Pod adds its reason, if no Pod before
\* it had the same.
Adds(kind, got, o) ==
    IF kind # "Pod" THEN got \o attend(kind, o)
    ELSE IF PodReason(o) = <<>> \/ \E k \in DOMAIN got : got[k][1] = PodReason(o)[1] THEN got
    ELSE Append(got, PodReason(o))

\* The loop over a list.
Items(kind, list) ==
    LET walk[i \in 0..Len(list)] ==
          IF i = 0 THEN <<>> ELSE LET got == walk[i - 1] IN Adds(kind, got, list[i])
    IN walk[Len(list)]

\* snapshotPods: one item for each reason, as bad as the first Pod with it.
snapshotPods(pods) == LET why == Items("Pod", pods) IN [k \in DOMAIN why |-> why[k][2]]

KindItems(kind, list) == IF kind = "Pod" THEN snapshotPods(list) ELSE Items(kind, list)

------------------------------------------------------------------------------
NoReader == [pc |-> "idle", left |-> <<>>, snap |-> NoSnapshot, cached |-> FALSE]

SnapInit == time = 1 /\ scope \in Scopes /\ byNS = NoSnapshot /\ reader = [r \in Readers |-> NoReader]

\* A fresh snapshot is answered with at once; otherwise the lists are begun.
GetSnapshot(r, refresh) ==
    LET cached == byNS
        fresh == cached.at # 0 /\ ~refresh /\ time - cached.at < TTL
    IN /\ reader[r].pc # "list"
       /\ reader' = [reader EXCEPT ![r] =
            IF fresh THEN [pc |-> "served", left |-> <<>>, snap |-> cached, cached |-> TRUE]
            ELSE [pc |-> "list", left |-> Listed(scope),
                  snap |-> [NoSnapshot EXCEPT !.at = time], cached |-> FALSE]]
       /\ UNCHANGED <<time, scope, byNS>>

\* One List call; one that fails leaves the other lists to show.
ListKind(r) ==
    LET s == reader[r].snap
        kind == Head(reader[r].left)
    IN /\ reader[r].pc = "list" /\ reader[r].left # <<>>
       /\ \E result \in Found[kind] :
            LET items == IF result.failed THEN <<>> ELSE KindItems(kind, result.list)
            IN reader' = [reader EXCEPT ![r].left = Tail(reader[r].left),
                 ![r].snap = [s EXCEPT !.reads = s.reads \cup {time}, !.found = s.found \o items,
                                       !.attention = s.attention \o items]]
       /\ UNCHANGED <<time, scope, byNS>>

Crits(items) == Cardinality({i \in DOMAIN items : items[i] = "crit"})

\* Critical items first, and no more than are shown.  Items are their severities, so the
\* stable sort is known by how many are critical.
Cut(s) ==
    LET n == Crits(s.attention)
        sorted == [i \in DOMAIN s.attention |-> IF i <= n THEN "crit" ELSE "warn"]
        shown == Min({MaxItems, Len(sorted)})
    IN [s EXCEPT !.attention = SubSeq(sorted, 1, shown), !.more = Len(sorted) - shown]

\* Mutant: as old as the end of its lists.
StoreSnapshotLate(r) ==
    /\ reader[r].pc = "list" /\ reader[r].left = <<>>
    /\ byNS' = [Cut(reader[r].snap) EXCEPT !.at = time]
    /\ reader' = [reader EXCEPT ![r].pc = "served", ![r].snap = Cut(reader[r].snap)]
    /\ UNCHANGED <<time, scope>>

StoreSnapshot(r) ==
    /\ reader[r].pc = "list" /\ reader[r].left = <<>>
    /\ byNS' = Cut(reader[r].snap)
    /\ reader' = [reader EXCEPT ![r].pc = "served", ![r].snap = Cut(reader[r].snap)]
    /\ UNCHANGED <<time, scope>>

\* The answer is sent before time passes; its reader may ask again.
SnapTick ==
    /\ time < MaxTime /\ time' = time + 1
    /\ reader' = [r \in Readers |-> IF reader[r].pc = "served" THEN NoReader ELSE reader[r]]
    /\ UNCHANGED <<scope, byNS>>

SnapNext ==
    \/ \E r \in Readers, refresh \in BOOLEAN : GetSnapshot(r, refresh)
    \/ \E r \in Readers : ListKind(r)
    \/ \E r \in Readers : StoreSnapshot(r)
    \/ SnapTick

SnapSpec == SnapInit /\ [][SnapNext]_snapVars

------------------------------------------------------------------------------
(* Properties *)

\* A snapshot served from the cache has no list older than snapshotTTL nor older than the
\* age it shows, though requests list at once and a slow one may store its lists over newer
\* ones.
NotStale ==
    \A r \in Readers :
       LET s == reader[r].snap
       IN reader[r].pc = "served" /\ reader[r].cached =>
            \A t \in s.reads : time - t < TTL /\ s.at <= t

\* What is not shown is counted, and nothing critical is left out for something that is
\* not, though a list may fail beside the others.
CutSound ==
    \A r \in Readers :
       LET s == reader[r].snap
       IN reader[r].pc = "served" =>
            /\ Len(s.attention) + s.more = Len(s.found)
            /\ Crits(s.attention) = Min({MaxItems, Crits(s.found)})

\* What a request is answered with (snapshot, attention) is recent and whole.
SnapshotFresh == NotStale /\ CutSound
==============================================================================
