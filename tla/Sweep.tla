-------------------------------- MODULE Sweep --------------------------------
(***************************************************************************)
(* How one cluster's events get into KubeHealth: the worker's sweep over   *)
(* the namespaces (main.go), the cluster-wide warning feed (warnings.go)   *)
(* and the dashboard assembled from both.                                  *)
(*                                                                         *)
(* A cluster that is switched away from stops its worker by cancelling a   *)
(* context; switching back starts another worker at once, while the first  *)
(* may still be in the middle of a refresh.  Every step below is one API   *)
(* call or one critical section of a worker.                               *)
(*                                                                         *)
(* What the events are does not matter here, only how recent they are:     *)
(* world is the version of the cluster's events, and a cache holds the     *)
(* version of its last fetch (0 when there was none).                      *)
(***************************************************************************)
EXTENDS Naturals, FiniteSets, Sequences, SequencesExt

CONSTANTS
    Namespaces,  \* namespaces that may exist, numbered in the order of the list
    Denied,      \* namespaces whose events may not be listed
    Workers,     \* runWorker goroutines that may exist at once
    AllNS,       \* no -namespaces flag: the feed runs, the list comes from the API
    MaxWorld,    \* bound on the versions of the events
    Faults       \* API failures that may happen: "list", "events", "feed", "forbidden"

ASSUME SweepAssumption ==
    /\ Namespaces \subseteq Nat /\ IsFiniteSet(Namespaces) /\ Denied \subseteq Namespaces
    /\ AllNS \in BOOLEAN
    /\ MaxWorld \in Nat \ {0}
    /\ Faults \subseteq {"list", "events", "feed", "forbidden"}

VARIABLES
    real,     \* the namespaces of the cluster
    world,    \* the version of its events
    cache,    \* nsCache: namespace -> version fetched
    order,    \* the cached namespaces by updatedAt, oldest first
    listed,   \* worker.namespaces: the last list, as the pages see it
    ready,    \* worker.ready
    feed,     \* the warning feed
    dash,     \* the dashboard: namespace -> version shown
    worker,   \* the goroutines
    live      \* the one whose context is not cancelled (stopRun # nil)

sweepVars == <<real, world, cache, order, listed, ready, feed, dash, worker, live>>

------------------------------------------------------------------------------
(* State *)

Versions == 0..MaxWorld

\* data: the version of byNS.  clock: whether warnFeedInterval has passed since
\* attemptedAt, which is set before the fetch: it may pass while the fetch goes on.
Feed == [data : Versions, clock : {"fresh", "due"}, disabled : BOOLEAN]

\* list, due: the worker's own namespace list, and whether it is to be fetched
\* again.  ns, got: the namespace being refreshed and what the call returned.
\* draft: the dashboard being assembled.  feeding: for the feed, not a namespace.
Worker == [pc : {"off", "list", "listStore", "tick", "fetch", "store", "attempt",
                 "feed", "feedStore", "assemble", "publish", "ready"},
           list : SUBSET Namespaces, due : BOOLEAN, ns : Namespaces \cup {0},
           got : Versions, draft : [Namespaces -> Versions], feeding : BOOLEAN,
           cancelled : BOOLEAN]

NoDraft == [n \in Namespaces |-> 0]

Off == [pc |-> "off", list |-> {}, due |-> TRUE, ns |-> 0, got |-> 0,
        draft |-> NoDraft, feeding |-> FALSE, cancelled |-> FALSE]

SweepTypeOK ==
    /\ real \subseteq Namespaces
    /\ world \in 1..MaxWorld
    /\ cache \in [Namespaces -> Versions]
    /\ order \in Seq(Namespaces)
    /\ listed \subseteq Namespaces
    /\ ready \in BOOLEAN
    /\ feed \in Feed
    /\ dash \in [Namespaces -> Versions]
    /\ worker \in [Workers -> Worker]
    /\ live \subseteq Workers

SweepInit ==
    /\ real \in (IF AllNS THEN SUBSET Namespaces ELSE {Namespaces})
    /\ world = 1
    /\ cache = [n \in Namespaces |-> 0]
    /\ order = <<>>
    /\ listed = {}
    /\ ready = FALSE
    /\ feed = [data |-> 0, clock |-> "due", disabled |-> FALSE]
    /\ dash = NoDraft
    /\ worker = [w \in Workers |-> Off]
    /\ live = {}

------------------------------------------------------------------------------
(* Helpers *)

\* namespaceEvents, as far as recency goes: mergeEvents keeps the newer copy.
Seen(n) == IF cache[n] >= feed.data THEN cache[n] ELSE feed.data

Cached == {n \in Namespaces : cache[n] # 0}

\* warnFeedDue
FeedDue == AllNS /\ ~feed.disabled /\ feed.clock = "due"

\* The worker's choice: the first namespace of its list that has no entry, or
\* else the one whose entry is the oldest.
Position(n) == CHOOSE i \in 1..Len(order) : order[i] = n

Stalest(list) ==
    IF list \subseteq Cached
    THEN CHOOSE n \in list : \A m \in list : Position(n) <= Position(m)
    ELSE CHOOSE n \in list \ Cached : \A m \in list \ Cached : n <= m

\* Mutant: updatedAt is set only when the entry is made.
TouchOnce(n) == IF cache[n] # 0 THEN order ELSE Append(order, n)

\* entry.updatedAt = time.Now(): n is now the newest entry.
Touch(n) == Append(IF n \in Cached THEN RemoveAt(order, Position(n)) ELSE order, n)

\* The worker waits for the next tick.
NextTick(w) ==
    worker' = [worker EXCEPT ![w] = [Off EXCEPT !.pc = "list", !.list = worker[w].list,
                                                !.due = worker[w].due,
                                                !.cancelled = worker[w].cancelled]]

Goto(w, pc) == worker' = [worker EXCEPT ![w].pc = pc]

------------------------------------------------------------------------------
(* The rest of the world *)

\* Events happen.
Events ==
    /\ world < MaxWorld
    /\ world' = world + 1
    /\ UNCHANGED <<real, cache, order, listed, ready, feed, dash, worker, live>>

\* A namespace is created or deleted.
Change(n) ==
    /\ AllNS
    /\ real' = IF n \in real THEN real \ {n} ELSE real \cup {n}
    /\ UNCHANGED <<world, cache, order, listed, ready, feed, dash, worker, live>>

\* Mutant: start() does not look whether a worker is live.
StartAlways(w) ==
    /\ worker[w].pc = "off"
    /\ worker' = [worker EXCEPT ![w].pc = "list"]
    /\ live' = {w}
    /\ UNCHANGED <<real, world, cache, order, listed, ready, feed, dash>>

\* switchCluster to this cluster: start() does nothing if a worker is live.
Start(w) ==
    /\ live = {}
    /\ worker[w].pc = "off"
    /\ worker' = [worker EXCEPT ![w].pc = "list"]
    /\ live' = {w}
    /\ UNCHANGED <<real, world, cache, order, listed, ready, feed, dash>>

\* switchCluster to another one: stop().
Stop(w) ==
    /\ w \in live
    /\ worker' = [worker EXCEPT ![w].cancelled = TRUE]
    /\ live' = live \ {w}
    /\ UNCHANGED <<real, world, cache, order, listed, ready, feed, dash>>

\* Five minutes have passed since the namespaces were listed.
ListDue(w) ==
    /\ worker[w].pc = "list" /\ ~worker[w].due
    /\ worker' = [worker EXCEPT ![w].due = TRUE]
    /\ UNCHANGED <<real, world, cache, order, listed, ready, feed, dash, live>>

\* warnFeedInterval has passed since the feed was last asked for: before, in or
\* after that fetch's last call, or while nobody watches the cluster.
FeedInterval ==
    /\ feed.clock = "fresh"
    /\ feed' = [feed EXCEPT !.clock = "due"]
    /\ UNCHANGED <<real, world, cache, order, listed, ready, dash, worker, live>>

------------------------------------------------------------------------------
(* runWorker *)

\* The context is cancelled: the goroutine returns.
Leave(w) ==
    /\ worker[w].pc = "list" /\ worker[w].cancelled
    /\ worker' = [worker EXCEPT ![w] = Off]
    /\ UNCHANGED <<real, world, cache, order, listed, ready, feed, dash, live>>

\* The list of namespaces is due: it is fetched ...
List(w) ==
    /\ worker[w].pc = "list" /\ ~worker[w].cancelled /\ worker[w].due
    /\ worker' = [worker EXCEPT ![w] = [@ EXCEPT !.pc = "listStore", !.list = real,
                                                 !.due = FALSE]]
    /\ UNCHANGED <<real, world, cache, order, listed, ready, feed, dash, live>>

\* ... and shown to the pages, even if the worker was stopped meanwhile.
ListStore(w) ==
    /\ worker[w].pc = "listStore"
    /\ listed' = worker[w].list
    /\ Goto(w, "tick")
    /\ UNCHANGED <<real, world, cache, order, ready, feed, dash, live>>

\* ... or the error is noted and the old list kept.
ListFails(w) ==
    /\ "list" \in Faults /\ AllNS
    /\ worker[w].pc = "list" /\ ~worker[w].cancelled /\ worker[w].due
    /\ Goto(w, "tick")
    /\ UNCHANGED <<real, world, cache, order, listed, ready, feed, dash, live>>

ListNotDue(w) ==
    /\ worker[w].pc = "list" /\ ~worker[w].cancelled /\ ~worker[w].due
    /\ Goto(w, "tick")
    /\ UNCHANGED <<real, world, cache, order, listed, ready, feed, dash, live>>

\* workerTick: the feed when it is due, otherwise the stalest namespace.
Tick(w) ==
    /\ worker[w].pc = "tick"
    /\ \/ /\ FeedDue
          /\ Goto(w, "attempt")
       \/ /\ ~FeedDue /\ worker[w].list = {}
          /\ NextTick(w)
       \/ /\ ~FeedDue /\ worker[w].list # {}
          /\ worker' = [worker EXCEPT ![w] = [@ EXCEPT !.pc = "fetch",
                                                       !.ns = Stalest(worker[w].list)]]
    /\ UNCHANGED <<real, world, cache, order, listed, ready, feed, dash, live>>

\* refreshNamespace: the call ...
Fetch(w) ==
    /\ worker[w].pc = "fetch"
    /\ worker[w].ns \notin Denied
    /\ worker' = [worker EXCEPT ![w] = [@ EXCEPT !.pc = "store", !.got = world]]
    /\ UNCHANGED <<real, world, cache, order, listed, ready, feed, dash, live>>

\* ... which fails, and leaves the entry as it was ...
FetchFails(w) ==
    /\ worker[w].pc = "fetch"
    /\ worker[w].ns \in Denied \/ worker[w].cancelled \/ "events" \in Faults
    /\ Goto(w, "ready")
    /\ UNCHANGED <<real, world, cache, order, listed, ready, feed, dash, live>>

\* ... or is stored.
Store(w) ==
    LET n == worker[w].ns
    IN /\ worker[w].pc = "store"
       /\ cache' = [cache EXCEPT ![n] = worker[w].got]
       /\ order' = Touch(n)
       /\ worker' = [worker EXCEPT ![w] = [@ EXCEPT !.pc = "assemble", !.got = 0]]
       /\ UNCHANGED <<real, world, listed, ready, feed, dash, live>>

\* refreshWarnings notes the attempt before it makes it; another worker may
\* have found the feed due as well.
FeedAttempt(w) ==
    /\ worker[w].pc = "attempt"
    /\ feed' = [feed EXCEPT !.clock = "fresh"]
    /\ Goto(w, "feed")
    /\ UNCHANGED <<real, world, cache, order, listed, ready, dash, live>>

\* All pages came ...
FeedFetch(w) ==
    /\ worker[w].pc = "feed"
    /\ worker' = [worker EXCEPT ![w] = [@ EXCEPT !.pc = "feedStore", !.got = world]]
    /\ UNCHANGED <<real, world, cache, order, listed, ready, feed, dash, live>>

\* ... or one of them failed: nothing is kept, and a refusal disables the feed.
FeedFails(w) ==
    /\ worker[w].pc = "feed"
    /\ \/ /\ worker[w].cancelled \/ "feed" \in Faults
          /\ UNCHANGED feed
       \/ /\ "forbidden" \in Faults /\ ~worker[w].cancelled
          /\ feed' = [feed EXCEPT !.disabled = TRUE]
    /\ NextTick(w)
    /\ UNCHANGED <<real, world, cache, order, listed, ready, dash, live>>

\* Mutant: what the feed has is not replaced.
FeedStoreOnce(w) ==
    /\ worker[w].pc = "feedStore"
    /\ feed' = [feed EXCEPT !.data = IF @ = 0 THEN worker[w].got ELSE @]
    /\ worker' = [worker EXCEPT ![w] = [@ EXCEPT !.pc = "assemble", !.got = 0,
                                                 !.feeding = TRUE]]
    /\ UNCHANGED <<real, world, cache, order, listed, ready, dash, live>>

\* The new byNS replaces the old one.
FeedStore(w) ==
    /\ worker[w].pc = "feedStore"
    /\ feed' = [feed EXCEPT !.data = worker[w].got]
    /\ worker' = [worker EXCEPT ![w] = [@ EXCEPT !.pc = "assemble", !.got = 0,
                                                 !.feeding = TRUE]]
    /\ UNCHANGED <<real, world, cache, order, listed, ready, dash, live>>

\* assembleDashboard reads the caches (one after the other; here at once) ...
Assemble(w) ==
    /\ worker[w].pc = "assemble"
    /\ worker' = [worker EXCEPT ![w] = [@ EXCEPT !.pc = "publish",
                                                 !.draft = [n \in Namespaces |-> Seen(n)]]]
    /\ UNCHANGED <<real, world, cache, order, listed, ready, feed, dash, live>>

\* Mutant: a dashboard that is there is not replaced.
PublishOnce(w) ==
    /\ worker[w].pc = "publish"
    /\ dash' = IF dash = NoDraft THEN worker[w].draft ELSE dash
    /\ IF worker[w].feeding
       THEN NextTick(w)
       ELSE Goto(w, "ready")
    /\ UNCHANGED <<real, world, cache, order, listed, ready, feed, live>>

\* ... and replaces the dashboard, whoever wrote the last one.
Publish(w) ==
    /\ worker[w].pc = "publish"
    /\ dash' = worker[w].draft
    /\ IF worker[w].feeding
       THEN NextTick(w)
       ELSE Goto(w, "ready")
    /\ UNCHANGED <<real, world, cache, order, listed, ready, feed, live>>

\* The end of workerTick: ready when there are as many entries as namespaces
\* (counted and noted in one step here; entries are never removed).
Ready(w) ==
    /\ worker[w].pc = "ready"
    /\ ready' = (worker[w].list # {} /\ Cardinality(Cached) >= Cardinality(worker[w].list))
    /\ NextTick(w)
    /\ UNCHANGED <<real, world, cache, order, listed, feed, dash, live>>

------------------------------------------------------------------------------

Work(w) ==
    \/ Leave(w) \/ List(w) \/ ListFails(w) \/ ListNotDue(w) \/ Tick(w)
    \/ Fetch(w) \/ FetchFails(w) \/ Store(w)
    \/ ListStore(w) \/ FeedAttempt(w) \/ FeedFetch(w) \/ FeedFails(w) \/ FeedStore(w)
    \/ Assemble(w) \/ Publish(w) \/ Ready(w)

SweepNext ==
    \/ Events
    \/ FeedInterval
    \/ \E n \in Namespaces : Change(n)
    \/ \E w \in Workers : Start(w) \/ Stop(w) \/ ListDue(w) \/ Work(w)

SweepSpec == SweepInit /\ [][SweepNext]_sweepVars

------------------------------------------------------------------------------
(* Properties *)

\* cluster.go: "One cluster is active at a time and only its worker polls": a
\* worker goes on exactly while its context is not cancelled, and there is never a
\* second one (start, stop).
OneWatches ==
    /\ \A w \in Workers : worker[w].pc # "off" /\ ~worker[w].cancelled <=> w \in live
    /\ \A v, w \in live : v = w

------------------------------------------------------------------------------
(* Liveness.  Timers fire and goroutines run; a call that may succeed does   *)
(* so in the end.  Nothing makes a user switch clusters.                     *)

SweepWeakFairness ==
    /\ WF_sweepVars(FeedInterval)
    /\ \A w \in Workers : WF_sweepVars(Work(w)) /\ WF_sweepVars(ListDue(w))

\* worker w gets through to its namespace n.
Reaches(w, n) == worker[w].ns = n /\ Fetch(w)

SweepFairness ==
    /\ SweepWeakFairness
    /\ \A w \in {v \in Workers : AllNS} : SF_sweepVars(List(w)) /\ SF_sweepVars(FeedFetch(w))
    /\ \A w \in Workers, n \in Namespaces : SF_sweepVars(Reaches(w, n))

SweepFairSpec == SweepSpec /\ SweepFairness

\* main.go: the worker "cycles through namespaces one at a time, refreshing the
\* stalest entry": while the cluster is watched, every namespace that may be
\* read is brought up to date again and again.
SweepCovers ==
    \A n \in Namespaces \ Denied :
        []<>(live = {} \/ n \notin listed \/ cache[n] = world)

\* If the feed leaves the sweep a tick again and again, the sweep loses nobody, although the
\* feed comes in between, namespaces come and go and workers are stopped (workerTick).
SweepShares == ([]<>\E w \in Workers : worker[w].pc = "fetch") => SweepCovers

\* warnings.go: with the feed the pages see new warnings within its interval: it
\* catches up with the cluster again and again unless it is refused.
FeedCovers == []<>(live = {} \/ ~AllNS \/ feed.disabled \/ feed.data = world)

\* What the dashboard shows catches up too, although a worker that was stopped
\* may publish an older one over a newer one (assembleDashboard).
ShownCatchesUp ==
    \A n \in Namespaces \ Denied :
        []<>(live = {} \/ n \notin listed \/ dash[n] = world)

==============================================================================
