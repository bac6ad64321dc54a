# KubeHealth: specifications and proofs

KubeHealth is one Go process (`package main`, `src/*.go`) that watches a Kubernetes cluster, groups
its events into problems, and lets a language model explain them. Nearly all of its state is shared
by goroutines: HTTP handlers, one worker and one owner resolver per watched cluster, model calls,
tunnel processes and timers. This directory models that core in TLA+, checks it with TLC on small
instances, and proves its main safety properties with TLAPS for every instance.

## Inventory

| Part | State | Operations | Interacts with | Hard behaviour |
|---|---|---|---|---|
| Tunnels (`tunnels.go`) | `prefs.Tunnels`, `tunnelRuns.m`, `tunnelRun` objects, processes | start, stop, save, rename, delete, readiness, exit, restart timer, stop all | clusters (which tunnel is in use, reload), shutdown, prefs | late exits and readiness checks, timers against stops, runs dropped from the map, ports that close slowly |
| Clusters (`cluster.go`, `reloadClusters`) | `clusters.active`, `clusters.byName`, `stopRun` | switch, start, stop, reload | tunnels, sweep, owners | edits and switches that overlap, a reload that fails |
| Sweep and feed (`main.go`, `warnings.go`) | `nsCache`, `worker`, `feed`, `dashboard` | list namespaces, refresh the stalest, fetch warnings, assemble | clusters | two workers after a quick switch, starvation, failures, staleness |
| Model slots and the note (`settings.go`, `brief.go`) | `llmActiveCalls`, `llmMaxCallsVal`, `c.brief`, `briefRuns.stops` | acquire, release, preempt, view, regenerate, run | analyses, RCA, problems | preemption against the end of a run, deferred clean-up, leaks |
| Owners (`owners.go`) | `known`, `kindOf`, `queue`, `queued` | ask for confirmation, resolve, push parents | problems, sweep | a full queue, jobs in flight when a cluster is left, cached answers that expire |
| Problems and patterns (`problems.go`, `correlate.go`) | none (pure), reads events and owners | group, time, merge patterns, sort | owners, feed | overlapping groups, transitivity of merging |
| Analyses (`ai.go`) | `aiCache` | start, stream, store | model slots | two analyses of one key |
| RCA agent (`rca.go`, `mcp.go`, `claudecode.go`) | `rcaCache`, run tokens | start, tool calls, finish | model slots, Kubernetes API | late tool calls, budgets, context overflow |
| Embedded server (`embedded_on.go`) | `embServer` | start, restart, stop | settings, shutdown | concurrent restarts, exit during a restart |
| Shutdown (`shutdown.go`) | hooks | register, run once | tunnels, embedded server | requests that go on during shutdown |
| Snapshots (`snapshot.go`) | a 30 s cache | fetch, refresh | Kubernetes API | an older result stored last |
| Events (`warnings.go`, `correlate.go`) | none (pure), reads the caches | merge, scope, correlate | sweep, feed | two copies of an event within one second |
| Linked evidence and prompts (`linked.go`, `rca.go`, `brief.go`) | none (pure) | follow, gather, cut to a budget | analyses, RCA, Kubernetes API | budgets at and below the smallest prompt, objects several rules reach |
| Families (`main.go`) | none (pure) | group by object, family and kind | events | names that fit several controllers |
| Logs, object views, benchmark, pages | none that outlives a request | | | |

What makes each part correct: a tunnel's process can always be stopped through its run and no run
shows a process that is not there; one cluster polls and is reached the way its tunnel says; every
namespace and the feed are refreshed again and again; slots are counted exactly and a note belongs
to its problem; owner lookups are neither lost nor done twice; patterns are a partition; a result is
never stored under another key; nothing KubeHealth started outlives it.

## Modules

Each component has a module with its state, one action per critical section of the code, and its
properties; an `MC…` module with the instances TLC runs; and, where proofs exist, a `…Proofs`
module. Operators marked "Mutant" are wrong variants of the definition after them: each property is
known to fail when one of them takes its place.

### Tunnels and TunnelLife

`run[r]` are the `tunnelRun` objects (state, `cmd`, `keep`, `gen`, whether `readyAt` is set),
`runOf` is `tunnelRuns.m`, `defs` is `prefs.Tunnels`, `proc[p]` an operating-system process with the
goroutines that wait for it (`Exited`) and for its port (`Watch…`), `timers` the pending
`time.AfterFunc` restarts, `req[c]` the HTTP request a client has in flight. A request is a
sequence of steps because `startTunnel`, `stopTunnel` and the handlers take and release several
locks: the definition is looked up (`StartDef`), then the run (`StartRun`), then `r.mu` is held
(`StartLocked`). A run stays reachable for goroutines, timers and requests after a rename or delete
has removed it from the map (`Drop`). `Spawn`, `SpawnFails` and `PipeFails` are the outcomes of
`spawnLocked`. In `WatchReady` the port is looked at and the run changed in one step; the code looks
before it locks, and rechecks `gen` and `state` after, so a port that closes in between is the same
as one that closes right after.

Left out: output lines, error texts, the restart counter (it selects a delay) and durations.

`TunnelLife` is what a tunnel promises its user: which state it may show after which, that it owns one
process while it shows `starting` or `running` and none otherwise, that two tunnels never own the same process,
and that only a request brings it back from `stopped` or `failed`. It knows no locks, generations, timers or
signals. `Tunnels` implements it with `state <- run[r].state`, `owned <- Owned(r)` (the processes of `r` nobody has
told to end and whose exit is not recorded yet) and `asked <- Asked`, the runs a request is about to start. `Adopt` and `Lose` are
there because of a stop followed at once by a start: the port still belongs to the tunnel's own ending process, which
`startTunnel` takes for another program's, and whose late exit then turns `external` into `exited`.

### Clusters

`cluster[o]` are `clusterState` objects: the context they are for, the route (tunnel) their clients
were made with, and whether their worker runs. `skipped` is a history variable: the request whose
`savePrefs` failed returned before its reload. `Switch` and `Reload` are single steps because
`switchCluster` and `reloadClusters` hold the clusters lock throughout. `Edit` is `saveTunnel` or
`deleteTunnel`, abstracted to its effect on the routes; the `Reload` of the same request comes
later. An object nothing refers to is collected once its worker was stopped.

`Clusters` composes with the others as follows: its `Edit`/`Reload` are what `Tunnels`' `Save`,
`Delete` and `Drop` mean for the clusters, and its start and stop of a cluster are `Sweep`'s `Start`
and `Stop`.

### Sweep

Events are abstracted to a version number, `world`; a cache entry, the feed and the dashboard
hold the version of their last fetch. `order` lists the cached namespaces by `updatedAt`. Workers
are numbered goroutines, because after a quick switch away and back the old one may still be
in the middle of a refresh. Time appears as `feed.clock`, whether `warnFeedInterval` has passed since
`attemptedAt`, and `due`, the five minutes of the namespace list. The interval is counted from the beginning
of a fetch and may pass while it goes on (`FeedInterval`), as nothing bounds a fetch but its calls. `Assemble` reads all caches in one step, and `Ready` counts
and sets the flag in one; entries are never removed.

### ModelSlots and SlotPool

`user[u]` is a goroutine inside `acquireLLMSlotForUser` or holding its slot, `note[c]` is
`c.brief`, `brief[k]` a `runBrief` goroutine with its deferred calls (`Unregister`, `ReleaseSlot`)
as steps of their own, `stops` is `briefRuns.stops`, and `page[c]` a view that holds `c.brief`'s
mutex while it asks for a slot. `SlotPool` is what the slots promise, a bounded pool whose counter
is the number of holders; `ModelSlots` implements it with `held <- Holders`.

### Owners

`known`, `kindOf`, `queue` and `queued` are the fields of `c.owners`; `known` has only the entries that
are fresh, since an expired entry is treated everywhere as one that is not there. `res[r]` is a
goroutine in `runOwnerResolver`: after a quick switch away and back the old one may still be in its
GET. `page[p]` is a request inside `buildProblems`: it asks for one chain after the other and then
calls `confirmOwners` group by group, each call of `requestRootLookup` and `requestOwnerConfirmation` a
step of its own, so that answers arrive in between. A name is the sequence of its parts between dashes,
drawn from the parts generated names end in; `InferParent` is translated case by case. `world` is the
cluster and what may go wrong in it: GETs that fail, kinds discovery does not know, objects that are
deleted while their events stay. An entry may expire at any time (`Expire`): a lookup may take five seconds,
and sixty that time out outlast `ownerMissingTTL`.

### Embedded

`emb` is `embServer` with the setting beside it, `server[s]` a llama-server process and `starter[c]` what
a caller (main, a request that changes the context size, the shutdown hook) is doing inside
`spawnLlamaServer`, `stopLlamaServer` or `restartEmbedded`. No lock is held over these functions, so the
hook, or a second restart, may run between any two steps of a restart, and `waitForReady` is content with
whatever process answers on the port. `overlapped` is a history variable: a restart was asked for while another was
under way. `phase` follows main through `initClusters`; `Fatal` and a failed first start are
its `log.Fatalf`, which skip the hooks.

### Rca

`rca[s]` is an `RCAState` together with the goroutine that fills it, `rcaRunning` and `rcaCache` the
two maps of `rca.go`, `call[c]` an MCP request. The local backend alternates `Ask`, `Answer` and tool
steps; the other backend (`Session`) registers a token, and `claude` sends tool calls that may overlap,
overtake each other between `Count` and `CallBegins`, and outlive the run: the token is looked up once,
the `rcaToolRun` found is used to the end.

### Analyses

`insight[k]` is the entry a panel polls and `analysis[k]` the goroutine that fills it. A text is the set of what
it has of one `<think>` block: the opening tag, which some templates put into the prompt, the reasoning, the closing
tag and an answer after it; beside it, whether reasoning came apart from the text. This is what `stripThink`,
`cleanLMResponse` and `thinkText` tell apart, and they differ on an open block. `Turn` is the start of another turn of Claude Code, which drops the text.

### Evidence and Links

`Links` is `followLinks`: five rules over the warnings and log lines of an object, reduced to what the
rules read in a text. `Evidence` gathers and cuts the first prompt: `fit`, with its three binary searches
over `render`, and `renderLinked`. A text is its size. Reference definitions: the set of all forms
a prompt may be cut to, of which the fullest that fits must be chosen (`BestForm`), and the set of objects
the evidence points at, without any order (`Wanted`, `Callable`).

### Events, Home and Families

`Events` is `mergeEvents`, `allNamespaceEvents`, `scopeEvents` and `buildCorrelateResponse`. `Home` turns groups of
warnings into problems (`groupProblem`, `clusterProblems`), joins them to patterns with a union-find
(`groupPatterns`), sorts them and builds the rail, without its entry for the cluster's own objects; the reference definition of a pattern is the problems that
every set has that holds one of them and is closed under "alike" (`Cause`). `Families` is `detectParent` and `buildFamilies`, with a family as the tree below
its root. The check that a suffix is lower-case and alphanumeric is folded into the names: it is one the parts of the
instance's names pass or fail as a whole.

### Snapshot

`reader[r]` is a request in `snapshot`: it takes the cached one if it is fresh, or lists kind after kind and
stores the result, whatever others have stored meanwhile. `reads`, the times of its lists, and `found`,
all items before the cut, are history kept in the snapshot to state `SnapshotFresh`.

### MCParts and MCSlots

`Clusters`, `Embedded` and the modules from `Rca` to `Snapshot` share no variables and no code that changes
state, so TLC checks their sum rather than their product: `part` says which one moves in a behaviour, and the
others keep their initial values. Slots are where the users of the model would meet; `ModelSlots` is that
meeting point, and in each of them a call may be refused. `MCSlots` is such a sum too, of `ModelSlots` and
of `Sweep` with a fixed list of namespaces.

## Runs

Passing runs:

| Run | Instance | Shows |
|---|---|---|
| `TunnelsRace` | 1 tunnel, 2 clients, 2 processes, failing starts | starts, stops and opens against exits, readiness, timers, shutdown: nothing is shown that is not there; `TunnelLife` is implemented, so a stop is final |
| `TunnelsEdit` | 2 names, 1 client editing, renaming and deleting, failing writes, definitions that share context and endpoint | no process is lost although runs leave the map; no two saved tunnels claim one context or one endpoint |
| `TunnelsLive` | fair scheduling, ports taken by others | starts resolve, drops are restarted, told processes end |
| `SweepFeed` | 2 namespaces that come and go, feed, refusals, fair scheduling | no namespace starves as long as the feed leaves ticks to the sweep (`SweepShares`); the feed catches up |
| `SlotsAndSweep` | see below | the parts of `MCSlots`, with fair scheduling |
| `OwnersResolve` | 4 clusters with at most 2 kinds of faults each, 2 resolvers, 1 page, a queue of 1, answers that expire at any time, fair scheduling | no lookup lost or doubled, confirmed chains are real, siblings end together once all is looked up; every group that can be confirmed is, unless answers expire over and over while there is work to do (`GroupsSettle`) |
| `Parts` | see below | the parts of `MCParts` |

`SlotsAndSweep` checks, part by part:

* slots: 1 cluster, 1 user, 2 note runs, 2 problems that swap places, 1 slot. The slots are a bounded pool
  (`ImplementsPool`), one run writes a note (`OneRun`), filed under its own problem (`NoteMatches`); registered
  stop functions are of runs that hold a slot (`RegisteredIsLive`); calls are answered (`CallResolves`), slots
  come back (`SlotReturns`).
* sweep: 2 namespaces, 2 overlapping workers, failing lists of events. One worker at most is not stopped
  (`OneWatches`); all namespaces (`SweepCovers`) and the dashboard (`ShownCatchesUp`) catch up.

`Parts` checks, part by part:

* clusters: 2 contexts, 2 editors, 4 cluster objects, failing loads and writes. One worker at most
  (`OnlyActivePolls`); clients follow the tunnels (`ClientsFollow`).
* server: 2 requests that restart at once, 2 processes, sizes below and above the limits, the hook and the exit. A
  server is in one pair of hands (`OneOwner`); without overlapping restarts none is lost (`ServerKept`) and the size
  shown is the running one (`SizeShown`).
* analysis: 2 keys, and texts with and without each of the tags. What a panel shows (`InsightShows`), that
  reasoning gets into it only while the text does not close it (`ReasoningApart`), and that it stops waiting
  (`InsightSettles`).
* rca: 1 object, 2 states, so that a second run begins while calls of the first are under way, 2 calls at once,
  a budget of 2. One agent per object (`OneAgent`), the trail of steps (`TrailSound`); while a page polls, steps are
  only added and one that has ended stays as it is, though the iteration number beside them may go back (`PollsAdvance`);
  every run ends (`RunEnds`).
* built: every prompt, set of links, set of events, home page and namespace page of the instance, once each
  (`PromptSound`, `LinkedSound`, `EventsNewest`, `HomeSound`, `PageOnce`).
* snapshot: 2 readers, a lifetime of 2, of a namespace or of the cluster's own objects. What is served is recent
  (`NotStale`) and whole (`CutSound`), together `SnapshotFresh`.

Runs that find a disagreement between the code and what its comments or documentation say:

| Run | Property | What happens |
|---|---|---|
| `TunnelsOrphan` | `StopAllReaches` | a rename that keeps the command drops a live run from the map, and `stopAllTunnels` does not reach its process |
| `ClustersReload` | `ActivePolls` | a reload that fails leaves the active cluster stopped, and switching to it does nothing |
| `SweepDenied` | `SweepCovers` | a namespace that may not be listed is picked at every tick |
| `AnalysesThink` | `ReasoningHidden` | a stream that ends inside an open `<think>` block is stored with its reasoning |
| `EmbeddedStop` | `ServerStops` | a signal during a start: the process is not yet where the hook looks for it |

Each property is the sentence the finding in `PROJECT.json` quotes. `TunnelsOrphan` has edits (one may ask for the
tunnel to be started) and its property speaks of what is alive when `stopAllTunnels` looks, so it shows the rename
and nothing else.

The models have further behaviours that disagree with a comment and have no run of their own, because they are
excused by name in a property that is checked or because no property is about them:

* A start that has looked its definition up before `stopAllTunnels` spawns its process after it (`tunnels.go:538`,
  against `tunnels.go:11-12`). `StopAllReaches` does not speak of it.
* `log.Fatalf` after `initClusters` skips the hook, and llama-server goes on (`main.go:559`, against `main.go:530`).
  `ServerStops` forbids it, but TLC shows the signal first.
* Of two overlapping restarts of llama-server the one stored last may have lost the port, and its size is shown
  (`embedded_on.go:204`, against `embedded_on.go:59`): `LiveSize` is false then, and `SizeShown` excuses it (`overlapped`).
* The deferred clean-up of an ended note removes the stop function of the next one, so that a user's call is refused
  while that one writes (`brief.go:326`); and a preempted note may take its slot back before the call it was
  stopped for (`brief.go:368`). Both are against `settings.go:111-113`, where the slot is "handed over".
* Fetches of the feed that take their interval are due again when they end, and take every tick of the sweep
  (`warnings.go:49`, against `main.go:691-693`). `SweepShares` has the opposite as its hypothesis.

### Bounds

Two actors that race are what the safety properties need to be violated: two clients, or one client against
timers, exits and shutdown; two overlapping workers or resolvers; two editors; a user against a page view and
an old note run; two readers; two tool calls. The safety invariants of `Tunnels`, `ModelSlots`, `Clusters`,
`Sweep`, `Rca`, `Embedded` and `Analyses`, the queue and the confirmed chains of `Owners` and the age of
snapshots are proved for every instance, so their runs need no larger ones: in `SlotsAndSweep` the limit of
model calls is 1, and a limit that changes and several clusters are left to the proofs, as are several clients
that edit at once. The server of `Parts` has two processes, which may be used again once nobody refers to
them, and two requests, which may restart again and again; `EmbeddedStop` has a third process. In `MCOwners` a
cluster has two kinds of faults at most, since each adds to what fairness must rule out. Runs, processes and
note objects are as many as can be used at once: one note run that ends and one that has started, one more
cluster object per context than it has, so that a reload of all of them is possible. `MaxGen` bounds the
starts of one tunnel run (two: a start and a restart that overlaps with its end; one where edits matter);
`MaxWorld` = 2 gives one change of the events that every cache must catch up with; `DropIsRestarted` excuses a
run that has used up its starts. `QueueMax` = 1 makes the queue full with a single waiting lookup, while
parents pushed to its front still exceed it; the four clusters have a chain of two links, a name that fits
several kinds, two groups that compete for the place, and owners of one name and two kinds. `MaxDepth` = 4 is
longer than any of their chains. `MaxTime` = 3 lets a snapshot expire once while another request still lists.
The inputs of the pure algorithms (`Some…` in `MCParts`) are chosen so that each branch is taken: lines
shorter and longer than the note that replaces them, contexts from none to one that holds everything, objects
that are absent, denied or reached twice, problems in two and three namespaces with all start times around the
window. `Namespaces` are numbers because the worker takes the first missing one in list order, so they are not
symmetric; clients, runs, processes and workers are, in runs without liveness.

### Fairness

Go runs every goroutine that can run and fires timers, so handlers, workers, watchers and timers are weakly
fair. A mutex waited for long enough is handed over (Go's starvation mode), so `StopNote` and `EndRun`, which
need `c.brief`'s mutex, are strongly fair. The three seconds of polling for a slot pass and a model call has a
timeout. In `Sweep` a call that may succeed does so in the end (strong fairness of `List`, `Fetch` and
`FeedFetch`); denied namespaces never succeed. Nothing forces a tick between two fetches of the feed: that the
sweep gets ticks is the hypothesis of `SweepShares`, and without it the sweep may starve. In `Owners` the
resolver ticks while its context lives, a GET returns within five seconds, `select` takes each of two ready
cases in the end (strong fairness of `Leave`), and a page that is open polls; `GroupsSettle` excuses a cluster
whose answers expire again and again while lookups are left (`TooSoon`), which slow failures can bring about.
In `Rca` and `Analyses` goroutines run and every model call, tool and stream has a timeout; that a run of the
local model ends rests on its budget of iterations. `Clusters`, `Embedded`, `Snapshot` and what pages and
prompts are built from have safety properties only. `SlotsAndSweep` states one condition for a strongly fair
action of each of its two parts: only one part moves in a behaviour, so this says the same as the two
conditions apart. Nothing makes a user send requests, switch clusters, or a process end by itself.

The `Tunnels*` configurations do not check for deadlock: the system may stop there, after KubeHealth has
exited and its processes have ended, or when a run has used up `MaxGen`. Nor do `Parts`, where KubeHealth
exits and pages and prompts are built once, `EmbeddedStop` and `AnalysesThink`.

## Proofs

* `TunnelsProofs`: `TypeOK`, `NoProcessLost`, `RunningIsBacked`, `UniqueUse` as invariants and
  `StoppedStaysStopped` as an action property. `NoProcessLost` alone is not inductive: an exit is
  attributed to a run by its `gen`, so the invariant adds that no two processes belong to the same
  start of a run and none to a start still to come (`StartsOK`), that a run refers only to its own
  processes (`CmdsOK`), and that a request has looked up what it uses (`RequestsOK`). From the same invariant,
  `ImplementsLife`: before a step and after it, what a run owns is a function of what it shows (`OwnedIs`, `OwnedNext`), so
  each action need only be matched with the one step of `TunnelLife` that shows the same; `LifeOne` (one run changes), `LifeDown` (one that
  is up neither before nor after) and `LifeSame` (none) do that for all of them.
* `ModelSlotsProofs`: `TypeOK`, `OneRun`, `NoteMatches`, `RegisteredIsLive` together with
  `LinksOK` (a page that asks for a slot keeps the note from running; runs and calls know their
  cluster) are inductive. From them: `ImplementsPool` (every step is a step of `SlotPool` or
  leaves it alone) and `SlotsAccounted` (by the cardinality of the set of holders).
* `ClustersProofs`: `TypeOK`, `OnlyActivePolls` and `LoadedByName` together are inductive: without
  the last a reload could restart an object under the wrong context. `ClientsFollow` excuses a
  context whose reload was skipped because `prefs.json` could not be written (`skipped`), and is
  inductive together with them.
* `OwnersProofs`: `QueuedOnce` for any clusters, resolvers, pages and limits. It is inductive together
  with `QueueShape`: a resolver without a lookup has no job, and the queue and the jobs name only
  lookups that are marked. Each action either leaves the queue alone, appends or puts in front a
  lookup that was not marked, moves the head into a resolver, or takes a job and its mark away; a
  lemma for each of these forms carries the proof. `ConfirmedIsReal` rests on another invariant, `KnownInv`: an
  entry that is not `missing`, of an object that still exists, names its controller (`KnownReal`), and entries
  and clusters have their shape. It is inductive by itself: `Store` adds what the GET said, `Delete` and
  `Expire` only take away. The chain itself is a recursive function, so that it exists (`WalkExists`) and what every turn of
  `ownerChain`'s loop keeps (`WalkLinked`: all links named unless one was inferred, done only at an object without
  an owner, one link longer in every turn that does not end it) are proved for the least turn that would fail, by the
  well-foundedness of the numbers.
* `SweepProofs`: `OneWatches` is inductive with the types and with `AtHand` (a goroutine that is not there is
  not cancelled; one that stores has something to store). The types need more than they seem to: a worker's
  namespace comes from `Stalest`, a CHOOSE that means something only if a least element exists. `Ordered` (`order`
  has the namespaces with an entry, each once) gives every entry a position, and the least one exists because the
  order of the numbers is well-founded. `Touched` says that a new `updatedAt` keeps this. From the same
  invariant, `StalestFirst`: a tick refreshes a namespace without an entry or the one whose entry is
  the oldest, although other workers change the entries at any time.
* `RcaProofs`: `RcaInv` has the types and, for each state, what its program counter implies (`StateShape`,
  `CallShape`: a request that is served belongs to a run that has, or had, a session), who has claimed an object
  (`Claims`), which agent or request each running step belongs to (`StepsRun`), and that the tools run and
  the calls counted but not yet run together stay within the budget (`Budget`, a count over the requests). `OneAgent`
  and `TrailSound` follow from it. `PollsAdvance`, an action property, is about steps and their texts, not about the
  iteration number beside them, which calls that overtake each other may put back. It needs that a step which
  is overwritten was running, which is `StepsRun` again.
* `EmbeddedProofs`: `OneOwner`, `ServerKept` and `SizeShown`, for any number of restarts at once. The invariant has what
  each caller can be doing in each phase (`Roles`), who has a process in hand (`Holds`) and that it exists and was not told to end (`Referred`,
  `Told`). `OneOwner` follows with no hypothesis, from the process started being a new one. The other two are
  false once restarts overlap, so they, and the parts they rest on, speak of the time until then: at most one of main
  and the restarts is at work (`OneAtOnce`), and whoever has stopped the last server and not yet stored the next finds none (`Emptied`).
* `PartsProofs`: `InsightShows` is inductive once a key is known to be marked exactly while its goroutine is there and
  an insight to be partial only between `Mark` and the end of the stream (`Marked`). What `stripThink` and `cleanLMResponse` leave
  of a text is a lemma of its own (`Cuts`), from which the action property `ReasoningApart` follows too. `SnapshotFresh` rests on two
  invariants: every snapshot, stored or under way, has its lists dated between its beginning and now, and one that is served
  from the cache was fresh at this instant (`SnapInv`); one under way has all the items its lists gave, and one
  that was stored is what `Cut` makes of them (`CutInv`). The loops over the lists are recursive functions: that they exist (`LoopExists`) and
  give severities only (`KindItemsType`) is proved for the least turn that would fail. What is cut is counted by the
  cardinality of the positions that are critical.

  `PageOnce`: a family is the least set that holds its root and what `detectParent` hangs below its members, and that
  the equation of `Tree` has such a solution is proved first (`TreeSolves`). A parent's name is a strict prefix of its
  child's, so every object hangs below exactly one root (`OneRoot`) and families and columns are a partition (`PagePlaced`); counts
  are cardinalities of disjoint unions (`TallyCounts`).
  `EventsNewest`: the merge loop keeps, of the copies it has met, those with the most occurrences (`MergedIs`); the
  position of an event in the sorted list is the number of those before it, which is a bijection (`Sorted`); and the window of
  `buildCorrelateResponse` holds every event between the object's first and last (`Near`).
  `LinkedSound`: each loop of `followLinks` exists as a recursive function (`LoopRuns`) and keeps its invariant
  (`LoopKeeps`): `addAll` lists every object it is given once and changes nothing that is listed (`AddAllIs`), and
  after each host the called Services are all that can be called, or as many as are allowed (`CallOneIs`). That a Service is
  never already listed by an earlier rule follows from the kinds the rules find.
  `HomeSound`: after `k` pairs have been joined (`UnionJoins`, `JoinRuns`) the problems of each of these pairs have one root, and two with
  one root are told apart by no set that is closed under the pairs (`Rooted`); as the pairs are exactly those linked (`JoinsAre`), those with
  one root are the problems of one cause (`JoinedIsCause`), in whatever order the maps gave the pairs. A cause has one tier and causes are
  disjoint (`CauseIs`), so rows partition the problems (`RowsPart`) and what they count adds up (`SumOfParts`). Rows are sorted by a
  lexicographic order of their keys (`BeforeIsLex`), in which the states of the rail are monotonic (`RankInOrder`), so that the first row
  that names a namespace has its best state (`RailIs`); and the loop over a group's members keeps, of the failing Pods met so far, the newest
  and of those the first by name (`BestSettles`).
  `PromptSound`: a text grows with what it keeps (`EventsMore`, `MembersMore`, `LinesMore`, and `RenderMore` of all of it), but for
  the last step of events and members, which also saves the line that says what was trimmed (`Notch`). Each search of `fit` is only
  reached when everything is known to be too much, so its last count needs no monotonicity, and `sort.Search`, an interval that
  is halved once in every round (`HalveNarrows`, `SearchIs`), finds the last count that fits (`SearchFits`). `FitBest` puts the three
  together, one case for each form. That log lines only grow with their limit is not plain, as more errors leave less room for the
  other lines: the errors grow by no more than the limit does (`TopGrows`), so the room does not shrink (`PickGrows`). `LogsAre` finds the Pod that failed
  last of those with logs from the ranks of `failingPods` (`FailingAre`), and `renderLinked`'s loop keeps a beginning of the objects
  and the count of lines (`DropCuts`), so that it has ended after as many rounds as there are lines (`CutIs`).

Assumptions on the constants are the `ASSUME`s of the modules: `None` and its likes are not elements, definitions
have an endpoint and at least one context, clusters hold references, limits are positive, bounds, sizes and times are numbers, namespaces
are finitely many numbers; the API server answers with lists (`FoundAssumption`); events are finitely many and names not empty
(`PageAssumption`); a cache holds an event once, the copies of an event are states of one object whose count grows, and the
sweep's list is sorted (`CacheAssumption`); each rule of `followLinks` finds objects of its own kinds (`ViewAssumption`); warnings are finitely many, counted
and dated, and each group has some (`HomesAssumption`); what
is gathered for a prompt has sizes and times, and the logs of every Pod that may be asked for are known (`GatheredAssumption`).

Model-checked only: liveness and fairness, which the proof system does not cover, and `SiblingsTogether` of `Owners`, which
depends on the names controllers give in the clusters at hand. The sizes of texts are added up, as `estimateTokens` does but for
rounding: `PromptSound` is about these sums, in the run and in the proof.

## Not modelled

* The contents of texts: titles and details of problems, what an object's lines of linked evidence,
  a tool or a description say, prompts and answers beyond what is said above.
* Settings other than the limit of model calls and the context size: values that are clamped, kept under a
  lock and written to `prefs.json`. Environments of contexts, and the file itself.
* Logs, object and YAML views, the benchmark and the pages keep no state beyond one request; the
  benchmark is a sequential tool.
* Extracting the bundled server, and the start-up failures before `spawnLlamaServer`.
* The claude command's status cache and the choice of backend, which a run reads once.

## What could follow

What the tools of an RCA answer, and the object views, as pure functions of a cluster's lists.
