-------------------------------- MODULE Owners --------------------------------
(***************************************************************************)
(* Owner resolution of one cluster (owners.go) and the page requests that   *)
(* feed it (buildProblems, confirmOwners): a failing object is grouped with *)
(* the workload that owns it, first by the names controllers give, then by  *)
(* the ownerReferences a background resolver looks up, one at a time.       *)
(*                                                                         *)
(* One action is one critical section of c.owners.  An entry that has       *)
(* expired is treated everywhere as one that is not there, and so are the   *)
(* entries resolveOwner evicts; both are an entry out of known here.        *)
(* Namespaces never meet in a key: this is one of them.                     *)
(***************************************************************************)
EXTENDS Integers, Sequences, FiniteSets, SequencesExt

CONSTANTS
    Worlds,       \* what the cluster may hold: events, ownerReferences, and
                  \* what may go wrong: "get", "discovery", "delete"
    StaticKinds,  \* kinds kindToGVR knows without asking the API server
    Resolvers,    \* goroutines in runOwnerResolver
    Pages,        \* requests that build the problems
    QueueMax,     \* ownerQueueMax
    MaxDepth      \* ownerMaxDepth

ASSUME OwnersAssumption == QueueMax \in Nat /\ MaxDepth \in Nat

VARIABLES
    world,   \* the cluster
    known,   \* owners.known, its fresh entries: reference -> entry
    kindOf,  \* owners.kindOf: name -> kind
    queue,   \* owners.queue
    queued,  \* owners.queued
    res,     \* the resolvers
    page     \* the page requests

vars == <<world, known, kindOf, queue, queued, res, page>>

------------------------------------------------------------------------------
(* Names *)

\* Any kind, among them those inferParent knows; "" when a name does not tell it.
Kind == STRING \cup {"", "StatefulSet", "Job", "ReplicaSet", "CronJob", "Deployment"}

\* A name is the sequence of its parts between dashes.
Ref == [kind : Kind, name : Seq(STRING)]

NoRef == [kind |-> "", name |-> <<>>]

\* The parts generated names end in: an ordinal of at most four digits, five
\* and six to ten letters of safeAlphabet, eight to ten digits.  One part may
\* be both of the last two.
Ordinal == {"0", "1"}
Random == {"x5k2p", "bx2pq"}
Hash == {"7d9f8b6c5d", "24567892"}
Stamp == {"29345678", "24567892"}

\* inferParent
InferParent(o) ==
    LET prefix == Front(o.name)
        suffix == Last(o.name)
        Is(kind) == [kind |-> kind, name |-> prefix]
    IN CASE Len(o.name) < 2 -> NoRef
         [] Len(o.name) > 1 /\ o.kind = "Pod" /\ suffix \in Ordinal -> Is("StatefulSet")
         [] Len(o.name) > 1 /\ o.kind = "Pod" /\ suffix \in Random ->
              CASE Len(prefix) > 1 /\ Last(prefix) \in Stamp -> Is("Job")
                [] Len(prefix) > 1 /\ Last(prefix) \in Hash \ Stamp -> Is("ReplicaSet")
                [] OTHER -> Is("")
         [] Len(o.name) > 1 /\ o.kind = "Job" /\ suffix \in Stamp -> Is("CronJob")
         [] Len(o.name) > 1 /\ o.kind = "ReplicaSet" /\ suffix \in Hash -> Is("Deployment")
         [] OTHER -> NoRef

------------------------------------------------------------------------------
(* State *)

Entry == [missing : BOOLEAN, parent : Ref]

Missing == [missing |-> TRUE, parent |-> NoRef]

\* job: what a resolver in resolveOwner looks up.  live: its context is not
\* cancelled.
Resolver == [pc : {"off", "idle", "get"}, job : Ref, live : BOOLEAN]

Off == [pc |-> "off", job |-> NoRef, live |-> FALSE]

\* chains: what ownerChain said of the events so far.  left: the groups
\* confirmOwners is still to be called for.  root, cands: the calls it has
\* still to make for the group it is at.
Page == [pc : {"idle", "chains", "groups"},
         chains : Seq([chain : Seq(Ref), inferred : BOOLEAN]),
         left : SUBSET Ref, root : Ref, cands : Seq(Seq(Ref))]

NoPage == [pc |-> "idle", chains |-> <<>>, left |-> {}, root |-> NoRef, cands |-> <<>>]

TypeOK ==
    /\ \A k \in DOMAIN known : k \in Ref /\ known[k] \in Entry
    /\ \A n \in DOMAIN kindOf : n \in Seq(STRING) /\ kindOf[n] \in Kind
    /\ queue \in Seq(Ref)
    /\ \A k \in queued : k \in Ref /\ k.kind # ""
    /\ res \in [Resolvers -> Resolver]
    /\ \A p \in Pages : /\ page[p].pc \in {"idle", "chains", "groups"}
                        /\ Len(page[p].chains) <= Len(world.events)
                        /\ Len(page[p].cands) <= 3

\* A cluster nobody has looked at; the zero value of ownerState.
Init ==
    /\ world \in Worlds
    /\ known = <<>> /\ kindOf = <<>>
    /\ queue = <<>> /\ queued = {}
    /\ res = [r \in Resolvers |-> Off]
    /\ page = [p \in Pages |-> NoPage]

------------------------------------------------------------------------------
(* Chains *)

Walk == [chain : Seq(Ref), inferred : BOOLEAN, done : BOOLEAN]

\* Mutant: a sibling's answer does not tell the kind.
ClimbUnnamed ==
    [w \in Walk |->
        LET cur == Last(w.chain)
            named == cur \in DOMAIN known /\ ~known[cur].missing
            p == InferParent(cur)
        IN CASE w.done \/ (named /\ known[cur].parent = NoRef) \/ (~named /\ p = NoRef) ->
                  [w EXCEPT !.done = TRUE]
             [] ~w.done /\ named /\ known[cur].parent # NoRef ->
                  [w EXCEPT !.chain = Append(@, known[cur].parent)]
             [] OTHER -> [w EXCEPT !.inferred = TRUE, !.chain = Append(@, p)]]

\* One turn of ownerChain's loop.
Climb == [w \in Walk |->
    LET cur == Last(w.chain)
        named == cur \in DOMAIN known /\ ~known[cur].missing
        p == InferParent(cur)
    IN CASE w.done \/ (named /\ known[cur].parent = NoRef) \/ (~named /\ p = NoRef) ->
              [w EXCEPT !.done = TRUE]
         [] ~w.done /\ named /\ known[cur].parent # NoRef ->
              [w EXCEPT !.chain = Append(@, known[cur].parent)]
         [] OTHER ->
              [w EXCEPT !.inferred = TRUE,
                        !.chain = Append(@, IF p.name \in DOMAIN kindOf
                                            THEN [p EXCEPT !.kind = kindOf[p.name]] ELSE p)]]

\* Its loop, from the object o.
Climbed(o) ==
    LET walk[i \in 0..MaxDepth] ==
            IF i = 0 THEN [chain |-> <<o>>, inferred |-> FALSE, done |-> FALSE]
            ELSE Climb[walk[i - 1]]
    IN walk[MaxDepth]

\* Mutant: the top of the chain need not be fetched.
OwnerChainTopless(o) ==
    LET w == Climbed(o)
    IN [chain |-> w.chain, inferred |-> w.inferred]

\* ownerChain
OwnerChain(o) ==
    LET w == Climbed(o)
    IN [chain |-> w.chain,
        inferred |-> w.inferred \/ (Len(w.chain) > 1 /\ Last(w.chain) \notin DOMAIN known)]

\* The indices of the events buildProblems has put in the group of root.
Group(chains, root) == {i \in DOMAIN chains : Last(chains[i].chain) = root}

\* g.inferred: some member has an owner, and no such chain is confirmed.
Inferred(chains, root) ==
    LET links == {i \in Group(chains, root) : Len(chains[i].chain) > 1}
    IN links # {} /\ \A i \in links : chains[i].inferred

\* The chains of the three members that failed last, if any; events come newest
\* first.
Candidates(chains, root) ==
    LET is == SetToSortSeq({i \in Group(chains, root) : world.events[i].warn}, <)
    IN [n \in 1..(IF Len(is) < 3 THEN Len(is) ELSE 3) |-> chains[is[n]].chain]

\* The links of a chain that the API has not named.
Unnamed(chain) == {i \in DOMAIN chain : chain[i] \notin DOMAIN known \/ known[chain[i]].missing}

\* The chain can be confirmed through its first object, as far as is known.
Confirmable(chain) ==
    \/ Unnamed(chain) = {}
    \/ LET node == chain[CHOOSE i \in Unnamed(chain) : \A j \in Unnamed(chain) : i <= j]
       IN node \notin DOMAIN known /\ node.kind # ""

------------------------------------------------------------------------------
(* Page requests *)

\* buildProblems starts.
Open(p) ==
    /\ page[p].pc = "idle"
    /\ page' = [page EXCEPT ![p] = [NoPage EXCEPT !.pc = "chains"]]
    /\ UNCHANGED <<world, known, kindOf, queue, queued, res>>

\* It asks for the chain of the next event's object.
Chain(p) ==
    LET n == Len(page[p].chains) + 1
    IN /\ page[p].pc = "chains"
       /\ n <= Len(world.events)
       /\ page' = [page EXCEPT ![p].chains = Append(@, OwnerChain(world.events[n].obj))]
       /\ UNCHANGED <<world, known, kindOf, queue, queued, res>>

\* Every event has its group; those with a warning are problems.
Grouped(p) ==
    LET chains == page[p].chains
        warn == {i \in DOMAIN chains : world.events[i].warn}
    IN /\ page[p].pc = "chains"
       /\ Len(chains) = Len(world.events)
       /\ page' = [page EXCEPT ![p] = [@ EXCEPT !.pc = "groups",
                                             !.left = {Last(chains[i].chain) : i \in warn}]]
       /\ UNCHANGED <<world, known, kindOf, queue, queued, res>>

\* confirmOwners of the next group, in any order; its calls follow.
ConfirmOwners(p) ==
    LET chains == page[p].chains
    IN /\ page[p].pc = "groups" /\ page[p].root = NoRef /\ page[p].cands = <<>>
       /\ \E root \in page[p].left :
            page' = [page EXCEPT ![p] =
                IF ~Inferred(chains, root) THEN [@ EXCEPT !.left = page[p].left \ {root}]
                ELSE [@ EXCEPT !.left = page[p].left \ {root},
                               !.root = IF root.kind = "CronJob" THEN root ELSE NoRef,
                               !.cands = Candidates(chains, root)]]
       /\ UNCHANGED <<world, known, kindOf, queue, queued, res>>

\* requestRootLookup
RequestRootLookup(p) ==
    LET root == page[p].root
        ask == root \notin DOMAIN known /\ root \notin queued
    IN /\ root # NoRef
       /\ queue' = IF ask THEN <<root>> \o queue ELSE queue
       /\ queued' = IF ask THEN queued \cup {root} ELSE queued
       /\ page' = [page EXCEPT ![p].root = NoRef]
       /\ UNCHANGED <<world, known, kindOf, res>>

\* Mutant: only the newest member is tried.
RequestConfirmationFirst(p) ==
    LET chain == Head(page[p].cands)
        node == chain[CHOOSE i \in Unnamed(chain) : \A j \in Unnamed(chain) : i <= j]
        ask == /\ Unnamed(chain) # {} /\ Confirmable(chain)
               /\ node \notin queued /\ Len(queue) < QueueMax
    IN /\ page[p].root = NoRef /\ page[p].cands # <<>>
       /\ queue' = IF ask THEN Append(queue, node) ELSE queue
       /\ queued' = IF ask THEN queued \cup {node} ELSE queued
       /\ page' = [page EXCEPT ![p].cands = <<>>]
       /\ UNCHANGED <<world, known, kindOf, res>>

\* requestOwnerConfirmation through the newest member that is left; when it
\* returns TRUE the group is done.
RequestConfirmation(p) ==
    LET chain == Head(page[p].cands)
        node == chain[CHOOSE i \in Unnamed(chain) : \A j \in Unnamed(chain) : i <= j]
        ask == /\ Unnamed(chain) # {} /\ Confirmable(chain)
               /\ node \notin queued /\ Len(queue) < QueueMax
    IN /\ page[p].root = NoRef /\ page[p].cands # <<>>
       /\ queue' = IF ask THEN Append(queue, node) ELSE queue
       /\ queued' = IF ask THEN queued \cup {node} ELSE queued
       /\ page' = [page EXCEPT ![p].cands = IF Confirmable(chain) THEN <<>> ELSE Tail(@)]
       /\ UNCHANGED <<world, known, kindOf, res>>

\* buildProblems has confirmed every group.
Close(p) ==
    /\ page[p].pc = "groups" /\ page[p].root = NoRef
    /\ page[p].cands = <<>> /\ page[p].left = {}
    /\ page' = [page EXCEPT ![p] = NoPage]
    /\ UNCHANGED <<world, known, kindOf, queue, queued, res>>

------------------------------------------------------------------------------
(* The resolver *)

Watched == \E r \in Resolvers : res[r].live

\* start and stop of the cluster (cluster.go)
Start(r) ==
    /\ ~Watched /\ res[r] = Off
    /\ res' = [res EXCEPT ![r] = [pc |-> "idle", job |-> NoRef, live |-> TRUE]]
    /\ UNCHANGED <<world, known, kindOf, queue, queued, page>>

Stop(r) ==
    /\ res[r].live
    /\ res' = [res EXCEPT ![r] = [@ EXCEPT !.live = FALSE]]
    /\ UNCHANGED <<world, known, kindOf, queue, queued, page>>

\* runOwnerResolver sees that its context is cancelled ...
Leave(r) ==
    /\ res[r].pc = "idle" /\ ~res[r].live
    /\ res' = [res EXCEPT ![r] = Off]
    /\ UNCHANGED <<world, known, kindOf, queue, queued, page>>

\* ... or a tick; with both, select may take either.
Pop(r) ==
    /\ res[r].pc = "idle" /\ queue # <<>>
    /\ res' = [res EXCEPT ![r] = [@ EXCEPT !.pc = "get", !.job = Head(queue)]]
    /\ queue' = Tail(queue)
    /\ UNCHANGED <<world, known, kindOf, queued, page>>

\* Mutant: the job stays marked, so that it is never asked for again.
ForgetMarked(r) ==
    /\ res[r].pc = "get" /\ ~res[r].live
    /\ res' = [res EXCEPT ![r] = [@ EXCEPT !.pc = "idle", !.job = NoRef]]
    /\ UNCHANGED <<world, known, kindOf, queue, queued, page>>

\* resolveOwner after its GET, when the cluster was switched away from meanwhile
Forget(r) ==
    /\ res[r].pc = "get" /\ ~res[r].live
    /\ queued' = queued \ {res[r].job}
    /\ res' = [res EXCEPT ![r] = [@ EXCEPT !.pc = "idle", !.job = NoRef]]
    /\ UNCHANGED <<world, known, kindOf, queue, page>>

\* The rest of resolveOwner: the answer is stored, and its parent, unless it is
\* known or asked for, is next.
Store(r, entry) ==
    LET job == res[r].job
        up == entry.parent
        rest == queued \ {job}
        climb == up # NoRef /\ up \notin DOMAIN known \cup {job} /\ up \notin rest
    IN /\ known' = [k \in DOMAIN known \cup {job} |-> IF k = job THEN entry ELSE known[k]]
       /\ kindOf' = IF up = NoRef THEN kindOf
                    ELSE [n \in DOMAIN kindOf \cup {up.name} |->
                              IF n = up.name THEN up.kind ELSE kindOf[n]]
       /\ queue' = IF climb THEN <<up>> \o queue ELSE queue
       /\ queued' = IF climb THEN rest \cup {up} ELSE rest
       /\ res' = [res EXCEPT ![r] = [@ EXCEPT !.pc = "idle", !.job = NoRef]]
       /\ UNCHANGED <<world, page>>

\* kindToGVR fails; no GET, and no look at the context.
UnknownKind(r) ==
    /\ res[r].pc = "get"
    /\ res[r].job.kind \notin StaticKinds /\ "discovery" \in world.faults
    /\ Store(r, Missing)

\* The reference that says controller, or else the first.
Controller(refs) ==
    LET cs == SelectSeq(refs, LAMBDA ref : ref.controller)
    IN CASE cs # <<>> -> Head(cs).ref
         [] cs = <<>> /\ refs # <<>> -> Head(refs).ref
         [] OTHER -> NoRef

\* Events are about objects, and an owner is one.
ASSUME WorldsAssumption ==
    \A w \in Worlds :
        /\ DOMAIN w = {"events", "refs", "faults"}
        /\ \A i \in DOMAIN w.events : w.events[i].obj \in Ref
        /\ \A k \in DOMAIN w.refs : Controller(w.refs[k]) \in Ref

\* The GET's answer.
Answer(r) ==
    LET job == res[r].job
    IN /\ res[r].pc = "get" /\ res[r].live
       /\ \/ job \in DOMAIN world.refs
             /\ Store(r, [missing |-> FALSE, parent |-> Controller(world.refs[job])])
          \/ (job \notin DOMAIN world.refs \/ "get" \in world.faults) /\ Store(r, Missing)

------------------------------------------------------------------------------
(* The cluster, and time *)

\* A failing object is deleted; its events stay for a while.
Delete(o) ==
    /\ "delete" \in world.faults
    /\ o \in DOMAIN world.refs
    /\ world' = [world EXCEPT !.refs = [k \in DOMAIN @ \ {o} |-> @[k]]]
    /\ UNCHANGED <<known, kindOf, queue, queued, res, page>>

Objects == {world.events[i].obj : i \in DOMAIN world.events}

Chains == [i \in DOMAIN world.events |-> OwnerChain(world.events[i].obj)]

\* Nothing is left to do: no page that runs, no lookup, no group that could still
\* be confirmed.
Settled ==
    /\ \A p \in Pages : page[p] = NoPage
    /\ queue = <<>> /\ \A r \in Resolvers : res[r].pc # "get"
    /\ \A chains \in {Chains} : \A root \in {Last(chains[i].chain) : i \in DOMAIN chains} :
         Inferred(chains, root) =>
             \A cands \in {Candidates(chains, root)} :
                 \A n \in DOMAIN cands : ~Confirmable(cands[n])

\* ownerTTL or ownerMissingTTL is over, whatever is still to be looked up.
Expire(k) ==
    /\ known' = [j \in DOMAIN known \ {k} |-> known[j]]
    /\ UNCHANGED <<world, kindOf, queue, queued, res, page>>

------------------------------------------------------------------------------

PageStep(p) ==
    \/ Chain(p) \/ Grouped(p) \/ ConfirmOwners(p)
    \/ RequestRootLookup(p) \/ RequestConfirmation(p) \/ Close(p)

Resolve(r) == Forget(r) \/ UnknownKind(r) \/ Answer(r)

Next ==
    \/ \E p \in Pages : Open(p) \/ PageStep(p)
    \/ \E r \in Resolvers : Start(r) \/ Stop(r) \/ Leave(r) \/ Pop(r) \/ Resolve(r)
    \/ \E o \in Objects : Delete(o)
    \/ \E k \in DOMAIN known : Expire(k)

Spec == Init /\ [][Next]_vars

------------------------------------------------------------------------------
(* Properties *)

\* The lookups under way.
InFlight == {res[r].job : r \in {q \in Resolvers : res[q].pc = "get"}}

\* queued marks exactly the lookups that wait or are under way, each of them
\* once, although two resolvers overlap after a quick switch away and back: no
\* lookup is lost, and none is made twice at a time (requestOwnerConfirmation,
\* requestRootLookup and resolveOwner all fill the queue).
QueuedOnce ==
    /\ queued = {queue[i] : i \in DOMAIN queue} \cup InFlight
    /\ \A i, j \in DOMAIN queue : queue[i] = queue[j] => i = j
    /\ \A r, q \in Resolvers :
         res[r].pc = "get" /\ res[q].pc = "get" /\ res[r].job = res[q].job => r = q
    /\ \A i \in DOMAIN queue : queue[i] \notin InFlight

\* What QueuedOnce needs to be inductive: the queue and the jobs under way name
\* lookups that are marked, and a resolver without a lookup has no job.
QueueShape ==
    /\ queue \in Seq(queued)
    /\ res \in [Resolvers -> [pc : {"off", "idle", "get"}, job : queued \cup {NoRef}, live : BOOLEAN]]
    /\ \A r \in Resolvers : res[r].pc # "get" => res[r].job = NoRef

\* A chain that is not shown as inferred is what ownerReferences say, link by
\* link, up to an object that has no owner, one that cannot be fetched or the
\* depth limit (ownerChain).
ConfirmedIsReal ==
    \A o \in Objects :
        LET c == OwnerChain(o).chain
        IN ~OwnerChain(o).inferred /\ Len(c) > 1 =>
             /\ \A i \in 1..Len(c) - 1 :
                  c[i] \in DOMAIN world.refs => Controller(world.refs[c[i]]) = c[i + 1]
             /\ /\ Last(c) \in DOMAIN world.refs /\ Len(c) <= MaxDepth
                /\ Last(c) \in DOMAIN known => ~known[Last(c)].missing
                => Controller(world.refs[Last(c)]) = NoRef

\* Members of one controller end in one problem as soon as one of them is
\* confirmed and the controller could be fetched, by the name alone of the
\* others (kindOf in ownerChain, the comment at problemGroup), although an owner
\* of the same name and another kind replaces the controller's in kindOf.
SiblingsTogether ==
    Settled =>
        \A o1, o2 \in Objects \cap DOMAIN world.refs :
            LET up == Controller(world.refs[o1])
            IN
            /\ up = Controller(world.refs[o2]) /\ up \in DOMAIN known /\ ~known[up].missing
            /\ InferParent(o1) = InferParent(o2) /\ InferParent(o1) # NoRef
            /\ ~OwnerChain(o1).inferred
            => Last(OwnerChain(o2).chain) = Last(OwnerChain(o1).chain)

------------------------------------------------------------------------------
(* Liveness.  The resolver ticks, calls return (5 s), select takes each of    *)
(* two ready cases in the end, and a page that is open polls.  Nothing makes  *)
(* a user watch or leave a cluster.                                           *)

Fairness ==
    /\ \A p \in Pages : WF_vars(Open(p)) /\ WF_vars(PageStep(p))
    /\ \A r \in Resolvers : WF_vars(res[r].live /\ Pop(r)) /\ WF_vars(Resolve(r)) /\ SF_vars(Leave(r))

FairSpec == Spec /\ Fairness

\* An answer expires while there is work to do.
TooSoon == ~Settled /\ \E k \in DOMAIN known : Expire(k)

\* While the cluster is watched, every lookup is made in the end, those that jump
\* the queue do not starve the others, and page after page confirms every group
\* that can be confirmed, although the queue has a limit, members are deleted and
\* lookups fail (confirmOwners tries the next member, a full queue is asked
\* again, what failed expires).  Unless answers go on expiring before the work is
\* done: sixty lookups that each time out after 5 s outlast ownerMissingTTL, and a
\* resolver that never gets further starts over.
GroupsSettle == []<>(Settled \/ ~Watched) \/ []<><<TooSoon>>_vars

==============================================================================
