------------------------------- MODULE Families -------------------------------
(***************************************************************************)
(* The namespace page (main.go): events by object, objects in families by the *)
(* names Kubernetes gives to what a controller creates, the rest by kind.      *)
(* A name is its parts between dashes; a part is [len, digits] when only its    *)
(* length and whether it is all digits matter, and order is left out.           *)
(***************************************************************************)
EXTENDS Integers, FiniteSets, Sequences, SequencesExt

CONSTANTS PageEvents   \* sets of events a page may show: [kind, name, type, stale, id]

\* A page has finitely many events, and every object has a name.
ASSUME PageAssumption ==
    \A events \in PageEvents :
       /\ IsFiniteSet(events)
       /\ \A e \in events : e.name # <<>> /\ e.name \in Seq({e.name[i] : i \in DOMAIN e.name})

VARIABLE page   \* the page built last; <<>>: none

NoObject == <<"", <<>>>>

\* groupByObject: o is <<kind, name>>.
groupByObject(events) ==
    LET of(o) == {e \in events : <<e.kind, e.name>> = o}
        warn(o) == {e \in of(o) : e.type = "Warning"}
    IN [o \in {<<e.kind, e.name>> : e \in events} |->
          [warnings |-> Cardinality(warn(o)), normals |-> Cardinality(of(o) \ warn(o)),
           idle |-> warn(o) # {} /\ \A e \in warn(o) : e.stale]]

\* Mutant: a family's root need not be on the page.
detectParentUnseen(objects, o) ==
    LET prefix == Front(o[2])
        suffix == Last(o[2])
    IN IF Len(o[2]) > 1 /\ o[1] = "Pod" /\ suffix.len = 5 THEN <<"ReplicaSet", prefix>> ELSE NoObject

\* The kinds a name's last part may come from, the first that is on the page.
detectParent(objects, o) ==
    LET prefix == Front(o[2])
        suffix == Last(o[2])
        kinds == CASE o[1] = "Pod" ->
                        (IF suffix.digits THEN <<"StatefulSet">> ELSE <<>>)
                        \o (IF suffix.len = 5 THEN <<"ReplicaSet", "Job", "DaemonSet">> ELSE <<>>)
                   [] o[1] = "ReplicaSet" -> IF suffix.len \in 6..12 THEN <<"Deployment">> ELSE <<>>
                   [] o[1] = "Job" -> IF suffix.len \in 8..10 /\ suffix.digits THEN <<"CronJob">> ELSE <<>>
                   [] OTHER -> <<>>
        seen == {i \in DOMAIN kinds : <<kinds[i], prefix>> \in objects}
    IN IF Len(o[2]) = 1 \/ seen = {} THEN NoObject ELSE <<kinds[Min(seen)], prefix>>

\* parentOf, childrenOf, wire and markClaimed: the tree below each object.
Tree(objects, parentOf) ==
    LET children(o) == {c \in objects : parentOf[c] = o}
        tree[o \in objects] == {o} \cup UNION {tree[c] : c \in children(o)}
    IN tree

\* The sum of a function's values.
Tally(f) == MapThenSumSet(LAMBDA x : f[x], DOMAIN f)

\* An ObjectFamily: what walk and checkLeaves find in the root's tree.
Family(by, parentOf, root, tree) ==
    LET warned == {o \in tree : by[o].warnings > 0}
        leaves == {o \in tree : \A c \in tree : parentOf[c] # o}
    IN [root |-> root, members |-> tree,
        warnings |-> Tally([o \in tree |-> by[o].warnings]),
        normals |-> Tally([o \in tree |-> by[o].normals]),
        idle |-> warned # {} /\ \A o \in warned : by[o].idle,
        cascade |-> root \in warned /\ leaves \subseteq warned]

\* A group of groupByKind: the objects of one kind.
Column(by, kind, members) ==
    [kind |-> kind, members |-> members,
     warnings |-> Tally([o \in members |-> by[o].warnings]),
     normals |-> Tally([o \in members |-> by[o].normals])]

groupByKind(by, objects) ==
    {Column(by, k, {o \in objects : o[1] = k}) : k \in {o[1] : o \in objects}}

\* buildFamilies over groupByObject.
buildFamilies(events) ==
    LET by == groupByObject(events)
        objects == DOMAIN by
        parentOf == [o \in objects |-> detectParent(objects, o)]
        tree == Tree(objects, parentOf)
        roots == {o \in objects : parentOf[o] = NoObject /\ tree[o] # {o}}
        claimed == UNION {tree[r] : r \in roots}
    IN [events |-> events, by |-> by,
        families |-> {Family(by, parentOf, r, tree[r]) : r \in roots},
        columns |-> groupByKind(by, objects \ claimed)]

PageInit == page = <<>>

BuildPage == page = <<>> /\ \E events \in PageEvents : page' = buildFamilies(events)

PageSpec == PageInit /\ [][BuildPage]_page

------------------------------------------------------------------------------
(* Properties *)

\* The namespace page (buildFamilies) shows every object in one place, a family or a
\* column, though a name may look like that of several controllers' objects, and so
\* counts every event once.  An object alone has nobody on the page it belongs to; a
\* family is idle only if no member has a warning that is not old, and a cascade only
\* if nothing at its ends is well.
PageOnce ==
    page # <<>> =>
       LET parts == page.families \cup page.columns
           objects == DOMAIN page.by
           warned == {e \in page.events : e.type = "Warning"}
           Below(o, root) == IsStrictPrefix(root[2], o[2])
       IN /\ \A o \in objects : Cardinality({p \in parts : o \in p.members}) = 1
          /\ Tally([p \in parts |-> p.warnings]) = Cardinality(warned)
          /\ Tally([p \in parts |-> p.normals]) = Cardinality(page.events \ warned)
          /\ \A f \in page.families :
               /\ \A o \in f.members \ {f.root} : Below(o, f.root)
               /\ f.idle => \A e \in warned : <<e.kind, e.name>> \in f.members => e.stale
               /\ f.cascade => \A o \in f.members : page.by[o].warnings = 0 =>
                                  \E c \in f.members : Below(c, o)
          /\ \A c \in page.columns : \A o \in c.members : detectParent(objects, o) = NoObject
==============================================================================
