-------------------------------- MODULE Links --------------------------------
(***************************************************************************)
(* Linked evidence (linked.go): which objects are fetched because an object's *)
(* warnings and logs point at them.  A text is what the rules read in it; an   *)
(* object is <<kind, name>>; what a followed object's facts say is left out.   *)
(***************************************************************************)
EXTENDS Integers, FiniteSets, Sequences, SequencesExt

CONSTANTS
    NoPod,                          \* a text about another object, or a log line
    Linkable,                       \* the objects there may be
    MaxPods, MaxServices, MaxNodes, \* linkedMaxPods, linkedMaxServices, linkedMaxNodes
    Views                           \* the evidence and clusters it may meet: see Exists

VARIABLE links   \* what was followed last; <<>>: nothing

OfKind(kinds) == {o \in Linkable : o[1] \in kinds}

\* The loops over lists: what of s is in S, and the lists of a list one after the other.
Where(s, S) ==
    LET got[i \in 0..Len(s)] ==
          IF i = 0 THEN <<>> ELSE IF s[i] \in S THEN Append(got[i - 1], s[i]) ELSE got[i - 1]
    IN got[Len(s)]

Flat(lists) ==
    LET got[i \in 0..Len(lists)] == IF i = 0 THEN <<>> ELSE got[i - 1] \o lists[i]
    IN got[Len(lists)]

------------------------------------------------------------------------------
(* The evidence: v.warnings and v.logs are sequences of texts.  A text has the Pod   *)
(* it is of, the configs it says are absent, the hosts it names, whether it reports  *)
(* a failed connection, and what its reason and message say of scheduling and pulls. *)

texts(v) == v.warnings \o v.logs

\* The rules find objects of the kinds they look for.
ASSUME ViewAssumption ==
    /\ MaxPods \in Nat /\ MaxServices \in Nat /\ MaxNodes \in Nat
    /\ \A v \in Views :
         /\ v.anchor \in Linkable /\ (v.anchor[1] = "Pod" => v.anchor[2] \in DOMAIN v.pods)
         /\ v.warnings \in Seq(ToSet(v.warnings)) /\ v.logs \in Seq(ToSet(v.logs))
         /\ \A t \in ToSet(v.warnings) \cup ToSet(v.logs) :
              /\ t.of \in DOMAIN v.pods \cup {NoPod}
              /\ t.absent \in Seq(OfKind({"ConfigMap", "Secret"})) /\ t.hosts \in Seq(OfKind({"Service"}))
         /\ \A p \in DOMAIN v.pods :
              /\ v.pods[p].claims \in Seq(OfKind({"PersistentVolumeClaim"}))
              /\ v.pods[p].secrets \in Seq(OfKind({"Secret"})) /\ v.pods[p].account \in OfKind({"ServiceAccount"})
         /\ v.class \in Seq(OfKind({"StorageClass"})) /\ v.accountSecrets \in Seq(OfKind({"Secret"}))
         /\ v.nodes \in Seq(OfKind({"Node"}))

evidencePods(v) ==
    LET more(ps, p) == IF p = NoPod \/ Contains(ps, p) \/ Len(ps) >= MaxPods THEN ps ELSE Append(ps, p)
        anchor == IF v.anchor[1] = "Pod" THEN <<v.anchor[2]>> ELSE <<>>
        pods[i \in 0..Len(v.warnings)] == IF i = 0 THEN anchor ELSE more(pods[i - 1], v.warnings[i].of)
    IN pods[Len(v.warnings)]

podWarnings(v, p) == {v.warnings[i] : i \in {j \in DOMAIN v.warnings : v.warnings[j].of = p}}

\* errorLines, as the hosts they name: a log line follows the line before it.
errorLines(v) ==
    LET line(i) == IF ~v.logs[i].connect THEN <<>>
                   ELSE (IF i > 1 THEN v.logs[i - 1].hosts ELSE <<>>) \o v.logs[i].hosts
    IN Flat([i \in DOMAIN v.warnings |-> IF v.warnings[i].connect THEN v.warnings[i].hosts ELSE <<>>])
       \o Flat([i \in DOMAIN v.logs |-> line(i)])

\* The cluster: v.absent are not found, reads of v.denied fail.
Exists(v, o) == o \notin v.absent \cup v.denied

Pods(v) == Where(evidencePods(v), {p \in DOMAIN v.pods : Exists(v, <<"Pod", p>>)})

\* Those of them with a warning that says so.
Pulling(v) == Where(Pods(v), {p \in DOMAIN v.pods : \E t \in podWarnings(v, p) : t.refused})
Unplaced(v) == Where(Pods(v), {p \in DOMAIN v.pods : \E t \in podWarnings(v, p) : t.placement})

------------------------------------------------------------------------------
(* The rules.  l is what was followed so far. *)

\* Mutant: an object that two rules reach is listed twice.
addAgain(v, l, rule, o) == IF o = v.anchor THEN l ELSE Append(l, [rule |-> rule, obj |-> o])

add(v, l, rule, o) ==
    IF o = v.anchor \/ \E i \in DOMAIN l : l[i].obj = o THEN l
    ELSE Append(l, [rule |-> rule, obj |-> o])

addAll(v, l, rule, objs) ==
    LET k[i \in 0..Len(objs)] == IF i = 0 THEN l ELSE add(v, k[i - 1], rule, objs[i])
    IN k[Len(objs)]

\* ConfigMaps and Secrets a text says are missing, or without a key.
configRefs(v, l) ==
    LET refs == Flat([i \in DOMAIN texts(v) |-> texts(v)[i].absent])
    IN addAll(v, l, "config", Where(refs, Linkable \ v.denied))

\* A claim of an evidence Pod that scheduling or a mount complains of, or that holds it up.
Troubled(v, p, c) ==
    /\ c \notin v.denied
    /\ \/ \E t \in podWarnings(v, p) : t.volume \/ c \in t.mounts
       \/ v.pods[p].pending /\ c \notin v.bound

\* anchorClaim: the StorageClass of an anchor claim that is not bound.
anchorClaim(v, l) ==
    IF ~Exists(v, v.anchor) \/ v.anchor \in v.bound \/ v.class = <<>> THEN l
    ELSE addAll(v, l, "storageclass", v.class)

\* The troubled claims of the i-th evidence Pod.
podClaims(v, i) ==
    LET p == Pods(v)[i]
    IN Where(v.pods[p].claims, {c \in Linkable : Troubled(v, p, c)})

claims(v, l) ==
    IF v.anchor[1] = "PersistentVolumeClaim" THEN anchorClaim(v, l)
    ELSE addAll(v, l, "claim", Flat([i \in DOMAIN Pods(v) |-> podClaims(v, i)]))

\* The pull secrets of the first Pod whose image was refused, or the account that has none.
pullSecrets(v, l) ==
    LET pod == v.pods[Head(Pulling(v))]
        secrets == pod.secrets \o (IF Exists(v, pod.account) THEN v.accountSecrets ELSE <<>>)
    IN IF Pulling(v) = <<>> THEN l
       ELSE IF secrets # <<>> THEN addAll(v, l, "pullsecret", secrets)
       ELSE add(v, l, "pullsecret", pod.account)

selectsEvidence(v, s) == \E i \in DOMAIN Pods(v) : s \in v.pods[Pods(v)[i]].services

Services(l) == Cardinality({i \in DOMAIN l : l[i].rule = "service"})

\* serviceFor is a lookup that finds the host's Service or nothing.
serviceDeps(v, l) ==
    LET hosts == errorLines(v)
        more(k, s) == IF Services(k) >= MaxServices \/ ~Exists(v, s) \/ selectsEvidence(v, s) THEN k
                      ELSE add(v, k, "service", s)
        k[i \in 0..Len(hosts)] == IF i = 0 THEN l ELSE more(k[i - 1], hosts[i])
    IN k[Len(hosts)]

\* Those the Pod's selector matches come first.
nodes(v, l) ==
    LET matching == v.pods[Head(Unplaced(v))].nodes
        sorted == Where(v.nodes, matching) \o Where(v.nodes, Linkable \ matching)
    IN IF Unplaced(v) = <<>> THEN l
       ELSE addAll(v, l, "nodes", SubSeq(sorted, 1, IF Len(sorted) < MaxNodes THEN Len(sorted) ELSE MaxNodes))

followLinks(v) == nodes(v, serviceDeps(v, pullSecrets(v, claims(v, configRefs(v, <<>>)))))

LinksInit == links = <<>>

FollowLinks == links = <<>> /\ \E v \in Views : links' = [v |-> v, items |-> followLinks(v)]

LinksSpec == LinksInit /\ [][FollowLinks]_links

------------------------------------------------------------------------------
(* Properties *)

\* What the evidence points at, whatever the order: read from followLinks' rules.
Wanted(v) ==
    LET pods == ToSet(Pods(v))
        refs == (UNION {ToSet(t.absent) : t \in ToSet(texts(v))}) \ v.denied
        held == {c \in UNION {ToSet(v.pods[p].claims) : p \in pods} :
                   \E p \in pods : Contains(v.pods[p].claims, c) /\ Troubled(v, p, c)}
    IN (refs \cup (IF v.anchor[1] = "PersistentVolumeClaim" THEN {} ELSE held)) \ {v.anchor}

Callable(v) == {s \in ToSet(errorLines(v)) : Exists(v, s) /\ ~selectsEvidence(v, s)} \ {v.anchor}

Rank == [config |-> 1, claim |-> 2, storageclass |-> 2, pullsecret |-> 3, service |-> 4, nodes |-> 5]

\* followLinks lists no object twice though several rules may reach it, never the object
\* analysed, and the rules in order of importance, since the end is what a small context
\* cuts; no claim or config the evidence points at is left out because another rule, a
\* repeated text or a read that failed came first, and Services over the limit are the
\* only ones of those that are.
LinkedSound ==
    links # <<>> =>
       LET v == links.v
           l == links.items
           objs == {l[i].obj : i \in DOMAIN l}
           called == {l[i].obj : i \in {j \in DOMAIN l : l[j].rule = "service"}}
       IN /\ Cardinality(objs) = Len(l) /\ v.anchor \notin objs
          /\ \A i, j \in DOMAIN l : i < j => Rank[l[i].rule] <= Rank[l[j].rule]
          /\ {l[i].obj : i \in {j \in DOMAIN l : l[j].rule \in {"config", "claim"}}} = Wanted(v)
          /\ called \subseteq Callable(v)
          /\ Cardinality(called) = (IF Cardinality(Callable(v)) < MaxServices
                                    THEN Cardinality(Callable(v)) ELSE MaxServices)
          /\ Cardinality({i \in DOMAIN l : l[i].rule = "nodes"}) <= MaxNodes
==============================================================================
