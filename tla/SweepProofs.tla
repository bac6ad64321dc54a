----------------------------- MODULE SweepProofs -----------------------------
(* Proofs about Sweep: there is one watching worker at most, and what a worker *)
(* refreshes is always the stalest namespace of its list, for any namespaces,  *)
(* any number of workers that overlap and any failures.                         *)
EXTENDS Sweep, NaturalsInduction, SequenceTheorems, WellFoundedInduction, TLAPS

\* order has every namespace with an entry, once.
Ordered ==
    /\ \A n \in Namespaces : cache[n] # 0 <=> \E i \in 1..Len(order) : order[i] = n
    /\ \A i, j \in 1..Len(order) : order[i] = order[j] => i = j

\* What a worker has at hand: a namespace to refresh, and what was fetched.
AtHand ==
    \A w \in Workers :
        /\ worker[w].pc \in {"fetch", "store"} => worker[w].ns \in Namespaces
        /\ worker[w].pc \in {"store", "feedStore"} => worker[w].got # 0
        /\ worker[w].pc = "off" => ~worker[w].cancelled

SweepInv == SweepTypeOK /\ Ordered /\ AtHand /\ OneWatches

------------------------------------------------------------------------------
(* The order of the entries *)

LEMMA PositionFound ==
    ASSUME Ordered, NEW n \in Cached
    PROVE  Position(n) \in 1..Len(order) /\ order[Position(n)] = n
<1>1. \E i \in 1..Len(order) : order[i] = n
  BY DEF Ordered, Cached
<1> QED
  BY <1>1, Zenon DEF Position

\* A set of numbers that is not empty has a least one.
LEMMA Least ==
    ASSUME NEW S \in SUBSET Nat, S # {}
    PROVE  \E n \in S : \A m \in S : n <= m
<1>1. IsWellFoundedOn(OpToRel(<, Nat), Nat)
  BY NatLessThanWellFounded
<1>2. PICK n \in S : \A m \in S : ~(<<m, n>> \in OpToRel(<, Nat))
  BY <1>1, WFMin, Zenon
<1>3. ASSUME NEW m \in S, m < n PROVE <<m, n>> \in OpToRel(<, Nat)
  BY <1>3, Zenon DEF OpToRel
<1>4. ASSUME NEW m \in S PROVE n <= m
  <2>1. ~(m < n)
    BY <1>2, <1>3, Zenon
  <2> QED
    BY <2>1
<1> QED
  BY <1>4

\* workerTick has a namespace to refresh whenever its list is not empty: one without an
\* entry if there is one, and otherwise one with no older entry in the list.
LEMMA StalestChosen ==
    ASSUME SweepTypeOK, Ordered, NEW list \in SUBSET Namespaces, list # {}
    PROVE  /\ Stalest(list) \in list
           /\ ~(list \subseteq Cached) => Stalest(list) \notin Cached
           /\ list \subseteq Cached => \A m \in list : Position(Stalest(list)) <= Position(m)
<1>1. CASE list \subseteq Cached
  <2>1. \A n \in list : Position(n) \in 1..Len(order)
    BY <1>1, PositionFound
  <2>2. Len(order) \in Nat
    BY DEF SweepTypeOK
  <2> DEFINE P == {Position(n) : n \in list}
  <2>3. P \in SUBSET Nat /\ P # {}
    BY <2>1, <2>2
  <2>4. PICK p \in P : \A q \in P : p <= q
    BY <2>3, Least
  <2>5. \E n \in list : \A m \in list : Position(n) <= Position(m)
    BY <2>4
  <2>6. Stalest(list) = CHOOSE n \in list : \A m \in list : Position(n) <= Position(m)
    BY <1>1 DEF Stalest
  <2> QED
    BY <1>1, <2>5, <2>6, Zenon
<1>2. CASE ~(list \subseteq Cached)
  <2>1. list \ Cached \in SUBSET Nat /\ list \ Cached # {}
    BY <1>2, SweepAssumption
  <2>2. \E n \in list \ Cached : \A m \in list \ Cached : n <= m
    BY <2>1, Least
  <2>3. Stalest(list) = CHOOSE n \in list \ Cached : \A m \in list \ Cached : n <= m
    BY <1>2 DEF Stalest
  <2>4. Stalest(list) \in list \ Cached
    BY <2>2, <2>3, Zenon
  <2> QED
    BY <1>2, <2>4
<1> QED
  BY <1>1, <1>2

\* A sequence without its i-th element.
LEMMA Shortened ==
    ASSUME NEW s \in Seq(Namespaces), NEW i \in 1..Len(s), NEW t, t = RemoveAt(s, i)
    PROVE  /\ t \in Seq(Namespaces) /\ Len(t) = Len(s) - 1
           /\ \A k \in 1..(i - 1) : t[k] = s[k]
           /\ \A k \in i..Len(t) : t[k] = s[k + 1]
<1>1. PICK a, b : a = SubSeq(s, 1, i - 1) /\ b = SubSeq(s, i + 1, Len(s)) /\ t = a \o b
  BY DEF RemoveAt
<1>2. /\ a \in Seq(Namespaces) /\ Len(a) = i - 1 /\ \A k \in 1..(i - 1) : a[k] = s[k]
  BY <1>1
<1>3. /\ b \in Seq(Namespaces) /\ Len(b) = Len(s) - i /\ \A k \in 1..(Len(s) - i) : b[k] = s[k + i]
  BY <1>1
<1>4. PICK N, l, u : N = Namespaces /\ l = Len(s) /\ u = t
  OBVIOUS
<1>5. u \in Seq(N) /\ Len(u) = Len(a) + Len(b)
      /\ \A k \in 1..(Len(a) + Len(b)) : u[k] = IF k <= Len(a) THEN a[k] ELSE b[k - Len(a)]
  <2>1. u = a \o b /\ a \in Seq(N) /\ b \in Seq(N)
    BY <1>1, <1>2, <1>3, <1>4, Zenon
  <2> QED
    BY ONLY <2>1, ConcatProperties
<1>6. l \in Nat /\ i \in 1..l /\ Len(a) = i - 1 /\ Len(b) = l - i
  BY <1>2, <1>3, <1>4
<1>7. Len(u) = l - 1
  BY ONLY <1>5, <1>6
<1>8. ASSUME NEW k \in 1..(i - 1) PROVE u[k] = s[k]
  <2>1. u[k] = a[k]
    BY ONLY <1>5, <1>6, k \in 1..(i - 1)
  <2> QED
    BY <1>2, <2>1
<1>9. ASSUME NEW k \in i..Len(u) PROVE u[k] = s[k + 1]
  <2>1. k \in 1..(Len(a) + Len(b)) /\ ~(k <= Len(a)) /\ k - Len(a) \in 1..(l - i) /\ (k - Len(a)) + i = k + 1
    BY ONLY <1>6, <1>7, k \in i..Len(u)
  <2>2. u[k] = b[k - Len(a)]
    BY ONLY <1>5, <2>1
  <2>3. b[k - Len(a)] = s[(k - Len(a)) + i]
    BY <1>3, <1>4, <2>1
  <2> QED
    BY <2>1, <2>2, <2>3
<1> QED
  BY <1>4, <1>5, <1>7, <1>8, <1>9, Zenon

\* updatedAt makes n the newest entry and keeps the others.
LEMMA Touched ==
    ASSUME SweepTypeOK, Ordered, NEW n \in Namespaces
    PROVE  /\ Touch(n) \in Seq(Namespaces)
           /\ \A m \in Namespaces : (\E k \in 1..Len(Touch(n)) : Touch(n)[k] = m) <=> m \in Cached \cup {n}
           /\ \A k, l \in 1..Len(Touch(n)) : Touch(n)[k] = Touch(n)[l] => k = l
<1> DEFINE i == Position(n)
<1>1. PICK t : /\ t = IF n \in Cached THEN RemoveAt(order, i) ELSE order
               /\ Touch(n) = Append(t, n)
  BY DEF Touch
<1>2. /\ t \in Seq(Namespaces)
      /\ \A m \in Namespaces : (\E k \in 1..Len(t) : t[k] = m) <=> m \in Cached \ {n}
      /\ \A k, l \in 1..Len(t) : t[k] = t[l] => k = l
  <2>0. order \in Seq(Namespaces) /\ Len(order) \in Nat
    BY DEF SweepTypeOK
  <2>1. CASE n \notin Cached
    BY <1>1, <2>0, <2>1 DEF Ordered, Cached
  <2>2. CASE n \in Cached
    <3>1. i \in 1..Len(order) /\ order[i] = n
      BY <2>2, PositionFound
    <3> HIDE DEF i
    <3>2. /\ t \in Seq(Namespaces) /\ Len(t) = Len(order) - 1
          /\ \A k \in 1..(i - 1) : t[k] = order[k]
          /\ \A k \in i..Len(t) : t[k] = order[k + 1]
      <4>1. t = RemoveAt(order, i)
        BY <1>1, <2>2, Zenon DEF i
      <4>2. PICK s, j : s = order /\ j = i
        OBVIOUS
      <4>3. s \in Seq(Namespaces) /\ j \in 1..Len(s) /\ t = RemoveAt(s, j)
        BY <2>0, <3>1, <4>1, <4>2, Zenon
      <4>4. t \in Seq(Namespaces) /\ Len(t) = Len(s) - 1
        BY ONLY <4>3, Shortened
      <4>5. \A k \in 1..(j - 1) : t[k] = s[k]
        BY ONLY <4>3, Shortened
      <4>6. \A k \in j..Len(t) : t[k] = s[k + 1]
        BY ONLY <4>3, Shortened
      <4> QED
        BY <4>2, <4>4, <4>5, <4>6, Zenon
    <3>3. \A k \in 1..Len(t) : \E j \in 1..Len(order) : j # i /\ t[k] = order[j] /\ j = IF k < i THEN k ELSE k + 1
      BY <2>0, <3>1, <3>2
    <3>4. \A j \in 1..Len(order) : j # i => \E k \in 1..Len(t) : t[k] = order[j]
      <4> SUFFICES ASSUME NEW j \in 1..Len(order), j # i PROVE \E k \in 1..Len(t) : t[k] = order[j]
        OBVIOUS
      <4>1. CASE j < i
        BY <2>0, <3>1, <3>2, <4>1
      <4>2. CASE j > i
        <5>1. j - 1 \in i..Len(t) /\ j - 1 \in 1..Len(t) /\ (j - 1) + 1 = j
          BY <2>0, <3>1, <3>2, <4>2
        <5> QED
          BY <3>2, <5>1
      <4> QED
        BY <2>0, <3>1, <4>1, <4>2
    <3>5. \A k, l \in 1..Len(t) : t[k] = t[l] => k = l
      BY <2>0, <3>1, <3>2, <3>3 DEF Ordered
    <3>6. ASSUME NEW m \in Namespaces, NEW k \in 1..Len(t), t[k] = m PROVE m \in Cached \ {n}
      BY <3>1, <3>3, <3>6 DEF Ordered, Cached
    <3>7. ASSUME NEW m \in Cached \ {n} PROVE \E k \in 1..Len(t) : t[k] = m
      BY <3>1, <3>4 DEF Ordered, Cached
    <3> QED
      BY <3>2, <3>5, <3>6, <3>7
  <2> QED
    BY <2>1, <2>2
<1>3. PICK u : u = Touch(n)
  OBVIOUS
<1>4. /\ u \in Seq(Namespaces) /\ Len(u) = Len(t) + 1 /\ u[Len(u)] = n /\ Len(t) \in Nat
      /\ \A k \in 1..Len(t) : u[k] = t[k]
  <2>1. u = Append(t, n) /\ t \in Seq(Namespaces)
    BY <1>1, <1>2, <1>3
  <2> QED
    BY ONLY <2>1, n \in Namespaces
<1>5. \A m \in Namespaces : (\E k \in 1..Len(u) : u[k] = m) <=> m \in Cached \cup {n}
  BY <1>2, <1>4
<1>6. ASSUME NEW k \in 1..Len(u), NEW l \in 1..Len(u), u[k] = u[l] PROVE k = l
  <2>1. \A j \in 1..Len(t) : t[j] # n
    BY <1>2
  <2> QED
    BY <1>2, <1>4, <1>6, <2>1
<1> QED
  BY <1>3, <1>4, <1>5, <1>6

------------------------------------------------------------------------------
(* The workers *)

\* What a step makes of its worker: nothing that the invariant minds.
Fine(q) ==
    /\ q \in Worker
    /\ q.pc \in {"fetch", "store"} => q.ns \in Namespaces
    /\ q.pc \in {"store", "feedStore"} => q.got # 0
    /\ q.pc = "off" => ~q.cancelled

LEMMA Types == NoDraft \in [Namespaces -> Versions] /\ 0 \in Versions /\ Fine(Off) /\ Off.pc = "off" /\ ~Off.cancelled
<1>1. NoDraft \in [Namespaces -> Versions] /\ 0 \in Versions
  BY SweepAssumption DEF NoDraft, Versions
<1> QED
  BY <1>1 DEF Off, Worker, Fine

\* A worker that goes on.
LEMMA GoesOn ==
    ASSUME SweepInv, NEW w \in Workers, NEW q, Fine(q), worker' = [worker EXCEPT ![w] = q], live' = live,
           worker[w].pc # "off", q.pc # "off", q.cancelled = worker[w].cancelled
    PROVE  worker' \in [Workers -> Worker] /\ AtHand' /\ OneWatches'
<1>1. worker \in [Workers -> Worker]
  BY DEF SweepInv, SweepTypeOK
<1>2. worker' \in [Workers -> Worker] /\ \A v \in Workers : worker'[v] = IF v = w THEN q ELSE worker[v]
  BY <1>1 DEF Fine
<1>3. AtHand'
  BY <1>2 DEF SweepInv, AtHand, Fine
<1>4. OneWatches'
  BY <1>2 DEF SweepInv, OneWatches
<1> QED
  BY <1>2, <1>3, <1>4

\* Steps to another place with all else as it was.
LEMMA Gone ==
    ASSUME SweepInv, NEW w \in Workers, NEW pc \in {"tick", "attempt", "feed", "ready"},
           Goto(w, pc), live' = live, worker[w].pc # "off"
    PROVE  worker' \in [Workers -> Worker] /\ AtHand' /\ OneWatches'
<1>1. worker[w] \in Worker /\ worker \in [Workers -> Worker]
  BY DEF SweepInv, SweepTypeOK
<1>2. PICK q : q = [worker[w] EXCEPT !.pc = pc]
  OBVIOUS
<1>3. Fine(q) /\ q.pc = pc /\ q.cancelled = worker[w].cancelled
  BY <1>1, <1>2 DEF Fine, Worker
<1>4. worker' = [worker EXCEPT ![w] = q]
  BY <1>1, <1>2 DEF Goto
<1> QED
  BY <1>3, <1>4, GoesOn

LEMMA Waits ==
    ASSUME SweepInv, NEW w \in Workers, NextTick(w), live' = live, worker[w].pc # "off"
    PROVE  worker' \in [Workers -> Worker] /\ AtHand' /\ OneWatches'
<1>1. worker[w] \in Worker /\ Off \in Worker
  BY Types DEF SweepInv, SweepTypeOK, Fine
<1>2. PICK q : q = [Off EXCEPT !.pc = "list", !.list = worker[w].list, !.due = worker[w].due,
                               !.cancelled = worker[w].cancelled]
  OBVIOUS
<1>3. Fine(q) /\ q.pc = "list" /\ q.cancelled = worker[w].cancelled
  BY <1>1, <1>2 DEF Fine, Worker
<1>4. worker' = [worker EXCEPT ![w] = q]
  BY <1>2, Zenon DEF NextTick
<1> QED
  BY <1>3, <1>4, GoesOn

\* Apart from the workers and the entries.
Surroundings ==
    /\ real \subseteq Namespaces /\ world \in 1..MaxWorld /\ listed \subseteq Namespaces /\ ready \in BOOLEAN
    /\ feed \in Feed /\ dash \in [Namespaces -> Versions] /\ live \subseteq Workers

Entries == cache \in [Namespaces -> Versions] /\ order \in Seq(Namespaces) /\ Ordered

LEMMA InvParts ==
    SweepInv => Surroundings /\ Entries /\ worker \in [Workers -> Worker] /\ AtHand /\ OneWatches
  BY DEF SweepInv, SweepTypeOK, Surroundings, Entries

LEMMA EntriesKept == ASSUME Entries, UNCHANGED <<cache, order>> PROVE Entries'
  BY DEF Entries, Ordered

LEMMA SurroundingsKept ==
    ASSUME Surroundings, UNCHANGED <<real, world, listed, ready, feed, dash, live>>
    PROVE  Surroundings'
  BY DEF Surroundings

LEMMA FeedTypes ==
    ASSUME NEW f \in Feed
    PROVE  /\ \A c \in {"fresh", "due"} : [f EXCEPT !.clock = c] \in Feed
           /\ [f EXCEPT !.disabled = TRUE] \in Feed
           /\ \A v \in Versions : [f EXCEPT !.data = v] \in Feed
  BY DEF Feed

------------------------------------------------------------------------------
(* Steps *)

\* The cluster, its users and its timers.
LEMMA OutsideSteps ==
    ASSUME SweepInv, Events \/ FeedInterval \/ \E n \in Namespaces : Change(n)
    PROVE  SweepInv'
<1>1. Surroundings /\ Entries /\ worker \in [Workers -> Worker] /\ AtHand /\ OneWatches
  BY InvParts
<1>2. UNCHANGED <<cache, order, worker, live>>
  BY DEF Events, FeedInterval, Change
<1>3. Entries' /\ worker' \in [Workers -> Worker] /\ AtHand' /\ OneWatches'
  BY <1>1, <1>2, EntriesKept DEF AtHand, OneWatches
<1>4. Surroundings'
  <2>1. CASE Events
    BY <1>1, <2>1, SweepAssumption DEF Surroundings, Events
  <2>2. CASE FeedInterval
    BY <1>1, <2>2, FeedTypes DEF Surroundings, FeedInterval
  <2>3. ASSUME NEW n \in Namespaces, Change(n) PROVE Surroundings'
    BY <1>1, <2>3 DEF Surroundings, Change
  <2> QED
    BY <2>1, <2>2, <2>3
<1> QED
  BY <1>3, <1>4 DEF SweepInv, SweepTypeOK, Surroundings, Entries

\* start, stop, and the return of a worker that was stopped.
LEMMA SwitchSteps ==
    ASSUME SweepInv, NEW w \in Workers, Start(w) \/ Stop(w) \/ Leave(w)
    PROVE  SweepInv'
<1>1. Surroundings /\ Entries /\ worker \in [Workers -> Worker] /\ AtHand /\ OneWatches
  BY InvParts
<1>2. UNCHANGED <<real, world, cache, order, listed, ready, feed, dash>>
  BY DEF Start, Stop, Leave
<1>3. Entries'
  BY <1>1, <1>2, EntriesKept
<1>4. live' \subseteq Workers
  BY <1>1 DEF Start, Stop, Leave, Surroundings
<1>5. Surroundings'
  BY <1>1, <1>2, <1>4 DEF Surroundings
<1>6. CASE Start(w)
  <2>1. PICK q : q = [worker[w] EXCEPT !.pc = "list"]
    OBVIOUS
  <2>2. q \in Worker /\ q.pc = "list" /\ q.cancelled = worker[w].cancelled /\ ~worker[w].cancelled
    BY <1>1, <1>6, <2>1 DEF Start, Worker, AtHand
  <2>3. live' = {w} /\ worker' \in [Workers -> Worker]
        /\ \A v \in Workers : worker'[v] = IF v = w THEN q ELSE worker[v]
    BY <1>1, <1>6, <2>1, <2>2 DEF Start
  <2>4. AtHand'
    BY <1>1, <2>2, <2>3 DEF AtHand
  <2>5. OneWatches'
    BY <1>1, <1>6, <2>2, <2>3 DEF OneWatches, Start
  <2> QED
    BY <1>3, <1>5, <2>3, <2>4, <2>5 DEF SweepInv, SweepTypeOK, Surroundings, Entries
<1>7. CASE Stop(w)
  <2>1. PICK q : q = [worker[w] EXCEPT !.cancelled = TRUE]
    OBVIOUS
  <2>2. /\ q \in Worker /\ q.pc = worker[w].pc /\ q.cancelled /\ q.ns = worker[w].ns /\ q.got = worker[w].got
    BY <1>1, <2>1 DEF Worker
  <2>3. live' = live \ {w} /\ w \in live /\ worker' \in [Workers -> Worker]
        /\ \A v \in Workers : worker'[v] = IF v = w THEN q ELSE worker[v]
    BY <1>1, <1>7, <2>1, <2>2 DEF Stop
  <2>4. AtHand'
    BY <1>1, <2>2, <2>3 DEF AtHand, OneWatches
  <2>5. OneWatches'
    BY <1>1, <2>2, <2>3 DEF OneWatches
  <2> QED
    BY <1>3, <1>5, <2>3, <2>4, <2>5 DEF SweepInv, SweepTypeOK, Surroundings, Entries
<1>8. CASE Leave(w)
  <2>1. live' = live /\ worker[w].cancelled /\ worker' = [worker EXCEPT ![w] = Off]
    BY <1>8 DEF Leave
  <2>2. worker' \in [Workers -> Worker] /\ \A v \in Workers : worker'[v] = IF v = w THEN Off ELSE worker[v]
    BY <1>1, <2>1, Types DEF Fine
  <2>3. AtHand'
    BY <1>1, <2>2, Types DEF AtHand, Fine
  <2>4. OneWatches'
    BY <1>1, <2>1, <2>2, Types DEF OneWatches
  <2> QED
    BY <1>3, <1>5, <2>2, <2>3, <2>4 DEF SweepInv, SweepTypeOK, Surroundings, Entries
<1> QED
  BY <1>6, <1>7, <1>8

\* Steps that change the worker's own record and nothing else.
LEMMA OwnSteps ==
    ASSUME SweepInv, NEW w \in Workers,
           ListDue(w) \/ List(w) \/ ListFails(w) \/ ListNotDue(w) \/ Fetch(w) \/ FetchFails(w) \/ FeedFetch(w) \/ Assemble(w)
    PROVE  SweepInv'
<1>1. Surroundings /\ Entries /\ worker \in [Workers -> Worker] /\ worker[w] \in Worker /\ AtHand /\ OneWatches
  BY InvParts
<1>2. UNCHANGED <<real, world, cache, order, listed, ready, feed, dash, live>> /\ worker[w].pc # "off"
  BY DEF ListDue, List, ListFails, ListNotDue, Fetch, FetchFails, FeedFetch, Assemble
<1>3. Surroundings' /\ Entries'
  BY <1>1, <1>2, EntriesKept, SurroundingsKept
<1>4. worker' \in [Workers -> Worker] /\ AtHand' /\ OneWatches'
  <2>1. CASE ListDue(w)
    <3>1. PICK q : q = [worker[w] EXCEPT !.due = TRUE]
      OBVIOUS
    <3>2. Fine(q) /\ q.pc = worker[w].pc /\ q.cancelled = worker[w].cancelled
      BY <1>1, <2>1, <3>1 DEF ListDue, Fine, Worker
    <3>3. worker' = [worker EXCEPT ![w] = q]
      BY <1>1, <2>1, <3>1 DEF ListDue
    <3> QED
      BY <1>2, <3>2, <3>3, GoesOn
  <2>2. CASE List(w)
    <3>1. PICK q : q = [worker[w] EXCEPT !.pc = "listStore", !.list = real, !.due = FALSE]
      OBVIOUS
    <3>2. Fine(q) /\ q.pc = "listStore" /\ q.cancelled = worker[w].cancelled
      BY <1>1, <3>1 DEF Fine, Worker, Surroundings
    <3>3. worker' = [worker EXCEPT ![w] = q]
      BY <2>2, <3>1, Zenon DEF List
    <3> QED
      BY <1>2, <3>2, <3>3, GoesOn
  <2>3. CASE ListFails(w) \/ ListNotDue(w) \/ FetchFails(w)
    BY <1>2, <2>3, Gone DEF ListFails, ListNotDue, FetchFails
  <2>4. CASE Fetch(w)
    <3>1. PICK q : q = [worker[w] EXCEPT !.pc = "store", !.got = world]
      OBVIOUS
    <3>2. world \in Versions /\ world # 0 /\ worker[w].ns \in Namespaces
      BY <1>1, <2>4, SweepAssumption DEF Surroundings, Versions, AtHand, Fetch
    <3>3. Fine(q) /\ q.pc = "store" /\ q.cancelled = worker[w].cancelled
      BY <1>1, <3>1, <3>2 DEF Fine, Worker
    <3>4. worker' = [worker EXCEPT ![w] = q]
      BY <2>4, <3>1, Zenon DEF Fetch
    <3> QED
      BY <1>2, <3>3, <3>4, GoesOn
  <2>5. CASE FeedFetch(w)
    <3>1. PICK q : q = [worker[w] EXCEPT !.pc = "feedStore", !.got = world]
      OBVIOUS
    <3>2. world \in Versions /\ world # 0
      BY <1>1, SweepAssumption DEF Surroundings, Versions
    <3>3. Fine(q) /\ q.pc = "feedStore" /\ q.cancelled = worker[w].cancelled
      BY <1>1, <3>1, <3>2 DEF Fine, Worker
    <3>4. worker' = [worker EXCEPT ![w] = q]
      BY <2>5, <3>1, Zenon DEF FeedFetch
    <3> QED
      BY <1>2, <3>3, <3>4, GoesOn
  <2>6. CASE Assemble(w)
    <3>1. PICK d, q : d = [n \in Namespaces |-> Seen(n)] /\ q = [worker[w] EXCEPT !.pc = "publish", !.draft = d]
      OBVIOUS
    <3>2. d \in [Namespaces -> Versions]
      BY <1>1, <3>1 DEF Seen, Entries, Surroundings, Feed
    <3>3. Fine(q) /\ q.pc = "publish" /\ q.cancelled = worker[w].cancelled
      BY <1>1, <3>1, <3>2 DEF Fine, Worker
    <3>4. worker' = [worker EXCEPT ![w] = q]
      BY <2>6, <3>1, Zenon DEF Assemble
    <3> QED
      BY <1>2, <3>3, <3>4, GoesOn
  <2> QED
    BY <2>1, <2>2, <2>3, <2>4, <2>5, <2>6
<1> QED
  BY <1>3, <1>4 DEF SweepInv, SweepTypeOK, Surroundings, Entries

\* Steps of the feed, of the dashboard and of the list of namespaces.
LEMMA SharedSteps ==
    ASSUME SweepInv, NEW w \in Workers,
           ListStore(w) \/ FeedAttempt(w) \/ FeedFails(w) \/ FeedStore(w) \/ Publish(w) \/ Ready(w)
    PROVE  SweepInv'
<1>1. Surroundings /\ Entries /\ worker \in [Workers -> Worker] /\ worker[w] \in Worker /\ AtHand /\ OneWatches
  BY InvParts
<1>2. UNCHANGED <<real, world, cache, order, live>> /\ worker[w].pc # "off"
  BY DEF ListStore, FeedAttempt, FeedFails, FeedStore, Publish, Ready
<1>3. Entries'
  BY <1>1, <1>2, EntriesKept
<1>4. Surroundings'
  <2>1. CASE ListStore(w)
    BY <1>1, <2>1 DEF ListStore, Surroundings, Worker
  <2>2. CASE FeedAttempt(w)
    BY <1>1, <2>2, FeedTypes DEF FeedAttempt, Surroundings
  <2>3. CASE FeedFails(w)
    BY <1>1, <2>3, FeedTypes DEF FeedFails, Surroundings
  <2>4. CASE FeedStore(w)
    <3>1. worker[w].got \in Versions
      BY <1>1 DEF Worker
    <3> QED
      BY <1>1, <2>4, <3>1, FeedTypes DEF FeedStore, Surroundings
  <2>5. CASE Publish(w)
    BY <1>1, <2>5 DEF Publish, Surroundings, Worker
  <2>6. CASE Ready(w)
    BY <1>1, <2>6, FeedTypes DEF Ready, Surroundings
  <2> QED
    BY <2>1, <2>2, <2>3, <2>4, <2>5, <2>6
<1>5. worker' \in [Workers -> Worker] /\ AtHand' /\ OneWatches'
  <2>1. CASE FeedStore(w)
    <3>1. PICK q : q = [worker[w] EXCEPT !.pc = "assemble", !.got = 0, !.feeding = TRUE]
      OBVIOUS
    <3>2. Fine(q) /\ q.pc = "assemble" /\ q.cancelled = worker[w].cancelled
      BY <1>1, <3>1, Types DEF Fine, Worker
    <3>3. worker' = [worker EXCEPT ![w] = q]
      BY <2>1, <3>1, Zenon DEF FeedStore
    <3> QED
      BY <1>2, <3>2, <3>3, GoesOn
  <2>2. CASE ~FeedStore(w)
    <3>1. NextTick(w) \/ \E pc \in {"tick", "feed", "ready"} : Goto(w, pc)
      BY <2>2, Zenon DEF ListStore, FeedAttempt, FeedFails, Publish, Ready
    <3> QED
      BY <1>2, <3>1, Gone, Waits
  <2> QED
    BY <2>1, <2>2
<1> QED
  BY <1>3, <1>4, <1>5 DEF SweepInv, SweepTypeOK, Surroundings, Entries

\* The feed, or the stalest namespace of the list.
LEMMA TickSteps ==
    ASSUME SweepInv, NEW w \in Workers, Tick(w)
    PROVE  SweepInv'
<1>1. Surroundings /\ Entries /\ worker \in [Workers -> Worker] /\ worker[w] \in Worker /\ AtHand /\ OneWatches
  BY InvParts
<1>2. UNCHANGED <<real, world, cache, order, listed, ready, dash, live>> /\ worker[w].pc # "off"
  BY DEF Tick
<1>3. Entries'
  BY <1>1, <1>2, EntriesKept
<1>4. Surroundings'
  BY <1>1, <1>2, FeedTypes DEF Tick, Surroundings
<1>5. worker' \in [Workers -> Worker] /\ AtHand' /\ OneWatches'
  <2>1. CASE FeedDue
    BY <1>2, <2>1, Gone DEF Tick
  <2>2. CASE ~FeedDue /\ worker[w].list = {}
    BY <1>2, <2>2, Waits DEF Tick
  <2>3. CASE ~FeedDue /\ worker[w].list # {}
    <3>1. PICK n, q : n = Stalest(worker[w].list) /\ q = [worker[w] EXCEPT !.pc = "fetch", !.ns = n]
      OBVIOUS
    <3>2. worker[w].list \in SUBSET Namespaces
      BY <1>1 DEF Worker
    <3>3. n \in Namespaces
      BY <2>3, <3>1, <3>2, StalestChosen DEF SweepInv
    <3>4. Fine(q) /\ q.pc = "fetch" /\ q.cancelled = worker[w].cancelled
      BY <1>1, <3>1, <3>3 DEF Fine, Worker
    <3>5. worker' = [worker EXCEPT ![w] = q]
      BY <2>3, <3>1, Zenon DEF Tick
    <3> QED
      BY <1>2, <3>4, <3>5, GoesOn
  <2> QED
    BY <2>1, <2>2, <2>3
<1> QED
  BY <1>3, <1>4, <1>5 DEF SweepInv, SweepTypeOK, Surroundings, Entries

\* refreshNamespace makes its namespace the newest entry.
LEMMA StoreSteps ==
    ASSUME SweepInv, NEW w \in Workers, Store(w)
    PROVE  SweepInv'
<1>1. Surroundings /\ Entries /\ worker \in [Workers -> Worker] /\ worker[w] \in Worker /\ AtHand /\ OneWatches
  BY InvParts
<1>2. UNCHANGED <<real, world, listed, ready, feed, dash, live>> /\ worker[w].pc = "store"
  BY DEF Store
<1>3. Surroundings'
  BY <1>1, <1>2, SurroundingsKept
<1>4. worker' \in [Workers -> Worker] /\ AtHand' /\ OneWatches'
  <2>1. PICK q : q = [worker[w] EXCEPT !.pc = "assemble", !.got = 0]
    OBVIOUS
  <2>2. Fine(q) /\ q.pc = "assemble" /\ q.cancelled = worker[w].cancelled
    BY <1>1, <2>1, Types DEF Fine, Worker
  <2>3. worker' = [worker EXCEPT ![w] = q]
    BY <2>1, Zenon DEF Store
  <2> QED
    BY <1>2, <2>2, <2>3, GoesOn
<1>5. Entries'
  <2>1. PICK n, v : n = worker[w].ns /\ v = worker[w].got
    OBVIOUS
  <2>2. n \in Namespaces /\ v \in Versions /\ v # 0
    BY <1>1, <1>2, <2>1 DEF AtHand, Worker
  <2>3. cache' = [cache EXCEPT ![n] = v] /\ order' = Touch(n)
    BY <2>1 DEF Store
  <2>4. /\ order' \in Seq(Namespaces)
        /\ \A m \in Namespaces : (\E k \in 1..Len(order') : order'[k] = m) <=> m \in Cached \cup {n}
        /\ \A k, l \in 1..Len(order') : order'[k] = order'[l] => k = l
    <3>1. PICK t : t = Touch(n)
      OBVIOUS
    <3>2. /\ t \in Seq(Namespaces)
          /\ \A m \in Namespaces : (\E k \in 1..Len(t) : t[k] = m) <=> m \in Cached \cup {n}
          /\ \A k, l \in 1..Len(t) : t[k] = t[l] => k = l
      <4>1. SweepTypeOK /\ Ordered
        BY DEF SweepInv
      <4>2. /\ Touch(n) \in Seq(Namespaces)
            /\ \A m \in Namespaces : (\E k \in 1..Len(Touch(n)) : Touch(n)[k] = m) <=> m \in Cached \cup {n}
            /\ \A k, l \in 1..Len(Touch(n)) : Touch(n)[k] = Touch(n)[l] => k = l
        BY ONLY <2>2, <4>1, Touched, Zenon
      <4> QED
        BY <3>1, <4>2, Zenon
    <3> QED
      BY <2>3, <3>1, <3>2
  <2>5. cache' \in [Namespaces -> Versions] /\ \A m \in Namespaces : cache'[m] # 0 <=> m \in Cached \cup {n}
    BY <1>1, <2>2, <2>3 DEF Entries, Cached
  <2> QED
    BY <2>4, <2>5 DEF Entries, Ordered
<1> QED
  BY <1>3, <1>4, <1>5 DEF SweepInv, SweepTypeOK, Surroundings, Entries

------------------------------------------------------------------------------

LEMMA SweepStep == SweepInv /\ [SweepNext]_sweepVars => SweepInv'
<1> SUFFICES ASSUME SweepInv, [SweepNext]_sweepVars PROVE SweepInv'
  OBVIOUS
<1>1. ASSUME NEW w \in Workers, Start(w) \/ Stop(w) \/ ListDue(w) \/ Work(w) PROVE SweepInv'
  BY <1>1, SwitchSteps, OwnSteps, SharedSteps, TickSteps, StoreSteps DEF Work
<1>2. CASE Events \/ FeedInterval \/ \E n \in Namespaces : Change(n)
  BY <1>2, OutsideSteps
<1>3. CASE UNCHANGED sweepVars
  BY <1>3 DEF sweepVars, SweepInv, SweepTypeOK, Ordered, AtHand, OneWatches
<1> QED
  BY <1>1, <1>2, <1>3 DEF SweepNext

LEMMA SweepStart == SweepInit => SweepInv
<1> SUFFICES ASSUME SweepInit PROVE SweepInv
  OBVIOUS
<1>1. SweepTypeOK
  <2>1. real \subseteq Namespaces /\ world \in 1..MaxWorld /\ feed \in Feed
    BY Types, SweepAssumption DEF SweepInit, Feed
  <2>2. cache \in [Namespaces -> Versions] /\ dash \in [Namespaces -> Versions] /\ worker \in [Workers -> Worker]
    BY Types DEF SweepInit, Fine
  <2>3. order \in Seq(Namespaces) /\ listed \subseteq Namespaces /\ ready \in BOOLEAN /\ live \subseteq Workers
    <3>1. order = <<>> /\ listed = {} /\ live = {}
      BY DEF SweepInit
    <3>2. ready \in BOOLEAN
      BY Zenon DEF SweepInit
    <3>3. order \in Seq(Namespaces)
      BY <3>1
    <3> QED
      BY <3>1, <3>2, <3>3
  <2> QED
    BY <2>1, <2>2, <2>3 DEF SweepTypeOK
<1>2. Ordered
  BY DEF SweepInit, Ordered
<1>3. AtHand /\ OneWatches
  BY Types DEF SweepInit, AtHand, OneWatches, Fine
<1> QED
  BY <1>1, <1>2, <1>3 DEF SweepInv

\* The inductive invariant: types, the order of the entries, what a worker has at hand
\* and which worker watches (runWorker, refreshNamespace, refreshWarnings).
THEOREM SweepInvariant == SweepSpec => []SweepInv
  BY SweepStart, SweepStep, PTL DEF SweepSpec

\* A worker goes on exactly while its context is not cancelled, and no two of them do,
\* however quickly the cluster is switched away from and back (start, stop).
THEOREM OneWatchesAlways == SweepSpec => []OneWatches
<1>1. SweepInv => OneWatches
  BY DEF SweepInv
<1> QED
  BY <1>1, SweepInvariant, PTL

\* workerTick starts no refresh but that of the stalest namespace of the worker's list: one
\* without an entry, or one whose entry no other of the list is older than, although other
\* workers refresh the same entries.
RefreshesStalest ==
    \A w \in Workers :
        worker[w].pc = "tick" /\ worker'[w].pc = "fetch" =>
            LET n == worker'[w].ns
                list == worker[w].list
            IN /\ n \in list
               /\ n \in Cached => list \subseteq Cached /\ \A m \in list : Position(n) <= Position(m)

\* The sweep refreshes the stalest namespace (workerTick).
THEOREM StalestFirst == SweepSpec => [][RefreshesStalest]_sweepVars
<1>1. SweepInv /\ [SweepNext]_sweepVars => [RefreshesStalest]_sweepVars
  <2> SUFFICES ASSUME SweepInv, SweepNext, NEW w \in Workers,
                      worker[w].pc = "tick", worker'[w].pc = "fetch"
               PROVE  LET n == worker'[w].ns
                          list == worker[w].list
                      IN /\ n \in list
                         /\ n \in Cached => list \subseteq Cached /\ \A m \in list : Position(n) <= Position(m)
    BY DEF RefreshesStalest
  <2>1. worker \in [Workers -> Worker] /\ worker[w] \in Worker
    BY DEF SweepInv, SweepTypeOK
  <2>2. worker'[w] # worker[w]
    OBVIOUS
  <2>3. Tick(w)
    <3>1. PICK v \in Workers : Start(v) \/ Stop(v) \/ ListDue(v) \/ Work(v)
      BY <2>2 DEF SweepNext, Events, FeedInterval, Change
    <3>2. v = w
      BY <2>1, <2>2, <3>1 DEF Start, Stop, ListDue, Work, Leave, List, ListFails, ListNotDue, Tick, Fetch, FetchFails,
                Store, ListStore, FeedAttempt, FeedFetch, FeedFails, FeedStore, Assemble, Publish, Ready, Goto, NextTick
    <3>3. ~Start(w) /\ ~ListDue(w) /\ ~Leave(w) /\ ~List(w) /\ ~ListFails(w) /\ ~ListNotDue(w) /\ ~Fetch(w)
          /\ ~FetchFails(w) /\ ~Store(w) /\ ~ListStore(w) /\ ~FeedAttempt(w) /\ ~FeedFetch(w) /\ ~FeedFails(w)
          /\ ~FeedStore(w) /\ ~Assemble(w) /\ ~Publish(w) /\ ~Ready(w)
      BY DEF Start, ListDue, Leave, List, ListFails, ListNotDue, Fetch, FetchFails,
             Store, ListStore, FeedAttempt, FeedFetch, FeedFails, FeedStore, Assemble, Publish, Ready
    <3>4. ~Stop(w)
      BY <2>1 DEF Stop, Worker
    <3> QED
      BY <3>1, <3>2, <3>3, <3>4 DEF Work
  <2>4. worker[w].list # {} /\ worker'[w].ns = Stalest(worker[w].list)
    <3>1. ~Goto(w, "attempt")
      BY <2>1 DEF Goto, Worker
    <3>2. ~NextTick(w)
      <4>1. Off \in Worker
        BY Types DEF Fine
      <4> SUFFICES ASSUME NextTick(w) PROVE FALSE
        OBVIOUS
      <4>2. PICK l, d, c : worker' = [worker EXCEPT ![w] = [Off EXCEPT !.pc = "list", !.list = l, !.due = d, !.cancelled = c]]
        BY Zenon DEF NextTick
      <4>3. worker'[w] = [Off EXCEPT !.pc = "list", !.list = l, !.due = d, !.cancelled = c]
        BY <2>1, <4>2, Zenon
      <4>4. PICK r \in Worker : r = Off
        BY <4>1
      <4>5. worker'[w].pc = "list"
        BY <4>3, <4>4 DEF Worker
      <4> QED
        BY <4>5
    <3>3. worker[w].list # {} /\ worker' = [worker EXCEPT ![w] = [@ EXCEPT !.pc = "fetch", !.ns = Stalest(worker[w].list)]]
      BY <2>3, <3>1, <3>2 DEF Tick
    <3> QED
      BY <2>1, <3>3 DEF Worker
  <2>5. worker[w].list \in SUBSET Namespaces
    BY <2>1 DEF Worker
  <2> QED
    BY <2>4, <2>5, StalestChosen DEF SweepInv
<1> QED
  BY <1>1, SweepInvariant, PTL DEF SweepSpec
==============================================================================
