----------------------------- MODULE OwnersProofs -----------------------------
(* That the queue of owner lookups keeps its books, and that a chain shown as   *)
(* confirmed is what ownerReferences say, for any cluster, any number of        *)
(* resolvers and pages, and any limits.                                         *)
EXTENDS Owners, NaturalsInduction, WellFoundedInduction, TLAPS

Elems(s) == {s[i] : i \in DOMAIN s}

Distinct(s) == \A i, j \in DOMAIN s : s[i] = s[j] => i = j

\* A new element at the front of a sequence without duplicates.
LEMMA PushFront ==
    ASSUME NEW S, NEW s \in Seq(S), NEW x, x \notin Elems(s), Distinct(s)
    PROVE  /\ <<x>> \o s \in Seq(S \cup {x})
           /\ Elems(<<x>> \o s) = Elems(s) \cup {x}
           /\ Distinct(<<x>> \o s)
<1> DEFINE t == <<x>> \o s
<1>1. t \in Seq(S \cup {x}) /\ Len(t) = Len(s) + 1 /\ t[1] = x
      /\ \A i \in 1..Len(s) : t[i + 1] = s[i]
  <2>1. s \in Seq(S \cup {x}) /\ <<x>> \in Seq(S \cup {x})
    OBVIOUS
  <2> QED BY <2>1
<1>2. DOMAIN t = 1..Len(s) + 1 /\ DOMAIN s = 1..Len(s) /\ Len(s) \in Nat
  BY <1>1
<1>3. \A i \in 2..Len(s) + 1 : i - 1 \in 1..Len(s) /\ t[i] = s[i - 1]
  BY <1>1, <1>2
<1> HIDE DEF t
<1>4. Elems(t) = Elems(s) \cup {x}
  <2>1. ASSUME NEW y \in Elems(t) PROVE y \in Elems(s) \cup {x}
    <3>1. PICK i \in 1..Len(s) + 1 : y = t[i]
      BY <2>1, <1>2 DEF Elems
    <3>2. CASE i = 1
      BY <3>1, <3>2, <1>1
    <3>3. CASE i # 1
      BY <3>1, <3>3, <1>2, <1>3 DEF Elems
    <3> QED BY <3>2, <3>3
  <2>2. ASSUME NEW y \in Elems(s) PROVE y \in Elems(t)
    <3>1. PICK i \in 1..Len(s) : y = s[i]
      BY <2>2, <1>2 DEF Elems
    <3>2. i + 1 \in 1..Len(s) + 1 /\ t[i + 1] = y
      BY <3>1, <1>1, <1>2
    <3> QED BY <3>2, <1>2 DEF Elems
  <2>3. x \in Elems(t)
    BY <1>1, <1>2 DEF Elems
  <2> QED BY <2>1, <2>2, <2>3
<1>5. Distinct(t)
  <2> SUFFICES ASSUME NEW i \in 1..Len(s) + 1, NEW j \in 1..Len(s) + 1, t[i] = t[j]
               PROVE  i = j
    BY <1>2 DEF Distinct
  <2>1. \A k \in 2..Len(s) + 1 : t[k] # x
    BY <1>2, <1>3 DEF Elems
  <2>2. CASE i = 1 \/ j = 1
    BY <2>1, <2>2, <1>1, <1>2
  <2>3. CASE i # 1 /\ j # 1
    <3>1. s[i - 1] = s[j - 1] /\ i - 1 \in DOMAIN s /\ j - 1 \in DOMAIN s
      BY <2>3, <1>2, <1>3
    <3>2. i - 1 = j - 1
      BY <3>1 DEF Distinct
    <3> QED BY <3>2, <1>2
  <2> QED BY <2>2, <2>3
<1> QED BY <1>1, <1>4, <1>5 DEF t

\* A new element at the back.
LEMMA PushBack ==
    ASSUME NEW S, NEW s \in Seq(S), NEW x, x \notin Elems(s), Distinct(s)
    PROVE  /\ Append(s, x) \in Seq(S \cup {x})
           /\ Elems(Append(s, x)) = Elems(s) \cup {x}
           /\ Distinct(Append(s, x))
<1> DEFINE t == Append(s, x)
<1>1. t \in Seq(S \cup {x})
  <2>1. s \in Seq(S \cup {x})
    OBVIOUS
  <2> QED BY <2>1
<1>2. /\ Len(s) \in Nat /\ DOMAIN s = 1..Len(s) /\ DOMAIN t = 1..Len(s) + 1
      /\ t[Len(s) + 1] = x /\ \A i \in 1..Len(s) : t[i] = s[i]
  OBVIOUS
<1> HIDE DEF t
<1>3. Elems(t) = Elems(s) \cup {x}
  <2>1. ASSUME NEW y \in Elems(t) PROVE y \in Elems(s) \cup {x}
    <3>1. PICK i \in 1..Len(s) + 1 : y = t[i]
      BY <2>1, <1>2 DEF Elems
    <3>2. CASE i = Len(s) + 1
      BY <3>1, <3>2, <1>2
    <3>3. CASE i # Len(s) + 1
      BY <3>1, <3>3, <1>2 DEF Elems
    <3> QED BY <3>2, <3>3
  <2>2. ASSUME NEW y \in Elems(s) PROVE y \in Elems(t)
    BY <2>2, <1>2 DEF Elems
  <2>3. x \in Elems(t)
    <3>1. Len(s) + 1 \in DOMAIN t
      BY <1>2
    <3> QED BY <3>1, <1>2 DEF Elems
  <2> QED BY <2>1, <2>2, <2>3
<1>4. Distinct(t)
  <2> SUFFICES ASSUME NEW i \in 1..Len(s) + 1, NEW j \in 1..Len(s) + 1, t[i] = t[j]
               PROVE  i = j
    BY <1>2 DEF Distinct
  <2>1. \A k \in 1..Len(s) : t[k] # x
    BY <1>2 DEF Elems
  <2> QED BY <2>1, <1>2 DEF Distinct
<1> QED BY <1>1, <1>3, <1>4 DEF t

\* The head of a sequence without duplicates is not in its tail.
LEMMA PopFront ==
    ASSUME NEW S, NEW s \in Seq(S), s # <<>>, Distinct(s)
    PROVE  /\ Head(s) \in S /\ Tail(s) \in Seq(S)
           /\ Elems(s) = Elems(Tail(s)) \cup {Head(s)}
           /\ Head(s) \notin Elems(Tail(s))
           /\ Distinct(Tail(s))
<1> DEFINE t == Tail(s)
<1>1. /\ Len(s) \in Nat /\ Len(s) >= 1 /\ DOMAIN s = 1..Len(s) /\ t \in Seq(S)
      /\ DOMAIN t = 1..Len(s) - 1 /\ Head(s) = s[1] /\ \A i \in 1..Len(s) - 1 : t[i] = s[i + 1]
  OBVIOUS
<1> HIDE DEF t
<1>2. s[1] \in S
  BY <1>1
<1>3. Elems(s) = Elems(t) \cup {s[1]}
  <2>1. ASSUME NEW y \in Elems(s) PROVE y \in Elems(t) \cup {s[1]}
    <3>1. PICK i \in 1..Len(s) : y = s[i]
      BY <2>1, <1>1 DEF Elems
    <3>2. CASE i # 1
      <4>1. i - 1 \in 1..Len(s) - 1 /\ t[i - 1] = s[i]
        BY <3>2, <1>1
      <4> QED BY <4>1, <3>1, <1>1 DEF Elems
    <3> QED BY <3>1, <3>2
  <2>2. ASSUME NEW y \in Elems(t) PROVE y \in Elems(s)
    <3>1. PICK i \in 1..Len(s) - 1 : y = t[i]
      BY <2>2, <1>1 DEF Elems
    <3>2. i + 1 \in DOMAIN s /\ y = s[i + 1]
      BY <3>1, <1>1
    <3> QED BY <3>2 DEF Elems
  <2>3. s[1] \in Elems(s)
    BY <1>1 DEF Elems
  <2> QED BY <2>1, <2>2, <2>3
<1>4. s[1] \notin Elems(t)
  <2> SUFFICES ASSUME NEW i \in 1..Len(s) - 1, t[i] = s[1] PROVE FALSE
    BY <1>1 DEF Elems
  <2>1. s[i + 1] = s[1] /\ i + 1 \in DOMAIN s /\ 1 \in DOMAIN s /\ i + 1 # 1
    BY <1>1
  <2> QED BY <2>1 DEF Distinct
<1>5. Distinct(t)
  <2> SUFFICES ASSUME NEW i \in 1..Len(s) - 1, NEW j \in 1..Len(s) - 1, t[i] = t[j]
               PROVE  i = j
    BY <1>1 DEF Distinct
  <2>1. s[i + 1] = s[j + 1] /\ i + 1 \in DOMAIN s /\ j + 1 \in DOMAIN s
    BY <1>1
  <2>2. i + 1 = j + 1
    BY <2>1 DEF Distinct
  <2> QED BY <2>2
<1> QED BY <1>1, <1>2, <1>3, <1>4, <1>5 DEF t

\* A sequence that does not hold x stays one of its set without x.
LEMMA Without ==
    ASSUME NEW S, NEW s \in Seq(S), NEW x, x \notin Elems(s)
    PROVE  s \in Seq(S \ {x})
<1>1. Len(s) \in Nat /\ DOMAIN s = 1..Len(s) /\ \A i \in 1..Len(s) : s[i] \in S \ {x}
  BY DEF Elems
<1>2. s = [i \in 1..Len(s) |-> s[i]]
  OBVIOUS
<1> QED BY <1>1, <1>2

------------------------------------------------------------------------------
(* The books: their meaning in terms of Elems and Distinct, and one lemma for   *)
(* each way the steps change them.                                              *)

Books == QueueShape /\ QueuedOnce

Looks(r) == res[r].pc = "get"

\* QueuedOnce, element by element.
Once ==
    /\ \A x : x \in queued <=> x \in Elems(queue) \/ \E r \in Resolvers : Looks(r) /\ res[r].job = x
    /\ Distinct(queue)
    /\ \A r, q \in Resolvers : Looks(r) /\ Looks(q) /\ res[r].job = res[q].job => r = q
    /\ \A r \in Resolvers : Looks(r) => res[r].job \notin Elems(queue)

\* The two say the same.
LEMMA OnceMeans == QueuedOnce <=> Once
<1>1. \A x : x \in InFlight <=> \E r \in Resolvers : Looks(r) /\ res[r].job = x
  BY DEF InFlight, Looks
<1>2. queued = Elems(queue) \cup InFlight <=> \A x : x \in queued <=> x \in Elems(queue) \/ x \in InFlight
  OBVIOUS
<1>3. (\A i \in DOMAIN queue : queue[i] \notin InFlight)
      <=> \A r \in Resolvers : Looks(r) => res[r].job \notin Elems(queue)
  BY <1>1 DEF Elems
<1> QED BY <1>1, <1>2, <1>3 DEF QueuedOnce, Once, Elems, Distinct, Looks

\* A step that leaves the queue alone.
LEMMA NothingQueued ==
    ASSUME Books, UNCHANGED <<queue, queued, res>>
    PROVE  Books'
BY DEF Books, QueueShape, QueuedOnce, InFlight

\* A lookup that is not marked enters the queue at either end.
LEMMA Asked ==
    ASSUME Books, NEW x, x \notin queued, queued' = queued \cup {x}, UNCHANGED res,
           queue' = <<x>> \o queue \/ queue' = Append(queue, x)
    PROVE  Books'
<1>1. x \notin Elems(queue) /\ Distinct(queue) /\ queue \in Seq(queued)
  BY OnceMeans DEF Books, QueueShape, Once
<1>2. queue' \in Seq(queued') /\ Elems(queue') = Elems(queue) \cup {x} /\ Distinct(queue')
  <2>1. CASE queue' = <<x>> \o queue
    BY <1>1, <2>1, PushFront
  <2>2. CASE queue' = Append(queue, x)
    BY <1>1, <2>2, PushBack
  <2> QED BY <2>1, <2>2
<1>3. QueueShape'
  BY <1>2 DEF Books, QueueShape
<1>4. \A r \in Resolvers : Looks(r) => res[r].job # x
  BY OnceMeans DEF Books, Once, Looks
<1>5. QueuedOnce'
  <2>1. Once
    BY OnceMeans DEF Books
  <2>2. Once'
    BY <2>1, <1>2, <1>4 DEF Once, Looks, Elems, Distinct
  <2> QED BY <2>2, OnceMeans, PTL
<1> QED BY <1>3, <1>5 DEF Books

\* A resolver starts, is cancelled, or ends, between two lookups or in one.
LEMMA Switched ==
    ASSUME Books, NEW r \in Resolvers, UNCHANGED <<queue, queued>>,
           Start(r) \/ Stop(r) \/ Leave(r)
    PROVE  Books'
<1> DEFINE R == [pc : {"off", "idle", "get"}, job : queued \cup {NoRef}, live : BOOLEAN]
<1>1. res \in [Resolvers -> R] /\ NoRef \in queued \cup {NoRef}
  BY DEF Books, QueueShape
<1>2. /\ res' \in [Resolvers -> R]
      /\ \A q \in Resolvers : res'[q].job = res[q].job /\ (res'[q].pc = "get" <=> Looks(q))
  <2>1. CASE Start(r)
    <3>1. res[r].job = NoRef /\ res[r].pc = "off"
      BY <2>1 DEF Start, Off
    <3>2. res' = [res EXCEPT ![r] = [pc |-> "idle", job |-> NoRef, live |-> TRUE]]
      BY <2>1 DEF Start
    <3>3. [pc |-> "idle", job |-> NoRef, live |-> TRUE] \in R
      BY <1>1
    <3> HIDE DEF R
    <3> QED BY <1>1, <3>1, <3>2, <3>3 DEF Looks
  <2>2. CASE Stop(r)
    BY <2>2, <1>1 DEF Stop, Looks
  <2>3. CASE Leave(r)
    <3>1. res[r].job = NoRef
      BY <2>3 DEF Leave, Books, QueueShape
    <3> QED BY <2>3, <3>1, <1>1 DEF Leave, Off, Looks
  <2> QED BY <2>1, <2>2, <2>3
<1>3. QueueShape'
  <2>1. res' \in [Resolvers -> [pc : {"off", "idle", "get"}, job : queued' \cup {NoRef}, live : BOOLEAN]]
    BY <1>2
  <2> QED BY <2>1, <1>2 DEF Books, QueueShape, Looks
<1>4. Once
  BY OnceMeans DEF Books
<1>5. Once'
  BY <1>2, <1>4 DEF Once, Looks, Elems, Distinct
<1> QED BY <1>3, <1>5, OnceMeans, PTL DEF Books

\* The head of the queue becomes the lookup of a resolver that has none.
LEMMA Popped ==
    ASSUME Books, NEW r \in Resolvers, Pop(r)
    PROVE  Books'
<1> DEFINE job == Head(queue)
<1>1. Once /\ queue \in Seq(queued) /\ queue # <<>> /\ Distinct(queue)
  BY OnceMeans DEF Books, QueueShape, Pop, Once
<1>2. /\ job \in queued /\ queue' \in Seq(queued) /\ Elems(queue) = Elems(queue') \cup {job}
      /\ job \notin Elems(queue') /\ Distinct(queue')
  BY <1>1, PopFront DEF Pop
<1> HIDE DEF job
<1>3. /\ ~Looks(r) /\ res'[r].pc = "get" /\ res'[r].job = job
      /\ \A q \in Resolvers \ {r} : res'[q] = res[q]
      /\ queued' = queued
      /\ res' \in [Resolvers -> [pc : {"off", "idle", "get"}, job : queued' \cup {NoRef}, live : BOOLEAN]]
  BY <1>2 DEF Pop, Books, QueueShape, Looks, job
<1>4. QueueShape'
  BY <1>2, <1>3 DEF Books, QueueShape, Looks
<1>5. Once'
  <2>1. \A q \in Resolvers : Looks(q) => res[q].job # job
    BY <1>1, <1>2 DEF Once
  <2>2. \A q \in Resolvers : Looks(q)' <=> Looks(q) \/ q = r
    BY <1>3 DEF Looks
  <2>3. \A x : x \in queued' <=> x \in Elems(queue') \/ \E q \in Resolvers : Looks(q)' /\ res'[q].job = x
    BY <1>1, <1>2, <1>3, <2>2 DEF Once
  <2>4. \A p, q \in Resolvers : Looks(p)' /\ Looks(q)' /\ res'[p].job = res'[q].job => p = q
    BY <1>1, <1>3, <2>1, <2>2 DEF Once
  <2>5. \A q \in Resolvers : Looks(q)' => res'[q].job \notin Elems(queue')
    BY <1>1, <1>2, <1>3, <2>2 DEF Once
  <2> QED BY <1>2, <2>3, <2>4, <2>5 DEF Once, Looks, Elems, Distinct
<1> QED BY <1>4, <1>5, OnceMeans, PTL DEF Books

\* A lookup ends: its mark goes, and perhaps its parent is marked and next.
LEMMA Ended ==
    ASSUME Books, NEW r \in Resolvers, Looks(r),
           res' = [res EXCEPT ![r] = [@ EXCEPT !.pc = "idle", !.job = NoRef]],
           NEW up,
           \/ queued' = queued \ {res[r].job} /\ queue' = queue
           \/ /\ up \notin queued \ {res[r].job}
              /\ queued' = (queued \ {res[r].job}) \cup {up}
              /\ queue' = <<up>> \o queue
    PROVE  Books'
<1> DEFINE job == res[r].job
           rest == queued \ {job}
<1>1. Once /\ queue \in Seq(queued) /\ Distinct(queue)
  BY OnceMeans DEF Books, QueueShape, Once
<1>2. job \notin Elems(queue) /\ job \in queued
  BY <1>1 DEF Once
<1>3. queue \in Seq(rest)
  BY <1>1, <1>2, Without
<1>4. /\ ~Looks(r)' /\ res'[r].job = NoRef
      /\ \A q \in Resolvers \ {r} : res'[q] = res[q] /\ (Looks(q)' <=> Looks(q))
  BY DEF Books, QueueShape, Looks
<1>5. \A q \in Resolvers \ {r} : Looks(q) => res[q].job # job /\ res[q].job \in rest
  BY <1>1 DEF Once
<1>6. \A x : x \in rest <=> x \in Elems(queue) \/ \E q \in Resolvers \ {r} : Looks(q) /\ res[q].job = x
  BY <1>1, <1>2, <1>5 DEF Once
<1> HIDE DEF job, rest
<1>7. /\ queue' \in Seq(queued') /\ Distinct(queue') /\ rest \subseteq queued'
      /\ \A x : x \in queued' <=> x \in rest \/ x \in Elems(queue')
      /\ \A x \in Elems(queue') : x \in Elems(queue) \/ x \notin rest
      /\ Elems(queue) \subseteq Elems(queue')
  <2>1. CASE queued' = rest /\ queue' = queue
    BY <2>1, <1>1, <1>3, <1>6
  <2>2. CASE up \notin rest /\ queued' = rest \cup {up} /\ queue' = <<up>> \o queue
    <3>1. up \notin Elems(queue)
      BY <2>2, <1>6
    <3>2. queue' \in Seq(queued') /\ Elems(queue') = Elems(queue) \cup {up} /\ Distinct(queue')
      BY <1>1, <1>3, <2>2, <3>1, PushFront
    <3> QED BY <2>2, <3>2, <1>6
  <2> QED BY <2>1, <2>2 DEF rest, job
<1>8. QueueShape'
  <2>1. \A q \in Resolvers \ {r} :
          res[q] \in [pc : {"off", "idle", "get"}, job : queued' \cup {NoRef}, live : BOOLEAN]
    <3> SUFFICES ASSUME NEW q \in Resolvers \ {r}
                 PROVE  res[q].job \in queued' \cup {NoRef}
      BY DEF Books, QueueShape
    <3> QED BY <1>5, <1>7 DEF Books, QueueShape, Looks
  <2>2. res'[r] \in [pc : {"off", "idle", "get"}, job : queued' \cup {NoRef}, live : BOOLEAN]
    BY DEF Books, QueueShape
  <2>3. res' \in [Resolvers -> [pc : {"off", "idle", "get"}, job : queued' \cup {NoRef}, live : BOOLEAN]]
    BY <2>1, <2>2, <1>4 DEF Books, QueueShape
  <2> QED BY <2>3, <1>4, <1>7 DEF Books, QueueShape, Looks
<1>9. Once'
  <2>1. \A x : x \in queued' <=> x \in Elems(queue') \/ \E q \in Resolvers : Looks(q)' /\ res'[q].job = x
    BY <1>4, <1>5, <1>6, <1>7
  <2>2. \A p, q \in Resolvers : Looks(p)' /\ Looks(q)' /\ res'[p].job = res'[q].job => p = q
    BY <1>1, <1>4 DEF Once
  <2>3. \A q \in Resolvers : Looks(q)' => res'[q].job \notin Elems(queue')
    BY <1>1, <1>4, <1>5, <1>7 DEF Once
  <2> QED BY <1>7, <2>1, <2>2, <2>3 DEF Once, Looks, Elems, Distinct
<1> QED BY <1>8, <1>9, OnceMeans, PTL DEF Books

------------------------------------------------------------------------------

\* The books hold at first.
LEMMA BooksInit == Init => Books
BY DEF Init, Books, QueueShape, QueuedOnce, InFlight, Off

\* Every step of a page keeps them.
LEMMA PageBooks ==
    ASSUME Books, NEW p \in Pages, Open(p) \/ PageStep(p)
    PROVE  Books'
<1>1. CASE Open(p) \/ Chain(p) \/ Grouped(p) \/ ConfirmOwners(p) \/ Close(p)
  BY <1>1, NothingQueued DEF Open, Chain, Grouped, ConfirmOwners, Close
<1>2. CASE RequestRootLookup(p)
  <2> DEFINE root == page[p].root
  <2>1. CASE root \notin DOMAIN known /\ root \notin queued
    BY <1>2, <2>1, Asked DEF RequestRootLookup
  <2>2. CASE ~(root \notin DOMAIN known /\ root \notin queued)
    BY <1>2, <2>2, NothingQueued DEF RequestRootLookup
  <2> QED BY <2>1, <2>2
<1>3. CASE RequestConfirmation(p)
  <2> DEFINE chain == Head(page[p].cands)
             node == chain[CHOOSE i \in Unnamed(chain) : \A j \in Unnamed(chain) : i <= j]
             ask == /\ Unnamed(chain) # {} /\ Confirmable(chain)
                    /\ node \notin queued /\ Len(queue) < QueueMax
  <2>1. /\ queue' = IF ask THEN Append(queue, node) ELSE queue
        /\ queued' = IF ask THEN queued \cup {node} ELSE queued
        /\ UNCHANGED res
    BY <1>3 DEF RequestConfirmation
  <2>2. ask => node \notin queued
    OBVIOUS
  <2> HIDE DEF ask, node
  <2>3. CASE ask
    BY <2>1, <2>2, <2>3, Asked
  <2>4. CASE ~ask
    BY <2>1, <2>4, NothingQueued
  <2> QED BY <2>3, <2>4
<1> QED BY <1>1, <1>2, <1>3, SMTT(30) DEF PageStep

\* Every answer of a lookup keeps them.
LEMMA StoreBooks ==
    ASSUME Books, NEW r \in Resolvers, Looks(r), NEW entry, Store(r, entry)
    PROVE  Books'
<1> DEFINE up == entry.parent
           rest == queued \ {res[r].job}
           climb == up # NoRef /\ up \notin DOMAIN known \cup {res[r].job} /\ up \notin rest
<1>1. /\ queue' = IF climb THEN <<up>> \o queue ELSE queue
      /\ queued' = IF climb THEN rest \cup {up} ELSE rest
      /\ res' = [res EXCEPT ![r] = [@ EXCEPT !.pc = "idle", !.job = NoRef]]
  BY DEF Store
<1>2. climb => up \notin rest
  OBVIOUS
<1>3. \/ queued' = queued \ {res[r].job} /\ queue' = queue
      \/ /\ up \notin queued \ {res[r].job}
         /\ queued' = (queued \ {res[r].job}) \cup {up}
         /\ queue' = <<up>> \o queue
  <2> HIDE DEF climb
  <2> QED BY <1>1, <1>2
<1> HIDE DEF up
<1> QED BY <1>1, <1>3, Ended

\* Every step of the resolver keeps them.
LEMMA ResolverBooks ==
    ASSUME Books, NEW r \in Resolvers,
           Start(r) \/ Stop(r) \/ Leave(r) \/ Pop(r) \/ Resolve(r)
    PROVE  Books'
<1>1. CASE Start(r) \/ Stop(r) \/ Leave(r)
  BY <1>1, Switched DEF Start, Stop, Leave
<1>2. CASE Pop(r)
  BY <1>2, Popped
<1>3. CASE Forget(r)
  BY <1>3, Ended DEF Forget, Looks
<1>4. CASE UnknownKind(r)
  BY <1>4, StoreBooks DEF UnknownKind, Looks
<1>5. CASE Answer(r)
  <2>1. Looks(r) /\ \E entry : Store(r, entry)
    BY <1>5 DEF Answer, Looks
  <2> QED BY <2>1, StoreBooks
<1> QED BY <1>1, <1>2, <1>3, <1>4, <1>5 DEF Resolve

\* Every step keeps them.
LEMMA BooksStep == Books /\ [Next]_vars => Books'
<1> SUFFICES ASSUME Books, [Next]_vars PROVE Books'
  OBVIOUS
<1>1. CASE \E p \in Pages : Open(p) \/ PageStep(p)
  BY <1>1, PageBooks
<1>2. CASE \E r \in Resolvers : Start(r) \/ Stop(r) \/ Leave(r) \/ Pop(r) \/ Resolve(r)
  BY <1>2, ResolverBooks
<1>3. CASE \E o \in Objects : Delete(o)
  BY <1>3, NothingQueued DEF Delete
<1>4. CASE \E k \in DOMAIN known : Expire(k)
  BY <1>4, NothingQueued DEF Expire
<1>5. CASE UNCHANGED vars
  BY <1>5, NothingQueued DEF vars
<1> QED BY <1>1, <1>2, <1>3, <1>4, <1>5 DEF Next

\* For any cluster, any number of resolvers and pages and any limits, queued
\* marks exactly the lookups that wait or are under way, each of them once
\* (owners.go: queue, queued and resolveOwner).
THEOREM QueuedOnceAlways == Spec => []QueuedOnce
<1>1. Spec => []Books
  BY BooksInit, BooksStep, PTL DEF Spec
<1>2. Books => QueuedOnce
  BY DEF Books
<1> QED BY <1>1, <1>2, PTL

------------------------------------------------------------------------------
(* What is known of the cluster. *)

\* The shape of the cluster, which is fixed but for the objects it loses.
WorldShape ==
    /\ DOMAIN world = {"events", "refs", "faults"}
    /\ \A i \in DOMAIN world.events : world.events[i].obj \in Ref
    /\ \A k \in DOMAIN world.refs : Controller(world.refs[k]) \in Ref

\* Entries and kinds are what they look like, ...
KnownShape ==
    /\ \A k \in DOMAIN known : known[k] \in Entry
    /\ \A n \in DOMAIN kindOf : kindOf[n] \in Kind

\* ... and an answer about an object that is still there is true.
KnownReal ==
    \A k \in DOMAIN known \cap DOMAIN world.refs :
        ~known[k].missing => known[k].parent = Controller(world.refs[k])

KnownInv == WorldShape /\ KnownShape /\ KnownReal

\* No parent is a reference as well.
LEMMA NoRefIsRef == NoRef \in Ref /\ Missing \in Entry
<1>1. <<>> \in Seq(STRING)
  OBVIOUS
<1>2. NoRef \in Ref
  BY <1>1 DEF NoRef, Ref, Kind
<1> QED BY <1>2 DEF Missing, Entry

\* It holds at first.
LEMMA KnownInit == Init => KnownInv
BY WorldsAssumption DEF Init, KnownInv, WorldShape, KnownShape, KnownReal

\* A step that stores no answer and loses no object keeps it.
LEMMA NothingLearned ==
    ASSUME KnownInv, UNCHANGED <<world, known, kindOf>>
    PROVE  KnownInv'
BY DEF KnownInv, WorldShape, KnownShape, KnownReal

\* Storing an answer that is true of an object that is there keeps it.
LEMMA StoreKnown ==
    ASSUME KnownInv, NEW r \in Resolvers, NEW entry \in Entry, Store(r, entry),
           ~entry.missing /\ res[r].job \in DOMAIN world.refs
               => entry.parent = Controller(world.refs[res[r].job])
    PROVE  KnownInv'
<1> DEFINE job == res[r].job
           up == entry.parent
<1>1. up \in Ref /\ up.kind \in Kind
  BY DEF Entry, Ref
<1>2. /\ known' = [k \in DOMAIN known \cup {job} |-> IF k = job THEN entry ELSE known[k]]
      /\ kindOf' = IF up = NoRef THEN kindOf
                   ELSE [n \in DOMAIN kindOf \cup {up.name} |->
                             IF n = up.name THEN up.kind ELSE kindOf[n]]
      /\ UNCHANGED world
  BY DEF Store
<1> HIDE DEF job, up
<1>3. WorldShape'
  BY <1>2 DEF KnownInv, WorldShape
<1>4. KnownShape'
  BY <1>1, <1>2 DEF KnownInv, KnownShape
<1>5. KnownReal'
  BY <1>2 DEF KnownInv, KnownReal, job, up
<1> QED BY <1>3, <1>4, <1>5 DEF KnownInv

\* Every step keeps it.
LEMMA KnownStep == KnownInv /\ [Next]_vars => KnownInv'
<1> SUFFICES ASSUME KnownInv, [Next]_vars PROVE KnownInv'
  OBVIOUS
<1>1. ASSUME NEW p \in Pages, Open(p) \/ PageStep(p) PROVE KnownInv'
  <2>1. UNCHANGED <<world, known, kindOf>>
    <3>1. CASE Open(p) \/ Chain(p) \/ Grouped(p) \/ ConfirmOwners(p)
      BY <3>1, Zenon DEF Open, Chain, Grouped, ConfirmOwners
    <3>2. CASE RequestRootLookup(p) \/ RequestConfirmation(p) \/ Close(p)
      BY <3>2, Zenon DEF RequestRootLookup, RequestConfirmation, Close
    <3> QED BY <1>1, <3>1, <3>2, Zenon DEF PageStep
  <2> QED BY <2>1, NothingLearned
<1>2. ASSUME NEW r \in Resolvers, Start(r) \/ Stop(r) \/ Leave(r) \/ Pop(r) \/ Resolve(r)
      PROVE  KnownInv'
  <2>1. CASE Start(r) \/ Stop(r) \/ Leave(r) \/ Pop(r) \/ Forget(r)
    <3>1. UNCHANGED <<world, known, kindOf>>
      BY <2>1 DEF Start, Stop, Leave, Pop, Forget
    <3> QED BY <3>1, NothingLearned
  <2>2. CASE Store(r, Missing)
    <3>1. Missing.missing
      BY DEF Missing
    <3> QED BY <2>2, <3>1, NoRefIsRef, StoreKnown
  <2>3. ASSUME res[r].job \in DOMAIN world.refs,
               Store(r, [missing |-> FALSE, parent |-> Controller(world.refs[res[r].job])])
        PROVE  KnownInv'
    <3> DEFINE entry == [missing |-> FALSE, parent |-> Controller(world.refs[res[r].job])]
    <3>1. entry \in Entry /\ entry.parent = Controller(world.refs[res[r].job])
      BY <2>3 DEF Entry, KnownInv, WorldShape
    <3>2. Store(r, entry)
      BY <2>3
    <3> HIDE DEF entry
    <3> QED BY <3>1, <3>2, StoreKnown
  <2>4. CASE UnknownKind(r)
    BY <2>2, <2>4 DEF UnknownKind
  <2>5. CASE Answer(r)
    BY <2>2, <2>3, <2>5, Zenon DEF Answer
  <2> QED BY <1>2, <2>1, <2>4, <2>5 DEF Resolve
<1>3. ASSUME NEW o \in Objects, Delete(o) PROVE KnownInv'
  <2>1. /\ world' = [world EXCEPT !.refs = [k \in DOMAIN world.refs \ {o} |-> world.refs[k]]]
        /\ UNCHANGED <<known, kindOf>>
    BY <1>3 DEF Delete
  <2>2. /\ DOMAIN world' = DOMAIN world /\ world'.events = world.events
        /\ world'.refs = [k \in DOMAIN world.refs \ {o} |-> world.refs[k]]
    BY <2>1 DEF KnownInv, WorldShape
  <2>3. \A k \in DOMAIN world'.refs : k \in DOMAIN world.refs /\ world'.refs[k] = world.refs[k]
    BY <2>2
  <2>4. WorldShape'
    BY <2>2, <2>3 DEF KnownInv, WorldShape
  <2> QED BY <2>1, <2>3, <2>4 DEF KnownInv, KnownShape, KnownReal
<1>4. ASSUME NEW k \in DOMAIN known, Expire(k) PROVE KnownInv'
  BY <1>4 DEF Expire, KnownInv, WorldShape, KnownShape, KnownReal
<1>5. CASE UNCHANGED vars
  BY <1>5, NothingLearned DEF vars
<1> QED BY <1>1, <1>2, <1>3, <1>4, <1>5 DEF Next

------------------------------------------------------------------------------
(* ownerChain.  Its loop is a recursive function: that there is one is proved   *)
(* from the least number of turns without, and so is what every turn keeps.     *)

\* f is the loop from o, for n turns.
IsWalk(f, o, n) ==
    f = [i \in 0..n |-> IF i = 0 THEN [chain |-> <<o>>, inferred |-> FALSE, done |-> FALSE]
                        ELSE Climb[f[i - 1]]]

\* A set of numbers that is not empty has a least one, and the number before it,
\* if there is one, is not in it.
LEMMA LeastNumber ==
    ASSUME NEW S, S \subseteq Nat, S # {}
    PROVE  \E n \in S : n \in Nat /\ (n # 0 => n - 1 \in Nat /\ n - 1 \notin S)
<1>1. IsWellFoundedOn(OpToRel(<, Nat), Nat)
  BY NatLessThanWellFounded
<1>2. PICK n \in S : \A m \in S : ~(<<m, n>> \in OpToRel(<, Nat))
  BY <1>1, WFMin, Zenon
<1>3. ASSUME n # 0 PROVE n - 1 \in Nat /\ n - 1 \notin S
  <2>1. n - 1 \in Nat /\ n \in Nat
    BY <1>3
  <2>2. <<n - 1, n>> \in OpToRel(<, Nat)
    BY <2>1 DEF OpToRel
  <2> QED BY <2>1, <2>2, <1>2
<1> QED BY <1>3

\* The loop can be run for any number of turns.
LEMMA WalkExists == ASSUME NEW o PROVE \A n \in Nat : \E f : IsWalk(f, o, n)
<1> DEFINE first == [chain |-> <<o>>, inferred |-> FALSE, done |-> FALSE]
           S == {n \in Nat : ~ \E f : IsWalk(f, o, n)}
<1> SUFFICES ASSUME S # {} PROVE FALSE
  OBVIOUS
<1>1. PICK n \in S : n \in Nat /\ (n # 0 => n - 1 \in Nat /\ n - 1 \notin S)
  BY LeastNumber, Zenon
<1> HIDE DEF first
<1>2. n # 0
  <2>1. \E f : IsWalk(f, o, 0)
    <3> DEFINE f == [i \in 0..0 |-> first]
    <3>1. f = [i \in 0..0 |-> IF i = 0 THEN first ELSE Climb[f[i - 1]]]
      OBVIOUS
    <3>2. IsWalk(f, o, 0)
      BY <3>1, Zenon DEF IsWalk, first
    <3> QED BY <3>2
  <2> QED BY <2>1
<1>3. PICK f : IsWalk(f, o, n - 1)
  BY <1>1, <1>2
<1>4. \E g : IsWalk(g, o, n)
  <2> DEFINE g == [i \in 0..n |-> IF i = 0 THEN first ELSE Climb[f[i - 1]]]
  <2>1. \A i \in 0..(n - 1) : f[i] = g[i]
    <3>1. f = [i \in 0..(n - 1) |-> IF i = 0 THEN first ELSE Climb[f[i - 1]]]
      BY <1>3, Zenon DEF IsWalk, first
    <3> QED BY <1>1, <1>2, <3>1
  <2>2. \A i \in 0..n : i # 0 => f[i - 1] = g[i - 1]
    <3>1. \A i \in 0..n : i # 0 => i - 1 \in 0..(n - 1)
      BY <1>1, <1>2
    <3> QED BY <2>1, <3>1, Zenon
  <2>3. g = [i \in 0..n |-> IF i = 0 THEN first ELSE Climb[g[i - 1]]]
    BY <2>2
  <2>4. IsWalk(g, o, n)
    BY <2>3, Zenon DEF IsWalk, first
  <2> QED BY <2>4
<1> QED BY <1>4

\* Climbed is where it stands after MaxDepth turns.
LEMMA ClimbedIs ==
    ASSUME NEW o
    PROVE  \E f : IsWalk(f, o, MaxDepth) /\ Climbed(o) = f[MaxDepth]
<1> DEFINE f == CHOOSE f : IsWalk(f, o, MaxDepth)
<1>1. IsWalk(f, o, MaxDepth)
  BY OwnersAssumption, WalkExists, Zenon
<1>2. Climbed(o) = f[MaxDepth]
  BY Zenon DEF Climbed, IsWalk
<1> QED BY <1>1, <1>2

\* inferParent names an object, or none.
LEMMA InferParentIsRef == ASSUME NEW o \in Ref PROVE InferParent(o) \in Ref
<1> DEFINE prefix == Front(o.name)
<1>1. o.name \in Seq(STRING) /\ Len(o.name) \in Nat
  BY DEF Ref
<1>2. CASE Len(o.name) < 2
  <2>1. InferParent(o) = NoRef
    <3>1. ~(Len(o.name) > 1)
      BY <1>1, <1>2
    <3> QED BY <1>2, <3>1, Zenon DEF InferParent
  <2> QED BY <2>1, NoRefIsRef
<1>3. CASE ~(Len(o.name) < 2)
  <2>1. prefix \in Seq(STRING)
    BY <1>1, <1>3 DEF Front
  <2>2. \A kind \in Kind : [kind |-> kind, name |-> prefix] \in Ref
    BY <2>1 DEF Ref
  <2>3. "StatefulSet" \in Kind /\ "Job" \in Kind /\ "ReplicaSet" \in Kind /\ "" \in Kind
        /\ "CronJob" \in Kind /\ "Deployment" \in Kind
    BY DEF Kind
  <2>4. \/ InferParent(o) = NoRef
        \/ InferParent(o) \in {[kind |-> "StatefulSet", name |-> prefix], [kind |-> "Job", name |-> prefix],
                               [kind |-> "ReplicaSet", name |-> prefix], [kind |-> "", name |-> prefix],
                               [kind |-> "CronJob", name |-> prefix], [kind |-> "Deployment", name |-> prefix]}
    BY <1>3 DEF InferParent
  <2> QED BY <2>2, <2>3, <2>4, NoRefIsRef
<1> QED BY <1>2, <1>3

\* The API has named the owner of k.
Named(k) == k \in DOMAIN known /\ ~known[k].missing

\* What every turn keeps: unless a link was inferred the API has named them all,
\* and the loop is done only at an object without an owner.
Linked(w) ==
    /\ w \in Walk /\ w.chain # <<>>
    /\ ~w.inferred => \A j \in 1..Len(w.chain) - 1 :
                          Named(w.chain[j]) /\ known[w.chain[j]].parent = w.chain[j + 1]
    /\ w.done /\ Named(Last(w.chain)) => known[Last(w.chain)].parent = NoRef

\* A link more.
LEMMA LinkMore ==
    ASSUME NEW w \in Walk, Linked(w), NEW up \in Ref, NEW v \in Walk,
           v.chain = Append(w.chain, up), ~v.done,
           ~v.inferred => ~w.inferred /\ Named(Last(w.chain)) /\ known[Last(w.chain)].parent = up
    PROVE  Linked(v) /\ Len(v.chain) = Len(w.chain) + 1
<1> DEFINE c == w.chain
           d == v.chain
<1>1. c \in Seq(Ref) /\ c # <<>> /\ d = Append(c, up)
  BY DEF Walk, Linked
<1>2. /\ Len(c) \in Nat /\ Len(c) > 0 /\ Len(d) = Len(c) + 1 /\ d # <<>> /\ Last(c) = c[Len(c)]
      /\ d[Len(c) + 1] = up /\ \A j \in 1..Len(c) : d[j] = c[j]
  BY <1>1 DEF Last
<1> HIDE DEF c, d
<1>3. ASSUME ~v.inferred, NEW j \in 1..Len(d) - 1
      PROVE  Named(d[j]) /\ known[d[j]].parent = d[j + 1]
  <2>1. CASE j = Len(c)
    <3>1. d[j] = Last(c) /\ d[j + 1] = up
      BY <1>2, <2>1
    <3> QED BY <1>3, <3>1 DEF c
  <2>2. CASE j # Len(c)
    <3>1. j \in 1..Len(c) - 1 /\ d[j] = c[j] /\ d[j + 1] = c[j + 1]
      BY <1>2, <2>2
    <3> QED BY <1>3, <3>1 DEF Linked, c
  <2> QED BY <2>1, <2>2
<1> QED BY <1>2, <1>3 DEF Linked, c, d

\* One turn of the loop keeps it; it ends the loop or makes the chain longer.
LEMMA ClimbLinked ==
    ASSUME KnownShape, NEW w, Linked(w)
    PROVE  /\ Linked(Climb[w])
           /\ ~Climb[w].done => ~w.done /\ Len(Climb[w].chain) = Len(w.chain) + 1
<1> DEFINE cur == Last(w.chain)
           p == InferParent(cur)
           q == IF p.name \in DOMAIN kindOf THEN [p EXCEPT !.kind = kindOf[p.name]] ELSE p
<1>1. w \in Walk /\ w.chain \in Seq(Ref) /\ w.chain # <<>> /\ w.inferred \in BOOLEAN /\ w.done \in BOOLEAN
  BY DEF Linked, Walk
<1>2. cur \in Ref
  BY <1>1 DEF Last
<1>3. p \in Ref
  BY <1>2, InferParentIsRef
<1>4. q \in Ref
  <2>1. \A k \in Kind : [p EXCEPT !.kind = k] \in Ref
    BY <1>3 DEF Ref
  <2> QED BY <1>3, <2>1 DEF KnownShape
<1>5. Named(cur) => known[cur].parent \in Ref
  BY DEF KnownShape, Named, Entry
<1>6. Climb[w] =
        CASE w.done \/ (Named(cur) /\ known[cur].parent = NoRef) \/ (~Named(cur) /\ p = NoRef) ->
               [w EXCEPT !.done = TRUE]
          [] ~w.done /\ Named(cur) /\ known[cur].parent # NoRef ->
               [w EXCEPT !.chain = Append(w.chain, known[cur].parent)]
          [] OTHER -> [w EXCEPT !.inferred = TRUE, !.chain = Append(w.chain, q)]
  BY <1>1, Zenon DEF Climb, Named
<1> HIDE DEF cur, p, q
<1>7. CASE w.done \/ (Named(cur) /\ known[cur].parent = NoRef) \/ (~Named(cur) /\ p = NoRef)
  <2>1. Climb[w] = [w EXCEPT !.done = TRUE]
    BY <1>6, <1>7
  <2>2. PICK v : v = [w EXCEPT !.done = TRUE]
    OBVIOUS
  <2>3. v \in Walk /\ v.chain = w.chain /\ v.inferred = w.inferred /\ v.done = TRUE
    BY <1>1, <2>2 DEF Walk
  <2>4. Linked(v)
    BY <1>7, <2>3 DEF Linked, cur
  <2> QED BY <2>1, <2>2, <2>3, <2>4
<1>8. CASE ~w.done /\ Named(cur) /\ known[cur].parent # NoRef
  <2>1. Climb[w] = [w EXCEPT !.chain = Append(w.chain, known[cur].parent)]
    BY <1>6, <1>8
  <2>2. PICK v : v = [w EXCEPT !.chain = Append(w.chain, known[cur].parent)]
    OBVIOUS
  <2>3. Append(w.chain, known[cur].parent) \in Seq(Ref)
    BY <1>1, <1>5, <1>8
  <2>4. /\ v \in Walk /\ v.chain = Append(w.chain, known[cur].parent)
        /\ v.inferred = w.inferred /\ v.done = w.done
    BY <1>1, <2>2, <2>3 DEF Walk
  <2>5. Linked(v) /\ Len(v.chain) = Len(w.chain) + 1
    BY <1>1, <1>5, <1>8, <2>4, LinkMore DEF cur
  <2> QED BY <1>8, <2>1, <2>2, <2>5
<1>9. CASE ~w.done /\ ~Named(cur) /\ p # NoRef
  <2>1. Climb[w] = [w EXCEPT !.inferred = TRUE, !.chain = Append(w.chain, q)]
    BY <1>6, <1>9
  <2>2. PICK v : v = [w EXCEPT !.inferred = TRUE, !.chain = Append(w.chain, q)]
    OBVIOUS
  <2>3. Append(w.chain, q) \in Seq(Ref)
    BY <1>1, <1>4
  <2>4. v \in Walk /\ v.chain = Append(w.chain, q) /\ v.inferred = TRUE /\ v.done = w.done
    BY <1>1, <2>2, <2>3 DEF Walk
  <2>5. Linked(v) /\ Len(v.chain) = Len(w.chain) + 1
    BY <1>1, <1>4, <1>9, <2>4, LinkMore
  <2> QED BY <1>9, <2>1, <2>2, <2>5
<1> QED BY <1>7, <1>8, <1>9, Zenon

\* So the chain is linked after every turn, and longer by one until it is done.
LEMMA WalkLinked ==
    ASSUME KnownShape, NEW o \in Ref, NEW f, IsWalk(f, o, MaxDepth)
    PROVE  \A i \in 0..MaxDepth : Linked(f[i]) /\ (~f[i].done => Len(f[i].chain) = i + 1)
<1> DEFINE first == [chain |-> <<o>>, inferred |-> FALSE, done |-> FALSE]
           Good(i) == Linked(f[i]) /\ (~f[i].done => Len(f[i].chain) = i + 1)
           S == {i \in 0..MaxDepth : ~Good(i)}
<1> SUFFICES ASSUME S # {} PROVE FALSE
  OBVIOUS
<1>1. S \subseteq Nat
  OBVIOUS
<1>2. PICK n \in S : n \in Nat /\ (n # 0 => n - 1 \in Nat /\ n - 1 \notin S)
  BY <1>1, LeastNumber, Zenon
<1>3. f = [i \in 0..MaxDepth |-> IF i = 0 THEN first ELSE Climb[f[i - 1]]]
  BY Zenon DEF IsWalk
<1>4. n \in 0..MaxDepth /\ ~Good(n) /\ MaxDepth \in Nat
  BY OwnersAssumption
<1>5. first \in Walk /\ first.chain = <<o>> /\ first.inferred = FALSE /\ first.done = FALSE
  <2>1. <<o>> \in Seq(Ref)
    OBVIOUS
  <2> QED BY <2>1 DEF Walk
<1> HIDE DEF first, S
<1>6. CASE n = 0
  <2>1. f[n] = first
    BY <1>3, <1>4, <1>6
  <2>2. Linked(first) /\ Len(first.chain) = 1
    BY <1>5 DEF Linked
  <2> QED BY <1>4, <1>6, <2>1, <2>2
<1>7. CASE n # 0
  <2>1. n - 1 \in 0..MaxDepth /\ Good(n - 1)
    BY <1>2, <1>4, <1>7 DEF S
  <2>2. f[n] = Climb[f[n - 1]]
    BY <1>3, <1>4, <1>7
  <2>3. PICK w : w = f[n - 1]
    OBVIOUS
  <2>4. Linked(w) /\ (~w.done => Len(w.chain) = n)
    BY <1>4, <2>1, <2>3
  <2>5. Linked(f[n]) /\ (~f[n].done => Len(f[n].chain) = n + 1)
    BY <2>2, <2>3, <2>4, ClimbLinked
  <2> QED BY <1>4, <2>5
<1> QED BY <1>6, <1>7

\* A chain over what is known is real.
LEMMA KnownConfirms == KnownInv => ConfirmedIsReal
<1> SUFFICES ASSUME KnownInv, NEW o \in Objects,
                    ~OwnerChain(o).inferred, Len(OwnerChain(o).chain) > 1
             PROVE  LET c == OwnerChain(o).chain
                    IN /\ \A i \in 1..Len(c) - 1 :
                            c[i] \in DOMAIN world.refs => Controller(world.refs[c[i]]) = c[i + 1]
                       /\ /\ Last(c) \in DOMAIN world.refs /\ Len(c) <= MaxDepth
                          /\ Last(c) \in DOMAIN known => ~known[Last(c)].missing
                          => Controller(world.refs[Last(c)]) = NoRef
  BY Zenon DEF ConfirmedIsReal
<1>1. o \in Ref
  BY DEF Objects, KnownInv, WorldShape
<1>2. PICK f : IsWalk(f, o, MaxDepth) /\ Climbed(o) = f[MaxDepth]
  BY ClimbedIs
<1>3. PICK w : w = Climbed(o)
  OBVIOUS
<1>4. Linked(w) /\ (~w.done => Len(w.chain) = MaxDepth + 1)
  BY <1>1, <1>2, <1>3, WalkLinked, OwnersAssumption DEF KnownInv
<1>5. OwnerChain(o) = [chain |-> w.chain,
                       inferred |-> w.inferred \/ (Len(w.chain) > 1 /\ Last(w.chain) \notin DOMAIN known)]
  BY <1>3, Zenon DEF OwnerChain
<1>6. PICK c : c = w.chain
  OBVIOUS
<1>7. OwnerChain(o).chain = c /\ ~w.inferred /\ Last(c) \in DOMAIN known
  <2>1. OwnerChain(o).chain = w.chain
    BY <1>5
  <2>2. PICK b : b = (w.inferred \/ (Len(w.chain) > 1 /\ Last(w.chain) \notin DOMAIN known))
    OBVIOUS
  <2>3. OwnerChain(o) = [chain |-> w.chain, inferred |-> b]
    BY <1>5, <2>2, Zenon
  <2>4. OwnerChain(o).inferred = b
    BY <2>3
  <2> QED BY <1>6, <2>1, <2>2, <2>4, Zenon
<1>8. ASSUME NEW k \in DOMAIN world.refs, Named(k) PROVE known[k].parent = Controller(world.refs[k])
  BY <1>8 DEF KnownInv, KnownReal, Named
<1>9. \A i \in 1..Len(c) - 1 : c[i] \in DOMAIN world.refs => Controller(world.refs[c[i]]) = c[i + 1]
  BY <1>4, <1>6, <1>7, <1>8 DEF Linked
<1>10. ASSUME Last(c) \in DOMAIN world.refs, Len(c) <= MaxDepth,
              Last(c) \in DOMAIN known => ~known[Last(c)].missing
       PROVE  Controller(world.refs[Last(c)]) = NoRef
  <2>1. Named(Last(c))
    BY <1>7, <1>10 DEF Named
  <2>2. w.done
    BY <1>4, <1>6, <1>10, OwnersAssumption
  <2>3. known[Last(c)].parent = NoRef
    BY <1>4, <1>6, <2>1, <2>2 DEF Linked
  <2> QED BY <1>8, <1>10, <2>1, <2>3
<1> QED BY <1>7, <1>9, <1>10, Zenon

\* For any cluster, any number of resolvers and pages and any limits, a chain that
\* is not shown as inferred is, link by link, what ownerReferences say of the
\* objects that are still there, up to one without an owner, one that cannot be
\* fetched or the depth limit (owners.go: ownerChain over what resolveOwner
\* stores).
THEOREM ConfirmedIsRealAlways == Spec => []ConfirmedIsReal
<1>1. Spec => []KnownInv
  BY KnownInit, KnownStep, PTL DEF Spec
<1> QED BY <1>1, KnownConfirms, PTL

==============================================================================
