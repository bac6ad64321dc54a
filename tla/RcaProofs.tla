------------------------------ MODULE RcaProofs ------------------------------
(* Proofs about Rca: one agent an object, and a trail whose running steps are  *)
(* the calls that run, within the session's budget, for any number of objects, *)
(* analyses and MCP requests at once and any limits.                           *)
EXTENDS Rca, FiniteSetTheorems, TLAPS

------------------------------------------------------------------------------
(* The inductive invariant *)

\* The agent has written no step yet.
Early == {"free", "claimed", "gather"}

\* No tool run of a session exists.
Local == Early \cup {"ask", "model", "tools", "tool", "final", "slot"}

\* What an analysis looks like as long as no session answers for it.
Shape(r) ==
    /\ r.pc \in Early => r.steps = <<>>
    /\ r.pc \in Local => r.calls = 0 /\ ~r.token
    /\ r.pc \in Local \cup {"claude"} => r.status = "running"
    /\ r.pc = "slot" => Len(r.steps) = r.initial
    /\ r.pc \in {"tools", "tool"} => r.todo # 0
    /\ r.pc # "free" => r.object \in Objects

StateShape == \A s \in States : Shape(rca[s])

\* A request that is served belongs to an analysis that has, or had, a session.
CallShape ==
    \A c \in Requests :
        IF call[c].pc = "idle" THEN call[c].run = NoState
        ELSE call[c].run \in States /\ rca[call[c].run].pc \notin Local

Busy(s) == rca[s].pc \notin {"free", "ended"}

\* rcaRunning holds the object of every goroutine, and rcaCache the state it fills.
Claims ==
    /\ \A s \in States : Busy(s) => rca[s].object \in rcaRunning
    /\ \A s, t \in States : Busy(s) /\ Busy(t) /\ rca[s].object = rca[t].object => s = t
    /\ \A s \in States : Works(s) => rcaCache[rca[s].object] = s
    /\ \A o \in Objects : rcaCache[o] # NoState =>
         rca[rcaCache[o]].pc \notin {"free", "claimed"} /\ rca[rcaCache[o]].object = o

Running(s) == {i \in DOMAIN rca[s].steps : rca[s].steps[i] = "running"}

Own(s) == IF rca[s].pc = "tool" THEN {rca[s].step} ELSE {}

\* The steps shown as running, and who runs them.
StepsRun ==
    \A s \in States :
        /\ Running(s) = Own(s) \cup {call[c].step : c \in Executing(s)}
        /\ \A c \in Executing(s) : /\ call[c].step \notin Own(s)
                                   /\ \A d \in Executing(s) \ {c} : call[c].step # call[d].step

\* The calls that were counted within the budget and are no steps yet.
Counted(s) == {c \in Requests : call[c].pc = "counted" /\ call[c].run = s /\ call[c].n <= MaxIter}

InSession(s) == rca[s].pc = "claude" \/ rca[s].calls > 0 \/ \E c \in Requests : call[c].run = s

\* How many tools a session may have run after so many calls.
Allowed(calls) == IF calls <= MaxIter THEN calls ELSE MaxIter

\* The budget is shared by the steps there are and the calls that will become one.
Budget ==
    \A s \in States : InSession(s) =>
        Len(rca[s].steps) + Cardinality(Counted(s)) <= rca[s].initial + Allowed(rca[s].calls)

RcaInv == RcaTypeOK /\ StateShape /\ CallShape /\ Claims /\ StepsRun /\ Budget

------------------------------------------------------------------------------
(* What the steps change *)

Shown == {"running", "done", "error", "unavailable"}

LEMMA NoStateApart == NoState \notin States /\ NoState \notin Objects
  BY RcaAssumption

LEMMA Limits == MaxIter \in Nat /\ Runaway \in Nat /\ MaxTools \in Nat
  BY RcaAssumption

\* Trails are sequences of what a step may show, and nothing of them runs.
LEMMA TrailTypes ==
    ASSUME NEW trail \in Trails
    PROVE  trail \in Seq(Shown) /\ Len(trail) \in Nat /\ \A i \in DOMAIN trail : trail[i] # "running"
<1>1. trail \in Seq({"done", "error", "unavailable"})
  BY RcaAssumption
<1> QED BY <1>1 DEF Shown

\* Setting an element of a sequence.
LEMMA SetStep ==
    ASSUME NEW S, NEW q \in Seq(S), NEW i, NEW v \in S
    PROVE  /\ [q EXCEPT ![i] = v] \in Seq(S)
           /\ Len([q EXCEPT ![i] = v]) = Len(q)
           /\ DOMAIN [q EXCEPT ![i] = v] = DOMAIN q
           /\ \A j \in DOMAIN q : [q EXCEPT ![i] = v][j] = IF i = j THEN v ELSE q[j]
<1>1. [q EXCEPT ![i] = v] \in Seq(S)
  <2>1. q \in [1..Len(q) -> S] /\ Len(q) \in Nat
    OBVIOUS
  <2>2. [q EXCEPT ![i] = v] \in [1..Len(q) -> S]
    BY <2>1
  <2> QED BY <2>1, <2>2
<1>2. DOMAIN [q EXCEPT ![i] = v] = DOMAIN q /\ DOMAIN q = 1..Len(q) /\ Len(q) \in Nat
  OBVIOUS
<1>3. Len([q EXCEPT ![i] = v]) = Len(q)
  BY <1>1, <1>2
<1>4. \A j \in DOMAIN q : [q EXCEPT ![i] = v][j] = IF i = j THEN v ELSE q[j]
  OBVIOUS
<1> QED BY <1>1, <1>2, <1>3, <1>4

\* Only the analysis s changes, and no request.
Only(s) == /\ \A t \in States \ {s} : rca'[t] = rca[t]
           /\ call' = call

\* Its trail stays as it is.
SameTrail(s) ==
    /\ rca'[s].steps = rca[s].steps /\ rca'[s].initial = rca[s].initial
    /\ rca'[s].step = rca[s].step /\ rca'[s].calls = rca[s].calls

\* The object and what is polled stay as they are.
SameClaims(s) ==
    rcaRunning' = rcaRunning /\ rcaCache' = rcaCache /\ rca'[s].object = rca[s].object

LEMMA FreeTypes ==
    /\ Free \in State
    /\ \A o \in Objects : [Free EXCEPT !.pc = "claimed", !.object = o] \in State
<1>1. <<>> \in Seq({"running", "done", "error", "unavailable"}) /\ 0 \in 0..MaxIter /\ 0 \in 0..MaxTools
  BY Limits
<1>2. Free \in State
  BY <1>1 DEF Free, State
<1> QED BY <1>2 DEF State

LEMMA StartStep ==
    ASSUME RcaTypeOK, NEW s \in States, NEW o \in Objects, Start(o, s)
    PROVE  /\ RcaTypeOK' /\ Only(s) /\ rca'[s] = [Free EXCEPT !.pc = "claimed", !.object = o]
<1> DEFINE r == [Free EXCEPT !.pc = "claimed", !.object = o]
<1>1. r \in State
  BY FreeTypes
<1>2. rca' = [rca EXCEPT ![s] = r] /\ UNCHANGED <<rcaCache, call>> /\ rcaRunning' = rcaRunning \cup {o}
  BY DEF Start
<1> HIDE DEF r
<1>3. RcaTypeOK' /\ Only(s) /\ rca'[s] = r
  BY <1>1, <1>2 DEF RcaTypeOK, Only
<1> QED BY <1>3 DEF r

LEMMA MovedOn ==
    ASSUME NEW r \in State, NEW pc \in {"gather", "ask", "slot"}
    PROVE  [r EXCEPT !.pc = pc] \in State
  BY DEF State

LEMMA Recorded ==
    ASSUME NEW r \in State, NEW trail \in Seq(Shown), NEW n \in Nat
    PROVE  [r EXCEPT !.steps = trail, !.initial = n] \in State
  BY DEF State, Shown

LEMMA BeginStep ==
    ASSUME RcaTypeOK, StateShape, NEW s \in States, Begin(s)
    PROVE  /\ RcaTypeOK' /\ Only(s) /\ SameTrail(s) /\ rcaRunning' = rcaRunning
           /\ rcaCache' = [rcaCache EXCEPT ![rca[s].object] = s]
           /\ rca'[s].pc = "gather" /\ rca'[s].object = rca[s].object /\ rca[s].object \in Objects
           /\ rca'[s].token = rca[s].token /\ rca'[s].status = rca[s].status
<1>1. rca[s] \in State /\ [rca[s] EXCEPT !.pc = "gather"] \in State
  <2>1. PICK r \in State : r = rca[s]
    BY DEF RcaTypeOK
  <2>2. [r EXCEPT !.pc = "gather"] \in State
    BY MovedOn
  <2> QED BY <2>1, <2>2, Zenon
<1>2. rca[s].object \in Objects
  BY DEF Begin, StateShape, Shape
<1> QED BY <1>1, <1>2 DEF Begin, RcaTypeOK, State, Only, SameTrail

LEMMA GatherStep ==
    ASSUME RcaTypeOK, NEW s \in States, Gather(s)
    PROVE  /\ RcaTypeOK' /\ Only(s) /\ SameClaims(s)
           /\ rca'[s].steps \in Trails /\ rca'[s].initial = Len(rca'[s].steps)
           /\ rca'[s].pc \in {"ask", "slot"} /\ rca'[s].calls = rca[s].calls
           /\ rca'[s].token = rca[s].token /\ rca'[s].status = rca[s].status
<1>1. PICK trail \in Trails, backend \in {"ask", "slot"} :
        rca' = [rca EXCEPT ![s] = [rca[s] EXCEPT !.pc = backend, !.steps = trail, !.initial = Len(trail)]]
  BY DEF Gather, RcaTypeOK
<1> DEFINE r == [rca[s] EXCEPT !.pc = backend, !.steps = trail, !.initial = Len(trail)]
<1>2. trail \in Seq(Shown) /\ Len(trail) \in Nat
  BY TrailTypes
<1>3. rca[s] \in State /\ r \in State
  <2>1. PICK q \in State : q = rca[s]
    BY DEF RcaTypeOK
  <2>2. [q EXCEPT !.pc = backend] \in State
    BY MovedOn
  <2>3. PICK m \in State : m = [q EXCEPT !.pc = backend]
    BY <2>2
  <2>4. [m EXCEPT !.steps = trail, !.initial = Len(trail)] \in State
    BY <1>2, Recorded
  <2>5. [m EXCEPT !.steps = trail, !.initial = Len(trail)]
        = [q EXCEPT !.pc = backend, !.steps = trail, !.initial = Len(trail)]
    BY <2>3
  <2> QED BY <2>1, <2>4, <2>5, Zenon
<1> QED BY <1>1, <1>3 DEF Gather, RcaTypeOK, State, Only, SameClaims

\* A step of the agent that only moves on.
LEMMA PlainStep ==
    ASSUME RcaTypeOK, NEW s \in States,
           \/ Ask(s) \/ Answer(s) \/ Conclude(s) \/ Fail(s) \/ Session(s) \/ SessionEnds(s)
           \/ Unregister(s) \/ Over(s)
    PROVE  /\ RcaTypeOK' /\ Only(s) /\ SameTrail(s)
           /\ rca'[s].object = rca[s].object /\ rcaCache' = rcaCache
           /\ rca[s].pc \notin {"free", "claimed", "gather", "ended", "tool"}
<1> USE Limits
<1>0. rca[s] \in State /\ rca \in [States -> State]
  BY DEF RcaTypeOK
<1> DEFINE Moved(r) == /\ r \in State /\ rca' = [rca EXCEPT ![s] = r] /\ call' = call
                      /\ rcaCache' = rcaCache /\ rcaRunning' \subseteq rcaRunning
                      /\ r.steps = rca[s].steps /\ r.initial = rca[s].initial /\ r.step = rca[s].step
                      /\ r.calls = rca[s].calls /\ r.object = rca[s].object
                      /\ rca[s].pc \notin {"free", "claimed", "gather", "ended", "tool"}
<1>1. ASSUME Ask(s) PROVE \E r : Moved(r)
  <2>1. CASE rca[s].iter < MaxIter
    <3>1. rca[s].iter + 1 \in 0..MaxIter
      BY <1>0, <2>1 DEF State
    <3> DEFINE r == [rca[s] EXCEPT !.pc = "model", !.iter = rca[s].iter + 1]
    <3>2. rca' = [rca EXCEPT ![s] = r]
      BY <1>1, <2>1 DEF Ask
    <3>3. r \in State
      BY <1>0, <3>1 DEF State
    <3>4. Moved(r)
      BY <1>0, <1>1, <3>2, <3>3 DEF Ask, State
    <3> QED BY <3>4
  <2>2. CASE ~(rca[s].iter < MaxIter)
    <3>1. Moved([rca[s] EXCEPT !.pc = "final"])
      BY <1>0, <1>1, <2>2 DEF Ask, State
    <3> QED BY <3>1
  <2> QED BY <2>1, <2>2
<1>2. ASSUME Answer(s) PROVE \E r : Moved(r)
  <2>1. PICK n \in 1..MaxTools : rca' = [rca EXCEPT ![s] = [rca[s] EXCEPT !.pc = "tools", !.todo = n]]
    BY <1>0, <1>2 DEF Answer
  <2>2. n \in 0..MaxTools
    OBVIOUS
  <2>3. Moved([rca[s] EXCEPT !.pc = "tools", !.todo = n])
    BY <1>0, <1>2, <2>1, <2>2 DEF Answer, State
  <2> QED BY <2>3
<1>3. ASSUME Conclude(s) PROVE \E r : Moved(r)
  <2>1. Moved([rca[s] EXCEPT !.pc = "over", !.status = "done"])
    BY <1>0, <1>3 DEF Conclude, State
  <2> QED BY <2>1
<1>4. ASSUME Fail(s) PROVE \E r : Moved(r)
  <2>1. Moved([rca[s] EXCEPT !.pc = "over", !.status = "error"])
    BY <1>0, <1>4 DEF Fail, State
  <2> QED BY <2>1
<1>5. ASSUME Session(s) PROVE \E r : Moved(r)
  <2>1. Moved([rca[s] EXCEPT !.pc = "claude", !.token = TRUE])
    BY <1>0, <1>5 DEF Session, State
  <2> QED BY <2>1
<1>6. ASSUME SessionEnds(s) PROVE \E r : Moved(r)
  <2>1. PICK status \in {"done", "error"} :
          rca' = [rca EXCEPT ![s] = [rca[s] EXCEPT !.pc = "over", !.status = status]]
    BY <1>0, <1>6 DEF SessionEnds
  <2>2. Moved([rca[s] EXCEPT !.pc = "over", !.status = status])
    BY <1>0, <1>6, <2>1 DEF SessionEnds, State
  <2> QED BY <2>2
<1>7. ASSUME Unregister(s) PROVE \E r : Moved(r)
  <2>1. Moved([rca[s] EXCEPT !.token = FALSE])
    BY <1>0, <1>7 DEF Unregister, State
  <2> QED BY <2>1
<1>8. ASSUME Over(s) PROVE \E r : Moved(r)
  <2>1. Moved([rca[s] EXCEPT !.pc = "ended"])
    BY <1>0, <1>8 DEF Over, State
  <2> QED BY <2>1
<1>9. PICK r : Moved(r)
  BY <1>1, <1>2, <1>3, <1>4, <1>5, <1>6, <1>7, <1>8
<1>10. RcaTypeOK'
  BY <1>0, <1>9 DEF RcaTypeOK
<1> QED BY <1>0, <1>9, <1>10 DEF Only, SameTrail

\* How an agent that runs no tool goes from q to r.
Moves(q, r) ==
    /\ q.pc \notin Early \cup {"ended", "tool"} /\ r.pc \notin Early \cup {"tool", "slot"}
    /\ r.pc \in Local => q.pc \in Local /\ r.token = q.token /\ r.status = q.status
    /\ r.pc = "tools" => r.todo # 0
    /\ r.pc = "claude" => q.pc = "slot" /\ r.status = q.status
    /\ q.pc = "over" => r.status = q.status

LEMMA PlainMoves ==
    ASSUME RcaTypeOK, NEW s \in States,
           \/ Ask(s) \/ Answer(s) \/ Conclude(s) \/ Fail(s) \/ Session(s) \/ SessionEnds(s)
           \/ Unregister(s) \/ Over(s)
    PROVE  /\ Moves(rca[s], rca'[s])
           /\ rcaRunning' = IF rca'[s].pc = "ended" THEN rcaRunning \ {rca[s].object} ELSE rcaRunning
<1> USE Limits
<1>0. rca[s] \in State /\ rca \in [States -> State]
  BY DEF RcaTypeOK
<1>1. CASE Ask(s)
  <2>1. rca[s].pc = "ask" /\ rca'[s].pc \in {"model", "final"} /\ rca'[s].token = rca[s].token
        /\ rca'[s].status = rca[s].status
    BY <1>0, <1>1 DEF Ask, State
  <2> QED BY <2>1, <1>1 DEF Moves, Early, Local, Ask
<1>2. CASE Answer(s)
  <2>1. PICK n \in 1..MaxTools : rca' = [rca EXCEPT ![s] = [rca[s] EXCEPT !.pc = "tools", !.todo = n]]
    BY <1>0, <1>2 DEF Answer
  <2>2. rca[s].pc = "model" /\ rca'[s].pc = "tools" /\ rca'[s].token = rca[s].token
        /\ rca'[s].status = rca[s].status /\ rca'[s].todo = n
    BY <1>0, <1>2, <2>1 DEF Answer, State
  <2>3. n # 0
    OBVIOUS
  <2> QED BY <2>2, <2>3, <1>2 DEF Moves, Early, Local, Answer
<1>3. CASE Conclude(s)
  <2>1. rca[s].pc \in {"model", "final"} /\ rca'[s].pc = "over"
    BY <1>0, <1>3 DEF Conclude, State
  <2> QED BY <2>1, <1>3 DEF Moves, Early, Local, Conclude
<1>4. CASE Fail(s)
  <2>1. rca[s].pc \in {"model", "final", "slot"} /\ rca'[s].pc = "over"
    BY <1>0, <1>4 DEF Fail, State
  <2> QED BY <2>1, <1>4 DEF Moves, Early, Local, Fail
<1>5. CASE Session(s)
  <2>1. rca[s].pc = "slot" /\ rca'[s].pc = "claude" /\ rca'[s].status = rca[s].status
    BY <1>0, <1>5 DEF Session, State
  <2> QED BY <2>1, <1>5 DEF Moves, Early, Local, Session
<1>6. CASE SessionEnds(s)
  <2>1. rca[s].pc = "claude" /\ rca'[s].pc = "over"
    BY <1>0, <1>6 DEF SessionEnds, State
  <2> QED BY <2>1, <1>6 DEF Moves, Early, Local, SessionEnds
<1>7. CASE Unregister(s)
  <2>1. rca[s].pc = "over" /\ rca'[s].pc = "over" /\ rca'[s].status = rca[s].status
    BY <1>0, <1>7 DEF Unregister, State
  <2> QED BY <2>1, <1>7 DEF Moves, Early, Local, Unregister
<1>8. CASE Over(s)
  <2>1. rca[s].pc = "over" /\ rca'[s].pc = "ended" /\ rca'[s].status = rca[s].status
    BY <1>0, <1>8 DEF Over, State
  <2> QED BY <2>1, <1>8 DEF Moves, Early, Local, Over
<1> QED BY <1>1, <1>2, <1>3, <1>4, <1>5, <1>6, <1>7, <1>8

LEMMA ToolBeginsStep ==
    ASSUME RcaTypeOK, NEW s \in States, ToolBegins(s)
    PROVE  /\ RcaTypeOK' /\ Only(s) /\ SameClaims(s)
           /\ rca[s].pc = "tools" /\ rca'[s].pc = "tool"
           /\ rca'[s].steps = Append(rca[s].steps, "running") /\ rca'[s].step = Len(rca[s].steps) + 1
           /\ rca'[s].calls = rca[s].calls /\ rca'[s].token = rca[s].token
           /\ rca'[s].status = rca[s].status /\ rca'[s].todo = rca[s].todo
<1> DEFINE r == [rca[s] EXCEPT !.pc = "tool", !.steps = Append(rca[s].steps, "running"),
                               !.step = Len(rca[s].steps) + 1]
<1>1. rca[s] \in State /\ rca \in [States -> State]
  BY DEF RcaTypeOK
<1>2. Append(rca[s].steps, "running") \in Seq(Shown) /\ Len(rca[s].steps) + 1 \in Nat
  BY <1>1 DEF State, Shown
<1>3. r \in State
  BY <1>1, <1>2 DEF State, Shown
<1>4. rca' = [rca EXCEPT ![s] = r]
  BY DEF ToolBegins
<1>5. RcaTypeOK'
  BY <1>1, <1>3, <1>4 DEF ToolBegins, RcaTypeOK
<1> QED BY <1>1, <1>3, <1>4, <1>5 DEF ToolBegins, State, Only, SameClaims

LEMMA ToolEndsStep ==
    ASSUME RcaTypeOK, StateShape, NEW s \in States, ToolEnds(s)
    PROVE  /\ RcaTypeOK' /\ Only(s) /\ SameClaims(s)
           /\ rca[s].pc = "tool" /\ rca'[s].pc \in {"ask", "tools"}
           /\ rca'[s].steps = [rca[s].steps EXCEPT ![rca[s].step] = "done"]
           /\ rca'[s].calls = rca[s].calls /\ rca'[s].token = rca[s].token
           /\ rca'[s].status = rca[s].status /\ (rca'[s].pc = "tools" => rca'[s].todo # 0)
<1> DEFINE r == [rca[s] EXCEPT !.pc = IF rca[s].todo = 1 THEN "ask" ELSE "tools",
                               !.todo = rca[s].todo - 1,
                               !.steps = [rca[s].steps EXCEPT ![rca[s].step] = "done"]]
<1>1. rca[s] \in State /\ rca \in [States -> State]
  BY DEF RcaTypeOK
<1>2. [rca[s].steps EXCEPT ![rca[s].step] = "done"] \in Seq(Shown)
  BY <1>1, SetStep DEF State, Shown
<1>3. rca[s].todo - 1 \in 0..MaxTools
  <2>1. rca[s].todo # 0
    BY DEF StateShape, Shape, ToolEnds
  <2>2. rca[s].todo \in 0..MaxTools
    BY <1>1 DEF State
  <2> QED BY <2>1, <2>2, Limits
<1>4. r \in State
  BY <1>1, <1>2, <1>3 DEF State, Shown
<1>5. rca' = [rca EXCEPT ![s] = r]
  BY <1>1 DEF ToolEnds, State
<1>6. RcaTypeOK'
  BY <1>1, <1>4, <1>5 DEF ToolEnds, RcaTypeOK
<1>7. rca[s].todo # 1 => rca[s].todo - 1 # 0
  BY <1>1, Limits DEF State
<1> QED BY <1>1, <1>4, <1>5, <1>6, <1>7 DEF ToolEnds, State, Only, SameClaims

LEMMA CollectStep ==
    ASSUME RcaTypeOK, NEW s \in States, Collect(s)
    PROVE  /\ RcaTypeOK' /\ Only(s) /\ rcaRunning' = rcaRunning /\ rcaCache' = rcaCache
           /\ rca[s].pc = "ended" /\ rca'[s] = Free
           /\ \A o \in Objects : rcaCache[o] # s
           /\ \A c \in Requests : call[c].run # s
  BY FreeTypes DEF Collect, RcaTypeOK, Only

\* The requests: one of them changes, and the analyses only as it says.
OnlyCall(c) == /\ \A d \in Requests \ {c} : call'[d] = call[d]
               /\ rcaRunning' = rcaRunning /\ rcaCache' = rcaCache

LEMMA IdleTypes == Idle \in Call /\ Idle.pc = "idle" /\ Idle.run = NoState
  BY DEF Idle, Call

LEMMA SendStep ==
    ASSUME RcaTypeOK, NEW c \in Requests, NEW s \in States, Send(c, s)
    PROVE  /\ RcaTypeOK' /\ OnlyCall(c) /\ rca' = rca
           /\ rca[s].pc = "claude" /\ call[c].pc = "idle" /\ call'[c].pc = "sent" /\ call'[c].run = s
<1> DEFINE k == [Idle EXCEPT !.pc = "sent", !.run = s]
<1>1. k \in Call /\ k.pc = "sent" /\ k.run = s
  BY DEF Idle, Call
<1>2. call' = [call EXCEPT ![c] = k]
  BY DEF Send
<1> HIDE DEF k
<1>3. call' \in [Requests -> Call] /\ call'[c] = k /\ \A d \in Requests \ {c} : call'[d] = call[d]
  BY <1>1, <1>2 DEF RcaTypeOK
<1> QED BY <1>1, <1>3 DEF Send, RcaTypeOK, OnlyCall

LEMMA LookupStep ==
    ASSUME RcaTypeOK, NEW c \in Requests, Lookup(c)
    PROVE  /\ RcaTypeOK' /\ OnlyCall(c) /\ rca' = rca /\ call[c].pc = "sent"
           /\ \/ call'[c].pc = "found" /\ call'[c].run = call[c].run
              \/ call'[c] = Idle
<1>1. call[c] \in Call /\ [call[c] EXCEPT !.pc = "found"] \in Call
  BY DEF RcaTypeOK, Call
<1>2. call'[c] = [call[c] EXCEPT !.pc = "found"] \/ call'[c] = Idle
  BY DEF Lookup, RcaTypeOK
<1>3. call' \in [Requests -> Call]
  BY <1>1, IdleTypes DEF Lookup, RcaTypeOK
<1> QED BY <1>1, <1>2, <1>3 DEF Lookup, RcaTypeOK, OnlyCall, Call

LEMMA CountStep ==
    ASSUME RcaTypeOK, CallShape, NEW c \in Requests, Count(c)
    PROVE  LET s == call[c].run
           IN /\ RcaTypeOK' /\ OnlyCall(c) /\ s \in States /\ call[c].pc = "found"
              /\ rca'[s] = [rca[s] EXCEPT !.calls = rca[s].calls + 1]
              /\ \A t \in States \ {s} : rca'[t] = rca[t]
              /\ call'[c].pc = "counted" /\ call'[c].run = s /\ call'[c].n = rca[s].calls + 1
<1> DEFINE s == call[c].run
           r == [rca[s] EXCEPT !.calls = rca[s].calls + 1]
           k == [call[c] EXCEPT !.pc = "counted", !.n = rca[s].calls + 1]
<1>1. s \in States /\ call[c] \in Call /\ rca[s] \in State
  BY DEF Count, CallShape, RcaTypeOK
<1>2. rca[s].calls + 1 \in Nat
  BY <1>1 DEF State
<1>3. r \in State
  BY <1>1, <1>2 DEF State
<1>4. k \in Call /\ k.pc = "counted" /\ k.run = s /\ k.n = rca[s].calls + 1
  BY <1>1, <1>2 DEF Call
<1>5. rca' = [rca EXCEPT ![s] = r] /\ call' = [call EXCEPT ![c] = k]
      /\ rcaRunning' = rcaRunning /\ rcaCache' = rcaCache /\ call[c].pc = "found"
  BY DEF Count
<1> HIDE DEF r, k
<1>6. rca' \in [States -> State] /\ rca'[s] = r /\ \A t \in States \ {s} : rca'[t] = rca[t]
  BY <1>1, <1>3, <1>5 DEF RcaTypeOK
<1>7. call' \in [Requests -> Call] /\ call'[c] = k /\ \A d \in Requests \ {c} : call'[d] = call[d]
  BY <1>4, <1>5 DEF RcaTypeOK
<1> QED BY <1>1, <1>4, <1>5, <1>6, <1>7 DEF RcaTypeOK, OnlyCall, r

LEMMA ToldStep ==
    ASSUME RcaTypeOK, CallShape, NEW c \in Requests, Told(c)
    PROVE  LET s == call[c].run
           IN /\ RcaTypeOK' /\ OnlyCall(c) /\ s \in States /\ call[c].pc = "counted"
              /\ ~(call[c].n <= MaxIter) /\ call'[c] = Idle
              /\ rca'[s] = [rca[s] EXCEPT !.stopped = rca'[s].stopped]
              /\ \A t \in States \ {s} : rca'[t] = rca[t]
<1> DEFINE s == call[c].run
           b == rca[s].stopped \/ call[c].n > MaxIter + Runaway
           r == [rca[s] EXCEPT !.stopped = b]
<1>1. s \in States /\ call[c] \in Call /\ rca[s] \in State
  BY DEF Told, CallShape, RcaTypeOK
<1>2. b \in BOOLEAN
  OBVIOUS
<1>3. rca' = [rca EXCEPT ![s] = r] /\ call' = [call EXCEPT ![c] = Idle]
      /\ rcaRunning' = rcaRunning /\ rcaCache' = rcaCache /\ call[c].pc = "counted"
  BY DEF Told
<1>4. ~(call[c].n <= MaxIter)
  <2>1. call[c].n > MaxIter /\ call[c].n \in Nat
    BY <1>1 DEF Told, Call
  <2> QED BY <2>1, Limits
<1> HIDE DEF b
<1>5. r \in State /\ r.stopped = b
  BY <1>1, <1>2 DEF State
<1> HIDE DEF r
<1>6. rca' \in [States -> State] /\ rca'[s] = r /\ \A t \in States \ {s} : rca'[t] = rca[t]
  BY <1>1, <1>3, <1>5 DEF RcaTypeOK
<1>7. call' \in [Requests -> Call] /\ call'[c] = Idle /\ \A d \in Requests \ {c} : call'[d] = call[d]
  BY <1>3, IdleTypes DEF RcaTypeOK
<1>8. rca'[s] = [rca[s] EXCEPT !.stopped = rca'[s].stopped]
  BY <1>5, <1>6 DEF r
<1> QED BY <1>1, <1>3, <1>4, <1>6, <1>7, <1>8 DEF RcaTypeOK, OnlyCall

LEMMA CallBeginsStep ==
    ASSUME RcaTypeOK, CallShape, NEW c \in Requests, CallBegins(c)
    PROVE  LET s == call[c].run
           IN /\ RcaTypeOK' /\ OnlyCall(c) /\ s \in States
              /\ call[c].pc = "counted" /\ call[c].n <= MaxIter
              /\ rca'[s] = [rca[s] EXCEPT !.iter = call[c].n, !.steps = Append(rca[s].steps, "running")]
              /\ \A t \in States \ {s} : rca'[t] = rca[t]
              /\ call'[c].pc = "exec" /\ call'[c].run = s /\ call'[c].step = Len(rca[s].steps) + 1
<1> DEFINE s == call[c].run
           r == [rca[s] EXCEPT !.iter = call[c].n, !.steps = Append(rca[s].steps, "running")]
           k == [call[c] EXCEPT !.pc = "exec", !.step = Len(rca[s].steps) + 1]
<1>1. s \in States /\ call[c] \in Call /\ rca[s] \in State
  BY DEF CallBegins, CallShape, RcaTypeOK
<1>2. Append(rca[s].steps, "running") \in Seq(Shown) /\ Len(rca[s].steps) + 1 \in Nat
  BY <1>1 DEF State, Shown
<1>3. call[c].n \in 0..MaxIter
  <2>1. call[c].n <= MaxIter /\ call[c].n \in Nat
    BY <1>1 DEF CallBegins, Call
  <2> QED BY <2>1, Limits
<1>4. r \in State
  BY <1>1, <1>2, <1>3 DEF State, Shown
<1>5. k \in Call /\ k.pc = "exec" /\ k.run = s /\ k.step = Len(rca[s].steps) + 1
  BY <1>1, <1>2 DEF Call
<1>6. rca' = [rca EXCEPT ![s] = r] /\ call' = [call EXCEPT ![c] = k]
      /\ rcaRunning' = rcaRunning /\ rcaCache' = rcaCache
      /\ call[c].pc = "counted" /\ call[c].n <= MaxIter
  BY DEF CallBegins
<1> HIDE DEF r, k
<1>7. rca' \in [States -> State] /\ rca'[s] = r /\ \A t \in States \ {s} : rca'[t] = rca[t]
  BY <1>1, <1>4, <1>6 DEF RcaTypeOK
<1>8. call' \in [Requests -> Call] /\ call'[c] = k /\ \A d \in Requests \ {c} : call'[d] = call[d]
  BY <1>5, <1>6 DEF RcaTypeOK
<1> QED BY <1>1, <1>5, <1>6, <1>7, <1>8 DEF RcaTypeOK, OnlyCall, r

LEMMA CallEndsStep ==
    ASSUME RcaTypeOK, CallShape, NEW c \in Requests, CallEnds(c)
    PROVE  LET s == call[c].run
           IN /\ RcaTypeOK' /\ OnlyCall(c) /\ s \in States
              /\ call[c].pc = "exec" /\ call'[c] = Idle
              /\ rca'[s] = [rca[s] EXCEPT !.steps = [rca[s].steps EXCEPT ![call[c].step] = "done"]]
              /\ \A t \in States \ {s} : rca'[t] = rca[t]
<1> DEFINE s == call[c].run
           r == [rca[s] EXCEPT !.steps = [rca[s].steps EXCEPT ![call[c].step] = "done"]]
<1>1. s \in States /\ call[c] \in Call /\ rca[s] \in State
  BY DEF CallEnds, CallShape, RcaTypeOK
<1>2. [rca[s].steps EXCEPT ![call[c].step] = "done"] \in Seq(Shown)
  BY <1>1, SetStep DEF State, Shown
<1>3. r \in State
  BY <1>1, <1>2 DEF State, Shown
<1>4. rca' = [rca EXCEPT ![s] = r] /\ call' = [call EXCEPT ![c] = Idle]
      /\ rcaRunning' = rcaRunning /\ rcaCache' = rcaCache /\ call[c].pc = "exec"
  BY DEF CallEnds
<1> HIDE DEF r
<1>5. rca' \in [States -> State] /\ rca'[s] = r /\ \A t \in States \ {s} : rca'[t] = rca[t]
  BY <1>1, <1>3, <1>4 DEF RcaTypeOK
<1>6. call' \in [Requests -> Call] /\ call'[c] = Idle /\ \A d \in Requests \ {c} : call'[d] = call[d]
  BY <1>4, IdleTypes DEF RcaTypeOK
<1> QED BY <1>1, <1>4, <1>5, <1>6 DEF RcaTypeOK, OnlyCall, r

------------------------------------------------------------------------------
(* Shapes *)

LEMMA AgentShapes ==
    ASSUME RcaTypeOK, StateShape, CallShape, NEW s \in States,
           Agent(s) \/ Collect(s) \/ \E o \in Objects : Start(o, s)
    PROVE  RcaTypeOK' /\ StateShape' /\ CallShape'
<1> DEFINE Good == /\ RcaTypeOK' /\ Only(s) /\ Shape(rca'[s])
                   /\ \/ rca[s].pc \in Local \/ rca'[s].pc \notin Local
                      \/ \A c \in Requests : call[c].run # s
<1>0. Shape(rca[s])
  BY DEF StateShape
<1>1. ASSUME NEW o \in Objects, Start(o, s) PROVE Good
  <2>1. rca'[s] = [Free EXCEPT !.pc = "claimed", !.object = o] /\ RcaTypeOK' /\ Only(s)
    BY <1>1, StartStep
  <2>2. rca[s].pc = "free"
    BY <1>1 DEF Start
  <2>3. Shape([Free EXCEPT !.pc = "claimed", !.object = o])
    BY DEF Shape, Free, Early, Local
  <2> QED BY <2>1, <2>2, <2>3 DEF Early, Local
<1>2. ASSUME Begin(s) PROVE Good
  <2>1. rca[s].pc = "claimed"
    BY <1>2 DEF Begin
  <2> QED BY <1>0, <1>2, <2>1, BeginStep DEF SameTrail, Shape, Early, Local
<1>3. ASSUME Gather(s) PROVE Good
  <2>1. rca[s].pc = "gather"
    BY <1>3 DEF Gather
  <2> QED BY <1>0, <1>3, <2>1, GatherStep DEF SameClaims, Shape, Early, Local
<1>4. ASSUME Ask(s) \/ Answer(s) \/ Conclude(s) \/ Fail(s) \/ Session(s) \/ SessionEnds(s)
             \/ Unregister(s) \/ Over(s)
      PROVE Good
  <2>1. RcaTypeOK' /\ Only(s) /\ SameTrail(s) /\ rca'[s].object = rca[s].object
    BY <1>4, PlainStep
  <2>2. Moves(rca[s], rca'[s])
    BY <1>4, PlainMoves
  <2> QED BY <1>0, <2>1, <2>2 DEF SameTrail, Moves, Shape, Early, Local
<1>5. ASSUME ToolBegins(s) PROVE Good
  BY <1>0, <1>5, ToolBeginsStep DEF SameClaims, Shape, Early, Local
<1>6. ASSUME ToolEnds(s) PROVE Good
  BY <1>0, <1>6, ToolEndsStep DEF SameClaims, Shape, Early, Local
<1>7. ASSUME Collect(s) PROVE Good
  <2>1. Shape(Free)
    BY DEF Shape, Free, Early, Local
  <2> QED BY <1>7, <2>1, CollectStep
<1>8. Good
  BY <1>1, <1>2, <1>3, <1>4, <1>5, <1>6, <1>7 DEF Agent
<1>9. StateShape'
  BY <1>8 DEF StateShape, Only
<1>10. CallShape'
  BY <1>8 DEF CallShape, Only
<1> QED BY <1>8, <1>9, <1>10

\* What a request writes of an analysis leaves it in shape.
SameBut(q, r) == /\ q.pc = r.pc /\ q.object = r.object /\ q.initial = r.initial /\ q.step = r.step
                 /\ q.status = r.status

LEMMA StoppedShape ==
    ASSUME NEW r \in State, Shape(r), NEW b, NEW q, q = [r EXCEPT !.stopped = b]
    PROVE  SameBut(q, r) /\ Shape(q)
<1>1. SameBut(q, r) /\ q.steps = r.steps /\ q.calls = r.calls /\ q.token = r.token /\ q.todo = r.todo
  BY DEF State, SameBut
<1> QED BY <1>1, Zenon DEF Shape, SameBut

LEMMA CountedShape ==
    ASSUME NEW r \in State, Shape(r), r.pc \notin Local, NEW n, NEW q, q = [r EXCEPT !.calls = n]
    PROVE  SameBut(q, r) /\ Shape(q)
<1>1. SameBut(q, r) /\ q.steps = r.steps /\ q.token = r.token /\ q.todo = r.todo
  BY DEF State, SameBut
<1> QED BY <1>1, Zenon DEF Shape, SameBut

LEMMA BegunShape ==
    ASSUME NEW r \in State, Shape(r), r.pc \notin Local, NEW n, NEW steps, NEW q,
           q = [r EXCEPT !.iter = n, !.steps = steps]
    PROVE  SameBut(q, r) /\ Shape(q)
<1>1. SameBut(q, r) /\ q.calls = r.calls /\ q.token = r.token /\ q.todo = r.todo
  BY DEF State, SameBut
<1>2. r.pc \notin Early /\ r.pc # "slot"
  BY DEF Local
<1> QED BY <1>1, <1>2, Zenon DEF Shape, SameBut

LEMMA EndedShape ==
    ASSUME NEW r \in State, Shape(r), r.pc \notin Local, NEW steps, NEW q,
           q = [r EXCEPT !.steps = steps]
    PROVE  SameBut(q, r) /\ Shape(q)
<1>1. SameBut(q, r) /\ q.calls = r.calls /\ q.token = r.token /\ q.todo = r.todo
  BY DEF State, SameBut
<1>2. r.pc \notin Early /\ r.pc # "slot"
  BY DEF Local
<1> QED BY <1>1, <1>2, Zenon DEF Shape, SameBut

LEMMA RequestShapes ==
    ASSUME RcaTypeOK, StateShape, CallShape, NEW c \in Requests,
           Serve(c) \/ \E s \in States : Send(c, s)
    PROVE  /\ RcaTypeOK' /\ StateShape' /\ CallShape' /\ OnlyCall(c)
           /\ \A t \in States : /\ rca'[t].pc = rca[t].pc /\ rca'[t].object = rca[t].object
                                /\ rca'[t].initial = rca[t].initial /\ rca'[t].step = rca[t].step
                                /\ rca'[t].status = rca[t].status
<1> DEFINE Kept(t) == /\ rca'[t].pc = rca[t].pc /\ rca'[t].object = rca[t].object
                      /\ rca'[t].initial = rca[t].initial /\ rca'[t].step = rca[t].step
                      /\ rca'[t].status = rca[t].status
           Good == /\ RcaTypeOK' /\ OnlyCall(c)
                   /\ \A t \in States : Kept(t) /\ Shape(rca'[t])
                   /\ IF call'[c].pc = "idle" THEN call'[c].run = NoState
                      ELSE call'[c].run \in States /\ rca[call'[c].run].pc \notin Local
<1>0. \A t \in States : rca[t] \in State /\ Shape(rca[t])
  BY DEF StateShape, RcaTypeOK
<1>1. ASSUME NEW s \in States, Send(c, s) PROVE Good
  BY <1>0, <1>1, SendStep DEF Local, Early
<1>2. ASSUME Lookup(c) PROVE Good
  <2>1. call[c].pc = "sent" /\ call[c].run \in States /\ rca[call[c].run].pc \notin Local
    BY <1>2 DEF Lookup, CallShape
  <2> QED BY <1>0, <1>2, <2>1, LookupStep, IdleTypes
<1>3. ASSUME Count(c) PROVE Good
  <2> DEFINE s == call[c].run
  <2>1. s \in States /\ rca[s].pc \notin Local
    BY <1>3 DEF Count, CallShape
  <2>2. /\ RcaTypeOK' /\ OnlyCall(c) /\ rca'[s] = [rca[s] EXCEPT !.calls = rca[s].calls + 1]
        /\ \A t \in States \ {s} : rca'[t] = rca[t]
        /\ call'[c].pc = "counted" /\ call'[c].run = s
    BY <1>3, CountStep
  <2>3. SameBut(rca'[s], rca[s]) /\ Shape(rca'[s])
    BY <1>0, <2>1, <2>2, CountedShape, Zenon
  <2>4. Kept(s)
    BY <2>3, Zenon DEF SameBut
  <2> QED BY <1>0, <2>1, <2>2, <2>3, <2>4
<1>4. ASSUME Told(c) PROVE Good
  <2> DEFINE s == call[c].run
  <2>1. /\ RcaTypeOK' /\ OnlyCall(c) /\ rca'[s] = [rca[s] EXCEPT !.stopped = rca'[s].stopped]
        /\ \A t \in States \ {s} : rca'[t] = rca[t]
        /\ call'[c] = Idle /\ s \in States
    BY <1>4, ToldStep
  <2>2. SameBut(rca'[s], rca[s]) /\ Shape(rca'[s])
    BY <1>0, <2>1, StoppedShape, Zenon
  <2>3. Kept(s)
    BY <2>2, Zenon DEF SameBut
  <2> QED BY <1>0, <2>1, <2>2, <2>3, IdleTypes
<1>5. ASSUME CallBegins(c) PROVE Good
  <2> DEFINE s == call[c].run
  <2>1. s \in States /\ rca[s].pc \notin Local
    BY <1>5 DEF CallBegins, CallShape
  <2>2. /\ RcaTypeOK' /\ OnlyCall(c)
        /\ rca'[s] = [rca[s] EXCEPT !.iter = call[c].n, !.steps = Append(rca[s].steps, "running")]
        /\ \A t \in States \ {s} : rca'[t] = rca[t]
        /\ call'[c].pc = "exec" /\ call'[c].run = s
    BY <1>5, CallBeginsStep
  <2>3. SameBut(rca'[s], rca[s]) /\ Shape(rca'[s])
    <3>1. PICK r, q : r \in State /\ r = rca[s] /\ q = rca'[s] /\ Shape(r) /\ r.pc \notin Local
      BY <1>0, <2>1
    <3>2. PICK n, steps : q = [r EXCEPT !.iter = n, !.steps = steps]
      BY <2>2, <3>1, Zenon
    <3>3. SameBut(q, r) /\ Shape(q)
      BY <3>1, <3>2, BegunShape
    <3> QED BY <3>1, <3>3, Zenon
  <2>4. Kept(s)
    BY <2>3, Zenon DEF SameBut
  <2> QED BY <1>0, <2>1, <2>2, <2>3, <2>4
<1>6. ASSUME CallEnds(c) PROVE Good
  <2> DEFINE s == call[c].run
  <2>1. s \in States /\ rca[s].pc \notin Local
    BY <1>6 DEF CallEnds, CallShape
  <2>2. /\ RcaTypeOK' /\ OnlyCall(c)
        /\ rca'[s] = [rca[s] EXCEPT !.steps = [rca[s].steps EXCEPT ![call[c].step] = "done"]]
        /\ \A t \in States \ {s} : rca'[t] = rca[t]
        /\ call'[c] = Idle
    BY <1>6, CallEndsStep
  <2>3. SameBut(rca'[s], rca[s]) /\ Shape(rca'[s])
    BY <1>0, <2>1, <2>2, EndedShape, Zenon
  <2>4. Kept(s)
    BY <2>3, Zenon DEF SameBut
  <2> QED BY <1>0, <2>1, <2>2, <2>3, <2>4, IdleTypes
<1>7. Good
  BY <1>1, <1>2, <1>3, <1>4, <1>5, <1>6 DEF Serve
<1>8. StateShape'
  BY <1>7 DEF StateShape
<1>9. CallShape'
  BY <1>7 DEF CallShape, OnlyCall
<1> QED BY <1>7, <1>8, <1>9

------------------------------------------------------------------------------
(* Claims *)

\* Claims does not look at more than this.
LEMMA ClaimsKept ==
    ASSUME RcaTypeOK, Claims, rcaRunning' = rcaRunning, rcaCache' = rcaCache,
           \A t \in States : /\ rca'[t].object = rca[t].object
                             /\ \A pc \in {"free", "claimed", "ended"} : rca'[t].pc = pc <=> rca[t].pc = pc
    PROVE  Claims'
<1>1. \A t \in States : (Busy(t) <=> Busy(t)') /\ (Works(t) <=> Works(t)')
  BY DEF Busy, Works
<1>2. \A o \in Objects : rcaCache[o] # NoState => rcaCache[o] \in States
  BY DEF RcaTypeOK
<1> QED BY <1>1, <1>2 DEF Claims

LEMMA AgentClaims ==
    ASSUME RcaTypeOK, StateShape, Claims, NEW s \in States,
           Agent(s) \/ Collect(s) \/ \E o \in Objects : Start(o, s)
    PROVE  Claims'
<1>0. /\ \A o \in Objects : rcaCache[o] # NoState => rcaCache[o] \in States
      /\ \A t \in States : rca[t].pc # "free" => rca[t].object \in Objects
  BY DEF RcaTypeOK, StateShape, Shape
<1>1. ASSUME NEW o \in Objects, Start(o, s) PROVE Claims'
  <2>1. /\ rca[s].pc = "free" /\ o \notin rcaRunning /\ rcaRunning' = rcaRunning \cup {o}
        /\ rcaCache' = rcaCache
    BY <1>1 DEF Start
  <2>2. rca'[s] = [Free EXCEPT !.pc = "claimed", !.object = o] /\ Only(s)
    BY <1>1, StartStep
  <2>3. rca'[s].pc = "claimed" /\ rca'[s].object = o /\ \A t \in States \ {s} : rca'[t] = rca[t]
    BY <2>2 DEF Free, Only
  <2>4. \A x \in Objects : rcaCache[x] # s
    BY <2>1, <1>0, NoStateApart DEF Claims
  <2>5. \A t \in States \ {s} : (Busy(t)' <=> Busy(t)) /\ (Works(t)' <=> Works(t))
    BY <2>3 DEF Busy, Works
  <2>6. Busy(s)' /\ ~Works(s)'
    BY <2>3 DEF Busy, Works
  <2>7. \A t \in States : Busy(t)' => rca'[t].object \in rcaRunning'
    BY <2>1, <2>3, <2>5 DEF Claims
  <2>8. \A t, u \in States : Busy(t)' /\ Busy(u)' /\ rca'[t].object = rca'[u].object => t = u
    BY <2>1, <2>3, <2>5 DEF Claims
  <2>9. \A t \in States : Works(t)' => rcaCache'[rca'[t].object] = t
    BY <2>1, <2>3, <2>5, <2>6 DEF Claims
  <2>10. \A x \in Objects : rcaCache'[x] # NoState =>
           rca'[rcaCache'[x]].pc \notin {"free", "claimed"} /\ rca'[rcaCache'[x]].object = x
    BY <1>0, <2>1, <2>3, <2>4 DEF Claims
  <2> QED BY <2>7, <2>8, <2>9, <2>10 DEF Claims
<1>2. ASSUME Begin(s) PROVE Claims'
  <2> DEFINE o == rca[s].object
  <2>1. /\ o \in Objects /\ rca[s].pc = "claimed" /\ rcaRunning' = rcaRunning
        /\ rca'[s].pc = "gather" /\ rca'[s].object = o
        /\ rcaCache' = [rcaCache EXCEPT ![o] = s] /\ \A t \in States \ {s} : rca'[t] = rca[t]
    BY <1>2, BeginStep DEF Begin, Only
  <2>2. rcaCache'[o] = s /\ \A x \in Objects \ {o} : rcaCache'[x] = rcaCache[x]
    BY <2>1 DEF RcaTypeOK
  <2>3. \A x \in Objects : rcaCache[x] # s
    BY <2>1, <1>0, NoStateApart DEF Claims
  <2>4. \A t \in States \ {s} : (Busy(t)' <=> Busy(t)) /\ (Works(t)' <=> Works(t))
    BY <2>1 DEF Busy, Works
  <2>5. Busy(s) /\ Busy(s)' /\ Works(s)'
    BY <2>1 DEF Busy, Works
  <2>6. \A t \in States : Works(t) => Busy(t) /\ rca[t].object \in Objects
    BY <1>0 DEF Busy, Works
  <2>7. \A t \in States : Busy(t)' => rca'[t].object \in rcaRunning'
    BY <2>1, <2>4, <2>5 DEF Claims
  <2>8. \A t, u \in States : Busy(t)' /\ Busy(u)' /\ rca'[t].object = rca'[u].object => t = u
    <3>1. \A t \in States : rca'[t].object = rca[t].object /\ (Busy(t)' => Busy(t))
      BY <2>1, <2>4, <2>5
    <3> QED BY <3>1 DEF Claims
  <2>9. ASSUME NEW t \in States, Works(t)' PROVE rcaCache'[rca'[t].object] = t
    <3>1. CASE t = s
      BY <3>1, <2>1, <2>2
    <3>2. CASE t # s
      <4>1. Works(t) /\ Busy(t) /\ rca'[t] = rca[t] /\ rca[t].object \in Objects
        BY <3>2, <2>1, <2>4, <2>6, <2>9
      <4>2. rca[t].object # o /\ rcaCache[rca[t].object] = t
        BY <4>1, <3>2, <2>5 DEF Claims
      <4> QED BY <4>1, <4>2, <2>2
    <3> QED BY <3>1, <3>2
  <2>10. ASSUME NEW x \in Objects, rcaCache'[x] # NoState
         PROVE  rca'[rcaCache'[x]].pc \notin {"free", "claimed"} /\ rca'[rcaCache'[x]].object = x
    <3>1. CASE x = o
      BY <3>1, <2>1, <2>2
    <3>2. CASE x # o
      <4>1. rcaCache'[x] = rcaCache[x] /\ rcaCache[x] \in States \ {s}
        BY <3>2, <2>2, <2>3, <2>10, <1>0
      <4> QED BY <4>1, <2>1, <2>10 DEF Claims
    <3> QED BY <3>1, <3>2
  <2> QED BY <2>7, <2>8, <2>9, <2>10 DEF Claims
<1>3. ASSUME Gather(s) \/ ToolBegins(s) \/ ToolEnds(s) PROVE Claims'
  <2>1. /\ SameClaims(s) /\ Only(s)
        /\ rca[s].pc \notin {"free", "claimed", "ended"} /\ rca'[s].pc \notin {"free", "claimed", "ended"}
    BY <1>3, GatherStep, ToolBeginsStep, ToolEndsStep DEF Gather
  <2> QED BY <2>1, ClaimsKept DEF SameClaims, Only
<1>4. ASSUME Ask(s) \/ Answer(s) \/ Conclude(s) \/ Fail(s) \/ Session(s) \/ SessionEnds(s)
             \/ Unregister(s) \/ Over(s)
      PROVE Claims'
  <2>1. rca'[s].object = rca[s].object /\ rcaCache' = rcaCache /\ Only(s)
    BY <1>4, PlainStep
  <2>2. /\ Moves(rca[s], rca'[s])
        /\ rcaRunning' = IF rca'[s].pc = "ended" THEN rcaRunning \ {rca[s].object} ELSE rcaRunning
    BY <1>4, PlainMoves
  <2>3. rca[s].pc \notin {"free", "claimed", "ended"} /\ rca'[s].pc \notin {"free", "claimed"}
    BY <2>2 DEF Moves, Early
  <2>4. CASE rca'[s].pc # "ended"
    BY <2>1, <2>2, <2>3, <2>4, ClaimsKept DEF Only
  <2>5. CASE rca'[s].pc = "ended"
    <3>1. \A t \in States \ {s} : rca'[t] = rca[t] /\ (Busy(t)' <=> Busy(t)) /\ (Works(t)' <=> Works(t))
      BY <2>1 DEF Only, Busy, Works
    <3>2. ~Busy(s)' /\ ~Works(s)' /\ Busy(s)
      BY <2>3, <2>5 DEF Busy, Works
    <3>3. \A t \in States : Busy(t)' => rca'[t].object \in rcaRunning'
      BY <2>2, <2>5, <3>1, <3>2 DEF Claims
    <3>4. \A t, u \in States : Busy(t)' /\ Busy(u)' /\ rca'[t].object = rca'[u].object => t = u
      BY <3>1, <3>2 DEF Claims
    <3>5. \A t \in States : Works(t)' => rcaCache'[rca'[t].object] = t
      BY <2>1, <3>1, <3>2 DEF Claims
    <3>6. \A x \in Objects : rcaCache'[x] # NoState =>
            rca'[rcaCache'[x]].pc \notin {"free", "claimed"} /\ rca'[rcaCache'[x]].object = x
      BY <1>0, <2>1, <2>3, <3>1 DEF Claims
    <3> QED BY <3>3, <3>4, <3>5, <3>6 DEF Claims
  <2> QED BY <2>4, <2>5
<1>5. ASSUME Collect(s) PROVE Claims'
  <2>1. /\ Only(s) /\ rcaRunning' = rcaRunning /\ rcaCache' = rcaCache /\ rca'[s] = Free
        /\ \A x \in Objects : rcaCache[x] # s
    BY <1>5, CollectStep
  <2>2. \A t \in States \ {s} : rca'[t] = rca[t] /\ (Busy(t)' <=> Busy(t)) /\ (Works(t)' <=> Works(t))
    BY <2>1 DEF Only, Busy, Works
  <2>3. ~Busy(s)' /\ ~Works(s)'
    BY <2>1 DEF Busy, Works, Free
  <2>4. \A x \in Objects : rcaCache'[x] # NoState =>
            rca'[rcaCache'[x]].pc \notin {"free", "claimed"} /\ rca'[rcaCache'[x]].object = x
    BY <1>0, <2>1, <2>2 DEF Claims
  <2> QED BY <2>1, <2>2, <2>3, <2>4 DEF Claims
<1> QED BY <1>1, <1>2, <1>3, <1>4, <1>5 DEF Agent

------------------------------------------------------------------------------
(* Trails *)

\* A request's step is kept, and an analysis' trail.
LEMMA AgentSteps ==
    ASSUME RcaTypeOK, StateShape, CallShape, StepsRun, NEW s \in States,
           Agent(s) \/ Collect(s) \/ \E o \in Objects : Start(o, s)
    PROVE  StepsRun'
<1> DEFINE Runs(t) == {call[c].step : c \in Executing(t)}
           Good == /\ Only(s) /\ Running(s)' = Own(s)' \cup Runs(s)
                   /\ \A c \in Executing(s) : call[c].step \notin Own(s)'
<1>0. rca[s] \in State /\ (rca[s].pc \in Local => Executing(s) = {})
  BY DEF RcaTypeOK, CallShape, Executing
<1>1. ASSUME SameTrail(s), Only(s), rca[s].pc # "tool", rca'[s].pc # "tool" PROVE Good
  <2>1. Own(s) = {} /\ Own(s)' = {} /\ Running(s)' = Running(s)
    BY <1>1 DEF Own, Running, SameTrail
  <2> QED BY <1>1, <2>1 DEF StepsRun
<1>2. ASSUME Executing(s) = {}, Running(s)' = {}, Own(s)' = {}, Only(s) PROVE Good
  BY <1>2
<1>3. ASSUME NEW o \in Objects, Start(o, s) PROVE Good
  <2>0. rca[s].pc = "free" /\ Only(s) /\ rca'[s] = [Free EXCEPT !.pc = "claimed", !.object = o]
    BY <1>3, StartStep DEF Start
  <2>1. rca[s].pc = "free" /\ rca'[s].steps = <<>> /\ rca'[s].pc = "claimed" /\ Only(s)
    BY <2>0 DEF Free
  <2>2. Running(s)' = {} /\ Own(s)' = {} /\ Executing(s) = {}
    BY <2>1, <1>0 DEF Running, Own, Local, Early
  <2> QED BY <1>2, <2>1, <2>2
<1>4. ASSUME Begin(s) PROVE Good
  BY <1>1, <1>4, BeginStep DEF Begin
<1>5. ASSUME Gather(s) PROVE Good
  <2>1. rca[s].pc = "gather" /\ rca'[s].steps \in Trails /\ rca'[s].pc # "tool" /\ Only(s)
    BY <1>5, GatherStep DEF Gather
  <2>2. Running(s)' = {} /\ Own(s)' = {} /\ Executing(s) = {}
    BY <2>1, <1>0, TrailTypes DEF Running, Own, Local, Early
  <2> QED BY <1>2, <2>1, <2>2
<1>6. ASSUME Ask(s) \/ Answer(s) \/ Conclude(s) \/ Fail(s) \/ Session(s) \/ SessionEnds(s)
             \/ Unregister(s) \/ Over(s)
      PROVE Good
  <2>1. SameTrail(s) /\ Only(s)
    BY <1>6, PlainStep
  <2>2. rca[s].pc # "tool" /\ rca'[s].pc # "tool"
    BY <1>6, PlainMoves DEF Moves
  <2> QED BY <1>1, <2>1, <2>2
<1>7. ASSUME ToolBegins(s) PROVE Good
  <2>1. /\ Only(s) /\ rca[s].pc = "tools" /\ rca'[s].pc = "tool"
        /\ rca'[s].steps = Append(rca[s].steps, "running") /\ rca'[s].step = Len(rca[s].steps) + 1
    BY <1>7, ToolBeginsStep
  <2>2. Executing(s) = {} /\ Own(s) = {} /\ Running(s) = {}
    BY <1>0, <2>1 DEF Local, Early, Own, StepsRun
  <2>3. rca[s].steps \in Seq(Shown)
    BY <1>0 DEF State, Shown
  <2>4. Running(s)' = {Len(rca[s].steps) + 1}
    BY <2>1, <2>2, <2>3 DEF Running
  <2> QED BY <2>1, <2>2, <2>4 DEF Own
<1>8. ASSUME ToolEnds(s) PROVE Good
  <2>1. /\ Only(s) /\ rca[s].pc = "tool" /\ rca'[s].pc # "tool"
        /\ rca'[s].steps = [rca[s].steps EXCEPT ![rca[s].step] = "done"]
    BY <1>8, ToolEndsStep
  <2>2. Executing(s) = {} /\ Running(s) = {rca[s].step}
    BY <1>0, <2>1 DEF Local, Early, Own, StepsRun
  <2>3. rca[s].steps \in Seq(Shown)
    BY <1>0 DEF State, Shown
  <2>4. Running(s)' = {}
    BY <2>1, <2>2, <2>3, SetStep DEF Running, Shown
  <2> QED BY <1>2, <2>1, <2>2, <2>4 DEF Own
<1>9. ASSUME Collect(s) PROVE Good
  <2>1. Only(s) /\ rca'[s] = Free /\ \A c \in Requests : call[c].run # s
    BY <1>9, CollectStep
  <2>2. Running(s)' = {} /\ Own(s)' = {} /\ Executing(s) = {}
    BY <2>1 DEF Running, Own, Executing, Free
  <2> QED BY <1>2, <2>1, <2>2
<1>10. Good
  BY <1>3, <1>4, <1>5, <1>6, <1>7, <1>8, <1>9 DEF Agent
<1>11. \A t \in States : Executing(t)' = Executing(t)
  BY <1>10 DEF Executing, Only
<1>12. \A t \in States \ {s} : Running(t)' = Running(t) /\ Own(t)' = Own(t)
  BY <1>10 DEF Running, Own, Only
<1> SUFFICES ASSUME NEW t \in States
             PROVE  /\ Running(t)' = Own(t)' \cup {call'[c].step : c \in Executing(t)'}
                    /\ \A c \in Executing(t)' :
                         /\ call'[c].step \notin Own(t)'
                         /\ \A d \in Executing(t)' \ {c} : call'[c].step # call'[d].step
  BY DEF StepsRun
<1>13. call' = call
  BY <1>10 DEF Only
<1>14. CASE t = s
  BY <1>10, <1>11, <1>13, <1>14 DEF StepsRun
<1>15. CASE t # s
  BY <1>11, <1>12, <1>13, <1>15 DEF StepsRun
<1> QED BY <1>14, <1>15

\* What a request does that starts or ends no step.
LEMMA QuietRequest ==
    ASSUME RcaTypeOK, CallShape, NEW c \in Requests,
           Lookup(c) \/ Count(c) \/ Told(c) \/ \E s \in States : Send(c, s)
    PROVE  /\ call[c].pc # "exec" /\ call'[c].pc # "exec"
           /\ \A t \in States : rca'[t].steps = rca[t].steps
<1>0. \A t \in States : rca[t] \in State
  BY DEF RcaTypeOK
<1>1. CASE \E s \in States : Send(c, s)
  BY <1>1, SendStep
<1>2. CASE Lookup(c)
  BY <1>2, LookupStep, IdleTypes
<1>3. CASE Count(c)
  <2>0. PICK s \in States : /\ rca'[s].steps = rca[s].steps
                            /\ \A u \in States \ {s} : rca'[u] = rca[u]
    <3>1. PICK s \in States : /\ rca'[s] = [rca[s] EXCEPT !.calls = rca[s].calls + 1]
                              /\ \A u \in States \ {s} : rca'[u] = rca[u]
      BY <1>3, CountStep
    <3> QED BY <1>0, <3>1 DEF State
  <2>1. \A t \in States : rca'[t].steps = rca[t].steps
    BY <2>0
  <2> QED BY <1>3, <2>1, CountStep
<1>4. CASE Told(c)
  <2>0. PICK s \in States : /\ rca'[s].steps = rca[s].steps
                            /\ \A u \in States \ {s} : rca'[u] = rca[u]
    <3>1. PICK s \in States : /\ rca'[s] = [rca[s] EXCEPT !.stopped = rca'[s].stopped]
                              /\ \A u \in States \ {s} : rca'[u] = rca[u]
      BY <1>4, ToldStep
    <3>2. PICK r, b : r \in State /\ r = rca[s] /\ rca'[s] = [r EXCEPT !.stopped = b]
      BY <1>0, <3>1
    <3>3. rca'[s].steps = rca[s].steps
      BY <3>2 DEF State
    <3> QED BY <3>1, <3>3
  <2>1. \A t \in States : rca'[t].steps = rca[t].steps
    BY <2>0
  <2> QED BY <1>4, <2>1, ToldStep, IdleTypes
<1> QED BY <1>1, <1>2, <1>3, <1>4

LEMMA RequestSteps ==
    ASSUME RcaTypeOK, StateShape, CallShape, StepsRun, NEW c \in Requests,
           Serve(c) \/ \E s \in States : Send(c, s)
    PROVE  StepsRun'
<1>0. /\ \A d \in Requests \ {c} : call'[d] = call[d]
      /\ \A t \in States : rca'[t].pc = rca[t].pc /\ rca'[t].step = rca[t].step
  BY RequestShapes DEF OnlyCall
<1>1. \A t \in States : Own(t)' = Own(t)
  BY <1>0 DEF Own
<1> DEFINE Good(t) == /\ Running(t)' = Own(t) \cup {call'[d].step : d \in Executing(t)'}
                      /\ \A d \in Executing(t)' :
                           /\ call'[d].step \notin Own(t)
                           /\ \A e \in Executing(t)' \ {d} : call'[d].step # call'[e].step
<1>2. ASSUME NEW t \in States, rca'[t].steps = rca[t].steps,
             c \notin Executing(t), c \notin Executing(t)'
      PROVE  Good(t)
  <2>1. Executing(t)' = Executing(t) /\ \A d \in Executing(t) : call'[d] = call[d]
    BY <1>0, <1>2 DEF Executing
  <2>2. Running(t)' = Running(t)
    BY <1>2 DEF Running
  <2>3. {call'[d].step : d \in Executing(t)'} = {call[d].step : d \in Executing(t)}
    BY <2>1
  <2> QED BY <2>1, <2>2, <2>3 DEF StepsRun
<1>3. ASSUME Lookup(c) \/ Count(c) \/ Told(c) \/ \E s \in States : Send(c, s), NEW t \in States
      PROVE  Good(t)
  <2>1. c \notin Executing(t) /\ c \notin Executing(t)' /\ rca'[t].steps = rca[t].steps
    BY <1>3, QuietRequest DEF Executing
  <2> QED BY <1>2, <2>1
<1>4. ASSUME CallBegins(c), NEW t \in States PROVE Good(t)
  <2>0. PICK s \in States : s = call[c].run
    BY <1>4, CallBeginsStep
  <2> DEFINE n == Len(rca[s].steps) + 1
  <2>1. /\ s \in States /\ call[c].pc = "counted"
        /\ rca'[s] = [rca[s] EXCEPT !.iter = call[c].n, !.steps = Append(rca[s].steps, "running")]
        /\ \A u \in States \ {s} : rca'[u] = rca[u]
        /\ call'[c].pc = "exec" /\ call'[c].run = s /\ call'[c].step = n
    BY <1>4, <2>0, CallBeginsStep
  <2>2. CASE t # s
    <3>1. c \notin Executing(t) /\ c \notin Executing(t)' /\ rca'[t].steps = rca[t].steps
      BY <2>0, <2>1, <2>2 DEF Executing
    <3> QED BY <3>1, <1>2
  <2>3. CASE t = s
    <3>1. Own(s) = {}
      BY <2>0, <2>1 DEF CallShape, Own, Local
    <3>2. rca[s] \in State /\ rca[s].steps \in Seq(Shown)
      BY <2>1 DEF RcaTypeOK, State, Shown
    <3>3. rca'[s].steps = Append(rca[s].steps, "running")
      BY <2>1, <3>2 DEF State
    <3>4. Running(s)' = Running(s) \cup {n} /\ n \notin Running(s)
      BY <3>2, <3>3 DEF Running
    <3>5. c \notin Executing(s) /\ Executing(s)' = Executing(s) \cup {c}
      BY <1>0, <2>1 DEF Executing
    <3>6. \A d \in Executing(s) : call'[d] = call[d] /\ call[d].step \in Running(s)
      BY <1>0, <2>1, <3>5 DEF Executing, StepsRun
    <3>7. {call'[d].step : d \in Executing(s)'} = {call[d].step : d \in Executing(s)} \cup {n}
      BY <2>1, <3>5, <3>6
    <3>8. Running(s) = {call[d].step : d \in Executing(s)}
      BY <2>1, <3>1 DEF StepsRun
    <3>9. ASSUME NEW d \in Executing(s)', NEW e \in Executing(s)' \ {d} PROVE call'[d].step # call'[e].step
      <4>1. CASE d = c
        BY <4>1, <2>1, <3>4, <3>5, <3>6
      <4>2. CASE e = c
        BY <4>2, <2>1, <3>4, <3>5, <3>6
      <4>3. CASE d # c /\ e # c
        BY <4>3, <2>1, <3>5, <3>6 DEF StepsRun
      <4> QED BY <4>1, <4>2, <4>3
    <3> QED BY <2>3, <3>1, <3>4, <3>7, <3>8, <3>9
  <2> QED BY <2>2, <2>3
<1>5. ASSUME CallEnds(c), NEW t \in States PROVE Good(t)
  <2>0. PICK s \in States : s = call[c].run
    BY <1>5, CallEndsStep
  <2> DEFINE n == call[c].step
  <2>1. /\ s \in States /\ call[c].pc = "exec" /\ call'[c] = Idle
        /\ rca'[s] = [rca[s] EXCEPT !.steps = [rca[s].steps EXCEPT ![n] = "done"]]
        /\ \A u \in States \ {s} : rca'[u] = rca[u]
    BY <1>5, <2>0, CallEndsStep
  <2>2. CASE t # s
    <3>1. c \notin Executing(t) /\ c \notin Executing(t)' /\ rca'[t].steps = rca[t].steps
      BY <2>0, <2>1, <2>2, IdleTypes DEF Executing
    <3> QED BY <3>1, <1>2
  <2>3. CASE t = s
    <3>1. Own(s) = {}
      BY <2>0, <2>1 DEF CallShape, Own, Local
    <3>2. rca[s] \in State /\ rca[s].steps \in Seq(Shown)
      BY <2>1 DEF RcaTypeOK, State, Shown
    <3>3. rca'[s].steps = [rca[s].steps EXCEPT ![n] = "done"]
      BY <2>1, <3>2 DEF State
    <3>4. Running(s)' = Running(s) \ {n}
      BY <3>2, <3>3, SetStep DEF Running, Shown
    <3>5. c \in Executing(s) /\ Executing(s)' = Executing(s) \ {c}
      BY <1>0, <2>0, <2>1, IdleTypes DEF Executing
    <3>6. \A d \in Executing(s) \ {c} : call'[d] = call[d] /\ call[d].step # n
      BY <1>0, <2>1, <3>5 DEF Executing, StepsRun
    <3>7. Running(s) = {call[d].step : d \in Executing(s)}
      BY <2>1, <3>1 DEF StepsRun
    <3>8. {call'[d].step : d \in Executing(s)'} = {call[d].step : d \in Executing(s)} \ {n}
      BY <3>5, <3>6
    <3>9. \A d \in Executing(s)' : \A e \in Executing(s)' \ {d} : call'[d].step # call'[e].step
      BY <2>1, <3>5, <3>6 DEF StepsRun
    <3> QED BY <2>3, <3>1, <3>4, <3>7, <3>8, <3>9
  <2> QED BY <2>2, <2>3
<1>6. ASSUME NEW t \in States PROVE Good(t)
  BY <1>3, <1>4, <1>5 DEF Serve
<1> QED BY <1>1, <1>6 DEF StepsRun

------------------------------------------------------------------------------
(* The budget *)

LEMMA CountedFinite ==
    ASSUME NEW s PROVE IsFiniteSet(Counted(s)) /\ Cardinality(Counted(s)) \in Nat
<1>1. IsFiniteSet(Counted(s))
  BY RcaAssumption, FS_Subset DEF Counted
<1> QED BY <1>1, FS_CardinalityType

LEMMA AgentBudget ==
    ASSUME RcaTypeOK, StateShape, CallShape, Budget, NEW s \in States,
           Agent(s) \/ Collect(s) \/ \E o \in Objects : Start(o, s)
    PROVE  Budget'
<1>1. RcaTypeOK' /\ StateShape' /\ CallShape'
  BY AgentShapes
<1> DEFINE Plain == \/ Ask(s) \/ Answer(s) \/ Conclude(s) \/ Fail(s) \/ Session(s) \/ SessionEnds(s)
                    \/ Unregister(s) \/ Over(s)
<1>2. Only(s)
  BY StartStep, BeginStep, GatherStep, PlainStep, ToolBeginsStep, ToolEndsStep, CollectStep DEF Agent
<1>3. rca'[s].pc \in Local \/ Plain
  <2>1. CASE \E o \in Objects : Start(o, s)
    <3>1. PICK o \in Objects : rca'[s] = [Free EXCEPT !.pc = "claimed", !.object = o]
      BY <2>1, StartStep, Zenon
    <3>2. rca'[s].pc = "claimed"
      BY <3>1 DEF Free
    <3> QED BY <3>2 DEF Local, Early
  <2>2. CASE Collect(s)
    <3>1. rca'[s] = Free
      BY <2>2, CollectStep, Zenon
    <3>2. rca'[s].pc = "free"
      BY <3>1 DEF Free
    <3> QED BY <3>2 DEF Local, Early
  <2>3. CASE Agent(s) /\ ~Plain
    <3>1. Begin(s) \/ Gather(s) \/ ToolBegins(s) \/ ToolEnds(s)
      BY <2>3, Zenon DEF Agent
    <3>2. Begin(s) => rca'[s].pc \in Local
      BY BeginStep DEF Local, Early
    <3>3. Gather(s) => rca'[s].pc \in Local
      BY GatherStep DEF Local, Early
    <3>4. ToolBegins(s) => rca'[s].pc \in Local
      BY ToolBeginsStep DEF Local, Early
    <3>5. ToolEnds(s) => rca'[s].pc \in Local
      BY ToolEndsStep DEF Local, Early
    <3> QED BY <3>1, <3>2, <3>3, <3>4, <3>5, Zenon
  <2> QED BY <2>1, <2>2, <2>3
<1> SUFFICES ASSUME NEW t \in States, InSession(t)'
             PROVE  Len(rca'[t].steps) + Cardinality(Counted(t)') <= rca'[t].initial + Allowed(rca'[t].calls)
  BY DEF Budget, Allowed
<1>4. Counted(t)' = Counted(t)
  BY <1>2 DEF Counted, Only
<1>5. CASE t # s
  <2>1. rca'[t] = rca[t] /\ InSession(t)
    BY <1>2, <1>5 DEF InSession, Only
  <2> QED BY <1>4, <2>1 DEF Budget
<1>6. CASE t = s /\ rca'[s].pc \in Local
  <2>1. rca'[s].calls = 0 /\ rca'[s].pc # "claude"
    BY <1>1, <1>6 DEF StateShape, Shape, Local, Early
  <2>2. \A c \in Requests : call'[c].run # s
    BY <1>1, <1>6, NoStateApart DEF CallShape
  <2> QED BY <1>6, <2>1, <2>2 DEF InSession
<1>7. CASE t = s /\ Plain
  <2>1. SameTrail(s) /\ Moves(rca[s], rca'[s]) /\ call' = call
    BY <1>2, <1>7, PlainStep, PlainMoves DEF Only
  <2>2. CASE rca'[s].pc = "claude"
    <3>1. /\ rca[s].pc = "slot" /\ Len(rca[s].steps) = rca[s].initial /\ rca[s].calls = 0
          /\ \A c \in Requests : call[c].run # s
      BY <2>1, <2>2, NoStateApart DEF Moves, StateShape, Shape, CallShape, Local, Early
    <3>2. Counted(s) = {}
      BY <3>1 DEF Counted
    <3>3. Cardinality(Counted(s)) = 0
      BY <3>2, FS_EmptySet
    <3>4. rca[s].initial \in Nat /\ Allowed(0) = 0
      BY Limits DEF RcaTypeOK, State, Allowed
    <3> QED BY <1>4, <1>7, <2>1, <3>1, <3>3, <3>4 DEF SameTrail
  <2>3. CASE rca'[s].pc # "claude"
    <3>1. InSession(s)
      BY <1>7, <2>1, <2>3 DEF InSession, SameTrail
    <3> QED BY <1>4, <1>7, <2>1, <3>1 DEF Budget, SameTrail
  <2> QED BY <2>2, <2>3
<1> QED BY <1>3, <1>5, <1>6, <1>7

\* A request that only looks leaves the budget alone.
LEMMA BudgetKept ==
    ASSUME RcaTypeOK, Budget, NEW c \in Requests, OnlyCall(c), NEW t \in States,
           c \notin Counted(t), c \notin Counted(t)',
           InSession(t)' => InSession(t),
           Len(rca'[t].steps) = Len(rca[t].steps), rca'[t].initial = rca[t].initial,
           rca'[t].calls = rca[t].calls
    PROVE  InSession(t)' => Len(rca'[t].steps) + Cardinality(Counted(t)')
                              <= rca'[t].initial + Allowed(rca'[t].calls)
<1>1. Counted(t)' = Counted(t)
  BY DEF Counted, OnlyCall
<1> QED BY <1>1 DEF Budget

LEMMA RequestBudget ==
    ASSUME RcaTypeOK, StateShape, CallShape, Budget, NEW c \in Requests,
           Serve(c) \/ \E s \in States : Send(c, s)
    PROVE  Budget'
<1> SUFFICES ASSUME NEW t \in States
             PROVE  InSession(t)' => Len(rca'[t].steps) + Cardinality(Counted(t)')
                                       <= rca'[t].initial + Allowed(rca'[t].calls)
  BY DEF Budget, Allowed
<1> DEFINE Within == InSession(t)' => Len(rca'[t].steps) + Cardinality(Counted(t)')
                                        <= rca'[t].initial + Allowed(rca'[t].calls)
<1>0. /\ rca[t] \in State /\ OnlyCall(c) /\ rca'[t].initial = rca[t].initial
      /\ rca'[t].pc = rca[t].pc
  BY RequestShapes DEF RcaTypeOK
<1>1. rca[t].steps \in Seq(Shown) /\ Len(rca[t].steps) \in Nat /\ rca[t].initial \in Nat /\ rca[t].calls \in Nat
  BY <1>0 DEF State, Shown
<1>2. ASSUME NEW s \in States, Send(c, s) PROVE Within
  <2>1. rca' = rca /\ rca[s].pc = "claude" /\ call[c].pc = "idle" /\ call'[c].pc = "sent" /\ call'[c].run = s
    BY <1>2, SendStep
  <2>2. c \notin Counted(t) /\ c \notin Counted(t)'
    BY <2>1 DEF Counted
  <2>3. InSession(t)' => InSession(t)
    BY <1>0, <2>1 DEF InSession, OnlyCall
  <2> QED BY <1>0, <2>1, <2>2, <2>3, BudgetKept
<1>3. ASSUME Lookup(c) PROVE Within
  <2>1. rca' = rca /\ call[c].pc = "sent" /\ ((call'[c].pc = "found" /\ call'[c].run = call[c].run) \/ call'[c] = Idle)
    BY <1>3, LookupStep
  <2>2. c \notin Counted(t) /\ c \notin Counted(t)'
    BY <2>1, IdleTypes DEF Counted
  <2>3. InSession(t)' => InSession(t)
    BY <1>0, <2>1, IdleTypes, NoStateApart DEF InSession, OnlyCall
  <2> QED BY <1>0, <2>1, <2>2, <2>3, BudgetKept
<1>4. ASSUME Told(c) PROVE Within
  <2>1. PICK s \in States : s = call[c].run
    BY <1>4, ToldStep
  <2>2. /\ call[c].pc = "counted" /\ ~(call[c].n <= MaxIter) /\ call'[c] = Idle
        /\ rca'[s] = [rca[s] EXCEPT !.stopped = rca'[s].stopped] /\ \A u \in States \ {s} : rca'[u] = rca[u]
    BY <1>4, <2>1, ToldStep
  <2>3. rca'[t].steps = rca[t].steps /\ rca'[t].calls = rca[t].calls
    BY <1>0, <2>2 DEF State
  <2>4. c \notin Counted(t) /\ c \notin Counted(t)'
    BY <2>2, IdleTypes DEF Counted
  <2>5. InSession(t)' => InSession(t)
    BY <1>0, <2>2, <2>3, IdleTypes, NoStateApart DEF InSession, OnlyCall
  <2> QED BY <1>0, <2>3, <2>4, <2>5, BudgetKept
<1>5. ASSUME CallEnds(c) PROVE Within
  <2>1. PICK s \in States : s = call[c].run
    BY <1>5, CallEndsStep
  <2>2. /\ call[c].pc = "exec" /\ call'[c] = Idle /\ \A u \in States \ {s} : rca'[u] = rca[u]
        /\ rca'[s] = [rca[s] EXCEPT !.steps = [rca[s].steps EXCEPT ![call[c].step] = "done"]]
    BY <1>5, <2>1, CallEndsStep
  <2>3. Len(rca'[t].steps) = Len(rca[t].steps) /\ rca'[t].calls = rca[t].calls
    <3>1. CASE t # s
      BY <2>2, <3>1
    <3>2. CASE t = s
      <4>1. rca'[t].steps = [rca[t].steps EXCEPT ![call[c].step] = "done"] /\ rca'[t].calls = rca[t].calls
        BY <1>0, <2>2, <3>2 DEF State
      <4> QED BY <1>1, <4>1, SetStep DEF Shown
    <3> QED BY <3>1, <3>2
  <2>4. c \notin Counted(t) /\ c \notin Counted(t)'
    BY <2>2, IdleTypes DEF Counted
  <2>5. InSession(t)' => InSession(t)
    BY <1>0, <2>2, <2>3, IdleTypes, NoStateApart DEF InSession, OnlyCall
  <2> QED BY <1>0, <2>3, <2>4, <2>5, BudgetKept
<1>6. ASSUME Count(c) PROVE Within
  <2>1. PICK s \in States : s = call[c].run
    BY <1>6, CountStep
  <2>2. /\ call[c].pc = "found" /\ call'[c].pc = "counted" /\ call'[c].run = s /\ call'[c].n = rca[s].calls + 1
        /\ rca'[s] = [rca[s] EXCEPT !.calls = rca[s].calls + 1] /\ \A u \in States \ {s} : rca'[u] = rca[u]
    BY <1>6, <2>1, CountStep
  <2>3. CASE t # s
    <3>1. c \notin Counted(t) /\ c \notin Counted(t)'
      BY <2>2, <2>3 DEF Counted
    <3>2. rca'[t] = rca[t] /\ (InSession(t)' => InSession(t))
      BY <1>0, <2>1, <2>2, <2>3 DEF InSession, OnlyCall
    <3> QED BY <1>0, <3>1, <3>2, BudgetKept
  <2>4. CASE t = s
    <3>1. rca'[t].calls = rca[t].calls + 1 /\ rca'[t].steps = rca[t].steps
      BY <1>0, <2>2, <2>4 DEF State
    <3>2. Len(rca[t].steps) + Cardinality(Counted(t)) <= rca[t].initial + Allowed(rca[t].calls)
      BY <2>1, <2>4 DEF Budget, InSession
    <3>3. IsFiniteSet(Counted(t)) /\ Cardinality(Counted(t)) \in Nat
      BY CountedFinite
    <3>4. CASE rca[t].calls + 1 <= MaxIter
      <4>1. Counted(t)' = Counted(t) \cup {c} /\ c \notin Counted(t)
        BY <1>0, <2>2, <2>4, <3>4 DEF Counted, OnlyCall
      <4>2. Cardinality(Counted(t)') = Cardinality(Counted(t)) + 1
        BY <3>3, <4>1, FS_AddElement
      <4>3. Allowed(rca'[t].calls) = Allowed(rca[t].calls) + 1 /\ Allowed(rca[t].calls) \in Nat
        BY <1>1, <3>1, <3>4, Limits DEF Allowed
      <4> QED BY <1>0, <1>1, <3>1, <3>2, <3>3, <4>2, <4>3
    <3>5. CASE ~(rca[t].calls + 1 <= MaxIter)
      <4>1. Counted(t)' = Counted(t)
        BY <1>0, <2>2, <2>4, <3>5 DEF Counted, OnlyCall
      <4>2. Allowed(rca'[t].calls) = Allowed(rca[t].calls)
        BY <1>1, <3>1, <3>5, Limits DEF Allowed
      <4> QED BY <1>0, <3>1, <3>2, <4>1, <4>2
    <3> QED BY <3>4, <3>5
  <2> QED BY <2>3, <2>4
<1>7. ASSUME CallBegins(c) PROVE Within
  <2>1. PICK s \in States : s = call[c].run
    BY <1>7, CallBeginsStep
  <2>2. /\ call[c].pc = "counted" /\ call[c].n <= MaxIter /\ call'[c].pc = "exec" /\ call'[c].run = s
        /\ rca'[s] = [rca[s] EXCEPT !.iter = call[c].n, !.steps = Append(rca[s].steps, "running")]
        /\ \A u \in States \ {s} : rca'[u] = rca[u]
    BY <1>7, <2>1, CallBeginsStep
  <2>3. CASE t # s
    <3>1. c \notin Counted(t) /\ c \notin Counted(t)'
      BY <2>1, <2>2, <2>3 DEF Counted
    <3>2. rca'[t] = rca[t] /\ (InSession(t)' => InSession(t))
      BY <1>0, <2>1, <2>2, <2>3 DEF InSession, OnlyCall
    <3> QED BY <1>0, <3>1, <3>2, BudgetKept
  <2>4. CASE t = s
    <3>1. rca'[t].calls = rca[t].calls /\ rca'[t].steps = Append(rca[t].steps, "running")
      BY <1>0, <2>2, <2>4 DEF State
    <3>2. Len(rca'[t].steps) = Len(rca[t].steps) + 1
      BY <1>1, <3>1
    <3>3. Len(rca[t].steps) + Cardinality(Counted(t)) <= rca[t].initial + Allowed(rca[t].calls)
      BY <2>1, <2>4 DEF Budget, InSession
    <3>4. IsFiniteSet(Counted(t)) /\ Cardinality(Counted(t)) \in Nat
      BY CountedFinite
    <3>5. Counted(t)' = Counted(t) \ {c} /\ c \in Counted(t)
      BY <1>0, <2>1, <2>2, <2>4 DEF Counted, OnlyCall
    <3>6. Cardinality(Counted(t)') = Cardinality(Counted(t)) - 1
      BY <3>4, <3>5, FS_RemoveElement
    <3>7. Allowed(rca[t].calls) \in Nat
      BY <1>1, Limits DEF Allowed
    <3> QED BY <1>0, <1>1, <3>1, <3>2, <3>3, <3>4, <3>6, <3>7
  <2> QED BY <2>3, <2>4
<1> QED BY <1>2, <1>3, <1>4, <1>5, <1>6, <1>7 DEF Serve

------------------------------------------------------------------------------
(* The theorems *)

LEMMA RcaInitially == RcaInit => RcaInv
<1> SUFFICES ASSUME RcaInit PROVE RcaInv
  OBVIOUS
<1>1. \A s \in States : rca[s] = Free
  BY DEF RcaInit
<1>2. \A c \in Requests : call[c] = Idle
  BY DEF RcaInit
<1>3. RcaTypeOK
  BY FreeTypes, IdleTypes DEF RcaInit, RcaTypeOK
<1>4. StateShape
  BY <1>1 DEF StateShape, Shape, Free, Early, Local
<1>5. CallShape
  BY <1>2, IdleTypes DEF CallShape
<1>6. Claims
  BY <1>1 DEF RcaInit, Claims, Busy, Works, Free
<1>7. \A s \in States : Running(s) = {} /\ Own(s) = {} /\ Executing(s) = {}
  BY <1>1, <1>2 DEF Running, Own, Executing, Free, Idle
<1>8. StepsRun
  BY <1>7 DEF StepsRun
<1>9. \A s \in States : ~InSession(s)
  BY <1>1, <1>2, NoStateApart DEF InSession, Free, Idle
<1>10. Budget
  BY <1>9 DEF Budget
<1> QED BY <1>3, <1>4, <1>5, <1>6, <1>8, <1>10 DEF RcaInv

LEMMA RcaStep == RcaInv /\ [RcaNext]_rcaVars => RcaInv'
<1> SUFFICES ASSUME RcaInv, [RcaNext]_rcaVars PROVE RcaInv'
  OBVIOUS
<1>0. RcaTypeOK /\ StateShape /\ CallShape /\ Claims /\ StepsRun /\ Budget
  BY DEF RcaInv
<1>1. ASSUME NEW s \in States, Agent(s) \/ Collect(s) \/ \E o \in Objects : Start(o, s)
      PROVE  RcaInv'
  <2>1. RcaTypeOK' /\ StateShape' /\ CallShape'
    BY <1>0, <1>1, AgentShapes
  <2>2. Claims'
    BY <1>0, <1>1, AgentClaims
  <2>3. StepsRun'
    BY <1>0, <1>1, AgentSteps
  <2>4. Budget'
    BY <1>0, <1>1, AgentBudget
  <2> QED BY <2>1, <2>2, <2>3, <2>4 DEF RcaInv
<1>2. ASSUME NEW c \in Requests, Serve(c) \/ \E s \in States : Send(c, s)
      PROVE  RcaInv'
  <2>1. /\ RcaTypeOK' /\ StateShape' /\ CallShape' /\ OnlyCall(c)
        /\ \A t \in States : rca'[t].pc = rca[t].pc /\ rca'[t].object = rca[t].object
    BY <1>0, <1>2, RequestShapes
  <2>2. Claims'
    BY <1>0, <2>1, ClaimsKept DEF OnlyCall
  <2>3. StepsRun'
    BY <1>0, <1>2, RequestSteps
  <2>4. Budget'
    BY <1>0, <1>2, RequestBudget
  <2> QED BY <2>1, <2>2, <2>3, <2>4 DEF RcaInv
<1>3. CASE UNCHANGED rcaVars
  <2> USE <1>3 DEF rcaVars
  <2>1. RcaTypeOK' /\ StateShape' /\ CallShape'
    BY <1>0 DEF RcaTypeOK, StateShape, Shape, CallShape
  <2>2. Claims'
    BY <1>0 DEF Claims, Busy, Works
  <2>3. StepsRun'
    BY <1>0 DEF StepsRun, Running, Own, Executing
  <2>4. Budget'
    BY <1>0 DEF Budget, InSession, Counted, Allowed
  <2> QED BY <2>1, <2>2, <2>3, <2>4 DEF RcaInv
<1> QED BY <1>1, <1>2, <1>3 DEF RcaNext

\* The invariant holds of every behaviour (rca.go, mcp.go, claudecode.go).
THEOREM RcaInvariant == RcaSpec => []RcaInv
<1>1. RcaInit => RcaInv
  BY RcaInitially
<1>2. RcaInv /\ [RcaNext]_rcaVars => RcaInv'
  BY RcaStep
<1> QED BY <1>1, <1>2, PTL DEF RcaSpec

\* Whatever handleAPIRCAStart is asked, one goroutine at a time works on an object, and it
\* fills the state that is polled.
THEOREM RcaOneAgent == RcaSpec => []OneAgent
<1>1. RcaInv => OneAgent
  <2> SUFFICES ASSUME RcaInv, NEW s \in States, Works(s)
               PROVE  /\ rcaCache[rca[s].object] = s
                      /\ \A t \in States \ {s} : Works(t) => rca[t].object # rca[s].object
    BY DEF OneAgent
  <2>1. \A t \in States : Works(t) => Busy(t)
    BY DEF Works, Busy
  <2> QED BY <2>1 DEF RcaInv, Claims
<1> QED BY <1>1, RcaInvariant, PTL

\* However calls of tools overlap, overtake each other or outlive the run, every step shown as
\* running is run by exactly one of them, and the session keeps to its budget (rcaToolRun.call).
THEOREM RcaTrailSound == RcaSpec => []TrailSound
<1>1. RcaInv => TrailSound
  <2> SUFFICES ASSUME RcaInv, NEW s \in States
               PROVE  LET running == {i \in DOMAIN rca[s].steps : rca[s].steps[i] = "running"}
                          own     == IF rca[s].pc = "tool" THEN {rca[s].step} ELSE {}
                      IN /\ running = own \cup {call[c].step : c \in Executing(s)}
                         /\ \A c \in Executing(s) :
                              /\ call[c].step \notin own
                              /\ \A d \in Executing(s) \ {c} : call[c].step # call[d].step
                         /\ rca[s].calls > 0 => Len(rca[s].steps) <= rca[s].initial + MaxIter
    BY DEF TrailSound
  <2>1. /\ Running(s) = Own(s) \cup {call[c].step : c \in Executing(s)}
        /\ \A c \in Executing(s) : /\ call[c].step \notin Own(s)
                                   /\ \A d \in Executing(s) \ {c} : call[c].step # call[d].step
    BY DEF RcaInv, StepsRun
  <2>2. ASSUME rca[s].calls > 0 PROVE Len(rca[s].steps) <= rca[s].initial + MaxIter
    <3>1. Len(rca[s].steps) + Cardinality(Counted(s)) <= rca[s].initial + Allowed(rca[s].calls)
      BY <2>2 DEF RcaInv, Budget, InSession
    <3>2. /\ rca[s].steps \in Seq(Shown) /\ Len(rca[s].steps) \in Nat
          /\ rca[s].initial \in Nat /\ rca[s].calls \in Nat
      BY DEF RcaInv, RcaTypeOK, State, Shown
    <3>3. Cardinality(Counted(s)) \in Nat
      BY CountedFinite
    <3>4. Allowed(rca[s].calls) \in Nat /\ Allowed(rca[s].calls) <= MaxIter
      BY <3>2, Limits DEF Allowed
    <3> QED BY <3>1, <3>2, <3>3, <3>4, Limits
  <2> QED BY <2>1, <2>2 DEF Running, Own
<1> QED BY <1>1, RcaInvariant, PTL

\* What the panel may see of an analysis after it saw q.
Advance(q, r) ==
    /\ Len(q.steps) <= Len(r.steps)
    /\ \A i \in DOMAIN q.steps : q.steps[i] # "running" => r.steps[i] = q.steps[i]
    /\ q.status # "running" => r.status = q.status

\* A new step changes none of the others, nor does the end of one that runs.
LEMMA TrailAdvances ==
    ASSUME NEW q, NEW r, q.steps \in Seq(Shown), r.status = q.status,
           \/ r.steps = Append(q.steps, "running")
           \/ \E n \in DOMAIN q.steps : q.steps[n] = "running" /\ r.steps = [q.steps EXCEPT ![n] = "done"]
           \/ r.steps = q.steps
    PROVE  Advance(q, r)
<1>1. CASE r.steps = Append(q.steps, "running")
  BY <1>1 DEF Advance
<1>2. ASSUME NEW n \in DOMAIN q.steps, q.steps[n] = "running", r.steps = [q.steps EXCEPT ![n] = "done"]
      PROVE  Advance(q, r)
  <2>1. /\ Len(r.steps) = Len(q.steps) /\ Len(q.steps) \in Nat
        /\ \A j \in DOMAIN q.steps : r.steps[j] = IF n = j THEN "done" ELSE q.steps[j]
    BY <1>2, SetStep DEF Shown
  <2> QED BY <1>2, <2>1 DEF Advance
<1>3. CASE r.steps = q.steps
  BY <1>3 DEF Advance
<1> QED BY <1>1, <1>2, <1>3

LEMMA AgentAdvances ==
    ASSUME RcaInv, NEW s \in States, Agent(s) \/ Collect(s) \/ \E o \in Objects : Start(o, s),
           NEW t \in States, NEW o \in Objects, rcaCache[o] = t, rcaCache'[o] = t
    PROVE  Advance(rca[t], rca'[t])
<1>0. /\ rca[t] \in State /\ Shape(rca[t]) /\ rca[t].steps \in Seq(Shown)
      /\ rca[t].pc \notin {"free", "claimed"} /\ RcaTypeOK /\ StateShape
  <2>1. RcaTypeOK /\ StateShape /\ Claims
    BY DEF RcaInv
  <2>2. rca[t] \in State /\ Shape(rca[t])
    BY <2>1 DEF RcaTypeOK, StateShape
  <2>3. rca[t].pc \notin {"free", "claimed"}
    BY <2>1, NoStateApart DEF Claims
  <2> QED BY <2>1, <2>2, <2>3 DEF State, Shown
<1>1. CASE t # s
  <2>1. Only(s)
    BY <1>0, StartStep, BeginStep, GatherStep, PlainStep, ToolBeginsStep, ToolEndsStep, CollectStep DEF Agent
  <2>2. rca'[t] = rca[t]
    BY <1>1, <2>1 DEF Only
  <2> QED BY <1>0, <2>2, TrailAdvances
<1>2. CASE t = s
  <2>1. ~Begin(s) /\ ~Collect(s) /\ ~\E x \in Objects : Start(x, s)
    BY <1>0, <1>2 DEF Begin, Collect, Start
  <2>2. CASE Gather(s)
    <3>1. rca[s].steps = <<>> /\ rca'[s].status = rca[s].status /\ rca'[s].steps \in Trails
      BY <1>0, <1>2, <2>2, GatherStep DEF Gather, Shape, Early
    <3>2. Len(rca[s].steps) = 0 /\ DOMAIN rca[s].steps = {} /\ Len(rca'[s].steps) \in Nat
      BY <3>1, TrailTypes
    <3> QED BY <1>2, <3>1, <3>2 DEF Advance
  <2>3. CASE Ask(s) \/ Answer(s) \/ Conclude(s) \/ Fail(s) \/ Session(s) \/ SessionEnds(s)
             \/ Unregister(s) \/ Over(s)
    <3>1. SameTrail(s) /\ Moves(rca[s], rca'[s])
      BY <1>0, <2>3, PlainStep, PlainMoves
    <3>2. Len(rca[s].steps) \in Nat /\ rca'[s].steps = rca[s].steps
      BY <1>0, <1>2, <3>1 DEF SameTrail
    <3>3. rca[s].status # "running" => rca[s].pc = "over"
      BY <1>0, <1>2, <3>1 DEF Moves, Shape, State, Local, Early
    <3>4. rca[s].status # "running" => rca'[s].status = rca[s].status
      BY <3>1, <3>3 DEF Moves
    <3> QED BY <1>2, <3>2, <3>4 DEF Advance
  <2>4. CASE ToolBegins(s)
    BY <1>0, <1>2, <2>4, ToolBeginsStep, TrailAdvances
  <2>5. CASE ToolEnds(s)
    <3>1. /\ rca[s].pc = "tool" /\ rca'[s].status = rca[s].status
          /\ rca'[s].steps = [rca[s].steps EXCEPT ![rca[s].step] = "done"]
      BY <1>0, <2>5, ToolEndsStep
    <3>2. rca[s].step \in Running(s)
      BY <3>1 DEF RcaInv, StepsRun, Own
    <3>3. rca[s].step \in DOMAIN rca[s].steps /\ rca[s].steps[rca[s].step] = "running"
      BY <3>2 DEF Running
    <3>4. rca[s].steps \in Seq(Shown) /\ rca'[s].status = rca[s].status
      BY <1>0, <1>2, <3>1
    <3>5. Advance(rca[s], rca'[s])
      BY <3>1, <3>3, <3>4, TrailAdvances
    <3> QED BY <1>2, <3>5
  <2> QED BY <2>1, <2>2, <2>3, <2>4, <2>5 DEF Agent
<1> QED BY <1>1, <1>2

LEMMA RequestAdvances ==
    ASSUME RcaInv, NEW c \in Requests, Serve(c) \/ \E s \in States : Send(c, s), NEW t \in States
    PROVE  Advance(rca[t], rca'[t])
<1>0. /\ rca[t] \in State /\ rca[t].steps \in Seq(Shown) /\ RcaTypeOK /\ StateShape /\ CallShape
      /\ rca'[t].status = rca[t].status
  BY RequestShapes DEF RcaInv, RcaTypeOK, State, Shown
<1>1. CASE Lookup(c) \/ Count(c) \/ Told(c) \/ \E s \in States : Send(c, s)
  BY <1>0, <1>1, QuietRequest, TrailAdvances
<1>2. CASE CallBegins(c)
  <2>1. PICK s \in States :
          /\ rca'[s] = [rca[s] EXCEPT !.iter = call[c].n, !.steps = Append(rca[s].steps, "running")]
          /\ \A u \in States \ {s} : rca'[u] = rca[u]
    BY <1>0, <1>2, CallBeginsStep
  <2>2. rca'[t].steps = rca[t].steps \/ rca'[t].steps = Append(rca[t].steps, "running")
    BY <1>0, <2>1 DEF State
  <2> QED BY <1>0, <2>2, TrailAdvances
<1>3. CASE CallEnds(c)
  <2>1. PICK s \in States : s = call[c].run
    BY <1>0, <1>3, CallEndsStep
  <2>2. /\ call[c].pc = "exec" /\ \A u \in States \ {s} : rca'[u] = rca[u]
        /\ rca'[s] = [rca[s] EXCEPT !.steps = [rca[s].steps EXCEPT ![call[c].step] = "done"]]
    BY <1>0, <1>3, <2>1, CallEndsStep
  <2>3. CASE t # s
    BY <1>0, <2>2, <2>3, TrailAdvances
  <2>4. CASE t = s
    <3>1. rca'[t].steps = [rca[t].steps EXCEPT ![call[c].step] = "done"]
      BY <1>0, <2>2, <2>4 DEF State
    <3>2. c \in Executing(t)
      BY <2>1, <2>2, <2>4 DEF Executing
    <3>3. call[c].step \in Running(t)
      BY <3>2 DEF RcaInv, StepsRun
    <3>4. call[c].step \in DOMAIN rca[t].steps /\ rca[t].steps[call[c].step] = "running"
      BY <3>3 DEF Running
    <3> QED BY <1>0, <3>1, <3>4, TrailAdvances
  <2> QED BY <2>3, <2>4
<1> QED BY <1>1, <1>2, <1>3 DEF Serve

\* While the panel polls one analysis nothing it was shown as ended is taken back
\* (handleAPIRCAStatus, rcaToolRun.call).
THEOREM RcaPollsAdvance == RcaSpec => PollsAdvance
<1> DEFINE Polled(o) == LET s == rcaCache[o]
                        IN s # NoState /\ rcaCache'[o] = s =>
                             /\ Len(rca[s].steps) <= Len(rca'[s].steps)
                             /\ \A i \in DOMAIN rca[s].steps :
                                  rca[s].steps[i] # "running" => rca'[s].steps[i] = rca[s].steps[i]
                             /\ rca[s].status # "running" => rca'[s].status = rca[s].status
<1>1. RcaInv /\ [RcaNext]_rcaVars => [\A o \in Objects : Polled(o)]_rcaVars
  <2> SUFFICES ASSUME RcaInv, RcaNext, NEW o \in Objects, rcaCache[o] # NoState, rcaCache'[o] = rcaCache[o]
               PROVE  Advance(rca[rcaCache[o]], rca'[rcaCache[o]])
    BY DEF Advance
  <2>1. rcaCache[o] \in States
    BY DEF RcaInv, RcaTypeOK
  <2>2. PICK t \in States : t = rcaCache[o]
    BY <2>1
  <2> QED BY <2>2, AgentAdvances, RequestAdvances DEF RcaNext
<1> QED BY <1>1, RcaInvariant, PTL DEF RcaSpec, PollsAdvance
====
