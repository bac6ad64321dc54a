------------------------------- MODULE Evidence -------------------------------
(***************************************************************************)
(* The first prompt of an RCA or an analysis: which events, member warnings   *)
(* and logs are gathered, and how they and the linked evidence (Links) are    *)
(* cut to the model's context.  A text is its size in tokens; estimateTokens  *)
(* adds up but for rounding.  Pods are numbers, ordered as their names are.   *)
(***************************************************************************)
EXTENDS Integers, FiniteSets, Sequences, SequencesExt

CONSTANTS
    NoteSize,      \* a line that says how much was trimmed, or a heading
    MaxMembers,    \* rcaMemberWarnings
    TriedPods,     \* how many Pods' logs addWorkload asks for
    Gathered,      \* what may be gathered: see BuildPrompt
    Windows       \* context lengths; 0: unknown

VARIABLE prompt    \* the prompt built last; <<>>: none

Linked == [size : Nat, lines : Seq(Nat)]

Logs == [raw : Nat, lines : Seq([error : BOOLEAN, size : Nat])]

\* Sizes are numbers, and the logs of every Pod that may be asked for are known.
ASSUME GatheredAssumption ==
    /\ {NoteSize, MaxMembers, TriedPods} \subseteq Nat /\ Windows \subseteq Nat
    /\ \A g \in Gathered :
         /\ {g.fixed, g.overhead} \subseteq Nat /\ g.isPod \in BOOLEAN
         /\ g.events \in Seq([at : Nat, size : Nat]) /\ g.linked \in Seq(Linked)
         /\ Len(g.warns) \in Nat /\ DOMAIN g.warns = 1..Len(g.warns)
         /\ \A i \in DOMAIN g.warns : {g.warns[i].of, g.warns[i].at, g.warns[i].size} \subseteq Nat
         /\ IF g.isPod THEN g.logs[0] \in Logs
            ELSE \A i \in DOMAIN g.warns : g.warns[i].of # 0 => g.logs[g.warns[i].of] \in Logs

promptShare == 60
linkedShare == 15

\* promptBudget, linkedBudget: 0 is no limit.
promptBudget(ctxLen, overhead) ==
    IF ctxLen <= 0 THEN 0 ELSE Max({(ctxLen * promptShare) \div 100 - overhead, 1})

linkedBudget(ctxLen) == IF ctxLen <= 0 THEN 0 ELSE Max({(ctxLen * linkedShare) \div 100, 1})

------------------------------------------------------------------------------
(* Gathering *)

\* The warnings kept: one for each object and reason.
memberWarnings(warns) ==
    LET seen(evs, w) == \E i \in DOMAIN evs : evs[i].of = w.of /\ evs[i].reason = w.reason
        one(evs, w) == IF ~seen(evs, w) /\ Len(evs) < MaxMembers THEN Append(evs, w) ELSE evs
        kept[k \in 0..Len(warns)] == IF k = 0 THEN <<>> ELSE one(kept[k - 1], warns[k])
    IN kept[Len(warns)]

\* podLast: the Pods among the owners of the warnings (0 is another object), and when each
\* was last seen.
podLast(warns) ==
    LET of(p) == {i \in DOMAIN warns : warns[i].of = p /\ warns[i].at > 0}
    IN [p \in {warns[i].of : i \in {j \in DOMAIN warns : warns[j].of # 0 /\ warns[j].at > 0}} |->
          Max({warns[i].at : i \in of(p)})]

\* Newest first: at i the Pod that has i - 1 before it.
failingPods(warns) ==
    LET last == podLast(warns)
        Newer(p, q) == last[p] > last[q] \/ (last[p] = last[q] /\ p < q)
        pods == DOMAIN last
    IN [i \in 1..Cardinality(pods) |-> CHOOSE p \in pods : Cardinality({q \in pods : Newer(q, p)}) = i - 1]

NoLogs == [raw |-> 0, lines |-> <<>>]

\* The logs addWorkload keeps: those of the first Pod that has any.
workloadLogs(pods, logs) ==
    LET has == {i \in DOMAIN pods : i <= TriedPods /\ logs[pods[i]].raw > 0}
    IN IF has = {} THEN NoLogs ELSE logs[pods[Min(has)]]

\* What render and fit work on.  fixed: head, describe, linked evidence, tail, the
\* note that stands for a Pod's missing logs, the headings and the containers' state.
\* raw: the logs as fetched, 0 for none; logs: the lines worth reading.
evidence(g, linked) ==
    LET logs == IF g.isPod THEN g.logs[0] ELSE workloadLogs(failingPods(g.warns), g.logs)
        evs == IF g.isPod THEN <<>> ELSE memberWarnings(g.warns)
    IN [fixed |-> g.fixed + linked + (IF g.isPod /\ logs.raw = 0 THEN NoteSize ELSE 0),
        events |-> g.events, members |-> [i \in DOMAIN evs |-> evs[i].size],
        raw |-> logs.raw, logs |-> logs.lines]

------------------------------------------------------------------------------
(* Cutting the prompt *)

\* newestEvents: the n most recently seen, in their order.
newestEvents(evs, n) ==
    LET newer(i) == {j \in DOMAIN evs : evs[j].at > evs[i].at \/ (evs[j].at = evs[i].at /\ j < i)}
    IN [i \in {k \in DOMAIN evs : Cardinality(newer(k)) < n} |-> evs[i].size]

\* pickLogLines: the newest error-looking lines, up to two thirds, and the newest others.
pickLogLines(lines, limit) ==
    LET errs == {i \in DOMAIN lines :
                   /\ lines[i].error
                   /\ Cardinality({j \in DOMAIN lines : lines[j].error /\ j > i}) < (limit * 2) \div 3}
        rest == DOMAIN lines \ errs
        free == limit - Cardinality(errs)
        pick == errs \cup {i \in rest : Cardinality({j \in rest : j > i}) < free}
    IN [i \in (IF Len(lines) <= limit THEN DOMAIN lines ELSE pick) |-> lines[i].size]

\* render, with nLog = -1 for the logs as fetched.
render(e, nEv, nMem, nLog) ==
    LET note(n) == IF n > 0 THEN NoteSize ELSE 0
    IN e.fixed + SumFunction(newestEvents(e.events, nEv)) + note(Len(e.events) - nEv)
       + SumFunction([i \in 1..nMem |-> e.members[i]]) + note(Len(e.members) - nMem)
       + (IF nLog < 0 THEN e.raw ELSE SumFunction(pickLogLines(e.logs, nLog)) + NoteSize)

\* sort.Search, of a predicate on 0..(n - 1): n rounds are enough.
Search(n, f) ==
    LET halve(s) == LET h == (s.i + s.j) \div 2
                    IN IF s.i >= s.j THEN s ELSE IF f[h] THEN [s EXCEPT !.j = h] ELSE [s EXCEPT !.i = h + 1]
        s[k \in 0..n] == IF k = 0 THEN [i |-> 0, j |-> n] ELSE halve(s[k - 1])
    IN s[n].i

\* Mutant: the first one that does not fit.
mostOver(total, ok) == Search(total, [n \in 0..total |-> ~ok[n]])

\* ok: for each count, whether the prompt fits with it.
most(total, ok) == Max({Search(total + 1, [n \in 0..total |-> ~ok[n]]) - 1, 0})

\* fit: how many events, member warnings and log lines are kept.
fit(e, budget) ==
    LET nEv == Len(e.events)
        nMem == Len(e.members)
        Fits(ev, mem, lg) == render(e, ev, mem, lg) <= budget
        nLog == IF e.raw = 0 THEN -1 ELSE most(Len(e.logs), [n \in 0..Len(e.logs) |-> Fits(nEv, nMem, n)])
        kMem == most(nMem, [n \in 0..nMem |-> Fits(nEv, n, nLog)])
        kEv == most(nEv, [n \in 0..nEv |-> Fits(n, kMem, nLog)])
    IN IF budget <= 0 \/ Fits(nEv, nMem, -1) THEN <<nEv, nMem, -1>>
       ELSE IF e.raw # 0 /\ Fits(nEv, nMem, nLog) THEN <<nEv, nMem, nLog>>
       ELSE IF Fits(nEv, kMem, nLog) THEN <<nEv, kMem, nLog>>
       ELSE <<kEv, kMem, nLog>>

------------------------------------------------------------------------------
(* Cutting the linked evidence *)

\* The lines of a block, one of them for each object.
lineCount(items) == SumFunction([i \in DOMAIN items |-> 1 + Len(items[i].lines)])

\* writeLinked: a heading, the objects with their lines, and what was trimmed.
writeLinked(items, trimmed) ==
    NoteSize + SumFunction([i \in DOMAIN items |-> items[i].size + SumFunction(items[i].lines)])
    + (IF trimmed > 0 THEN NoteSize ELSE 0)

\* One round of renderLinked's loop, for what is over the budget.
Dropped(w) ==
    IF Len(w.kept) > 1
    THEN [kept |-> Front(w.kept), trimmed |-> w.trimmed + 1 + Len(Last(w.kept).lines)]
    ELSE IF w.kept[1].lines # <<>>
    THEN [kept |-> <<[w.kept[1] EXCEPT !.lines = Front(@)]>>, trimmed |-> w.trimmed + 1]
    ELSE [kept |-> <<>>, trimmed |-> w.trimmed + 1]

\* Every round drops a line at least.
renderLinked(items, budget) ==
    LET done(w) == w.kept = <<>> \/ budget <= 0 \/ writeLinked(w.kept, w.trimmed) <= budget
        cut[k \in 0..lineCount(items)] ==
          IF k = 0 THEN [kept |-> items, trimmed |-> 0] ELSE IF done(cut[k - 1]) THEN cut[k - 1] ELSE Dropped(cut[k - 1])
    IN cut[lineCount(items)]

------------------------------------------------------------------------------
PromptInit == prompt = <<>>

\* buildRCAInitialContext, analysisEvidence and addLinked; g.overhead is the system
\* prompt and the tools, g.linked the objects followed.
buildContext(g, ctxLen) ==
    LET block == renderLinked(g.linked, linkedBudget(ctxLen))
        size == IF block.kept = <<>> THEN 0 ELSE writeLinked(block.kept, block.trimmed)
        e == evidence(g, size)
        budget == promptBudget(ctxLen, g.overhead)
    IN [g |-> g, ctx |-> ctxLen, block |-> block, e |-> e, budget |-> budget, kept |-> fit(e, budget)]

BuildPrompt == prompt = <<>> /\ \E g \in Gathered, ctxLen \in Windows : prompt' = buildContext(g, ctxLen)

PromptSpec == PromptInit /\ [][BuildPrompt]_prompt

------------------------------------------------------------------------------
(* Properties *)

\* The forms a prompt may be cut to: all of it; without the oldest log lines; without
\* the rest of them and member warnings; without any of these and the oldest events.
Forms(e) ==
    LET ev == Len(e.events)
        mem == Len(e.members)
        none == IF e.raw = 0 THEN -1 ELSE 0
    IN {<<ev, mem, -1>>} \cup (IF e.raw = 0 THEN {} ELSE {<<ev, mem, n>> : n \in 0..Len(e.logs)})
       \cup {<<ev, n, none>> : n \in 0..mem} \cup {<<n, 0, none>> : n \in 0..ev}

\* One keeps more than the other; -1 are the logs as fetched.
Fuller(f, g) ==
    \/ f[1] > g[1]
    \/ f[1] = g[1] /\ f[2] > g[2]
    \/ f[1] = g[1] /\ f[2] = g[2] /\ g[3] # -1 /\ (f[3] > g[3] \/ f[3] = -1)

\* The fullest form within the budget, or the smallest one.
BestForm ==
    LET e == prompt.e
        ok == {f \in Forms(e) : prompt.budget <= 0 \/ render(e, f[1], f[2], f[3]) <= prompt.budget}
    IN IF ok = {} THEN prompt.kept = <<0, 0, IF e.raw = 0 THEN -1 ELSE 0>>
       ELSE prompt.kept \in ok /\ \A f \in ok \ {prompt.kept} : Fuller(prompt.kept, f)

\* A workload's logs are those of the Pod that failed last, of the ones tried that have any.
NewestLogs ==
    LET w == prompt.g.warns
        seen == {i \in DOMAIN w : w[i].of # 0 /\ w[i].at > 0}
        with == {i \in seen : prompt.g.logs[w[i].of].raw > 0}
    IN ~prompt.g.isPod /\ with # {} /\ Cardinality({w[i].of : i \in seen}) <= TriedPods =>
         \E i \in with : /\ \A j \in with : w[j].at <= w[i].at
                         /\ prompt.e.raw = prompt.g.logs[w[i].of].raw

\* The linked evidence kept is a beginning of what was followed, within its share, and
\* every line of it is kept or counted as trimmed.
LinkedCut ==
    LET all == prompt.g.linked
        kept == prompt.block.kept
        budget == linkedBudget(prompt.ctx)
    IN /\ lineCount(kept) + prompt.block.trimmed = lineCount(all)
       /\ \A i \in DOMAIN kept : IsPrefix(kept[i].lines, all[i].lines) /\ kept[i].size = all[i].size
       /\ \A i \in 1..(Len(kept) - 1) : kept[i] = all[i]
       /\ budget > 0 /\ kept # <<>> => writeLinked(kept, prompt.block.trimmed) <= budget
       /\ budget <= 0 => kept = all

\* The first prompt (fit, addWorkload, renderLinked) has as much evidence as fits: logs
\* go before the warnings of members, those before the object's events, nothing goes that
\* need not go, and over the smallest form that form is sent.  The binary searches rest
\* on each count making the prompt longer, which the lines that say what was trimmed
\* endanger.  The logs are the newest failing Pod's, and linked evidence has its own share.
PromptSound == prompt # <<>> => BestForm /\ NewestLogs /\ LinkedCut
==============================================================================
