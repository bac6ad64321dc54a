----------------------------- MODULE PartsProofs -----------------------------
(* Proofs about Analyses, Snapshot, Families, Events, Links, Evidence and Home: what an *)
(* analysis shows while it streams and how old a snapshot from the cache may be,  *)
(* for any number of keys and requests and any interleaving of them; that a       *)
(* namespace page shows every object in one place, for any finite set of events;  *)
(* that the events of an object are read newest first from lists of any length;   *)
(* what is followed from any evidence, and that a prompt is cut no more than its    *)
(* budget demands; and that the home page's patterns are the                       *)
(* problems of one cause, in whatever order they were joined.                      *)
EXTENDS Analyses, Snapshot, Events, Families, Links, Evidence, Home, FiniteSetTheorems, SequenceTheorems, NaturalsInduction, WellFoundedInduction, TLAPS

------------------------------------------------------------------------------
(* Analyses *)

\* A key is marked exactly while its goroutine is there, and only one that has marked
\* the insight and has not finished it leaves it partial.
Marked ==
    \A k \in Keys : /\ k \in aiRunning <=> analysis[k].pc # "idle"
                    /\ insight[k].at = "partial" => analysis[k].pc \in {"slot", "stream"}

AnInv == AnTypeOK /\ Marked /\ InsightShows

LEMMA Texts ==
    /\ NoText \in Text
    /\ \A t \in Text : [NoText EXCEPT !.reasoning = t.reasoning] \in Text
    /\ \A t \in Text : Extended(t) \subseteq Text
  BY DEF Text, NoText, Extended

\* What is shown of a text: a part of it, never reasoning beside an answer, and no reasoning
\* of one that closed it, nor while it streams of one that opened it.
LEMMA Cuts ==
    ASSUME NEW t \in Text
    PROVE  /\ stripThink(t.parts) \in SUBSET Pieces /\ cleanLMResponse(t.parts) \in SUBSET Pieces
           /\ "answer" \in stripThink(t.parts) => stripThink(t.parts) = {"answer"}
           /\ "answer" \in cleanLMResponse(t.parts) => cleanLMResponse(t.parts) = {"answer"}
           /\ "reasoning" \in stripThink(t.parts) => t.parts \cap {"<think>", "</think>"} = {}
           /\ "reasoning" \in cleanLMResponse(t.parts) => "</think>" \notin t.parts
<1> DEFINE p == t.parts
<1>1. p \subseteq {"<think>", "reasoning", "</think>", "answer"}
      /\ ("answer" \in p /\ "</think>" \notin p => p = {"answer"})
  BY DEF Text, Pieces
<1>2. stripThink(p) = IF "</think>" \in p THEN p \cap {"answer"} ELSE IF "<think>" \in p THEN {} ELSE p
  <2>1. CASE {"<think>", "</think>"} \subseteq p
    BY <1>1, <2>1 DEF stripThink
  <2>2. CASE "<think>" \in p /\ "</think>" \notin p
    BY <2>2 DEF stripThink
  <2>3. CASE "<think>" \notin p /\ "</think>" \in p
    BY <1>1, <2>3 DEF stripThink
  <2>4. CASE "<think>" \notin p /\ "</think>" \notin p
    BY <2>4 DEF stripThink
  <2> QED BY <2>1, <2>2, <2>3, <2>4
<1>3. cleanLMResponse(p) = IF "</think>" \in p THEN p \cap {"answer"} ELSE p
  BY DEF cleanLMResponse
<1> HIDE DEF p
<1>4. /\ stripThink(p) \in SUBSET Pieces /\ cleanLMResponse(p) \in SUBSET Pieces
      /\ "answer" \in stripThink(p) => stripThink(p) = {"answer"}
      /\ "answer" \in cleanLMResponse(p) => cleanLMResponse(p) = {"answer"}
  BY <1>1, <1>2, <1>3 DEF Pieces
<1>5. /\ "reasoning" \in stripThink(p) => p \cap {"<think>", "</think>"} = {}
      /\ "reasoning" \in cleanLMResponse(p) => "</think>" \notin p
  BY <1>2, <1>3
<1> QED BY <1>4, <1>5 DEF p

\* An insight that InsightShows allows for a key that is being analysed.
Sound(i) ==
    /\ i \in Insight
    /\ i.thinking => i.at = "partial" /\ i.shows = {}
    /\ "answer" \in i.shows => i.shows = {"answer"}
    /\ i.at = "final" => i.shows # {}

LEMMA Insights ==
    /\ \A at \in {"none", "partial", "error"} : Sound(Blank(at)) /\ Blank(at).at = at
    /\ \A t \in Text : Sound(Written(t)) /\ Written(t).at = "partial" /\ Written(t).shows = stripThink(t.parts)
<1>1. \A at \in {"none", "partial", "error"} : Sound(Blank(at)) /\ Blank(at).at = at
  BY DEF Sound, Insight, Blank
<1>2. ASSUME NEW t \in Text
      PROVE  Sound(Written(t)) /\ Written(t).at = "partial" /\ Written(t).shows = stripThink(t.parts)
  <2>1. PICK s \in SUBSET Pieces : s = stripThink(t.parts) /\ ("answer" \in s => s = {"answer"})
    BY Cuts
  <2>2. PICK b \in BOOLEAN : b = (s = {} /\ (t.reasoning \/ "<think>" \in t.parts))
    OBVIOUS
  <2>3. Written(t) = [at |-> "partial", shows |-> s, reasoning |-> FALSE, thinking |-> b]
    BY <2>1, <2>2, Zenon DEF Written
  <2>4. b => s = {}
    BY <2>2
  <2> QED BY <2>1, <2>3, <2>4 DEF Sound, Insight
<1> QED BY <1>1, <1>2

\* What a step stores for a key is sound, and has no reasoning but what ReasoningApart allows.
Stored(k) ==
    /\ Sound(insight'[k])
    /\ "reasoning" \in insight'[k].shows =>
         /\ "</think>" \notin analysis'[k].text.parts
         /\ insight'[k].at = "partial" => "<think>" \notin analysis'[k].text.parts

LEMMA AnStored ==
    ASSUME AnInv, NEW k \in Keys, Trigger(k) \/ Analyse(k)
    PROVE  /\ \A j \in Keys \ {k} : insight'[j] = insight[j] /\ analysis'[j] = analysis[j]
           /\ insight'[k] = insight[k] \/ Stored(k)
<1> USE DEF AnInv, AnTypeOK
<1>1. CASE Trigger(k) \/ Admitted(k) \/ Turn(k) \/ Forgotten(k)
  <2>1. insight' = insight
    BY <1>1 DEF Trigger, Admitted, Turn, Forgotten
  <2>2. PICK a : analysis' = [analysis EXCEPT ![k] = a]
    BY <1>1, Zenon DEF Trigger, Admitted, Turn, Forgotten
  <2> QED BY <2>1, <2>2
<1>2. CASE Mark(k) \/ Fails(k)
  <2>1. PICK at \in {"partial", "error"} : insight' = [insight EXCEPT ![k] = Blank(at)]
    BY <1>2 DEF Mark, Fails
  <2>2. Sound(Blank(at)) /\ Blank(at).shows = {}
    BY Insights DEF Blank
  <2>3. \A j \in Keys \ {k} : analysis'[j] = analysis[j]
    BY <1>2 DEF Mark, Fails
  <2> QED BY <2>1, <2>2, <2>3 DEF Stored
<1>3. CASE Chunk(k)
  <2>1. PICK t \in Extended(analysis[k].text) :
          /\ analysis' = [analysis EXCEPT ![k].text = t]
          /\ insight' = [insight EXCEPT ![k] = Written(t)] \/ UNCHANGED insight
    BY <1>3 DEF Chunk
  <2>2. t \in Text
    BY Texts
  <2>3. /\ Sound(Written(t))
        /\ "reasoning" \in Written(t).shows => t.parts \cap {"<think>", "</think>"} = {}
    BY <2>2, Insights, Cuts
  <2>4. insight'[k] = insight[k] \/ Stored(k)
    BY <2>1, <2>3 DEF Stored
  <2>5. \A j \in Keys \ {k} : insight'[j] = insight[j] /\ analysis'[j] = analysis[j]
    BY <2>1
  <2> QED BY <2>4, <2>5
<1>4. CASE Answered(k)
  <2> DEFINE t == analysis[k].text
             i == [at |-> "final", shows |-> cleanLMResponse(t.parts), thinking |-> FALSE,
                   reasoning |-> t.reasoning \/ thinkText(t.parts) # {}]
  <2>1. t \in Text /\ cleanLMResponse(t.parts) # {}
    BY <1>4 DEF Answered
  <2>2. Sound(i) /\ i.at = "final" /\ ("reasoning" \in i.shows => "</think>" \notin t.parts)
    <3>1. PICK s \in SUBSET Pieces :
            /\ s = cleanLMResponse(t.parts) /\ s # {}
            /\ "answer" \in s => s = {"answer"}
            /\ "reasoning" \in s => "</think>" \notin t.parts
      BY <2>1, Cuts
    <3>2. PICK b \in BOOLEAN : b = (t.reasoning \/ thinkText(t.parts) # {})
      OBVIOUS
    <3>3. i = [at |-> "final", shows |-> s, thinking |-> FALSE, reasoning |-> b]
      BY <3>1, <3>2, Zenon
    <3> HIDE DEF i, t
    <3> QED BY <3>1, <3>3 DEF Sound, Insight
  <2>3. insight' = [insight EXCEPT ![k] = i] /\ analysis' = [analysis EXCEPT ![k].pc = "over"]
    BY <1>4 DEF Answered
  <2>4. analysis'[k].text = t /\ \A j \in Keys \ {k} : analysis'[j] = analysis[j]
    BY <2>3
  <2> HIDE DEF i, t
  <2> QED BY <2>2, <2>3, <2>4 DEF Stored
<1> QED BY <1>1, <1>2, <1>3, <1>4 DEF Analyse

\* The types, and that the goroutine's state is what Marked needs.
LEMMA AnMarks ==
    ASSUME AnInv, NEW k \in Keys, Trigger(k) \/ Analyse(k), insight' \in [Keys -> Insight]
    PROVE  AnTypeOK' /\ Marked'
<1> USE Texts, Insights DEF AnInv, AnTypeOK, Marked
<1>1. CASE Trigger(k)
  BY <1>1 DEF Trigger
<1>2. CASE Mark(k)
  BY <1>2 DEF Mark, Blank
<1>3. CASE Admitted(k)
  BY <1>3 DEF Admitted
<1>4. CASE Chunk(k)
  BY <1>4 DEF Chunk
<1>5. CASE Turn(k)
  BY <1>5 DEF Turn
<1>6. CASE Fails(k)
  BY <1>6 DEF Fails
<1>7. CASE Answered(k)
  BY <1>7 DEF Answered
<1>8. CASE Forgotten(k)
  BY <1>8 DEF Forgotten
<1> QED
  BY <1>1, <1>2, <1>3, <1>4, <1>5, <1>6, <1>7, <1>8 DEF Analyse

LEMMA AnStep ==
    ASSUME AnInv, NEW k \in Keys, Trigger(k) \/ Analyse(k)
    PROVE  AnInv'
<1>1. /\ \A j \in Keys \ {k} : insight'[j] = insight[j]
      /\ insight'[k] = insight[k] \/ Sound(insight'[k])
  BY AnStored DEF Stored
<1>2. insight' \in [Keys -> Insight]
  <2>1. insight \in [Keys -> Insight]
    BY DEF AnInv, AnTypeOK
  <2>2. PICK i : insight' = [insight EXCEPT ![k] = i]
    BY <2>1, Zenon DEF Trigger, Analyse, Mark, Admitted, Chunk, Turn, Fails, Answered, Forgotten
  <2>3. i \in Insight
    BY <1>1, <2>1, <2>2 DEF Sound
  <2> QED BY <2>1, <2>2, <2>3
<1>3. AnTypeOK' /\ Marked'
  BY <1>2, AnMarks
<1>4. InsightShows'
  <2> SUFFICES ASSUME NEW j \in Keys
               PROVE  /\ insight'[j].at = "partial" => j \in aiRunning'
                      /\ insight'[j].thinking => insight'[j].at = "partial" /\ insight'[j].shows = {}
                      /\ "answer" \in insight'[j].shows => insight'[j].shows = {"answer"}
                      /\ insight'[j].at = "final" => insight'[j].shows # {}
    BY DEF InsightShows
  <2>1. insight'[j].at = "partial" => j \in aiRunning'
    BY <1>3 DEF Marked
  <2>2. insight'[j] = insight[j] \/ Sound(insight'[j])
    BY <1>1
  <2> QED BY <2>1, <2>2 DEF AnInv, InsightShows, Sound
<1> QED BY <1>3, <1>4 DEF AnInv

THEOREM AnInvariant == AnSpec => []AnInv
<1>1. AnInit => AnInv
  <2>1. Sound(Blank("none")) /\ Blank("none").at = "none"
    BY Insights
  <2> QED BY <2>1, Texts DEF AnInit, AnInv, AnTypeOK, Marked, InsightShows, Sound
<1>2. AnInv /\ [AnNext]_anVars => AnInv'
  <2> SUFFICES ASSUME AnInv, [AnNext]_anVars PROVE AnInv'
    OBVIOUS
  <2>1. CASE AnNext
    BY <2>1, AnStep DEF AnNext
  <2>2. CASE UNCHANGED anVars
    BY <2>2 DEF anVars, AnInv, AnTypeOK, Marked, InsightShows
  <2> QED
    BY <2>1, <2>2
<1> QED
  BY <1>1, <1>2, PTL DEF AnSpec

\* What is shown as streaming is being streamed, "Thinking" is shown only without an answer,
\* reasoning never beside an answer, and a finished insight has a text (storeAnalysis).
THEOREM AnalysesShow == AnSpec => []InsightShows
<1>1. AnInv => InsightShows
  BY DEF AnInv
<1> QED
  BY <1>1, AnInvariant, PTL

\* Content gets reasoning only of a text that has not closed it, and while it streams only
\* of one that has not opened it either (writeFn, storeAnalysis).
THEOREM AnalysesApart == AnSpec => ReasoningApart
<1>1. AnInv /\ [AnNext]_anVars =>
        [\A k \in Keys :
           insight'[k] # insight[k] /\ "reasoning" \in insight'[k].shows =>
               /\ "</think>" \notin analysis'[k].text.parts
               /\ insight'[k].at = "partial" => "<think>" \notin analysis'[k].text.parts]_anVars
  BY AnStored DEF AnNext, Stored
<1> QED
  BY <1>1, AnInvariant, PTL DEF AnSpec, ReasoningApart

------------------------------------------------------------------------------
(* Snapshots *)

\* A snapshot's fields.
IsSnap(s) == s = [at |-> s.at, reads |-> s.reads, found |-> s.found, attention |-> s.attention, more |-> s.more]

\* Its lists were read since it was begun, and not later than now.
Dated(s, now) == s.at \in Nat /\ s.at <= now /\ \A t \in s.reads : t \in Nat /\ s.at <= t /\ t <= now

IsReader(q) == q = [pc |-> q.pc, left |-> q.left, snap |-> q.snap, cached |-> q.cached]

\* Every snapshot is dated right, and one from the cache is still fresh while it is sent.
SnapInv ==
    /\ time \in Nat
    /\ IsSnap(byNS) /\ Dated(byNS, time)
    /\ reader = [r \in Readers |-> reader[r]]
    /\ \A r \in Readers :
         /\ IsReader(reader[r]) /\ IsSnap(reader[r].snap) /\ Dated(reader[r].snap, time)
         /\ reader[r].pc = "list" => ~reader[r].cached
         /\ reader[r].pc = "served" /\ reader[r].cached => time - reader[r].snap.at < TTL

\* Records and their fields.
LEMMA SnapFields ==
    ASSUME NEW a, NEW b, NEW c, NEW d, NEW e,
           NEW s, s = [at |-> a, reads |-> b, found |-> c, attention |-> d, more |-> e]
    PROVE  IsSnap(s) /\ s.at = a /\ s.reads = b
  BY DEF IsSnap

LEMMA ReaderFields ==
    ASSUME NEW a, NEW b, NEW c, NEW d, NEW q, q = [pc |-> a, left |-> b, snap |-> c, cached |-> d]
    PROVE  IsReader(q) /\ q.pc = a /\ q.snap = c /\ q.cached = d
  BY DEF IsReader

LEMMA BlankFields ==
    ASSUME NEW now, NEW s, s = NoSnapshot, NEW v, v = [s EXCEPT !.at = now]
    PROVE  IsSnap(s) /\ s.at = 0 /\ s.reads = {} /\ IsSnap(v) /\ v.at = now /\ v.reads = {}
<1>1. PICK a, b, c, d, e : a = 0 /\ b = {} /\ c = <<>> /\ d = <<>> /\ e = 0
  OBVIOUS
<1>2. s = [at |-> a, reads |-> b, found |-> c, attention |-> d, more |-> e]
  BY <1>1 DEF NoSnapshot
<1>3. v = [at |-> now, reads |-> b, found |-> c, attention |-> d, more |-> e]
  BY <1>2
<1>4. IsSnap(s) /\ s.at = a /\ s.reads = b
  BY <1>2, SnapFields
<1>5. PICK u : u = v
  OBVIOUS
<1>6. IsSnap(u) /\ u.at = now /\ u.reads = b
  <2>1. u = [at |-> now, reads |-> b, found |-> c, attention |-> d, more |-> e]
    BY <1>3, <1>5
  <2> QED
    BY ONLY <2>1, SnapFields
<1> QED
  BY <1>1, <1>4, <1>5, <1>6

LEMMA Blanks == IsSnap(NoSnapshot) /\ \A now \in Nat : Dated(NoSnapshot, now)
<1>1. PICK s, u : s = NoSnapshot /\ u = [s EXCEPT !.at = 1]
  OBVIOUS
<1>2. IsSnap(s) /\ s.at = 0 /\ s.reads = {}
  BY <1>1, BlankFields
<1> QED
  BY <1>1, <1>2 DEF Dated

LEMMA NewReader ==
    IsReader(NoReader) /\ NoReader.snap = NoSnapshot /\ NoReader.pc = "idle"
<1>1. PICK q, b : q = NoReader /\ b = <<>>
  OBVIOUS
<1>2. q = [pc |-> "idle", left |-> b, snap |-> NoSnapshot, cached |-> FALSE]
  BY <1>1 DEF NoReader
<1> QED
  BY <1>1, <1>2, ReaderFields

\* attention changes neither the age of a snapshot nor what was read for it.
LEMMA CutKeeps ==
    ASSUME NEW s, IsSnap(s), Dated(s, time)
    PROVE  IsSnap(Cut(s)) /\ Dated(Cut(s), time)
<1>1. PICK x, y : Cut(s) = [s EXCEPT !.attention = x, !.more = y]
  BY Zenon DEF Cut
<1>2. PICK a, b, c, d, e : a = s.at /\ b = s.reads /\ c = s.found /\ d = s.attention /\ e = s.more
  OBVIOUS
<1>3. s = [at |-> a, reads |-> b, found |-> c, attention |-> d, more |-> e]
  BY <1>2 DEF IsSnap
<1>4. Cut(s) = [at |-> a, reads |-> b, found |-> c, attention |-> x, more |-> y]
  BY <1>1, <1>3
<1>5. IsSnap(Cut(s)) /\ Cut(s).at = s.at /\ Cut(s).reads = s.reads
  BY <1>2, <1>4, SnapFields
<1> QED
  BY <1>5 DEF Dated

\* A list adds what it found and when it was read.
LEMMA ReadKeeps ==
    ASSUME NEW s, IsSnap(s), Dated(s, time), time \in Nat, NEW x, NEW y, NEW u,
           u = [s EXCEPT !.reads = s.reads \cup {time}, !.found = x, !.attention = y]
    PROVE  IsSnap(u) /\ Dated(u, time)
<1>2. PICK a, b, c, d, e : a = s.at /\ b = s.reads /\ c = s.found /\ d = s.attention /\ e = s.more
  OBVIOUS
<1>3. s = [at |-> a, reads |-> b, found |-> c, attention |-> d, more |-> e]
  BY <1>2 DEF IsSnap
<1>4. PICK r : r = s.reads \cup {time}
  OBVIOUS
<1>5. u = [at |-> a, reads |-> r, found |-> x, attention |-> y, more |-> e]
  BY <1>3, <1>4
<1>6. IsSnap(u) /\ u.at = s.at /\ u.reads = s.reads \cup {time}
  BY <1>2, <1>4, <1>5, SnapFields
<1> QED
  BY <1>6 DEF Dated

\* One request's new state.
LEMMA ReaderStep ==
    ASSUME SnapInv, NEW r \in Readers, NEW q, time' = time,
           reader' = [reader EXCEPT ![r] = q], IsSnap(byNS'), Dated(byNS', time),
           IsReader(q), IsSnap(q.snap), Dated(q.snap, time), q.pc = "list" => ~q.cached,
           q.pc = "served" /\ q.cached => time - q.snap.at < TTL
    PROVE  SnapInv'
<1>1. /\ reader' = [p \in Readers |-> reader'[p]] /\ reader'[r] = q
      /\ \A p \in Readers : p # r => reader'[p] = reader[p]
  BY DEF SnapInv
<1>2. \A p \in Readers :
         /\ IsReader(reader'[p]) /\ IsSnap(reader'[p].snap) /\ Dated(reader'[p].snap, time)
         /\ reader'[p].pc = "list" => ~reader'[p].cached
         /\ reader'[p].pc = "served" /\ reader'[p].cached => time - reader'[p].snap.at < TTL
  BY <1>1 DEF SnapInv
<1> QED
  BY <1>1, <1>2 DEF SnapInv

LEMMA SnapStep ==
    ASSUME SnapInv, SnapNext
    PROVE  SnapInv'
<1>1. ASSUME NEW r \in Readers, NEW refresh \in BOOLEAN, GetSnapshot(r, refresh)
      PROVE  SnapInv'
  <2> DEFINE fresh == byNS.at # 0 /\ ~refresh /\ time - byNS.at < TTL
  <2>1. PICK u, left, served, listing :
           /\ u = [NoSnapshot EXCEPT !.at = time]
           /\ served = [pc |-> "served", left |-> <<>>, snap |-> byNS, cached |-> TRUE]
           /\ listing = [pc |-> "list", left |-> left, snap |-> u, cached |-> FALSE]
           /\ reader' = [reader EXCEPT ![r] = IF fresh THEN served ELSE listing]
    BY <1>1, Zenon DEF GetSnapshot
  <2>2. UNCHANGED <<time, byNS>>
    BY <1>1 DEF GetSnapshot
  <2>3. IsSnap(byNS) /\ Dated(byNS, time) /\ time \in Nat
    BY DEF SnapInv
  <2>4. IsSnap(u) /\ Dated(u, time)
    <3>1. PICK s : s = NoSnapshot
      OBVIOUS
    <3>2. IsSnap(u) /\ u.at = time /\ u.reads = {}
      BY <2>1, <3>1, BlankFields
    <3> QED
      BY <2>3, <3>2 DEF Dated
  <2>5. CASE fresh
    <3>1. IsReader(served) /\ served.snap = byNS /\ served.pc = "served"
      BY <2>1, ReaderFields
    <3> QED
      BY <2>1, <2>2, <2>3, <2>5, <3>1, ReaderStep
  <2>6. CASE ~fresh
    <3>1. IsReader(listing) /\ listing.snap = u /\ listing.pc = "list" /\ ~listing.cached
      BY <2>1, ReaderFields
    <3> QED
      BY <2>1, <2>2, <2>3, <2>4, <2>6, <3>1, ReaderStep
  <2> QED
    BY <2>5, <2>6
<1>2. ASSUME NEW r \in Readers, ListKind(r)
      PROVE  SnapInv'
  <2>1. PICK u, x, y, left :
           /\ u = [reader[r].snap EXCEPT !.reads = reader[r].snap.reads \cup {time}, !.found = x, !.attention = y]
           /\ reader' = [reader EXCEPT ![r].left = left, ![r].snap = u]
    <3>1. PICK items : reader' = [reader EXCEPT ![r].left = Tail(reader[r].left),
             ![r].snap = [reader[r].snap EXCEPT !.reads = reader[r].snap.reads \cup {time},
                 !.found = reader[r].snap.found \o items, !.attention = reader[r].snap.attention \o items]]
      BY <1>2, Zenon DEF ListKind
    <3> QED
      BY <3>1, Zenon
  <2>2. UNCHANGED <<time, byNS>> /\ reader[r].pc = "list"
    BY <1>2 DEF ListKind
  <2>3. /\ time \in Nat /\ IsSnap(byNS) /\ Dated(byNS, time) /\ reader = [p \in Readers |-> reader[p]]
        /\ IsReader(reader[r]) /\ IsSnap(reader[r].snap) /\ Dated(reader[r].snap, time) /\ ~reader[r].cached
    BY <2>2 DEF SnapInv
  <2>4. IsSnap(u) /\ Dated(u, time)
    BY <2>1, <2>3, ReadKeeps
  <2>5. PICK p, q : p = reader[r] /\ q = [p EXCEPT !.left = left, !.snap = u]
    OBVIOUS
  <2>6. p = [pc |-> p.pc, left |-> p.left, snap |-> p.snap, cached |-> p.cached]
    BY <2>3, <2>5 DEF IsReader
  <2>7. q = [pc |-> p.pc, left |-> left, snap |-> u, cached |-> p.cached]
    BY <2>5, <2>6
  <2>8. IsReader(q) /\ q.pc = "list" /\ q.snap = u /\ ~q.cached
    BY <2>2, <2>3, <2>5, <2>7, ReaderFields
  <2>9. reader' = [reader EXCEPT ![r] = q]
    BY <2>1, <2>3, <2>5
  <2> QED
    BY <2>2, <2>3, <2>4, <2>8, <2>9, ReaderStep
<1>3. ASSUME NEW r \in Readers, StoreSnapshot(r)
      PROVE  SnapInv'
  <2>1. PICK u : /\ u = Cut(reader[r].snap) /\ byNS' = u
                 /\ reader' = [reader EXCEPT ![r].pc = "served", ![r].snap = u]
    BY <1>3, Zenon DEF StoreSnapshot
  <2>2. UNCHANGED time /\ reader[r].pc = "list"
    BY <1>3 DEF StoreSnapshot
  <2>3. /\ reader = [p \in Readers |-> reader[p]] /\ IsReader(reader[r]) /\ ~reader[r].cached
        /\ IsSnap(reader[r].snap) /\ Dated(reader[r].snap, time)
    BY <2>2 DEF SnapInv
  <2>4. IsSnap(u) /\ Dated(u, time)
    BY <2>1, <2>3, CutKeeps
  <2>5. PICK p, q : p = reader[r] /\ q = [p EXCEPT !.pc = "served", !.snap = u]
    OBVIOUS
  <2>6. p = [pc |-> p.pc, left |-> p.left, snap |-> p.snap, cached |-> p.cached]
    BY <2>3, <2>5 DEF IsReader
  <2>7. q = [pc |-> "served", left |-> p.left, snap |-> u, cached |-> p.cached]
    BY <2>5, <2>6
  <2>8. IsReader(q) /\ q.snap = u /\ ~q.cached
    BY <2>3, <2>5, <2>7, ReaderFields
  <2>9. reader' = [reader EXCEPT ![r] = q]
    BY <2>1, <2>3, <2>5
  <2> QED
    BY <2>1, <2>2, <2>4, <2>8, <2>9, ReaderStep
<1>4. CASE SnapTick
  <2>1. time \in Nat /\ time' = time + 1 /\ byNS' = byNS
    BY <1>4 DEF SnapTick, SnapInv
  <2>2. \A s : Dated(s, time) => Dated(s, time')
    BY <2>1 DEF Dated
  <2>3. ASSUME NEW r \in Readers
        PROVE  /\ IsReader(reader'[r]) /\ IsSnap(reader'[r].snap) /\ Dated(reader'[r].snap, time')
               /\ reader'[r].pc = "list" => ~reader'[r].cached
               /\ reader'[r].pc # "served"
    <3>1. reader'[r] = IF reader[r].pc = "served" THEN NoReader ELSE reader[r]
      BY <1>4 DEF SnapTick
    <3>2. CASE reader[r].pc = "served"
      BY <2>1, <3>1, <3>2, NewReader, Blanks
    <3>3. CASE reader[r].pc # "served"
      BY <2>2, <3>1, <3>3 DEF SnapInv
    <3> QED
      BY <3>2, <3>3
  <2>4. reader' = [r \in Readers |-> reader'[r]]
    BY <1>4 DEF SnapTick
  <2> QED
    BY <2>1, <2>2, <2>3, <2>4 DEF SnapInv
<1> QED
  BY <1>1, <1>2, <1>3, <1>4 DEF SnapNext

\* Every snapshot, stored or under way, is dated right.
LEMMA SnapshotDated == SnapSpec => []SnapInv
<1>1. SnapInit => SnapInv
  BY NewReader, Blanks DEF SnapInit, SnapInv
<1>2. SnapInv /\ [SnapNext]_snapVars => SnapInv'
  <2> SUFFICES ASSUME SnapInv, [SnapNext]_snapVars PROVE SnapInv'
    OBVIOUS
  <2>1. CASE SnapNext
    BY <2>1, SnapStep
  <2>2. CASE UNCHANGED snapVars
    BY <2>2 DEF snapVars, SnapInv
  <2> QED
    BY <2>1, <2>2
<1> QED
  BY <1>1, <1>2, PTL DEF SnapSpec

\* A snapshot from the cache has no list older than snapshotTTL nor older than the age it
\* shows, whatever requests list at once and in whichever order they store (snapshot).
THEOREM SnapshotNotStale == SnapSpec => []NotStale
<1>1. SnapInv => NotStale
  <2> SUFFICES ASSUME SnapInv, NEW r \in Readers, reader[r].pc = "served", reader[r].cached,
                      NEW t \in reader[r].snap.reads
               PROVE  time - t < TTL /\ reader[r].snap.at <= t
    BY DEF NotStale
  <2>1. time \in Nat /\ Dated(reader[r].snap, time) /\ time - reader[r].snap.at < TTL
    BY DEF SnapInv
  <2> QED
    BY <2>1, SnapAssumption DEF Dated
<1> QED
  BY <1>1, SnapshotDated, PTL
------------------------------------------------------------------------------
(* What a snapshot shows of the items it found.  Loops over lists are recursive     *)
(* functions; a fact about all their turns is proved for the least turn that would  *)
(* break it.                                                                         *)

Severities == {"crit", "warn"}

\* Every set of numbers that is not empty has a smallest.
LEMMA Smallest ==
    ASSUME NEW S, S \subseteq Nat, S # {}
    PROVE  \E n \in S : n \in Nat /\ \A m \in S : n <= m
<1>1. IsWellFoundedOn(OpToRel(<, Nat), Nat)
  BY NatLessThanWellFounded
<1>2. PICK n \in S : \A m \in S : ~(<<m, n>> \in OpToRel(<, Nat))
  BY <1>1, WFMin, Zenon
<1>3. ASSUME NEW m \in S PROVE n <= m
  <2>1. m \in Nat /\ n \in Nat
    OBVIOUS
  <2>2. ~(m < n)
    BY <1>2, <2>1 DEF OpToRel
  <2> QED BY <2>1, <2>2
<1> QED BY <1>3

LEMMA MinIn == ASSUME NEW S, S \subseteq Nat, S # {} PROVE Min(S) \in S /\ \A m \in S : Min(S) <= m
  BY Smallest DEF Min

\* Some element of a finite set is not smaller than the others, by any measure.
LEMMA Largest ==
    ASSUME NEW B, IsFiniteSet(B), B # {}, NEW d, \A x \in B : d[x] \in Nat
    PROVE  \E o \in B : \A x \in B : d[x] <= d[o]
<1> DEFINE Over(o) == {x \in B : d[o] < d[x]}
           S == {Cardinality(Over(o)) : o \in B}
<1>1. \A o \in B : IsFiniteSet(Over(o)) /\ Cardinality(Over(o)) \in Nat
  BY FS_Subset, FS_CardinalityType
<1>2. S \subseteq Nat /\ S # {}
  BY <1>1
<1>3. PICK n \in S : n \in Nat /\ \A m \in S : n <= m
  <2> HIDE DEF S
  <2> QED BY <1>2, Smallest, Zenon
<1>4. PICK o \in B : n = Cardinality(Over(o))
  OBVIOUS
<1>5. ASSUME NEW x \in B, d[o] < d[x] PROVE FALSE
  <2>1. Over(x) \subseteq Over(o) /\ x \in Over(o) /\ x \notin Over(x)
    BY <1>5
  <2>2. PICK X, Y : X = Over(x) /\ Y = Over(o)
    OBVIOUS
  <2>3. IsFiniteSet(X) /\ IsFiniteSet(Y) /\ X \in SUBSET Y /\ X # Y
    BY <1>1, <2>1, <2>2
  <2>4. Cardinality(X) <= Cardinality(Y) /\ Cardinality(Y) # Cardinality(X)
    BY <2>3, FS_Subset
  <2>5. Cardinality(X) \in Nat /\ Cardinality(Y) \in Nat
    BY <2>3, FS_CardinalityType
  <2>6. Cardinality(Y) <= Cardinality(X)
    BY <1>3, <1>4, <2>2
  <2> QED BY <2>4, <2>5, <2>6
<1> QED BY <1>5

LEMMA MaxIn ==
    ASSUME NEW S, S \subseteq Nat, S # {}, IsFiniteSet(S)
    PROVE  Max(S) \in S /\ \A m \in S : m <= Max(S)
<1>1. PICK d : d = [x \in S |-> x]
  OBVIOUS
<1>2. \A x \in S : d[x] \in Nat
  BY <1>1
<1>3. PICK o \in S : \A x \in S : d[x] <= d[o]
  BY <1>2, Largest, Zenon
<1>4. \A x \in S : o >= x
  BY <1>1, <1>3
<1> QED BY <1>4 DEF Max

\* The number below the smallest is not in the set.
LEMMA Least ==
    ASSUME NEW S, S \subseteq Nat, S # {}
    PROVE  \E n \in S : n \in Nat /\ (n # 0 => n - 1 \in Nat /\ n - 1 \notin S)
<1>1. PICK n \in S : n \in Nat /\ \A m \in S : n <= m
  BY Smallest
<1> QED BY <1>1

\* The loop over the first n objects of a list.
IsLoop(f, kind, list, n) ==
    f = [i \in 0..n |-> IF i = 0 THEN <<>> ELSE LET got == f[i - 1] IN Adds(kind, got, list[i])]

LEMMA LoopExists == ASSUME NEW kind, NEW list PROVE \A n \in Nat : \E f : IsLoop(f, kind, list, n)
<1> DEFINE S == {n \in Nat : ~ \E f : IsLoop(f, kind, list, n)}
<1> SUFFICES ASSUME S # {} PROVE FALSE
  OBVIOUS
<1>1. PICK n \in S : n \in Nat /\ (n # 0 => n - 1 \in Nat /\ n - 1 \notin S)
  BY Least, Zenon
<1>2. n # 0
  <2> DEFINE f == [i \in 0..0 |-> <<>>]
  <2>1. f = [i \in 0..0 |-> IF i = 0 THEN <<>> ELSE Adds(kind, f[i - 1], list[i])]
    OBVIOUS
  <2>2. IsLoop(f, kind, list, 0)
    BY <2>1, Zenon DEF IsLoop
  <2> QED BY <2>2
<1>3. PICK f : IsLoop(f, kind, list, n - 1)
  BY <1>1, <1>2
<1>4. \E g : IsLoop(g, kind, list, n)
  <2> DEFINE g == [i \in 0..n |-> IF i = 0 THEN <<>> ELSE Adds(kind, f[i - 1], list[i])]
  <2>1. \A i \in 0..(n - 1) : f[i] = g[i]
    <3>1. f = [i \in 0..(n - 1) |-> IF i = 0 THEN <<>> ELSE Adds(kind, f[i - 1], list[i])]
      BY <1>3, Zenon DEF IsLoop
    <3> QED BY <1>1, <1>2, <3>1
  <2>2. ASSUME NEW i \in 0..n, i # 0 PROVE f[i - 1] = g[i - 1]
    <3>1. i - 1 \in 0..(n - 1)
      BY <1>1, <2>2
    <3> HIDE DEF g
    <3> QED BY <2>1, <3>1
  <2>3. g = [i \in 0..n |-> IF i = 0 THEN <<>> ELSE Adds(kind, g[i - 1], list[i])]
    BY <2>2
  <2>4. IsLoop(g, kind, list, n)
    BY <2>3, Zenon DEF IsLoop
  <2> QED BY <2>4
<1> QED BY <1>4

\* What the loop gathers: severities, or the reasons of the Pods in the list.
Gathers(kind, list) ==
    IF kind = "Pod" THEN {PodReason(list[i]) : i \in 1..Len(list)} \ {<<>>} ELSE Severities

LEMMA AttendSeverities == ASSUME NEW kind, NEW o PROVE attend(kind, o) \in Seq(Severities)
<1> DEFINE If(b, s) == IF b THEN <<s>> ELSE <<>>
<1>0. <<>> \in Seq(Severities) /\ <<"crit">> \in Seq(Severities) /\ <<"warn">> \in Seq(Severities)
  <2>1. "crit" \in Severities /\ "warn" \in Severities
    BY DEF Severities
  <2>2. \A x \in Severities : <<x>> \in Seq(Severities)
    OBVIOUS
  <2>3. <<>> \in Seq(Severities)
    OBVIOUS
  <2> QED BY <2>1, <2>2, <2>3
<1>1. \A b : If(b, "crit") \in Seq(Severities) /\ If(b, "warn") \in Seq(Severities)
  BY <1>0
<1> HIDE DEF If
<1>2. \A a, b, c : If(a, "crit") \o If(b, "warn") \o If(c, "warn") \in Seq(Severities)
  BY <1>1
<1>3. \A b, c : If(b, IF c THEN "crit" ELSE "warn") \in Seq(Severities)
  BY <1>1
<1>4. \A b, c : If(b, IF c THEN "warn" ELSE "crit") \in Seq(Severities)
  BY <1>1
<1>5. <<>> \in Seq(Severities)
  OBVIOUS
<1> USE DEF If
<1> QED BY <1>1, <1>2, <1>3, <1>4, <1>5 DEF attend

LEMMA PodReasonIs ==
    ASSUME NEW p
    PROVE  PodReason(p) = <<>> \/ \E r : PodReason(p) = <<r, "warn">> \/ PodReason(p) = <<r, "crit">>
<1>1. CASE p.phase = "Succeeded"
  BY <1>1 DEF PodReason
<1>2. CASE p.phase = "Failed"
  BY <1>2 DEF PodReason
<1>3. CASE p.phase # "Succeeded" /\ p.phase # "Failed" /\ p.waiting # ""
  BY <1>3 DEF PodReason
<1>4. CASE p.phase # "Succeeded" /\ p.phase # "Failed" /\ p.waiting = "" /\ p.phase = "Pending"
  BY <1>4 DEF PodReason
<1>5. CASE p.phase # "Succeeded" /\ p.phase # "Failed" /\ p.waiting = "" /\ p.phase # "Pending"
  BY <1>5 DEF PodReason
<1> QED BY <1>1, <1>2, <1>3, <1>4, <1>5

LEMMA AddsOne ==
    ASSUME NEW kind, NEW list, NEW i \in 1..Len(list), NEW got \in Seq(Gathers(kind, list))
    PROVE  Adds(kind, got, list[i]) \in Seq(Gathers(kind, list))
<1>1. CASE kind # "Pod"
  <2>1. Gathers(kind, list) = Severities
    BY <1>1 DEF Gathers
  <2>2. PICK a : a = attend(kind, list[i]) /\ a \in Seq(Severities)
    BY AttendSeverities
  <2>3. got \o a \in Seq(Severities)
    BY <2>1, <2>2
  <2>4. Adds(kind, got, list[i]) = got \o a
    BY <1>1, <2>2 DEF Adds
  <2> QED BY <2>1, <2>3, <2>4
<1>2. CASE kind = "Pod"
  <2>1. PICK r : r = PodReason(list[i])
    OBVIOUS
  <2>2. r # <<>> => r \in Gathers(kind, list)
    BY <1>2, <2>1 DEF Gathers
  <2>3. Adds(kind, got, list[i]) = got \/ (r # <<>> /\ Adds(kind, got, list[i]) = Append(got, r))
    BY <1>2, <2>1 DEF Adds
  <2>4. PICK G : G = Gathers(kind, list)
    OBVIOUS
  <2>5. r \in G => Append(got, r) \in Seq(G)
    BY <2>4
  <2> QED BY <2>2, <2>3, <2>4, <2>5
<1> QED BY <1>1, <1>2

\* Every list of objects gives a sequence of severities.
LEMMA KindItemsType ==
    ASSUME NEW kind, NEW list, Len(list) \in Nat
    PROVE  KindItems(kind, list) \in Seq(Severities)
<1> DEFINE G == Gathers(kind, list)
<1>1. PICK f : IsLoop(f, kind, list, Len(list)) /\ Items(kind, list) = f[Len(list)]
  <2> DEFINE f == CHOOSE f : IsLoop(f, kind, list, Len(list))
  <2>1. IsLoop(f, kind, list, Len(list))
    BY LoopExists, Zenon
  <2>2. Items(kind, list) = f[Len(list)]
    BY Zenon DEF Items, IsLoop
  <2> QED BY <2>1, <2>2
<1>2. f[0] = <<>> /\ \A i \in 1..Len(list) : f[i] = Adds(kind, f[i - 1], list[i])
  <2>1. f = [i \in 0..Len(list) |-> IF i = 0 THEN <<>> ELSE Adds(kind, f[i - 1], list[i])]
    BY <1>1, Zenon DEF IsLoop
  <2> QED BY <2>1
<1> HIDE DEF G
<1>3. \A i \in 0..Len(list) : f[i] \in Seq(G)
  <2> DEFINE S == {i \in 0..Len(list) : f[i] \notin Seq(G)}
  <2> SUFFICES ASSUME S # {} PROVE FALSE
    OBVIOUS
  <2>0. S \subseteq Nat /\ <<>> \in Seq(G)
    OBVIOUS
  <2>1. PICK n \in S : n \in Nat /\ (n # 0 => n - 1 \in Nat /\ n - 1 \notin S)
    BY <2>0, Least, Zenon
  <2>2. n # 0
    BY <1>2, <2>0
  <2>3. n \in 1..Len(list) /\ f[n - 1] \in Seq(G)
    BY <2>1, <2>2
  <2>4. Adds(kind, f[n - 1], list[n]) \in Seq(G)
    BY <2>3, AddsOne DEF G
  <2> QED BY <1>2, <2>3, <2>4
<1>4. PICK w : w = Items(kind, list) /\ w \in Seq(G)
  BY <1>1, <1>3
<1>5. CASE kind # "Pod"
  BY <1>4, <1>5 DEF KindItems, G, Gathers
<1>6. CASE kind = "Pod"
  <2>1. \A x \in G : x[2] \in Severities
    BY <1>6, PodReasonIs DEF G, Gathers, Severities
  <2>2. KindItems(kind, list) = [k \in DOMAIN w |-> w[k][2]]
    BY <1>4, <1>6 DEF KindItems, snapshotPods
  <2>3. DOMAIN w = 1..Len(w) /\ Len(w) \in Nat /\ \A k \in 1..Len(w) : w[k] \in G
    BY <1>4
  <2>4. [k \in 1..Len(w) |-> w[k][2]] \in Seq(Severities)
    BY <2>1, <2>3
  <2> QED BY <2>2, <2>3, <2>4
<1> QED BY <1>5, <1>6

LEMMA MinOfTwo ==
    ASSUME NEW a \in Nat, NEW b \in Nat
    PROVE  Min({a, b}) = IF a <= b THEN a ELSE b
<1> DEFINE m == IF a <= b THEN a ELSE b
<1>1. m \in {a, b} /\ \A y \in {a, b} : m <= y
  OBVIOUS
<1>2. \A x \in {a, b} : (\A y \in {a, b} : x <= y) => x = m
  OBVIOUS
<1> HIDE DEF m
<1>3. Min({a, b}) = CHOOSE x \in {a, b} : \A y \in {a, b} : x <= y
  BY DEF Min
<1>4. Min({a, b}) = m
  BY <1>1, <1>2, <1>3
<1> QED BY <1>4 DEF m

\* The critical items of a sequence are at most all of them.
LEMMA CritsNumber ==
    ASSUME NEW items \in Seq(Severities)
    PROVE  Crits(items) \in Nat /\ Crits(items) <= Len(items)
<1> DEFINE at == {i \in DOMAIN items : items[i] = "crit"}
<1>1. DOMAIN items = 1..Len(items) /\ Len(items) \in Nat
  OBVIOUS
<1>2. IsFiniteSet(1..Len(items)) /\ Cardinality(1..Len(items)) = Len(items)
  BY <1>1, FS_Interval
<1>3. at \subseteq 1..Len(items)
  BY <1>1
<1>4. IsFiniteSet(at) /\ Cardinality(at) <= Cardinality(1..Len(items))
  BY <1>2, <1>3, FS_Subset
<1>5. Cardinality(at) \in Nat
  BY <1>4, FS_CardinalityType
<1> QED BY <1>2, <1>4, <1>5 DEF Crits

\* A snapshot whose lists are under way, and one that was cut.
Untouched(s) == s.found \in Seq(Severities) /\ s.attention = s.found /\ s.more = 0

Trimmed(s) ==
    /\ Len(s.attention) + s.more = Len(s.found)
    /\ Crits(s.attention) = Min({MaxItems, Crits(s.found)})

\* The items kept after the sort are the critical ones, as far as there is room.
LEMMA CutCounts ==
    ASSUME NEW a \in Seq(Severities), NEW sorted, NEW fits, NEW kept,
           sorted = [i \in DOMAIN a |-> IF i <= Crits(a) THEN "crit" ELSE "warn"],
           fits = Min({MaxItems, Len(sorted)}), kept = SubSeq(sorted, 1, fits)
    PROVE  /\ Len(kept) + (Len(sorted) - fits) = Len(a)
           /\ Crits(kept) = Min({MaxItems, Crits(a)})
<1>1. PICK n : n = Crits(a) /\ n \in Nat /\ n <= Len(a)
  BY CritsNumber
<1>2. DOMAIN a = 1..Len(a) /\ Len(a) \in Nat
  OBVIOUS
<1>3. sorted = [i \in 1..Len(a) |-> IF i <= n THEN "crit" ELSE "warn"]
  BY <1>1, <1>2
<1>4. sorted \in Seq(Severities) /\ Len(sorted) = Len(a)
  BY <1>2, <1>3 DEF Severities
<1>5. fits \in Nat /\ fits <= Len(a) /\ fits <= MaxItems /\ (fits = MaxItems \/ fits = Len(a))
  BY <1>2, <1>4, MinOfTwo, SnapAssumption
<1>6. Len(kept) = fits /\ DOMAIN kept = 1..fits /\ \A i \in 1..fits : kept[i] = sorted[i]
  <2>2. DOMAIN kept = 1..fits
    BY <1>4, <1>5
  <2>3. Len(kept) = fits
    BY <1>4, <1>5
  <2>4. \A i \in 1..fits : kept[i] = sorted[i]
    BY <1>4, <1>5
  <2> QED BY <2>2, <2>3, <2>4
<1>7. {i \in DOMAIN kept : kept[i] = "crit"} = 1..Min({MaxItems, n})
  <2>1. DOMAIN kept = 1..fits
    BY <1>6
  <2>2. \A i \in 1..fits : kept[i] = "crit" <=> i <= n
    <3>1. \A i \in 1..fits : i \in 1..Len(a)
      BY <1>2, <1>5
    <3>2. \A i \in 1..fits : kept[i] = IF i <= n THEN "crit" ELSE "warn"
      BY <1>3, <1>6, <3>1, Zenon
    <3>3. "crit" # "warn"
      OBVIOUS
    <3> QED BY <3>2, <3>3, Zenon
  <2>3. Min({MaxItems, n}) = IF MaxItems <= n THEN MaxItems ELSE n
    BY <1>1, MinOfTwo, SnapAssumption
  <2>4. \A i \in Nat : i \in 1..fits /\ i <= n <=> i \in 1..Min({MaxItems, n})
    BY <1>1, <1>2, <1>5, <2>3, SnapAssumption
  <2>5. \A i \in 1..Min({MaxItems, n}) : i \in Nat
    BY <1>1, <2>3, SnapAssumption
  <2>6. \A i \in 1..fits : i \in Nat
    BY <1>5
  <2>7. {i \in 1..fits : kept[i] = "crit"} = 1..Min({MaxItems, n})
    BY <2>2, <2>4, <2>5, <2>6
  <2> QED BY <2>1, <2>7
<1>8. Min({MaxItems, n}) \in Nat
  BY <1>1, MinOfTwo, SnapAssumption
<1>9. Crits(kept) = Min({MaxItems, n})
  <2>1. PICK k : k = Min({MaxItems, n}) /\ k \in Nat
    BY <1>8
  <2>2. Cardinality(1..k) = k
    BY <2>1, FS_Interval
  <2> QED BY <1>7, <2>1, <2>2 DEF Crits
<1> QED BY <1>1, <1>2, <1>4, <1>5, <1>6, <1>9

LEMMA CutTrims ==
    ASSUME NEW s, IsSnap(s), Untouched(s)
    PROVE  Trimmed(Cut(s))
<1>1. PICK sorted, fits, kept :
        /\ sorted = [i \in DOMAIN s.attention |-> IF i <= Crits(s.attention) THEN "crit" ELSE "warn"]
        /\ fits = Min({MaxItems, Len(sorted)}) /\ kept = SubSeq(sorted, 1, fits)
        /\ Cut(s) = [s EXCEPT !.attention = kept, !.more = Len(sorted) - fits]
  BY Zenon DEF Cut
<1>2. PICK a, b, c, d, e, m : /\ a = s.at /\ b = s.reads /\ c = s.found /\ d = s.attention /\ e = s.more
                              /\ m = Len(sorted) - fits
  OBVIOUS
<1>3. s = [at |-> a, reads |-> b, found |-> c, attention |-> d, more |-> e]
  BY <1>2 DEF IsSnap
<1>4. Cut(s) = [at |-> a, reads |-> b, found |-> c, attention |-> kept, more |-> m]
  BY <1>1, <1>2, <1>3
<1>5. Cut(s).found = c /\ Cut(s).attention = kept /\ Cut(s).more = m
  BY <1>4
<1>6. c \in Seq(Severities) /\ d = c
  BY <1>2 DEF Untouched
<1>7. Len(kept) + m = Len(c) /\ Crits(kept) = Min({MaxItems, Crits(c)})
  <2>1. sorted = [i \in DOMAIN c |-> IF i <= Crits(c) THEN "crit" ELSE "warn"]
    BY <1>1, <1>2, <1>6
  <2>2. fits = Min({MaxItems, Len(sorted)}) /\ kept = SubSeq(sorted, 1, fits)
    BY <1>1
  <2>3. /\ Len(kept) + (Len(sorted) - fits) = Len(c)
        /\ Crits(kept) = Min({MaxItems, Crits(c)})
    BY ONLY <1>6, <2>1, <2>2, CutCounts
  <2> QED BY <1>2, <2>3
<1> QED BY <1>5, <1>7 DEF Trimmed

LEMMA BlankCut ==
    /\ Trimmed(NoSnapshot)
    /\ \A now : Untouched([NoSnapshot EXCEPT !.at = now])
<1>1. NoSnapshot.found = <<>> /\ NoSnapshot.attention = <<>> /\ NoSnapshot.more = 0
  BY DEF NoSnapshot
<1>2. <<>> \in Seq(Severities)
  OBVIOUS
<1>3. Trimmed(NoSnapshot)
  <2>0. Len(<<>>) = 0
    OBVIOUS
  <2>1. PICK e : e = <<>> /\ e \in Seq(Severities) /\ Len(e) = 0
    BY <1>2, <2>0, Zenon
  <2>2. Crits(e) = 0
    <3>1. Crits(e) \in Nat /\ Crits(e) <= 0
      BY <2>1, CritsNumber
    <3> QED BY <3>1
  <2>3. Min({MaxItems, 0}) = 0
    BY MinOfTwo, SnapAssumption
  <2>4. Len(e) + 0 = Len(e)
    BY <2>1
  <2> QED BY <1>1, <2>1, <2>2, <2>3, <2>4, Zenon DEF Trimmed
<1>4. ASSUME NEW now PROVE Untouched([NoSnapshot EXCEPT !.at = now])
  <2>1. PICK u : u = [NoSnapshot EXCEPT !.at = now]
    OBVIOUS
  <2>2. u.found = <<>> /\ u.attention = <<>> /\ u.more = 0
    BY <2>1 DEF NoSnapshot
  <2> QED BY <1>2, <2>1, <2>2 DEF Untouched
<1> QED BY <1>3, <1>4

\* Snapshots under way have all their items, and the lists still to come are lists of objects.
CutInv ==
    /\ Trimmed(byNS)
    /\ \A r \in Readers :
         /\ reader[r].pc = "list" => Untouched(reader[r].snap) /\ reader[r].left \in Seq(Kinds)
         /\ reader[r].pc = "served" => Trimmed(reader[r].snap)

\* One request's new state.
LEMMA CutReader ==
    ASSUME SnapInv, CutInv, NEW r \in Readers, NEW q, reader' = [reader EXCEPT ![r] = q], Trimmed(byNS'),
           q.pc = "list" => Untouched(q.snap) /\ q.left \in Seq(Kinds),
           q.pc = "served" => Trimmed(q.snap)
    PROVE  CutInv'
<1>1. reader'[r] = q /\ \A p \in Readers : p # r => reader'[p] = reader[p]
  BY DEF SnapInv
<1>2. \A p \in Readers :
         /\ reader'[p].pc = "list" => Untouched(reader'[p].snap) /\ reader'[p].left \in Seq(Kinds)
         /\ reader'[p].pc = "served" => Trimmed(reader'[p].snap)
  BY <1>1 DEF CutInv
<1> QED
  BY <1>2, Zenon DEF CutInv

LEMMA ListedKinds == ASSUME NEW ns PROVE Listed(ns) \in Seq(Kinds)
<1>1. \A x \in Kinds : <<x>> \in Seq(Kinds)
  OBVIOUS
<1>2. \A a, b \in Kinds : <<a, b>> \in Seq(Kinds)
  OBVIOUS
<1>3. \A a, b, c, d, e, f, g \in Kinds : <<a, b, c, d, e, f, g>> \in Seq(Kinds)
  OBVIOUS
<1>4. /\ "Deployment" \in Kinds /\ "StatefulSet" \in Kinds /\ "DaemonSet" \in Kinds /\ "CronJob" \in Kinds
      /\ "Job" \in Kinds /\ "Pod" \in Kinds /\ "PersistentVolumeClaim" \in Kinds
      /\ "Node" \in Kinds /\ "PersistentVolume" \in Kinds
  BY DEF Kinds
<1> QED BY <1>2, <1>3, <1>4 DEF Listed

\* One list's items are added to both.
LEMMA ReadCut ==
    ASSUME NEW s, IsSnap(s), Untouched(s), NEW items \in Seq(Severities), NEW now, NEW u,
           u = [s EXCEPT !.reads = now, !.found = s.found \o items, !.attention = s.attention \o items]
    PROVE  Untouched(u)
<1>1. PICK a, b, c, d, e, x, y : /\ a = s.at /\ b = s.reads /\ c = s.found /\ d = s.attention /\ e = s.more
                                 /\ x = s.found \o items /\ y = s.attention \o items
  OBVIOUS
<1>2. s = [at |-> a, reads |-> b, found |-> c, attention |-> d, more |-> e]
  BY <1>1 DEF IsSnap
<1>3. u = [at |-> a, reads |-> now, found |-> x, attention |-> y, more |-> e]
  BY <1>1, <1>2
<1>4. u.found = x /\ u.attention = y /\ u.more = e
  BY ONLY <1>3
<1>5. c \in Seq(Severities) /\ d = c /\ e = 0
  BY <1>1 DEF Untouched
<1>6. x = c \o items /\ y = c \o items
  BY <1>1, <1>5
<1>7. c \o items \in Seq(Severities)
  BY <1>5
<1> QED BY <1>4, <1>5, <1>6, <1>7, Zenon DEF Untouched

LEMMA CutStep ==
    ASSUME SnapInv, CutInv, SnapNext
    PROVE  CutInv'
<1>1. ASSUME NEW r \in Readers, NEW refresh \in BOOLEAN, GetSnapshot(r, refresh)
      PROVE  CutInv'
  <2> DEFINE fresh == byNS.at # 0 /\ ~refresh /\ time - byNS.at < TTL
  <2>1. PICK u, left, served, listing :
           /\ u = [NoSnapshot EXCEPT !.at = time] /\ left = Listed(scope)
           /\ served = [pc |-> "served", left |-> <<>>, snap |-> byNS, cached |-> TRUE]
           /\ listing = [pc |-> "list", left |-> left, snap |-> u, cached |-> FALSE]
           /\ reader' = [reader EXCEPT ![r] = IF fresh THEN served ELSE listing]
    BY <1>1, Zenon DEF GetSnapshot
  <2>2. byNS' = byNS /\ Trimmed(byNS)
    BY <1>1 DEF GetSnapshot, CutInv
  <2>3. Untouched(u) /\ left \in Seq(Kinds)
    BY <2>1, BlankCut, ListedKinds
  <2>4. served.pc = "served" /\ served.snap = byNS /\ listing.pc = "list" /\ listing.snap = u /\ listing.left = left
    BY <2>1
  <2>5. CASE fresh
    BY <2>1, <2>2, <2>4, <2>5, CutReader
  <2>6. CASE ~fresh
    BY <2>1, <2>2, <2>3, <2>4, <2>6, CutReader
  <2> QED
    BY <2>5, <2>6
<1>2. ASSUME NEW r \in Readers, ListKind(r)
      PROVE  CutInv'
  <2>1. PICK s, kind, left, result, items, u :
           /\ s = reader[r].snap /\ kind = Head(reader[r].left) /\ left = Tail(reader[r].left)
           /\ result \in Found[kind]
           /\ items = IF result.failed THEN <<>> ELSE KindItems(kind, result.list)
           /\ u = [s EXCEPT !.reads = s.reads \cup {time}, !.found = s.found \o items,
                            !.attention = s.attention \o items]
           /\ reader' = [reader EXCEPT ![r].left = left, ![r].snap = u]
    <3>1. PICK result \in Found[Head(reader[r].left)] :
            LET items == IF result.failed THEN <<>> ELSE KindItems(Head(reader[r].left), result.list)
            IN reader' = [reader EXCEPT ![r].left = Tail(reader[r].left),
                 ![r].snap = [reader[r].snap EXCEPT !.reads = reader[r].snap.reads \cup {time},
                     !.found = reader[r].snap.found \o items, !.attention = reader[r].snap.attention \o items]]
      BY <1>2, Zenon DEF ListKind
    <3> QED
      BY <3>1, Zenon
  <2>2. byNS' = byNS /\ reader[r].pc = "list" /\ reader[r].left # <<>>
    BY <1>2 DEF ListKind
  <2>3. Trimmed(byNS) /\ Untouched(s) /\ reader[r].left \in Seq(Kinds) /\ IsSnap(s)
    BY <2>1, <2>2 DEF CutInv, SnapInv
  <2>4. kind \in Kinds /\ left \in Seq(Kinds)
    BY <2>1, <2>2, <2>3
  <2>5. items \in Seq(Severities)
    <3>1. <<>> \in Seq(Severities)
      OBVIOUS
    <3>2. Len(result.list) \in Nat
      BY <2>1, <2>4, FoundAssumption
    <3>3. KindItems(kind, result.list) \in Seq(Severities)
      BY <3>2, KindItemsType
    <3> QED BY <2>1, <3>1, <3>3
  <2>6. Untouched(u)
    BY <2>1, <2>3, <2>5, ReadCut
  <2>7. PICK p, q : p = reader[r] /\ q = [p EXCEPT !.left = left, !.snap = u]
    OBVIOUS
  <2>8. reader = [x \in Readers |-> reader[x]] /\ p = [pc |-> p.pc, left |-> p.left, snap |-> p.snap, cached |-> p.cached]
    BY <2>7 DEF SnapInv, IsReader
  <2>9. q = [pc |-> p.pc, left |-> left, snap |-> u, cached |-> p.cached]
    BY <2>7, <2>8
  <2>10. q.pc = "list" /\ q.left = left /\ q.snap = u
    BY <2>2, <2>7, <2>9
  <2>11. reader' = [reader EXCEPT ![r] = q]
    BY <2>1, <2>7, <2>8
  <2> QED
    BY <2>2, <2>3, <2>4, <2>6, <2>10, <2>11, CutReader
<1>3. ASSUME NEW r \in Readers, StoreSnapshot(r)
      PROVE  CutInv'
  <2>1. PICK u : /\ u = Cut(reader[r].snap) /\ byNS' = u
                 /\ reader' = [reader EXCEPT ![r].pc = "served", ![r].snap = u]
    BY <1>3, Zenon DEF StoreSnapshot
  <2>2. reader[r].pc = "list"
    BY <1>3 DEF StoreSnapshot
  <2>3. IsSnap(reader[r].snap) /\ Untouched(reader[r].snap)
    BY <2>2 DEF SnapInv, CutInv
  <2>4. Trimmed(u)
    BY <2>1, <2>3, CutTrims
  <2>5. PICK p, q : p = reader[r] /\ q = [p EXCEPT !.pc = "served", !.snap = u]
    OBVIOUS
  <2>6. reader = [x \in Readers |-> reader[x]] /\ p = [pc |-> p.pc, left |-> p.left, snap |-> p.snap, cached |-> p.cached]
    BY <2>5 DEF SnapInv, IsReader
  <2>7. q = [pc |-> "served", left |-> p.left, snap |-> u, cached |-> p.cached]
    BY <2>5, <2>6
  <2>8. q.pc = "served" /\ q.snap = u
    BY <2>7
  <2>9. reader' = [reader EXCEPT ![r] = q]
    BY <2>1, <2>5, <2>6
  <2> QED
    BY <2>1, <2>4, <2>8, <2>9, CutReader
<1>4. CASE SnapTick
  <2>1. byNS' = byNS /\ Trimmed(byNS)
    BY <1>4 DEF SnapTick, CutInv
  <2>2. ASSUME NEW r \in Readers
        PROVE  /\ reader'[r].pc = "list" => Untouched(reader'[r].snap) /\ reader'[r].left \in Seq(Kinds)
               /\ reader'[r].pc = "served" => Trimmed(reader'[r].snap)
    <3>1. reader'[r] = IF reader[r].pc = "served" THEN NoReader ELSE reader[r]
      BY <1>4 DEF SnapTick
    <3> QED BY <3>1, NewReader DEF CutInv
  <2> QED
    BY <2>1, <2>2, Zenon DEF CutInv
<1> QED
  BY <1>1, <1>2, <1>3, <1>4 DEF SnapNext

\* Whatever requests list at once, whichever lists fail and whatever the lists return, a
\* request is answered with lists that are recent, all items it does not show are counted
\* and nothing critical makes room for what is not (snapshot, snapshotNamespace, snapshotPods).
THEOREM SnapshotFreshAlways == SnapSpec => []SnapshotFresh
<1>1. SnapInit => CutInv
  BY BlankCut, NewReader DEF SnapInit, CutInv
<1>2. SnapInv /\ CutInv /\ [SnapNext]_snapVars => CutInv'
  <2> SUFFICES ASSUME SnapInv, CutInv, [SnapNext]_snapVars PROVE CutInv'
    OBVIOUS
  <2>1. CASE SnapNext
    BY <2>1, CutStep
  <2>2. CASE UNCHANGED snapVars
    BY <2>2 DEF snapVars, CutInv
  <2> QED
    BY <2>1, <2>2
<1>3. CutInv => CutSound
  BY Zenon DEF CutInv, CutSound, Trimmed
<1> QED
  BY <1>1, <1>2, <1>3, SnapshotDated, SnapshotNotStale, PTL DEF SnapSpec, SnapshotFresh

------------------------------------------------------------------------------
(* Sums of cardinalities.  The fold behind Tally takes elements in some order; the     *)
(* number of elements of the union is what it yields, for every subset.                *)

\* The elements counted so far.
Union(W, s) == UNION {W[x] : x \in s}

\* Finite sets, none of which has an element of another.
Apart(W, S) ==
    /\ \A x \in S : IsFiniteSet(W[x])
    /\ \A x, y \in S : x # y => W[x] \cap W[y] = {}

\* One more set to count.
LEMMA UnionMore ==
    ASSUME NEW W, NEW S, Apart(W, S), NEW s \in SUBSET S, NEW x \in s, IsFiniteSet(Union(W, s \ {x}))
    PROVE  /\ IsFiniteSet(Union(W, s))
           /\ Cardinality(Union(W, s)) = Cardinality(W[x]) + Cardinality(Union(W, s \ {x}))
<1>1. Union(W, s) = W[x] \cup Union(W, s \ {x})
  BY DEF Union
<1>2. W[x] \cap Union(W, s \ {x}) = {}
  BY DEF Union, Apart
<1>3. IsFiniteSet(W[x])
  BY DEF Apart
<1>4. PICK A, B : A = W[x] /\ B = Union(W, s \ {x})
  OBVIOUS
<1>5. /\ IsFiniteSet(A \cup B)
      /\ Cardinality(A \cup B) = Cardinality(A) + Cardinality(B) - Cardinality(A \cap B)
  BY <1>3, <1>4, FS_Union
<1>6. Cardinality(A \cap B) = 0 /\ Cardinality(A) \in Nat /\ Cardinality(B) \in Nat
  BY <1>2, <1>3, <1>4, FS_EmptySet, FS_CardinalityType
<1>7. Cardinality(A \cup B) = Cardinality(A) + Cardinality(B)
  BY <1>5, <1>6
<1> QED BY <1>1, <1>4, <1>5, <1>7

LEMMA UnionFinite ==
    ASSUME NEW W, NEW S, IsFiniteSet(S), Apart(W, S)
    PROVE  \A s \in SUBSET S : IsFiniteSet(Union(W, s))
<1> DEFINE bad == {n \in Nat : \E s \in SUBSET S : Cardinality(s) = n /\ ~IsFiniteSet(Union(W, s))}
<1>1. \A s \in SUBSET S : IsFiniteSet(s) /\ Cardinality(s) \in Nat
  BY FS_Subset, FS_CardinalityType
<1> SUFFICES ASSUME bad # {} PROVE FALSE
  BY <1>1
<1>2. PICK n \in bad : n \in Nat /\ \A m \in bad : n <= m
  BY Smallest
<1>3. PICK s \in SUBSET S : Cardinality(s) = n /\ ~IsFiniteSet(Union(W, s))
  BY <1>2
<1>4. s # {}
  <2>1. Union(W, {}) = {}
    BY DEF Union
  <2> QED BY <1>3, <2>1, FS_EmptySet
<1>5. PICK x \in s : TRUE
  BY <1>4
<1>6. s \ {x} \in SUBSET S /\ Cardinality(s \ {x}) = n - 1 /\ n - 1 \in Nat
  <2>1. IsFiniteSet(s)
    BY <1>1
  <2>2. Cardinality(s \ {x}) = n - 1
    BY <1>3, <2>1, FS_RemoveElement
  <2>3. Cardinality(s \ {x}) \in Nat
    BY <1>1
  <2> QED BY <2>2, <2>3
<1>7. IsFiniteSet(Union(W, s \ {x}))
  <2>1. n - 1 \notin bad
    BY <1>2, <1>6
  <2> QED BY <1>6, <2>1
<1> QED BY <1>3, <1>7, UnionMore

\* The fold of MapThenSumSet, over the subsets of S.
IsSum(g, f, S) ==
    g = [s \in SUBSET S |-> IF s = {} THEN 0 ELSE LET x == CHOOSE x \in s : TRUE IN f[x] + g[s \ {x}]]

\* Counting the union is such a fold.
LEMMA CountIsSum ==
    ASSUME NEW W, NEW S, IsFiniteSet(S), Apart(W, S), NEW f, \A x \in S : f[x] = Cardinality(W[x])
    PROVE  IsSum([s \in SUBSET S |-> Cardinality(Union(W, s))], f, S)
<1> DEFINE g == [s \in SUBSET S |-> Cardinality(Union(W, s))]
<1>1. ASSUME NEW s \in SUBSET S
      PROVE  g[s] = IF s = {} THEN 0 ELSE f[CHOOSE x \in s : TRUE] + g[s \ {CHOOSE x \in s : TRUE}]
  <2>1. CASE s = {}
    <3>1. Union(W, {}) = {}
      BY DEF Union
    <3> QED BY <2>1, <3>1, FS_EmptySet
  <2>2. CASE s # {}
    <3>1. PICK x : x = (CHOOSE y \in s : TRUE) /\ x \in s
      BY <2>2
    <3>2. s \ {x} \in SUBSET S
      OBVIOUS
    <3>3. IsFiniteSet(Union(W, s \ {x}))
      BY <3>2, UnionFinite
    <3>4. Cardinality(Union(W, s)) = Cardinality(W[x]) + Cardinality(Union(W, s \ {x}))
      <4>1. x \in s
        BY <3>1
      <4>2. /\ IsFiniteSet(Union(W, s))
            /\ Cardinality(Union(W, s)) = Cardinality(W[x]) + Cardinality(Union(W, s \ {x}))
        BY <4>1, <3>3, UnionMore, SMT
      <4> QED BY <4>2
    <3>5. g[s] = f[x] + g[s \ {x}]
      BY <3>1, <3>2, <3>4
    <3> QED BY <2>2, <3>1, <3>5
  <2> QED BY <2>1, <2>2
<1>2. g = [s \in SUBSET S |-> IF s = {} THEN 0 ELSE f[CHOOSE x \in s : TRUE] + g[s \ {CHOOSE x \in s : TRUE}]]
  BY <1>1, Zenon
<1> HIDE DEF g
<1>3. IsSum(g, f, S)
  BY <1>2, Zenon DEF IsSum
<1> QED BY <1>3 DEF g

\* Any such fold counts the union.
LEMMA SumIsCount ==
    ASSUME NEW W, NEW S, IsFiniteSet(S), Apart(W, S), NEW f, \A x \in S : f[x] = Cardinality(W[x]),
           NEW g, IsSum(g, f, S)
    PROVE  \A s \in SUBSET S : g[s] = Cardinality(Union(W, s))
<1> DEFINE bad == {n \in Nat : \E s \in SUBSET S : Cardinality(s) = n /\ g[s] # Cardinality(Union(W, s))}
<1>1. \A s \in SUBSET S : IsFiniteSet(s) /\ Cardinality(s) \in Nat
  BY FS_Subset, FS_CardinalityType
<1> SUFFICES ASSUME bad # {} PROVE FALSE
  BY <1>1
<1>2. PICK n \in bad : n \in Nat /\ \A m \in bad : n <= m
  BY Smallest
<1>3. PICK s \in SUBSET S : Cardinality(s) = n /\ g[s] # Cardinality(Union(W, s))
  BY <1>2
<1>4. g[s] = IF s = {} THEN 0 ELSE f[CHOOSE x \in s : TRUE] + g[s \ {CHOOSE x \in s : TRUE}]
  <2>1. g = [t \in SUBSET S |-> IF t = {} THEN 0 ELSE f[CHOOSE x \in t : TRUE] + g[t \ {CHOOSE x \in t : TRUE}]]
    BY Zenon DEF IsSum
  <2> QED BY <2>1, Zenon
<1>5. s # {}
  <2>1. Union(W, {}) = {}
    BY DEF Union
  <2> QED BY <1>3, <1>4, <2>1, FS_EmptySet
<1>6. PICK x : x = (CHOOSE y \in s : TRUE) /\ x \in s
  BY <1>5
<1>7. s \ {x} \in SUBSET S /\ Cardinality(s \ {x}) = n - 1 /\ n - 1 \in Nat
  <2>1. IsFiniteSet(s)
    BY <1>1
  <2>2. Cardinality(s \ {x}) = n - 1
    BY <1>3, <1>6, <2>1, FS_RemoveElement
  <2>3. Cardinality(s \ {x}) \in Nat
    BY <1>1
  <2> QED BY <2>2, <2>3
<1>8. g[s \ {x}] = Cardinality(Union(W, s \ {x}))
  <2>1. n - 1 \notin bad
    BY <1>2, <1>7
  <2> QED BY <1>7, <2>1
<1>9. IsFiniteSet(Union(W, s \ {x}))
  BY <1>7, UnionFinite
<1>10. Cardinality(Union(W, s)) = Cardinality(W[x]) + Cardinality(Union(W, s \ {x}))
  <2>1. x \in s
    BY <1>6
  <2>2. /\ IsFiniteSet(Union(W, s))
        /\ Cardinality(Union(W, s)) = Cardinality(W[x]) + Cardinality(Union(W, s \ {x}))
    BY ONLY <2>1, <1>9, UnionMore, Apart(W,S), s \in SUBSET S
  <2> QED BY <2>2
<1>11. g[s] = f[x] + g[s \ {x}]
  BY <1>4, <1>5, <1>6
<1>12. f[x] = Cardinality(W[x])
  BY <1>6
<1> QED BY <1>3, <1>8, <1>10, <1>11, <1>12

\* A sum of cardinalities is the cardinality of the union.
LEMMA TallyCounts ==
    ASSUME NEW W, NEW S, IsFiniteSet(S), Apart(W, S), NEW f, f = [x \in S |-> f[x]],
           \A x \in S : f[x] = Cardinality(W[x])
    PROVE  Tally(f) = Cardinality(Union(W, S))
<1> DEFINE g == CHOOSE g : IsSum(g, f, S)
<1>1. IsSum(g, f, S)
  BY CountIsSum, Zenon
<1>2. DOMAIN f = S
  OBVIOUS
<1>3. Tally(f) = g[S]
  BY <1>2, Zenon DEF Tally, MapThenSumSet, MapThenFoldSet, IsSum
<1> QED BY <1>1, <1>3, SumIsCount

------------------------------------------------------------------------------
(* Families.  Parents have shorter names, so the objects of a page are a forest and    *)
(* every object hangs below exactly one that has no parent.                            *)

\* Finitely many objects, each with a parent of less depth or none.
Forest(O, P, d) ==
    /\ IsFiniteSet(O) /\ NoObject \notin O
    /\ \A o \in O : d[o] \in Nat
    /\ \A o \in O : P[o] # NoObject => P[o] \in O /\ d[P[o]] < d[o]

\* Some object of a set is no deeper than the others, and some no less deep.
LEMMA Shallowest ==
    ASSUME NEW O, NEW P, NEW d, Forest(O, P, d), NEW B \in SUBSET O, B # {}
    PROVE  \E o \in B : \A x \in B : d[o] <= d[x]
<1> DEFINE S == {d[o] : o \in B}
<1>1. S \subseteq Nat /\ S # {}
  BY DEF Forest
<1>2. PICK n \in S : n \in Nat /\ \A m \in S : n <= m
  <2> HIDE DEF S
  <2> QED BY <1>1, Smallest, Zenon
<1>3. PICK o \in B : n = d[o]
  OBVIOUS
<1> QED BY <1>2, <1>3

LEMMA Deepest ==
    ASSUME NEW O, NEW P, NEW d, Forest(O, P, d), NEW B \in SUBSET O, B # {}
    PROVE  \E o \in B : \A x \in B : ~(d[o] < d[x])
<1>1. IsFiniteSet(B) /\ \A x \in B : d[x] \in Nat
  BY FS_Subset DEF Forest
<1>2. PICK o \in B : \A x \in B : d[x] <= d[o]
  BY <1>1, Largest, Zenon
<1> QED BY <1>1, <1>2

\* What hangs below o: whatever every set that has o and is closed under children has.
Desc(O, P, o) ==
    {x \in O : \A S \in SUBSET O : (o \in S /\ \A c \in O : P[c] \in S => c \in S) => x \in S}

\* The equation Tree solves.
IsTree(t, O, P) == t = [o \in O |-> {o} \cup UNION {t[c] : c \in {c \in O : P[c] = o}}]

LEMMA DescOpens ==
    ASSUME NEW O, NEW P, NEW o \in O
    PROVE  Desc(O, P, o) = {o} \cup UNION {Desc(O, P, c) : c \in {c \in O : P[c] = o}}
<1> DEFINE rest == UNION {Desc(O, P, c) : c \in {c \in O : P[c] = o}}
<1>1. \A x \in O : x \in Desc(O, P, x)
  BY DEF Desc
<1>2. \A x \in O : \A c \in O : P[c] \in Desc(O, P, x) => c \in Desc(O, P, x)
  BY DEF Desc
<1>3. \A x \in O : Desc(O, P, x) \subseteq O
  BY DEF Desc
<1>4. ASSUME NEW x, x \in Desc(O, P, o) PROVE x \in {o} \cup rest
  <2>1. {o} \cup rest \in SUBSET O
    BY <1>3
  <2>2. ASSUME NEW c \in O, P[c] \in {o} \cup rest PROVE c \in {o} \cup rest
    <3>1. CASE P[c] = o
      BY <1>1, <3>1
    <3>2. CASE P[c] \in rest
      BY <1>2, <3>2
    <3> QED BY <2>2, <3>1, <3>2
  <2>3. PICK S : S = {o} \cup rest
    OBVIOUS
  <2>4. S \in SUBSET O /\ o \in S /\ \A c \in O : P[c] \in S => c \in S
    BY <2>1, <2>2, <2>3
  <2>5. x \in S
    BY <1>4, <2>4 DEF Desc
  <2> QED BY <2>3, <2>5
<1>5. ASSUME NEW c \in O, P[c] = o, NEW x \in Desc(O, P, c) PROVE x \in Desc(O, P, o)
  BY <1>5 DEF Desc
<1> QED BY <1>1, <1>4, <1>5

LEMMA TreeSolves == ASSUME NEW O, NEW P PROVE IsTree(Tree(O, P), O, P)
<1> DEFINE t == [o \in O |-> Desc(O, P, o)]
<1>1. \A o \in O : Desc(O, P, o) = {o} \cup UNION {t[c] : c \in {c \in O : P[c] = o}}
  <2> SUFFICES ASSUME NEW o \in O
               PROVE  Desc(O, P, o) = {o} \cup UNION {t[c] : c \in {c \in O : P[c] = o}}
    OBVIOUS
  <2>1. {t[c] : c \in {c \in O : P[c] = o}} = {Desc(O, P, c) : c \in {c \in O : P[c] = o}}
    OBVIOUS
  <2> QED BY <2>1, DescOpens
<1>2. t = [o \in O |-> {o} \cup UNION {t[c] : c \in {c \in O : P[c] = o}}]
  BY <1>1, Zenon
<1> HIDE DEF t
<1>3. IsTree(t, O, P)
  BY <1>2, Zenon DEF IsTree
<1>4. Tree(O, P) = CHOOSE u : IsTree(u, O, P)
  BY Zenon DEF Tree, IsTree
<1> QED BY <1>3, <1>4, Zenon

\* The tree of a forest: what it has, in terms of parents.
LEMMA TreeOf ==
    ASSUME NEW O, NEW P, NEW d, Forest(O, P, d), NEW t, IsTree(t, O, P)
    PROVE  \A o \in O :
              /\ o \in t[o] /\ t[o] \subseteq O
              /\ \A x \in O : P[x] \in t[o] => x \in t[o]
              /\ \A x \in t[o] : x # o => P[x] \in t[o]
<1> DEFINE Good(o) == /\ o \in t[o] /\ t[o] \subseteq O
                      /\ \A x \in O : P[x] \in t[o] => x \in t[o]
                      /\ \A x \in t[o] : x # o => P[x] \in t[o]
           bad == {o \in O : ~Good(o)}
<1> SUFFICES ASSUME bad # {} PROVE FALSE
  OBVIOUS
<1>1. PICK o \in bad : \A x \in bad : ~(d[o] < d[x])
  <2>1. bad \in SUBSET O
    OBVIOUS
  <2> HIDE DEF bad
  <2> QED BY <2>1, Deepest, Zenon
<1>2. o \in O
  OBVIOUS
<1>3. t[o] = {o} \cup UNION {t[c] : c \in {c \in O : P[c] = o}}
  BY <1>2, Zenon DEF IsTree
<1>4. ASSUME NEW c \in O, P[c] = o PROVE Good(c)
  BY <1>1, <1>2, <1>4 DEF Forest
<1>5. o \in t[o] /\ t[o] \subseteq O
  BY <1>2, <1>3, <1>4
<1>6. ASSUME NEW x \in O, P[x] \in t[o] PROVE x \in t[o]
  <2>1. CASE P[x] = o
    BY <1>3, <1>4, <2>1
  <2>2. CASE P[x] # o
    BY <1>3, <1>4, <1>6, <2>2
  <2> QED BY <2>1, <2>2
<1>7. ASSUME NEW x \in t[o], x # o PROVE P[x] \in t[o]
  <2>1. PICK c \in O : P[c] = o /\ x \in t[c]
    BY <1>3, <1>7
  <2>2. CASE x = c
    BY <1>5, <2>1, <2>2
  <2>3. CASE x # c
    BY <1>3, <1>4, <2>1, <2>3
  <2> QED BY <2>2, <2>3
<1> QED BY <1>5, <1>6, <1>7

\* Every object hangs below one that has no parent, and below no other such.
LEMMA OneRoot ==
    ASSUME NEW O, NEW P, NEW d, Forest(O, P, d), NEW t, IsTree(t, O, P)
    PROVE  \A x \in O :
              /\ \E r \in O : P[r] = NoObject /\ x \in t[r]
              /\ \A r, q \in O : (P[r] = NoObject /\ P[q] = NoObject /\ x \in t[r] /\ x \in t[q]) => r = q
<1> DEFINE Good(x) == /\ \E r \in O : P[r] = NoObject /\ x \in t[r]
                      /\ \A r, q \in O : (P[r] = NoObject /\ P[q] = NoObject /\ x \in t[r] /\ x \in t[q])
                                          => r = q
           bad == {x \in O : ~Good(x)}
<1> SUFFICES ASSUME bad # {} PROVE FALSE
  OBVIOUS
<1>1. PICK x \in bad : \A y \in bad : d[x] <= d[y]
  <2>1. bad \in SUBSET O
    OBVIOUS
  <2> HIDE DEF bad
  <2> QED BY <2>1, Shallowest, Zenon
<1>2. x \in O /\ ~Good(x)
  OBVIOUS
<1>3. P[x] # NoObject => P[x] \in O /\ Good(P[x])
  <2> SUFFICES ASSUME P[x] # NoObject PROVE P[x] \in O /\ Good(P[x])
    OBVIOUS
  <2>1. P[x] \in O /\ d[P[x]] < d[x] /\ d[P[x]] \in Nat /\ d[x] \in Nat
    BY <1>2 DEF Forest
  <2>2. P[x] \notin bad
    BY <1>1, <2>1
  <2> QED BY <2>1, <2>2
<1>4. \A o \in O :
                    /\ o \in t[o] /\ t[o] \subseteq O
                    /\ \A y \in O : P[y] \in t[o] => y \in t[o]
                    /\ \A y \in t[o] : y # o => P[y] \in t[o]
  BY TreeOf, Zenon
<1>5. \E r \in O : P[r] = NoObject /\ x \in t[r]
  BY <1>2, <1>3, <1>4
<1>6. NoObject \notin O
  BY DEF Forest
<1>7. ASSUME NEW r \in O, NEW q \in O, P[r] = NoObject, P[q] = NoObject, x \in t[r], x \in t[q]
      PROVE  r = q
  <2>1. CASE x = r \/ x = q
    BY <1>4, <1>6, <1>7, <2>1
  <2>2. CASE x # r /\ x # q
    <3>1. P[x] \in t[r] /\ P[x] \in t[q]
      BY <1>4, <1>7, <2>2
    <3>2. P[x] # NoObject
      BY <1>4, <1>6, <3>1
    <3> QED BY <1>3, <1>7, <3>1, <3>2
  <2> QED BY <2>1, <2>2
<1> QED BY <1>2, <1>5, <1>7

\* What a strict prefix is.
LEMMA StrictPrefix ==
    ASSUME NEW A, NEW s \in Seq(A), NEW u \in Seq(A)
    PROVE  IsStrictPrefix(s, u) <=> Len(s) < Len(u) /\ \A i \in 1..Len(s) : s[i] = u[i]
<1>1. Len(s) \in Nat /\ Len(u) \in Nat
  OBVIOUS
<1>2. SubSeq(s, 1, Len(s)) = s
  BY SubSeqFull
<1>3. ASSUME Len(s) <= Len(u)
      PROVE  /\ SubSeq(u, 1, Len(s)) \in Seq(A) /\ Len(SubSeq(u, 1, Len(s))) = Len(s)
             /\ \A i \in 1..Len(s) : SubSeq(u, 1, Len(s))[i] = u[i]
  <2>1. \A i \in 1..Len(s) : u[i] \in A
    BY <1>1, <1>3
  <2>2. PICK n \in Int : n = Len(s)
    BY <1>1
  <2>3. /\ SubSeq(u, 1, n) \in Seq(A) /\ Len(SubSeq(u, 1, n)) = IF 1 <= n THEN n - 1 + 1 ELSE 0
        /\ \A i \in 1 .. n - 1 + 1 : SubSeq(u, 1, n)[i] = u[1 + i - 1]
    BY <2>1, <2>2, SubSeqProperties
  <2>4. Len(SubSeq(u, 1, n)) = n
    BY <1>1, <2>2, <2>3
  <2>5. \A i \in 1..n : SubSeq(u, 1, n)[i] = u[i]
    BY <2>3
  <2> QED BY <2>2, <2>3, <2>4, <2>5
<1>4. ASSUME Len(s) < Len(u), \A i \in 1..Len(s) : s[i] = u[i] PROVE IsStrictPrefix(s, u)
  <2>1. PICK w : w = SubSeq(u, 1, Len(s))
    OBVIOUS
  <2>2. w \in Seq(A) /\ Len(w) = Len(s) /\ \A i \in 1..Len(s) : w[i] = s[i]
    BY <1>1, <1>3, <1>4, <2>1
  <2>3. w = s
    BY <2>2, SeqEqual
  <2> QED BY <1>1, <1>2, <1>4, <2>1, <2>3 DEF IsStrictPrefix, IsPrefix
<1>5. ASSUME IsStrictPrefix(s, u) PROVE Len(s) < Len(u) /\ \A i \in 1..Len(s) : s[i] = u[i]
  <2>1. Len(s) <= Len(u) /\ s = SubSeq(u, 1, Len(s)) /\ s # u
    BY <1>2, <1>5 DEF IsStrictPrefix, IsPrefix
  <2>2. \A i \in 1..Len(s) : s[i] = u[i]
    BY <1>3, <2>1
  <2>3. Len(s) # Len(u)
    BY <2>1, <2>2, SeqEqual
  <2> QED BY <1>1, <2>1, <2>2, <2>3
<1> QED BY <1>4, <1>5

------------------------------------------------------------------------------
(* The page. *)

Objs(events) == DOMAIN groupByObject(events)

Parents(O) == [o \in O |-> detectParent(O, o)]

Trees(O) == Tree(O, Parents(O))

Roots(O) == {o \in O : Parents(O)[o] = NoObject /\ Trees(O)[o] # {o}}

Claimed(O) == UNION {Trees(O)[r] : r \in Roots(O)}

FamiliesOf(by, O) == {Family(by, Parents(O), r, Trees(O)[r]) : r \in Roots(O)}

LEMMA BuildIs ==
    ASSUME NEW events
    PROVE  buildFamilies(events) =
             [events |-> events, by |-> groupByObject(events),
              families |-> FamiliesOf(groupByObject(events), Objs(events)),
              columns |-> groupByKind(groupByObject(events), Objs(events) \ Claimed(Objs(events)))]
  BY Zenon DEF buildFamilies, Objs, Parents, Trees, Roots, Claimed, FamiliesOf

\* A parent is on the page and its name is its child's without the last part.
LEMMA ParentIs ==
    ASSUME NEW O, NEW o \in O, detectParent(O, o) # NoObject
    PROVE  /\ detectParent(O, o) \in O /\ detectParent(O, o)[2] = Front(o[2])
           /\ Len(o[2]) # 1
<1> DEFINE prefix == Front(o[2])
           suffix == Last(o[2])
           kinds == CASE o[1] = "Pod" ->
                        (IF suffix.digits THEN <<"StatefulSet">> ELSE <<>>)
                        \o (IF suffix.len = 5 THEN <<"ReplicaSet", "Job", "DaemonSet">> ELSE <<>>)
                   [] o[1] = "ReplicaSet" -> IF suffix.len \in 6..12 THEN <<"Deployment">> ELSE <<>>
                   [] o[1] = "Job" -> IF suffix.len \in 8..10 /\ suffix.digits THEN <<"CronJob">> ELSE <<>>
                   [] OTHER -> <<>>
           seen == {i \in DOMAIN kinds : <<kinds[i], prefix>> \in O}
<1>0. PICK K : K = {"StatefulSet", "ReplicaSet", "Job", "DaemonSet", "Deployment", "CronJob"}
  OBVIOUS
<1>1. detectParent(O, o) = IF Len(o[2]) = 1 \/ seen = {} THEN NoObject ELSE <<kinds[Min(seen)], prefix>>
  BY Zenon DEF detectParent
<1>2. kinds \in Seq(K)
  <2>0. /\ <<>> \in Seq(K) /\ <<"StatefulSet">> \in Seq(K)
        /\ <<"ReplicaSet", "Job", "DaemonSet">> \in Seq(K)
        /\ <<"Deployment">> \in Seq(K) /\ <<"CronJob">> \in Seq(K)
    <3>1. <<>> \in Seq(K)
      OBVIOUS
    <3>2. <<"StatefulSet">> \in Seq(K) /\ <<"Deployment">> \in Seq(K) /\ <<"CronJob">> \in Seq(K)
      BY <1>0
    <3>3. <<"ReplicaSet", "Job", "DaemonSet">> \in Seq(K)
      BY <1>0
    <3> QED BY <3>1, <3>2, <3>3
  <2> HIDE DEF suffix
  <2>1. CASE o[1] = "Pod"
    <3>1. PICK a, b : /\ a = (IF suffix.digits THEN <<"StatefulSet">> ELSE <<>>)
                      /\ b = (IF suffix.len = 5 THEN <<"ReplicaSet", "Job", "DaemonSet">> ELSE <<>>)
      OBVIOUS
    <3>2. a \in Seq(K) /\ b \in Seq(K)
      BY <2>0, <3>1
    <3>3. kinds = a \o b
      BY <2>1, <3>1
    <3>4. a \o b \in Seq(K)
      BY <3>2, ConcatProperties
    <3> QED BY <3>3, <3>4, Zenon
  <2>2. CASE o[1] = "ReplicaSet"
    BY <2>0, <2>2
  <2>3. CASE o[1] = "Job"
    BY <2>0, <2>3
  <2>4. CASE o[1] \notin {"Pod", "ReplicaSet", "Job"}
    BY <2>0, <2>4
  <2> QED BY <2>1, <2>2, <2>3, <2>4
<1>3. DOMAIN kinds \subseteq Nat
  <2> HIDE DEF kinds
  <2>1. DOMAIN kinds = 1..Len(kinds) /\ Len(kinds) \in Nat
    BY <1>2
  <2> QED BY <2>1
<1>4. seen \subseteq Nat
  BY <1>3
<1>5. seen # {} /\ Len(o[2]) # 1
  BY <1>1
<1>6. Min(seen) \in seen
  <2> HIDE DEF seen
  <2> QED BY <1>4, <1>5, MinIn
<1> HIDE DEF kinds, prefix
<1>7. <<kinds[Min(seen)], prefix>> \in O /\ detectParent(O, o) = <<kinds[Min(seen)], prefix>>
  <2>1. PICK i : i = Min(seen)
    OBVIOUS
  <2> QED BY <1>1, <1>5, <1>6, <2>1
<1> QED BY <1>5, <1>7 DEF prefix

\* The objects of a page have names: sequences of parts, not empty.
Named(O, A) == \A o \in O : o = <<o[1], o[2]>> /\ o[2] \in Seq(A) /\ o[2] # <<>>

LEMMA ParentShorter ==
    ASSUME NEW O, NEW A, Named(O, A), NEW o \in O, detectParent(O, o) # NoObject
    PROVE  IsStrictPrefix(detectParent(O, o)[2], o[2])
<1>1. PICK p \in O : p = detectParent(O, o) /\ p[2] = Front(o[2])
  BY ParentIs
<1>2. o[2] \in Seq(A) /\ p[2] \in Seq(A) /\ o[2] # <<>>
  BY DEF Named
<1>3. PICK n \in Nat : Len(o[2]) = n /\ n # 0
  BY <1>2
<1>4. \A i \in 1 .. n - 1 : o[2][i] \in A
  BY <1>2, <1>3
<1>5. /\ Len(SubSeq(o[2], 1, n - 1)) = IF 1 <= n - 1 THEN (n - 1) - 1 + 1 ELSE 0
      /\ \A i \in 1 .. (n - 1) - 1 + 1 : SubSeq(o[2], 1, n - 1)[i] = o[2][1 + i - 1]
  <2>1. PICK m \in Int : m = n - 1
    OBVIOUS
  <2>2. \A i \in 1 .. m : o[2][i] \in A
    BY <1>4, <2>1
  <2> QED BY <2>1, <2>2, SubSeqProperties
<1>6. Len(p[2]) = n - 1
  BY <1>1, <1>3, <1>5 DEF Front
<1>7. \A i \in 1..Len(p[2]) : p[2][i] = o[2][i]
  <2>1. p[2] = SubSeq(o[2], 1, n - 1)
    BY <1>1, <1>3 DEF Front
  <2> QED BY <1>3, <1>5, <1>6, <2>1
<1> QED BY <1>1, <1>2, <1>3, <1>6, <1>7, StrictPrefix

LEMMA PageForest ==
    ASSUME NEW O, NEW A, Named(O, A), IsFiniteSet(O)
    PROVE  Forest(O, Parents(O), [o \in O |-> Len(o[2])])
<1> DEFINE d == [o \in O |-> Len(o[2])]
<1>1. NoObject \notin O
  BY DEF Named, NoObject
<1>2. \A o \in O : d[o] \in Nat
  BY DEF Named
<1>3. ASSUME NEW o \in O, Parents(O)[o] # NoObject PROVE Parents(O)[o] \in O /\ d[Parents(O)[o]] < d[o]
  <2>1. PICK p : p = detectParent(O, o) /\ Parents(O)[o] = p
    BY DEF Parents
  <2>2. p \in O
    BY <1>3, <2>1, ParentIs
  <2>3. IsStrictPrefix(p[2], o[2])
    BY <1>3, <2>1, ParentShorter
  <2>4. p[2] \in Seq(A) /\ o[2] \in Seq(A)
    BY <2>2 DEF Named
  <2>5. Len(p[2]) < Len(o[2])
    BY <2>3, <2>4, StrictPrefix
  <2> QED BY <2>1, <2>2, <2>5
<1> QED BY <1>1, <1>2, <1>3 DEF Forest

\* What hangs below an object continues its name.
LEMMA NamesBelow ==
    ASSUME NEW O, NEW A, Named(O, A), IsFiniteSet(O), NEW r \in O
    PROVE  \A x \in Trees(O)[r] : x # r => IsStrictPrefix(r[2], x[2])
<1> DEFINE bad == {x \in Trees(O)[r] : x # r /\ ~IsStrictPrefix(r[2], x[2])}
<1>1. Forest(O, Parents(O), [o \in O |-> Len(o[2])])
  BY PageForest
<1>2. IsTree(Trees(O), O, Parents(O))
  BY TreeSolves, Zenon DEF Trees
<1>3. /\ Trees(O)[r] \subseteq O
      /\ \A x \in Trees(O)[r] : x # r => Parents(O)[x] \in Trees(O)[r]
  BY <1>1, <1>2, TreeOf, Zenon
<1> SUFFICES ASSUME bad # {} PROVE FALSE
  OBVIOUS
<1>4. PICK x \in bad : \A y \in bad : [o \in O |-> Len(o[2])][x] <= [o \in O |-> Len(o[2])][y]
  <2>1. bad \in SUBSET O
    BY <1>3
  <2> HIDE DEF bad
  <2> QED BY <1>1, <2>1, Shallowest, Zenon
<1>5. x \in O /\ x # r /\ x \in Trees(O)[r] /\ ~IsStrictPrefix(r[2], x[2])
  BY <1>3
<1>6. PICK p : p = Parents(O)[x] /\ p = detectParent(O, x)
  BY <1>5 DEF Parents
<1>7. p \in Trees(O)[r] /\ p \in O /\ p # NoObject
  BY <1>1, <1>3, <1>5, <1>6 DEF Forest
<1>8. IsStrictPrefix(p[2], x[2])
  BY <1>5, <1>6, <1>7, ParentShorter
<1>9. p[2] \in Seq(A) /\ x[2] \in Seq(A) /\ r[2] \in Seq(A)
  BY <1>5, <1>7 DEF Named
<1>10. Len(p[2]) < Len(x[2]) /\ \A i \in 1..Len(p[2]) : p[2][i] = x[2][i]
  BY <1>8, <1>9, StrictPrefix
<1>11. Len(p[2]) \in Nat /\ Len(x[2]) \in Nat /\ Len(r[2]) \in Nat
  BY <1>9
<1>12. p \notin bad
  <2> HIDE DEF bad
  <2>1. ASSUME p \in bad PROVE FALSE
    <3>1. [o \in O |-> Len(o[2])][x] <= [o \in O |-> Len(o[2])][p]
      BY <1>4, <2>1
    <3>2. Len(x[2]) <= Len(p[2])
      BY <1>5, <1>7, <3>1
    <3> QED BY <1>10, <1>11, <3>2
  <2> QED BY <2>1
<1>13. p = r \/ IsStrictPrefix(r[2], p[2])
  BY <1>7, <1>12
<1>14. CASE p = r
  BY <1>5, <1>8, <1>14
<1>15. CASE IsStrictPrefix(r[2], p[2])
  <2>1. Len(r[2]) < Len(p[2]) /\ \A i \in 1..Len(r[2]) : r[2][i] = p[2][i]
    BY <1>9, <1>15, StrictPrefix
  <2>2. Len(r[2]) < Len(x[2]) /\ \A i \in 1..Len(r[2]) : r[2][i] = x[2][i]
    BY <1>10, <1>11, <2>1
  <2> QED BY <1>5, <1>9, <2>2, StrictPrefix
<1> QED BY <1>13, <1>14, <1>15

\* The parts of a page: none is empty, and every object is in exactly one.
Placed(O, parts) ==
    /\ \A p \in parts : p.members \subseteq O /\ p.members # {}
    /\ \A o \in O : \E p \in parts : o \in p.members
    /\ \A p, q \in parts : p.members \cap q.members # {} => p = q

LEMMA PartsFinite ==
    ASSUME NEW O, IsFiniteSet(O), NEW parts, Placed(O, parts)
    PROVE  IsFiniteSet(parts)
<1> DEFINE f == [o \in O |-> CHOOSE p \in parts : o \in p.members]
<1>1. \A o \in O : f[o] \in parts /\ o \in f[o].members
  BY DEF Placed
<1>2. \A p \in parts : \E o \in O : f[o] = p
  <2> SUFFICES ASSUME NEW p \in parts PROVE \E o \in O : f[o] = p
    OBVIOUS
  <2>1. PICK o \in O : o \in p.members
    BY DEF Placed
  <2>2. f[o] = p
    <3>1. PICK q : q = f[o] /\ q \in parts /\ o \in q.members
      BY <1>1
    <3>2. p.members \cap q.members # {}
      BY <2>1, <3>1
    <3> QED BY <3>1, <3>2 DEF Placed
  <2> QED BY <2>2
<1>3. f \in [O -> parts]
  BY <1>1
<1> HIDE DEF f
<1>4. f \in Surjection(O, parts)
  BY <1>2, <1>3 DEF Surjection
<1> QED BY <1>4, FS_Surjection

Obj(e) == <<e.kind, e.name>>

\* v gives for each part the sum over its members of how many events of E each has.
Sums(v, parts, E) ==
    /\ v = [p \in parts |-> v[p]]
    /\ \A p \in parts : \E f :
          /\ f = [o \in p.members |-> f[o]] /\ v[p] = Tally(f)
          /\ \A o \in p.members : f[o] = Cardinality({e \in E : Obj(e) = o})

\* What the parts add up to: every event of E once.
LEMMA CountedOnce ==
    ASSUME NEW O, IsFiniteSet(O), NEW parts, Placed(O, parts), NEW E, IsFiniteSet(E),
           \A e \in E : Obj(e) \in O, NEW v, Sums(v, parts, E)
    PROVE  Tally(v) = Cardinality(E)
<1> DEFINE In(p) == {e \in E : Obj(e) \in p.members}
<1>1. ASSUME NEW p \in parts PROVE v[p] = Cardinality(In(p))
  <2>1. PICK f : /\ f = [o \in p.members |-> f[o]] /\ v[p] = Tally(f)
                 /\ \A o \in p.members : f[o] = Cardinality({e \in E : Obj(e) = o})
    BY DEF Sums
  <2>2. PICK S : S = p.members /\ S \in SUBSET O
    BY DEF Placed
  <2>3. PICK W : W = [o \in S |-> {e \in E : Obj(e) = o}]
    OBVIOUS
  <2>4. IsFiniteSet(S)
    BY <2>2, FS_Subset
  <2>5. \A o \in S : IsFiniteSet(W[o])
    BY <2>3, FS_Subset
  <2>6. Apart(W, S)
    BY <2>3, <2>5 DEF Apart
  <2>7. \A o \in S : f[o] = Cardinality(W[o])
    BY <2>1, <2>2, <2>3
  <2>8. f = [o \in S |-> f[o]]
    BY <2>1, <2>2
  <2>9. Tally(f) = Cardinality(Union(W, S))
    BY <2>4, <2>6, <2>7, <2>8, TallyCounts
  <2>10. Union(W, S) = In(p)
    BY <2>2, <2>3 DEF Union
  <2> QED BY <2>1, <2>9, <2>10
<1>2. IsFiniteSet(parts)
  BY PartsFinite
<1>3. PICK W : W = [p \in parts |-> In(p)]
  OBVIOUS
<1>4. \A p \in parts : IsFiniteSet(W[p])
  BY <1>3, FS_Subset
<1>5. \A p, q \in parts : p # q => W[p] \cap W[q] = {}
  BY <1>3 DEF Placed
<1>6. Apart(W, parts)
  BY <1>4, <1>5 DEF Apart
<1>7. \A p \in parts : v[p] = Cardinality(W[p])
  BY <1>1, <1>3
<1>8. Tally(v) = Cardinality(Union(W, parts))
  BY <1>2, <1>6, <1>7, TallyCounts DEF Sums
<1>9. Union(W, parts) = E
  BY <1>3 DEF Union, Placed
<1> QED BY <1>8, <1>9

\* The objects of a page's events and what groupByObject keeps of each.
LEMMA ObjsAre ==
    ASSUME NEW events \in PageEvents
    PROVE  /\ IsFiniteSet(events)
           /\ Objs(events) = {Obj(e) : e \in events} /\ IsFiniteSet(Objs(events))
           /\ \E A : Named(Objs(events), A)
<1>1. IsFiniteSet(events)
  BY PageAssumption
<1>2. Objs(events) = {Obj(e) : e \in events}
  BY DEF Objs, Obj, groupByObject
<1>3. IsFiniteSet(Objs(events))
  <2>1. PICK f : f = [e \in events |-> Obj(e)]
    OBVIOUS
  <2>2. f \in Surjection(events, Objs(events))
    BY <1>2, <2>1 DEF Surjection
  <2> QED BY <1>1, <2>2, FS_Surjection
<1>4. \E A : Named(Objs(events), A)
  <2> DEFINE A == UNION {{e.name[i] : i \in DOMAIN e.name} : e \in events}
  <2>1. ASSUME NEW e \in events PROVE e.name \in Seq(A) /\ e.name # <<>>
    <3>1. PICK R : R = {e.name[i] : i \in DOMAIN e.name}
      OBVIOUS
    <3>2. e.name # <<>> /\ e.name \in Seq(R)
      BY <3>1, PageAssumption
    <3>3. R \subseteq A
      BY <3>1
    <3> HIDE DEF A
    <3> QED BY <3>2, <3>3, SeqMonotonic
  <2> HIDE DEF A
  <2>2. Named(Objs(events), A)
    BY <1>2, <2>1 DEF Named, Obj
  <2> QED BY <2>2
<1> QED BY <1>1, <1>2, <1>3, <1>4

\* What the row r of o says of its events, warned those that warn.
RowCounts(r, events, warned, o) ==
    /\ r.warnings = Cardinality({e \in warned : Obj(e) = o})
    /\ r.normals = Cardinality({e \in events \ warned : Obj(e) = o})
    /\ r.idle => \A e \in warned : Obj(e) = o => e.stale

LEMMA ByIs ==
    ASSUME NEW events, NEW o \in Objs(events), NEW warned, warned = {e \in events : e.type = "Warning"}
    PROVE  RowCounts(groupByObject(events)[o], events, warned, o)
<1>1. PICK of, warn : /\ of = {e \in events : <<e.kind, e.name>> = o}
                      /\ warn = {e \in of : e.type = "Warning"}
  OBVIOUS
<1>2. /\ groupByObject(events)[o].warnings = Cardinality(warn)
      /\ groupByObject(events)[o].normals = Cardinality(of \ warn)
      /\ groupByObject(events)[o].idle = (warn # {} /\ \A e \in warn : e.stale)
  BY <1>1 DEF groupByObject, Objs
<1>3. warn = {e \in warned : Obj(e) = o} /\ of \ warn = {e \in events \ warned : Obj(e) = o}
  BY <1>1 DEF Obj
<1> QED BY <1>2, <1>3, Zenon DEF RowCounts

\* Every object hangs below one root: that root's tree is a family when it has more, and
\* otherwise the object is alone and in the column of its kind.
LEMMA RootOf ==
    ASSUME NEW O, NEW A, Named(O, A), IsFiniteSet(O)
    PROVE  /\ \A r \in O : r \in Trees(O)[r] /\ Trees(O)[r] \subseteq O
           /\ \A r, q \in Roots(O) : Trees(O)[r] \cap Trees(O)[q] # {} => r = q
           /\ \A o \in O : o \notin Claimed(O) => detectParent(O, o) = NoObject
<1>1. Forest(O, Parents(O), [o \in O |-> Len(o[2])])
  BY PageForest
<1>2. IsTree(Trees(O), O, Parents(O))
  BY TreeSolves, Zenon DEF Trees
<1>3. \A r \in O : r \in Trees(O)[r] /\ Trees(O)[r] \subseteq O
  BY <1>1, <1>2, TreeOf, Zenon
<1>4. \A x \in O :
        /\ \E r \in O : Parents(O)[r] = NoObject /\ x \in Trees(O)[r]
        /\ \A r, q \in O : (Parents(O)[r] = NoObject /\ Parents(O)[q] = NoObject
                              /\ x \in Trees(O)[r] /\ x \in Trees(O)[q]) => r = q
  BY <1>1, <1>2, OneRoot, Zenon
<1>5. \A r, q \in Roots(O) : Trees(O)[r] \cap Trees(O)[q] # {} => r = q
  BY <1>3, <1>4 DEF Roots
<1>6. ASSUME NEW o \in O, o \notin Claimed(O) PROVE detectParent(O, o) = NoObject
  <2>1. PICK r \in O : Parents(O)[r] = NoObject /\ o \in Trees(O)[r]
    BY <1>4
  <2>2. r \notin Roots(O)
    BY <1>6, <2>1 DEF Claimed
  <2>3. Trees(O)[r] = {r}
    BY <2>1, <2>2 DEF Roots
  <2>4. o = r
    BY <2>1, <2>3
  <2> QED BY <2>1, <2>4 DEF Parents
<1> QED BY <1>3, <1>5, <1>6

LEMMA FamilyMembers ==
    ASSUME NEW by, NEW P, NEW r, NEW T
    PROVE  Family(by, P, r, T).members = T /\ Family(by, P, r, T).root = r
  BY DEF Family

LEMMA PagePlaced ==
    ASSUME NEW O, NEW A, Named(O, A), IsFiniteSet(O), NEW by
    PROVE  Placed(O, FamiliesOf(by, O) \cup groupByKind(by, O \ Claimed(O)))
<1> DEFINE Cs == groupByKind(by, O \ Claimed(O))
           Fs == FamiliesOf(by, O)
<1>1. /\ \A r \in O : r \in Trees(O)[r] /\ Trees(O)[r] \subseteq O
      /\ \A r, q \in Roots(O) : Trees(O)[r] \cap Trees(O)[q] # {} => r = q
  BY RootOf
<1>2. \A p \in Fs : \E r \in Roots(O) : p = Family(by, Parents(O), r, Trees(O)[r]) /\ p.members = Trees(O)[r]
  BY FamilyMembers DEF FamiliesOf
<1>3. \A r \in Roots(O) : \E p \in Fs : p.members = Trees(O)[r]
  <2> SUFFICES ASSUME NEW r \in Roots(O) PROVE \E p \in Fs : p.members = Trees(O)[r]
    OBVIOUS
  <2>1. PICK p : p = Family(by, Parents(O), r, Trees(O)[r])
    OBVIOUS
  <2>2. p \in Fs
    BY <2>1 DEF FamiliesOf
  <2>3. p.members = Trees(O)[r]
    BY <2>1, FamilyMembers
  <2> QED BY <2>2, <2>3
<1>4. \A p \in Cs : \E k \in {o[1] : o \in O \ Claimed(O)} :
                      LET M == {o \in O \ Claimed(O) : o[1] = k}
                      IN p = Column(by, k, M) /\ p.members = M
  BY DEF groupByKind, Column
<1>5. \A o \in O \ Claimed(O) : \E p \in Cs : o \in p.members
  <2> SUFFICES ASSUME NEW o \in O \ Claimed(O) PROVE \E p \in Cs : o \in p.members
    OBVIOUS
  <2>1. PICK k, M : k = o[1] /\ M = {x \in O \ Claimed(O) : x[1] = k}
    OBVIOUS
  <2>2. Column(by, k, M) \in Cs
    BY <2>1 DEF groupByKind
  <2>3. o \in Column(by, k, M).members
    BY <2>1 DEF Column
  <2> QED BY <2>2, <2>3
<1> HIDE DEF Cs, Fs
<1>6. \A p \in Fs : p.members \subseteq O /\ p.members # {} /\ p.members \subseteq Claimed(O)
  BY <1>1, <1>2 DEF Roots, Claimed
<1>7. \A p \in Cs : p.members \subseteq O \ Claimed(O) /\ p.members # {}
  <2> SUFFICES ASSUME NEW p \in Cs PROVE p.members \subseteq O \ Claimed(O) /\ p.members # {}
    OBVIOUS
  <2>1. PICK k, M : /\ k \in {o[1] : o \in O \ Claimed(O)}
                    /\ M = {o \in O \ Claimed(O) : o[1] = k} /\ p.members = M
    BY <1>4
  <2> QED BY <2>1
<1>8. \A o \in O : \E p \in Fs \cup Cs : o \in p.members
  BY <1>3, <1>5 DEF Claimed
<1>9. \A p, q \in Fs : p.members \cap q.members # {} => p = q
  BY <1>1, <1>2
<1>10. \A p, q \in Cs : p.members \cap q.members # {} => p = q
  <2> SUFFICES ASSUME NEW p \in Cs, NEW q \in Cs, p.members \cap q.members # {} PROVE p = q
    OBVIOUS
  <2>1. PICK k, M : M = {o \in O \ Claimed(O) : o[1] = k} /\ p.members = M /\ p = Column(by, k, M)
    BY <1>4
  <2>2. PICK l, N : N = {o \in O \ Claimed(O) : o[1] = l} /\ q.members = N /\ q = Column(by, l, N)
    BY <1>4
  <2>3. k = l /\ M = N
    BY <2>1, <2>2
  <2> QED BY <2>1, <2>2, <2>3
<1>11. \A p, q \in Fs \cup Cs : p.members \cap q.members # {} => p = q
  BY <1>6, <1>7, <1>9, <1>10
<1>12. \A p \in Fs \cup Cs : p.members \subseteq O /\ p.members # {}
  BY <1>6, <1>7
<1>13. Placed(O, Fs \cup Cs)
  BY <1>8, <1>11, <1>12 DEF Placed
<1> QED BY <1>13 DEF Fs, Cs

\* A part's counts are sums over its members.
LEMMA PartCounts ==
    ASSUME NEW by, NEW O, NEW p \in FamiliesOf(by, O) \cup groupByKind(by, O \ Claimed(O))
    PROVE  /\ p.warnings = Tally([o \in p.members |-> by[o].warnings])
           /\ p.normals = Tally([o \in p.members |-> by[o].normals])
<1>1. CASE p \in FamiliesOf(by, O)
  <2>1. PICK r, T : p = Family(by, Parents(O), r, T)
    BY <1>1 DEF FamiliesOf
  <2>2. /\ p.members = T /\ p.warnings = Tally([o \in T |-> by[o].warnings])
        /\ p.normals = Tally([o \in T |-> by[o].normals])
    BY <2>1 DEF Family
  <2> QED BY <2>2
<1>2. CASE p \in groupByKind(by, O \ Claimed(O))
  <2>1. PICK k, M : p = Column(by, k, M)
    BY <1>2 DEF groupByKind
  <2>2. /\ p.members = M /\ p.warnings = Tally([o \in M |-> by[o].warnings])
        /\ p.normals = Tally([o \in M |-> by[o].normals])
    BY <2>1 DEF Column
  <2> QED BY <2>2
<1> QED BY <1>1, <1>2

\* What a family says of itself.
LEMMA FamilySays ==
    ASSUME NEW by, NEW O, NEW f \in FamiliesOf(by, O)
    PROVE  /\ f.root \in Roots(O) /\ f.members = Trees(O)[f.root]
           /\ f.idle => \A o \in f.members : by[o].warnings > 0 => by[o].idle
           /\ f.cascade => \A o \in f.members : by[o].warnings > 0 \/ \E c \in f.members : Parents(O)[c] = o
<1>1. PICK r, T, P : r \in Roots(O) /\ T = Trees(O)[r] /\ P = Parents(O) /\ f = Family(by, P, r, T)
  BY DEF FamiliesOf
<1>2. f.root = r /\ f.members = T
  BY <1>1 DEF Family
<1>3. f.idle = ({o \in T : by[o].warnings > 0} # {} /\ \A o \in {o \in T : by[o].warnings > 0} : by[o].idle)
  BY <1>1 DEF Family
<1>4. f.cascade = (/\ r \in {o \in T : by[o].warnings > 0}
                   /\ {o \in T : \A c \in T : P[c] # o} \subseteq {o \in T : by[o].warnings > 0})
  BY <1>1 DEF Family
<1>5. f.idle => \A o \in T : by[o].warnings > 0 => by[o].idle
  BY <1>3
<1>6. f.cascade => \A o \in T : by[o].warnings > 0 \/ \E c \in T : P[c] = o
  BY <1>4
<1> QED BY <1>1, <1>2, <1>5, <1>6

PageBuilt == page = <<>> \/ \E events \in PageEvents : page = buildFamilies(events)

LEMMA BuiltOnce == PageBuilt => PageOnce
<1> SUFFICES ASSUME PageBuilt, page # <<>> PROVE PageOnce
  BY DEF PageOnce
<1>1. PICK events \in PageEvents : page = buildFamilies(events)
  BY DEF PageBuilt
<1>2. PICK O, by, Fs, Cs, parts :
         /\ O = Objs(events) /\ by = groupByObject(events) /\ Fs = FamiliesOf(by, O)
         /\ Cs = groupByKind(by, O \ Claimed(O)) /\ parts = Fs \cup Cs
  OBVIOUS
<1>3. page = [events |-> events, by |-> by, families |-> Fs, columns |-> Cs]
  BY <1>1, <1>2, BuildIs
<1>4. page.events = events /\ page.by = by /\ page.families = Fs /\ page.columns = Cs
  BY <1>3
<1>5. PICK warned : warned = {e \in events : e.type = "Warning"}
  OBVIOUS
<1>6. /\ IsFiniteSet(events) /\ IsFiniteSet(O) /\ O = {Obj(e) : e \in events} /\ DOMAIN by = O
  BY <1>2, ObjsAre DEF Objs
<1>7. PICK A : Named(O, A)
  BY <1>2, ObjsAre
<1>8. Placed(O, parts)
  BY <1>2, <1>6, <1>7, PagePlaced
<1>9. \A o \in O : /\ by[o].warnings = Cardinality({e \in warned : Obj(e) = o})
                   /\ by[o].normals = Cardinality({e \in events \ warned : Obj(e) = o})
                   /\ by[o].idle => \A e \in warned : Obj(e) = o => e.stale
  <2> SUFFICES ASSUME NEW o \in O PROVE RowCounts(by[o], events, warned, o)
    BY Zenon DEF RowCounts
  <2>1. o \in Objs(events) /\ by = groupByObject(events)
    BY <1>2, Zenon
  <2>2. RowCounts(groupByObject(events)[o], events, warned, o)
    BY <1>5, <2>1, ByIs, Zenon
  <2> QED BY <2>1, <2>2, Zenon
<1>10. IsFiniteSet(warned) /\ IsFiniteSet(events \ warned) /\ warned \subseteq events
  <2>1. warned \in SUBSET events /\ events \ warned \in SUBSET events
    BY <1>5
  <2> QED BY <1>6, <2>1, FS_Subset
<1>11. ASSUME NEW o \in O PROVE Cardinality({p \in parts : o \in p.members}) = 1
  <2>1. PICK p \in parts : o \in p.members
    BY <1>8 DEF Placed
  <2>2. {q \in parts : o \in q.members} = {p}
    BY <1>8, <2>1 DEF Placed
  <2> QED BY <2>2, FS_Singleton
<1>12. ASSUME NEW p \in parts
       PROVE  /\ p.members \subseteq O
              /\ p.warnings = Tally([o \in p.members |-> by[o].warnings])
              /\ p.normals = Tally([o \in p.members |-> by[o].normals])
  <2>1. p.members \subseteq O
    BY <1>8 DEF Placed
  <2>2. p \in FamiliesOf(by, O) \cup groupByKind(by, O \ Claimed(O))
    BY <1>2
  <2>3. /\ p.warnings = Tally([o \in p.members |-> by[o].warnings])
        /\ p.normals = Tally([o \in p.members |-> by[o].normals])
    BY <2>2, PartCounts, Zenon
  <2> QED BY <2>1, <2>3
<1>13. Tally([p \in parts |-> p.warnings]) = Cardinality(warned)
  <2>1. PICK v : v = [p \in parts |-> p.warnings]
    OBVIOUS
  <2>2. v = [p \in parts |-> v[p]]
    BY <2>1
  <2>3. ASSUME NEW p \in parts
        PROVE  \E f : /\ f = [o \in p.members |-> f[o]] /\ v[p] = Tally(f)
                      /\ \A o \in p.members : f[o] = Cardinality({e \in warned : Obj(e) = o})
    <3>1. PICK f : f = [o \in p.members |-> by[o].warnings]
      OBVIOUS
    <3>2. f = [o \in p.members |-> f[o]]
      BY <3>1
    <3>3. v[p] = Tally(f)
      BY <1>12, <2>1, <3>1
    <3>4. \A o \in p.members : f[o] = Cardinality({e \in warned : Obj(e) = o})
      BY <1>9, <1>12, <3>1
    <3> QED BY <3>2, <3>3, <3>4
  <2>4. \A e \in warned : Obj(e) \in O
    BY <1>6, <1>10
  <2>5. Sums(v, parts, warned)
    BY <2>2, <2>3, Zenon DEF Sums
  <2>6. Tally(v) = Cardinality(warned)
    BY <1>6, <1>8, <1>10, <2>4, <2>5, CountedOnce
  <2> QED BY <2>1, <2>6
<1>14. Tally([p \in parts |-> p.normals]) = Cardinality(events \ warned)
  <2>1. PICK v, E : v = [p \in parts |-> p.normals] /\ E = events \ warned
    OBVIOUS
  <2>2. v = [p \in parts |-> v[p]]
    BY <2>1
  <2>3. ASSUME NEW p \in parts
        PROVE  \E f : /\ f = [o \in p.members |-> f[o]] /\ v[p] = Tally(f)
                      /\ \A o \in p.members : f[o] = Cardinality({e \in E : Obj(e) = o})
    <3>1. PICK f : f = [o \in p.members |-> by[o].normals]
      OBVIOUS
    <3>2. f = [o \in p.members |-> f[o]]
      BY <3>1
    <3>3. v[p] = Tally(f)
      BY <1>12, <2>1, <3>1
    <3>4. \A o \in p.members : f[o] = Cardinality({e \in E : Obj(e) = o})
      BY <1>9, <1>12, <2>1, <3>1
    <3> QED BY <3>2, <3>3, <3>4
  <2>4. IsFiniteSet(E) /\ \A e \in E : Obj(e) \in O
    BY <1>6, <1>10, <2>1
  <2>5. Sums(v, parts, E)
    BY <2>2, <2>3, Zenon DEF Sums
  <2>6. Tally(v) = Cardinality(E)
    BY <1>6, <1>8, <2>4, <2>5, CountedOnce
  <2> QED BY <2>1, <2>6
<1>15. ASSUME NEW f \in Fs
       PROVE  /\ \A o \in f.members \ {f.root} : IsStrictPrefix(f.root[2], o[2])
              /\ f.idle => \A e \in warned : <<e.kind, e.name>> \in f.members => e.stale
              /\ f.cascade => \A o \in f.members : by[o].warnings = 0 =>
                                 \E c \in f.members : IsStrictPrefix(o[2], c[2])
  <2>1. /\ f.root \in Roots(O) /\ f.members = Trees(O)[f.root]
        /\ f.idle => \A o \in f.members : by[o].warnings > 0 => by[o].idle
        /\ f.cascade => \A o \in f.members : by[o].warnings > 0 \/ \E c \in f.members : Parents(O)[c] = o
    BY <1>2, <1>15, FamilySays
  <2>2. f.root \in O /\ f.members \subseteq O
    BY <1>2, <1>8, <2>1 DEF Placed, Roots
  <2>3. \A o \in f.members \ {f.root} : IsStrictPrefix(f.root[2], o[2])
    <3>1. PICK r \in O : r = f.root /\ f.members = Trees(O)[r]
      BY <2>1, <2>2
    <3>2. \A x \in Trees(O)[r] : x # r => IsStrictPrefix(r[2], x[2])
      BY <1>6, <1>7, NamesBelow
    <3> QED BY <3>1, <3>2
  <2>4. ASSUME f.idle, NEW e \in warned, <<e.kind, e.name>> \in f.members PROVE e.stale
    <3>1. PICK o \in f.members : o = Obj(e)
      BY <2>4 DEF Obj
    <3>2. o \in O
      BY <2>2, <3>1
    <3>3. PICK W : W = {x \in warned : Obj(x) = o}
      OBVIOUS
    <3>4. e \in W /\ IsFiniteSet(W)
      BY <1>10, <3>1, <3>3, FS_Subset
    <3>5. Cardinality(W) \in Nat /\ Cardinality(W) # 0
      BY <3>4, FS_CardinalityType, FS_EmptySet
    <3>6. by[o].warnings > 0
      <4>1. by[o].warnings = Cardinality(W)
        BY <1>9, <3>2, <3>3
      <4>2. PICK n \in Nat : n = Cardinality(W) /\ n # 0
        BY <3>5
      <4> QED BY <4>1, <4>2
    <3>7. by[o].idle
      BY <2>1, <2>4, <3>1, <3>6
    <3> QED BY <1>9, <3>1, <3>2, <3>7
  <2>5. ASSUME f.cascade, NEW o \in f.members, by[o].warnings = 0
        PROVE  \E c \in f.members : IsStrictPrefix(o[2], c[2])
    <3>1. PICK c \in f.members : Parents(O)[c] = o
      BY <2>1, <2>5
    <3>2. c \in O /\ o \in O
      BY <2>2
    <3>3. detectParent(O, c) = o /\ o # NoObject
      BY <1>7, <3>1, <3>2 DEF Parents, Named, NoObject
    <3>4. IsStrictPrefix(detectParent(O, c)[2], c[2])
      BY <1>7, <3>2, <3>3, ParentShorter
    <3> QED BY <3>3, <3>4
  <2> QED BY <2>3, <2>4, <2>5
<1>16. ASSUME NEW c \in Cs, NEW o \in c.members PROVE detectParent(O, o) = NoObject
  <2>1. PICK k, M : M = {x \in O \ Claimed(O) : x[1] = k} /\ c = Column(by, k, M)
    BY <1>2 DEF groupByKind
  <2>2. c.members = M
    BY <2>1 DEF Column
  <2>3. o \in O /\ o \notin Claimed(O)
    BY <2>1, <2>2
  <2>4. \A x \in O : x \notin Claimed(O) => detectParent(O, x) = NoObject
    BY <1>6, <1>7, RootOf
  <2> QED BY <2>3, <2>4
<1>17. /\ \A o \in O : Cardinality({p \in parts : o \in p.members}) = 1
       /\ \A f \in Fs :
             /\ \A o \in f.members \ {f.root} : IsStrictPrefix(f.root[2], o[2])
             /\ f.idle => \A e \in warned : <<e.kind, e.name>> \in f.members => e.stale
             /\ f.cascade => \A o \in f.members : by[o].warnings = 0 =>
                                \E c \in f.members : IsStrictPrefix(o[2], c[2])
       /\ \A c \in Cs : \A o \in c.members : detectParent(O, o) = NoObject
  BY <1>11, <1>15, <1>16
<1>18. /\ page.families \cup page.columns = parts /\ DOMAIN page.by = O
       /\ {e \in page.events : e.type = "Warning"} = warned
  BY <1>2, <1>4, <1>5, <1>6
<1> QED BY <1>4, <1>13, <1>14, <1>17, <1>18, Zenon DEF PageOnce

\* The namespace page shows every object in one place and counts every event once, for
\* any finite set of events and any names (buildFamilies): what a family claims of its
\* members, and that an object alone has no parent on the page, included.
THEOREM PageOnceAlways == PageSpec => []PageOnce
<1>1. PageInit => PageBuilt
  BY DEF PageInit, PageBuilt
<1>2. PageBuilt /\ [BuildPage]_page => PageBuilt'
  BY DEF PageBuilt, BuildPage
<1>3. PageBuilt => PageOnce
  BY BuiltOnce
<1> QED BY <1>1, <1>2, <1>3, PTL DEF PageSpec

------------------------------------------------------------------------------
(* Orders *)

\* B orders the elements of E, all of them.
Orders(B, E) ==
    /\ \A a, b \in E : a # b => <<a, b>> \in B \/ <<b, a>> \in B
    /\ \A a, b \in E : <<a, b>> \in B => <<b, a>> \notin B
    /\ \A a, b, c \in E : (<<a, b>> \in B /\ <<b, c>> \in B) => <<a, c>> \in B

Fore(B, E, e) == {x \in E : <<x, e>> \in B}

\* The number of elements before one is its place.
LEMMA Ranks ==
    ASSUME NEW E, IsFiniteSet(E), NEW B, Orders(B, E)
    PROVE  /\ \A i \in 1..Cardinality(E) : \E e \in E : Cardinality(Fore(B, E, e)) = i - 1
           /\ \A e \in E : Cardinality(Fore(B, E, e)) \in Nat /\ Cardinality(Fore(B, E, e)) + 1 \in 1..Cardinality(E)
           /\ \A a, b \in E : <<a, b>> \in B => Cardinality(Fore(B, E, a)) < Cardinality(Fore(B, E, b))
<1>1. PICK n \in Nat : n = Cardinality(E)
  BY FS_CardinalityType
<1>2. PICK r : r = [e \in E |-> Cardinality(Fore(B, E, e)) + 1]
  OBVIOUS
<1>3. \A e \in E : Fore(B, E, e) \in SUBSET E /\ IsFiniteSet(Fore(B, E, e)) /\ Cardinality(Fore(B, E, e)) \in Nat
  <2>1. \A e \in E : Fore(B, E, e) \in SUBSET E
    BY DEF Fore
  <2> QED BY <2>1, FS_Subset, FS_CardinalityType
<1>4. \A e \in E : e \notin Fore(B, E, e)
  BY DEF Fore, Orders
<1>5. ASSUME NEW a \in E, NEW b \in E, <<a, b>> \in B PROVE Cardinality(Fore(B, E, a)) < Cardinality(Fore(B, E, b))
  <2>1. PICK X, Y : X = Fore(B, E, a) /\ Y = Fore(B, E, b)
    OBVIOUS
  <2>2. X \subseteq Y /\ a \in Y /\ a \notin X
    BY <1>4, <1>5, <2>1 DEF Fore, Orders
  <2>3. X \in SUBSET Y /\ X # Y /\ IsFiniteSet(X) /\ IsFiniteSet(Y)
    BY <1>3, <2>1, <2>2
  <2>4. Cardinality(X) <= Cardinality(Y) /\ Cardinality(Y) # Cardinality(X)
    BY <2>3, FS_Subset
  <2>5. Cardinality(X) \in Nat /\ Cardinality(Y) \in Nat
    BY <2>3, FS_CardinalityType
  <2> QED BY <2>1, <2>4, <2>5
<1>6. ASSUME NEW e \in E PROVE Cardinality(Fore(B, E, e)) + 1 \in 1..n
  <2>1. PICK X : X = Fore(B, E, e)
    OBVIOUS
  <2>2. X \in SUBSET E /\ X # E
    BY <1>3, <1>4, <2>1
  <2>3. Cardinality(X) <= Cardinality(E) /\ Cardinality(E) # Cardinality(X) /\ Cardinality(X) \in Nat
    BY <1>3, <2>1, <2>2, FS_Subset
  <2> QED BY <1>1, <2>1, <2>3
<1>7. r \in Injection(E, 1..n)
  <2>1. r \in [E -> 1..n]
    BY <1>2, <1>6
  <2>2. ASSUME NEW a \in E, NEW b \in E, r[a] = r[b] PROVE a = b
    <3>1. PICK x \in Nat, y \in Nat : x = Cardinality(Fore(B, E, a)) /\ y = Cardinality(Fore(B, E, b))
      BY <1>3
    <3>2. r[a] = x + 1 /\ r[b] = y + 1
      BY <1>2, <3>1
    <3>3. a # b => x < y \/ y < x
      BY <1>5, <3>1 DEF Orders
    <3>4. x + 1 = y + 1
      BY <2>2, <3>2
    <3> QED BY <3>1, <3>3, <3>4
  <2> QED BY <2>1, <2>2 DEF Injection, IsInjective
<1>8. r \in Surjection(E, 1..n)
  <2>1. IsFiniteSet(1..n) /\ Cardinality(1..n) = n
    BY FS_Interval
  <2> QED BY <1>1, <1>7, <2>1, FS_Injection
<1>9. ASSUME NEW i \in 1..n PROVE \E e \in E : Cardinality(Fore(B, E, e)) = i - 1
  <2>1. PICK e \in E : r[e] = i
    BY <1>8 DEF Surjection
  <2>2. PICK x \in Nat : x = Cardinality(Fore(B, E, e))
    BY <1>3
  <2>3. r[e] = x + 1
    BY <1>2, <2>2
  <2> QED BY <2>1, <2>2, <2>3
<1> QED BY <1>1, <1>3, <1>5, <1>6, <1>9

------------------------------------------------------------------------------
(* Events *)

\* Events sorted: those of a set, each once, the order the one Precedes gives.
LEMMA Sorted ==
    ASSUME NEW E, IsFiniteSet(E), E \subseteq EventSummary,
           \A a, b \in E : (a.ns = b.ns /\ a.name = b.name) => a = b
    PROVE  /\ ToSet(sortNewestFirst(E)) = E
           /\ DOMAIN sortNewestFirst(E) = 1..Cardinality(E)
           /\ \A i, j \in DOMAIN sortNewestFirst(E) : i < j =>
                 /\ sortNewestFirst(E)[i] # sortNewestFirst(E)[j]
                 /\ sortNewestFirst(E)[i].last >= sortNewestFirst(E)[j].last
<1>1. PICK n \in Nat : n = Cardinality(E)
  BY FS_CardinalityType
<1>2. PICK B : B = {z \in E \X E : Precedes(z[1], z[2])}
  OBVIOUS
<1>3. \A a, b \in E : <<a, b>> \in B <=> Precedes(a, b)
  BY <1>2
<1>4. Orders(B, E)
  <2>1. \A a, b \in E : a # b => Precedes(a, b) \/ Precedes(b, a)
    BY DEF Precedes, EventSummary
  <2>2. \A a, b \in E : Precedes(a, b) => ~Precedes(b, a)
    BY DEF Precedes, EventSummary
  <2>3. \A a, b, c \in E : (Precedes(a, b) /\ Precedes(b, c)) => Precedes(a, c)
    BY DEF Precedes, EventSummary
  <2> QED BY <1>3, <2>1, <2>2, <2>3, Zenon DEF Orders
<1>5. PICK r : r = [e \in E |-> Cardinality(Fore(B, E, e))]
  OBVIOUS
<1>6. \A e \in E : r[e] = Cardinality({x \in E : Precedes(x, e)})
  <2>1. \A e \in E : Fore(B, E, e) = {x \in E : Precedes(x, e)}
    BY <1>3 DEF Fore
  <2> QED BY <1>5, <2>1
<1>7. /\ \A i \in 1..n : \E e \in E : r[e] = i - 1
      /\ \A e \in E : r[e] \in Nat /\ r[e] + 1 \in 1..n
      /\ \A a, b \in E : Precedes(a, b) => r[a] < r[b]
  <2>1. /\ \A i \in 1..n : \E e \in E : Cardinality(Fore(B, E, e)) = i - 1
        /\ \A e \in E : Cardinality(Fore(B, E, e)) \in Nat /\ Cardinality(Fore(B, E, e)) + 1 \in 1..n
        /\ \A a, b \in E : <<a, b>> \in B => Cardinality(Fore(B, E, a)) < Cardinality(Fore(B, E, b))
    BY <1>1, <1>4, Ranks
  <2> QED BY <1>3, <1>5, <2>1
<1>8. PICK s : s = sortNewestFirst(E)
  OBVIOUS
<1>9. s = [i \in 1..n |-> CHOOSE e \in E : Cardinality({x \in E : Precedes(x, e)}) = i - 1]
  BY <1>1, <1>8 DEF sortNewestFirst
<1>10. ASSUME NEW i \in 1..n PROVE s[i] \in E /\ r[s[i]] = i - 1
  <2>1. \E e \in E : Cardinality({x \in E : Precedes(x, e)}) = i - 1
    BY <1>6, <1>7
  <2>2. s[i] = CHOOSE e \in E : Cardinality({x \in E : Precedes(x, e)}) = i - 1
    BY <1>9
  <2>3. s[i] \in E /\ Cardinality({x \in E : Precedes(x, s[i])}) = i - 1
    BY <2>1, <2>2
  <2> QED BY <1>6, <2>3
<1>11. \A a, b \in E : r[a] = r[b] => a = b
  <2> SUFFICES ASSUME NEW a \in E, NEW b \in E, a # b PROVE r[a] # r[b]
    OBVIOUS
  <2>1. r[a] < r[b] \/ r[b] < r[a]
    BY <1>3, <1>4, <1>7 DEF Orders
  <2> QED BY <1>7, <2>1
<1>12. ASSUME NEW e \in E PROVE s[r[e] + 1] = e
  <2>1. PICK i \in 1..n : i = r[e] + 1
    BY <1>7
  <2>2. s[i] \in E /\ r[s[i]] = r[e]
    BY <1>7, <1>10, <2>1
  <2> QED BY <1>11, <2>1, <2>2
<1>13. DOMAIN s = 1..n
  BY <1>9
<1>14. ToSet(s) = E
  BY <1>7, <1>10, <1>12, <1>13 DEF ToSet
<1>15. ASSUME NEW i \in 1..n, NEW j \in 1..n, i < j PROVE s[i] # s[j] /\ s[i].last >= s[j].last
  <2>1. s[i] \in E /\ s[j] \in E /\ r[s[i]] = i - 1 /\ r[s[j]] = j - 1
    BY <1>10
  <2>2. s[i] # s[j]
    BY <1>15, <2>1
  <2>3. ~Precedes(s[j], s[i])
    BY <1>7, <1>15, <2>1
  <2>4. PICK a, b : a \in EventSummary /\ b \in EventSummary /\ a = s[i] /\ b = s[j]
    BY <2>1
  <2>5. a.last >= b.last
    BY <2>3, <2>4 DEF Precedes, EventSummary
  <2> QED BY <2>2, <2>4, <2>5
<1> QED BY <1>1, <1>8, <1>13, <1>14, <1>15

\* The copies that have the most occurrences, of each event.
Latest(C) == {e \in C : \A c \in C : c.name = e.name => c.count <= e.count}

\* Copies of a namespace's events, as CacheAssumption has them.
OneHistory(C) ==
    /\ IsFiniteSet(C) /\ C \subseteq EventSummary
    /\ \A c, e \in C : c.name = e.name => (c.last < e.last => c.count < e.count) /\ (c.count = e.count => c = e)

\* A turn of the loop of mergeEvents.
MergeOne(out, e) ==
    LET old == {x \in out : x.name = e.name}
    IN IF \E x \in old : ~Newer(e, x) THEN out ELSE (out \ old) \cup {e}

LEMMA LatestOf ==
    ASSUME NEW C, OneHistory(C), NEW c \in C
    PROVE  \E e \in Latest(C) : e.name = c.name /\ c.count <= e.count
<1>1. PICK B : B = {x \in C : x.name = c.name}
  OBVIOUS
<1>2. IsFiniteSet(B) /\ B # {} /\ B \subseteq C
  BY <1>1, FS_Subset DEF OneHistory
<1>3. PICK d : d = [x \in B |-> x.count]
  OBVIOUS
<1>4. \A x \in B : d[x] \in Nat
  BY <1>2, <1>3 DEF OneHistory, EventSummary
<1>5. PICK e \in B : \A x \in B : d[x] <= d[e]
  BY <1>2, <1>4, Largest, Zenon
<1>6. \A x \in B : x.count <= e.count
  BY <1>3, <1>5
<1> QED BY <1>1, <1>6 DEF Latest

LEMMA LatestMore ==
    ASSUME NEW C, NEW e, OneHistory(C \cup {e})
    PROVE  Latest(C \cup {e}) = MergeOne(Latest(C), e)
<1> DEFINE L == Latest(C)
           old == {x \in L : x.name = e.name}
<1>1. OneHistory(C)
  <2>1. IsFiniteSet(C)
    BY FS_Subset DEF OneHistory
  <2> QED BY <2>1 DEF OneHistory
<1>2. \A x \in C \cup {e} : x.count \in Nat /\ x.last \in Nat
  BY DEF OneHistory, EventSummary
<1>3. \A x \in C : (x.name = e.name /\ Newer(e, x)) => e.count > x.count
  <2> SUFFICES ASSUME NEW x \in C, x.name = e.name, Newer(e, x) PROVE e.count > x.count
    OBVIOUS
  <2>1. e.last > x.last => e.count > x.count
    BY <1>2 DEF OneHistory
  <2> QED BY <1>2, <2>1 DEF Newer
<1>4. \A x \in C : ~Newer(e, x) => e.count <= x.count
  BY <1>2 DEF Newer
<1>5. \A x \in C : x.count = e.count /\ x.name = e.name => x = e
  BY DEF OneHistory
<1>6. \A x \in L : x \in C /\ \A c \in C : c.name = x.name => c.count <= x.count
  BY DEF Latest
<1>7. CASE \E x \in old : ~Newer(e, x)
  <2>1. PICK x \in L : x.name = e.name /\ e.count <= x.count
    BY <1>4, <1>6, <1>7
  <2>2. MergeOne(L, e) = L
    BY <1>7 DEF MergeOne
  <2>3. ASSUME NEW y \in L PROVE y \in Latest(C \cup {e})
    <3>1. y \in C /\ \A c \in C : c.name = y.name => c.count <= y.count
      BY <1>6
    <3>2. e.name = y.name => e.count <= y.count
      BY <1>2, <1>6, <2>1, <3>1
    <3> QED BY <3>1, <3>2 DEF Latest
  <2>4. ASSUME NEW y \in Latest(C \cup {e}) PROVE y \in L
    <3>1. y \in C \cup {e} /\ \A c \in C \cup {e} : c.name = y.name => c.count <= y.count
      BY DEF Latest
    <3>2. CASE y \in C
      BY <3>1, <3>2 DEF Latest
    <3>3. CASE y = e
      <4>1. x \in C /\ x.count = e.count
        BY <1>2, <1>6, <2>1, <3>1, <3>3
      <4> QED BY <1>5, <2>1, <3>3, <4>1
    <3> QED BY <3>1, <3>2, <3>3
  <2> HIDE DEF L
  <2>5. L = Latest(C \cup {e})
    BY <2>3, <2>4
  <2> QED BY <2>2, <2>5 DEF L
<1>8. CASE \A x \in old : Newer(e, x)
  <2>1. MergeOne(L, e) = (L \ old) \cup {e}
    BY <1>8 DEF MergeOne
  <2>2. \A c \in C : c.name = e.name => c.count < e.count
    <3> SUFFICES ASSUME NEW c \in C, c.name = e.name PROVE c.count < e.count
      OBVIOUS
    <3>1. PICK x \in Latest(C) : x.name = c.name /\ c.count <= x.count
      BY <1>1, LatestOf, Zenon
    <3>2. x \in C /\ e.count > x.count
      BY <1>3, <1>6, <1>8, <3>1
    <3> QED BY <1>2, <3>1, <3>2
  <2>3. e \in Latest(C \cup {e})
    BY <1>2, <2>2 DEF Latest
  <2>4. ASSUME NEW y \in L \ old PROVE y \in Latest(C \cup {e})
    <3>1. y \in C /\ y.name # e.name /\ \A c \in C : c.name = y.name => c.count <= y.count
      BY <1>6
    <3> QED BY <3>1 DEF Latest
  <2>5. ASSUME NEW y \in Latest(C \cup {e}), y # e PROVE y \in L \ old
    <3>1. y \in C /\ \A c \in C \cup {e} : c.name = y.name => c.count <= y.count
      BY <2>5 DEF Latest
    <3>2. y \in L
      BY <3>1 DEF Latest
    <3>3. y.name # e.name
      BY <1>2, <2>2, <3>1
    <3> QED BY <3>2, <3>3
  <2> QED BY <2>1, <2>3, <2>4, <2>5
<1> QED BY <1>7, <1>8

\* The loop, and what it has merged after each turn.
IsMerge(f, base, extra) ==
    f = [i \in 0..Len(extra) |->
           IF i = 0 THEN ToSet(base)
           ELSE LET old == {x \in f[i - 1] : x.name = extra[i].name}
                IN IF \E x \in old : ~Newer(extra[i], x) THEN f[i - 1] ELSE (f[i - 1] \ old) \cup {extra[i]}]

Upto(base, extra, i) == ToSet(base) \cup {extra[j] : j \in 1..i}

LEMMA MergeTurn ==
    ASSUME NEW base, NEW extra, NEW f
    PROVE  IsMerge(f, base, extra) <=>
             f = [i \in 0..Len(extra) |-> IF i = 0 THEN ToSet(base) ELSE MergeOne(f[i - 1], extra[i])]
  BY Zenon DEF IsMerge, MergeOne

LEMMA UptoNext ==
    ASSUME NEW base, NEW S, NEW extra \in Seq(S), OneHistory(ToSet(base) \cup ToSet(extra)), NEW i \in 1..Len(extra)
    PROVE  Latest(Upto(base, extra, i)) = MergeOne(Latest(Upto(base, extra, i - 1)), extra[i])
<1>1. PICK C, e : C = Upto(base, extra, i - 1) /\ e = extra[i]
  OBVIOUS
<1>2. Len(extra) \in Nat /\ DOMAIN extra = 1..Len(extra)
  OBVIOUS
<1>3. Upto(base, extra, i) = C \cup {e}
  BY <1>1, <1>2 DEF Upto
<1>4. C \cup {e} \subseteq ToSet(base) \cup ToSet(extra)
  BY <1>1, <1>2 DEF Upto, ToSet
<1>5. OneHistory(C \cup {e})
  <2>1. IsFiniteSet(C \cup {e})
    BY <1>4, FS_Subset DEF OneHistory
  <2> QED BY <1>4, <2>1 DEF OneHistory
<1>6. Latest(C \cup {e}) = MergeOne(Latest(C), e)
  BY <1>5, LatestMore
<1> QED BY <1>1, <1>3, <1>6

LEMMA MergedIs ==
    ASSUME NEW base, NEW S, NEW extra \in Seq(S), OneHistory(ToSet(base) \cup ToSet(extra)),
           \A a, b \in ToSet(base) : a.name = b.name => a = b
    PROVE  merged(base, extra) = Latest(ToSet(base) \cup ToSet(extra))
<1> DEFINE g == [i \in 0..Len(extra) |-> Latest(Upto(base, extra, i))]
<1>1. PICK n \in Nat : n = Len(extra) /\ DOMAIN extra = 1..n
  OBVIOUS
<1>2. Latest(Upto(base, extra, 0)) = ToSet(base)
  <2>1. Upto(base, extra, 0) = ToSet(base)
    BY DEF Upto
  <2>2. \A a \in ToSet(base) : a.count \in Nat
    BY DEF OneHistory, EventSummary
  <2> QED BY <2>1, <2>2 DEF Latest
<1>3. ASSUME NEW i \in 0..n PROVE g[i] = IF i = 0 THEN ToSet(base) ELSE MergeOne(g[i - 1], extra[i])
  <2>1. CASE i = 0
    BY <1>1, <1>2, <2>1
  <2>2. CASE i # 0
    <3>1. i \in 1..Len(extra) /\ i - 1 \in 0..n
      BY <1>1, <2>2
    <3>2. Latest(Upto(base, extra, i)) = MergeOne(Latest(Upto(base, extra, i - 1)), extra[i])
      BY <3>1, UptoNext
    <3> QED BY <1>1, <2>2, <3>1, <3>2
  <2> QED BY <2>1, <2>2
<1>4. \E f : IsMerge(f, base, extra)
  <2>1. g = [i \in 0..Len(extra) |-> IF i = 0 THEN ToSet(base) ELSE MergeOne(g[i - 1], extra[i])]
    BY <1>1, <1>3, Zenon
  <2> HIDE DEF g
  <2> QED BY <2>1, MergeTurn, Zenon
<1>5. PICK f : f = (CHOOSE h : IsMerge(h, base, extra)) /\ IsMerge(f, base, extra)
  BY <1>4
<1>6. f = [i \in 0..n |-> IF i = 0 THEN ToSet(base) ELSE MergeOne(f[i - 1], extra[i])]
  BY <1>1, <1>5, MergeTurn, Zenon
<1>7. merged(base, extra) = f[n]
  BY <1>1, <1>5, Zenon DEF merged, IsMerge
<1>8. \A i \in 0..n : f[i] = g[i]
  <2> DEFINE bad == {i \in 0..n : f[i] # g[i]}
  <2> SUFFICES ASSUME bad # {} PROVE FALSE
    OBVIOUS
  <2>1. PICK i \in bad : i \in Nat /\ \A m \in bad : i <= m
    <3>1. bad \subseteq Nat
      OBVIOUS
    <3> HIDE DEF bad
    <3> QED BY <3>1, Smallest
  <2>2. i \in 0..n /\ f[i] # g[i]
    OBVIOUS
  <2> HIDE DEF g
  <2>3. f[i] = IF i = 0 THEN ToSet(base) ELSE MergeOne(f[i - 1], extra[i])
    BY <1>6, <2>2
  <2>4. i # 0 => i - 1 \in 0..n /\ i - 1 \notin bad
    BY <2>1, <2>2
  <2>5. i # 0 => f[i - 1] = g[i - 1]
    BY <2>4
  <2> QED BY <1>3, <2>2, <2>3, <2>5
<1>9. Upto(base, extra, n) = ToSet(base) \cup ToSet(extra)
  BY <1>1 DEF Upto, ToSet
<1>10. f[n] = g[n] /\ g[n] = Latest(Upto(base, extra, n))
  BY <1>1, <1>8
<1> QED BY <1>7, <1>9, <1>10

LEMMA ToSetFinite ==
    ASSUME NEW S, NEW s \in Seq(S)
    PROVE  IsFiniteSet(ToSet(s)) /\ ToSet(s) \subseteq S
<1>1. PICK n \in Nat : n = Len(s) /\ DOMAIN s = 1..n
  OBVIOUS
<1>2. s \in Surjection(1..n, ToSet(s))
  <2>1. s \in [1..n -> ToSet(s)]
    BY <1>1 DEF ToSet
  <2> QED BY <1>1, <2>1 DEF Surjection, ToSet
<1>3. IsFiniteSet(1..n)
  BY FS_Interval
<1>4. IsFiniteSet(ToSet(s))
  BY <1>2, <1>3, FS_Surjection
<1> QED BY <1>1, <1>4 DEF ToSet

Held(v, ns) == Copies(v.sweep, ns) \cup Copies(v.feed, ns)

\* CacheAssumption, a namespace at a time.
LEMMA CachesHold ==
    ASSUME NEW v \in Caches
    PROVE  /\ DOMAIN v.sweep \cup DOMAIN v.feed \subseteq Nat \ {clusterScopeNS}
           /\ IsFiniteSet(DOMAIN v.sweep \cup DOMAIN v.feed)
           /\ \A ns \in DOMAIN v.sweep \cup DOMAIN v.feed :
                /\ OneHistory(Held(v, ns))
                /\ \A c, e \in Held(v, ns) : c.ns = ns /\ (c.obj = e.obj => c.namespaced = e.namespaced)
           /\ \A ns \in DOMAIN v.sweep :
                /\ v.sweep[ns] \in Seq(EventSummary) /\ v.sweep[ns] = sortNewestFirst(ToSet(v.sweep[ns]))
                /\ \A a, b \in ToSet(v.sweep[ns]) : a.name = b.name => a = b
           /\ \A ns \in DOMAIN v.feed : v.feed[ns] \in Seq(EventSummary)
<1>1. /\ DOMAIN v.sweep \cup DOMAIN v.feed \subseteq Nat \ {clusterScopeNS}
      /\ IsFiniteSet(DOMAIN v.sweep \cup DOMAIN v.feed)
      /\ \A ns \in DOMAIN v.sweep : v.sweep[ns] \in Seq(EventSummary) /\ v.sweep[ns] = sortNewestFirst(ToSet(v.sweep[ns]))
      /\ \A ns \in DOMAIN v.feed : v.feed[ns] \in Seq(EventSummary)
  BY CacheAssumption, Zenon
<1>2. \A f \in {v.sweep, v.feed} : \A ns \in DOMAIN f : \A i, j \in DOMAIN f[ns] :
                 i # j => f[ns][i].name # f[ns][j].name
  BY CacheAssumption, Zenon
<1>3. \A ns \in DOMAIN v.sweep \cup DOMAIN v.feed : \A c, e \in Held(v, ns) :
         /\ c.ns = ns
         /\ c.name = e.name => (c.last < e.last => c.count < e.count) /\ (c.count = e.count => c = e)
         /\ c.obj = e.obj => c.namespaced = e.namespaced
  BY CacheAssumption, Zenon DEF Held
<1>4. ASSUME NEW ns \in DOMAIN v.sweep \cup DOMAIN v.feed PROVE OneHistory(Held(v, ns))
  <2>1. IsFiniteSet(Copies(v.sweep, ns)) /\ Copies(v.sweep, ns) \subseteq EventSummary
    BY <1>1, ToSetFinite, FS_EmptySet DEF Copies
  <2>2. IsFiniteSet(Copies(v.feed, ns)) /\ Copies(v.feed, ns) \subseteq EventSummary
    BY <1>1, ToSetFinite, FS_EmptySet DEF Copies
  <2>3. IsFiniteSet(Held(v, ns)) /\ Held(v, ns) \subseteq EventSummary
    BY <2>1, <2>2, FS_Union DEF Held
  <2> QED BY <1>3, <2>3 DEF OneHistory
<1>5. ASSUME NEW ns \in DOMAIN v.sweep PROVE \A a, b \in ToSet(v.sweep[ns]) : a.name = b.name => a = b
  <2>1. PICK f : f = v.sweep /\ f \in {v.sweep, v.feed}
    OBVIOUS
  <2>2. \A i, j \in DOMAIN f[ns] : i # j => f[ns][i].name # f[ns][j].name
    BY <1>2, <2>1
  <2> QED BY <2>1, <2>2 DEF ToSet
<1> QED BY <1>1, <1>3, <1>4, <1>5

\* What namespaceEvents gives: of every event the latest copy, newest first.
LEMMA AllNewest ==
    ASSUME NEW v \in Caches, NEW ns \in DOMAIN v.sweep \cup DOMAIN v.feed
    PROVE  LET evs == allNamespaceEvents(v)[ns]
           IN /\ ToSet(evs) = Latest(Held(v, ns))
              /\ \A i, j \in DOMAIN evs : i < j => evs[i].last >= evs[j].last /\ evs[i].name # evs[j].name
<1>1. PICK base, extra : /\ base = (IF ns \in DOMAIN v.sweep THEN v.sweep[ns] ELSE <<>>)
                         /\ extra = (IF ns \in DOMAIN v.feed THEN v.feed[ns] ELSE <<>>)
  OBVIOUS
<1>2. PICK evs : evs = allNamespaceEvents(v)[ns] /\ evs = mergeEvents(base, extra)
  BY <1>1 DEF allNamespaceEvents
<1>3. PICK C : C = Held(v, ns) /\ C = ToSet(base) \cup ToSet(extra)
  <2>1. ToSet(<<>>) = {}
    BY DEF ToSet
  <2> QED BY <1>1, <2>1 DEF Held, Copies
<1>4. OneHistory(C) /\ \A c \in C : c.ns = ns
  <2>1. /\ OneHistory(Held(v, ns))
        /\ \A c, e \in Held(v, ns) : c.ns = ns /\ (c.obj = e.obj => c.namespaced = e.namespaced)
    BY CachesHold, Zenon
  <2> QED BY <1>3, <2>1
<1>5. base \in Seq(EventSummary) /\ extra \in Seq(EventSummary)
  <2>1. <<>> \in Seq(EventSummary)
    OBVIOUS
  <2>2. base \in Seq(EventSummary)
    BY <1>1, <2>1, CachesHold
  <2>3. extra \in Seq(EventSummary)
    BY <1>1, <2>1, CachesHold
  <2> QED BY <2>2, <2>3
<1>6. \A a, b \in ToSet(base) : a.name = b.name => a = b
  <2>1. CASE ns \in DOMAIN v.sweep
    BY <1>1, <2>1, CachesHold
  <2>2. CASE ns \notin DOMAIN v.sweep
    BY <1>1, <2>2 DEF ToSet
  <2> QED BY <2>1, <2>2
<1>7. PICK L : L = Latest(C)
  OBVIOUS
<1>8. IsFiniteSet(L) /\ L \subseteq EventSummary /\ \A a, b \in L : a.name = b.name => a = b
  <2>1. L \in SUBSET C
    BY <1>7 DEF Latest
  <2>2. \A a \in L : a.count \in Nat
    BY <1>4, <2>1 DEF OneHistory, EventSummary
  <2>3. \A a, b \in L : a.name = b.name => a.count = b.count
    BY <1>7, <2>2 DEF Latest
  <2>4. IsFiniteSet(L)
    BY <1>4, <2>1, FS_Subset DEF OneHistory
  <2> QED BY <1>4, <2>1, <2>3, <2>4 DEF OneHistory
<1>9. CASE extra = <<>> /\ ns \notin DOMAIN v.sweep
  <2>1. evs = <<>>
    BY <1>1, <1>2, <1>9 DEF mergeEvents
  <2>2. C = {}
    BY <1>1, <1>3, <1>9 DEF ToSet
  <2>3. Latest(Held(v, ns)) = {}
    BY <1>3, <2>2 DEF Latest
  <2>4. ToSet(evs) = {} /\ DOMAIN evs = {}
    BY <2>1 DEF ToSet
  <2> QED BY <1>2, <2>3, <2>4
<1>10. CASE ~(extra = <<>> /\ ns \notin DOMAIN v.sweep)
  <2>1. evs = sortNewestFirst(L)
    <3>1. CASE extra = <<>>
      <4>1. evs = base /\ base = sortNewestFirst(ToSet(base))
        BY <1>1, <1>2, <1>10, <3>1, CachesHold DEF mergeEvents
      <4>2. C = ToSet(base)
        BY <1>3, <3>1 DEF ToSet
      <4>3. \A a \in C : a.count \in Nat
        BY <1>4 DEF OneHistory, EventSummary
      <4>4. L = C
        BY <1>6, <1>7, <4>2, <4>3 DEF Latest
      <4> QED BY <4>1, <4>2, <4>4
    <3>2. CASE extra # <<>>
      <4>1. evs = sortNewestFirst(merged(base, extra))
        BY <1>2, <3>2 DEF mergeEvents
      <4>2. merged(base, extra) = Latest(ToSet(base) \cup ToSet(extra))
        BY <1>3, <1>4, <1>5, <1>6, MergedIs
      <4> QED BY <1>3, <1>7, <4>1, <4>2
    <3> QED BY <3>1, <3>2
  <2>2. /\ ToSet(evs) = L
        /\ \A i, j \in DOMAIN evs : i < j => evs[i] # evs[j] /\ evs[i].last >= evs[j].last
    BY <1>8, <2>1, Sorted
  <2>3. \A i \in DOMAIN evs : evs[i] \in L
    BY <2>2 DEF ToSet
  <2>4. \A i, j \in DOMAIN evs : i < j => evs[i].name # evs[j].name
    BY <1>8, <2>2, <2>3
  <2> QED BY <1>2, <1>3, <1>7, <2>2, <2>4
<1> QED BY <1>9, <1>10

\* The window of buildCorrelateResponse takes in what was seen while the object's events were.
LEMMA Near ==
    ASSUME NEW v \in Caches, NEW all, all = allNamespaceEvents(v)
    PROVE  LET near == correlated(all, v.ns, v.obj)
               own == {e \in scopeEvents(all, v.ns) : e.obj = v.obj}
               While(e) == (\E a \in own : a.first # 0 /\ a.first <= e.last) /\ (\E a \in own : e.last <= a.last)
           IN /\ own \cap near = {}
              /\ \A ns \in DOMAIN all : \A e \in ToSet(all[ns]) \ own : While(e) => e \in near
<1> DEFINE own == {e \in scopeEvents(all, v.ns) : e.obj = v.obj}
           latest == Max({e.last : e \in own})
           starts == {e.first : e \in own} \ {0}
           earliest == IF starts = {} THEN latest ELSE Min(starts)
           Own(n, e) == e.obj = v.obj /\ (n = v.ns \/ (v.ns = clusterScopeNS /\ ~e.namespaced))
           Close(n, e) == ~Own(n, e) /\ e.last > earliest - Buffer /\ e.last < latest + Buffer
<1>0. correlated(all, v.ns, v.obj) =
        IF own = {} THEN {} ELSE UNION {{e \in ToSet(all[n]) : Close(n, e)} : n \in DOMAIN all}
  BY Zenon DEF correlated
<1>1. PICK near : near = correlated(all, v.ns, v.obj)
  OBVIOUS
<1> HIDE DEF own
<1>a. \A e : e \in near <=> own # {} /\ \E n \in DOMAIN all : e \in ToSet(all[n]) /\ Close(n, e)
  <2> HIDE DEF Close
  <2> QED BY <1>0, <1>1
<1>2. DOMAIN all = DOMAIN v.sweep \cup DOMAIN v.feed /\ clusterScopeNS \notin DOMAIN all
  BY CachesHold DEF allNamespaceEvents
<1>b. ASSUME NEW n \in DOMAIN all
      PROVE  /\ OneHistory(Held(v, n))
             /\ \A c, d \in Held(v, n) : c.ns = n /\ (c.obj = d.obj => c.namespaced = d.namespaced)
  BY <1>2, CachesHold, Zenon
<1>3. ASSUME NEW n \in DOMAIN all, NEW e \in ToSet(all[n]) PROVE e \in Held(v, n) /\ e.ns = n /\ e \in EventSummary
  <2>1. ToSet(all[n]) = Latest(Held(v, n))
    BY <1>2, AllNewest
  <2>2. e \in Held(v, n)
    BY <2>1 DEF Latest
  <2> QED BY <1>b, <2>2 DEF OneHistory
<1>4. \A e \in own : /\ e.obj = v.obj /\ (e.namespaced <=> v.ns # clusterScopeNS)
                     /\ \E n \in DOMAIN all : e \in ToSet(all[n]) /\ (v.ns = clusterScopeNS \/ n = v.ns)
  BY DEF scopeEvents, own
<1>5. ASSUME NEW e \in own, e \in near PROVE FALSE
  <2>1. PICK n \in DOMAIN all : e \in ToSet(all[n]) /\ ~Own(n, e)
    BY <1>a, <1>5
  <2>2. PICK m \in DOMAIN all : e \in ToSet(all[m]) /\ (v.ns = clusterScopeNS \/ m = v.ns)
    BY <1>4
  <2>3. n = m
    BY <1>3, <2>1, <2>2
  <2> QED BY <1>4, <2>1, <2>2, <2>3
<1>6. ASSUME NEW n \in DOMAIN all, NEW e \in ToSet(all[n]), e \notin own,
             NEW a \in own, a.first # 0, a.first <= e.last, NEW b \in own, e.last <= b.last
      PROVE  e \in near
  <2>1. ~Own(n, e)
    <3> SUFFICES ASSUME Own(n, e) PROVE FALSE
      OBVIOUS
    <3>1. CASE v.ns = clusterScopeNS /\ ~e.namespaced
      BY <1>6, <3>1 DEF scopeEvents, own
    <3>2. CASE n = v.ns
      <4>1. v.ns # clusterScopeNS
        BY <1>2, <3>2
      <4>2. a.obj = e.obj /\ a.namespaced /\ a \in ToSet(all[n])
        BY <1>4, <3>2, <4>1
      <4>3. a \in Held(v, n) /\ e \in Held(v, n)
        BY <1>3, <4>2
      <4>4. e.namespaced
        BY <1>b, <4>2, <4>3
      <4> QED BY <1>6, <3>2, <4>1, <4>4 DEF scopeEvents, own
    <3> QED BY <3>1, <3>2
  <2>2. \A x \in own : x \in EventSummary
    BY <1>3, <1>4
  <2>3. IsFiniteSet(own)
    <3>1. PICK F, f : F = {ToSet(all[m]) : m \in DOMAIN all} /\ f = [m \in DOMAIN all |-> ToSet(all[m])]
      OBVIOUS
    <3>2. f \in Surjection(DOMAIN all, F)
      BY <3>1 DEF Surjection
    <3>3. IsFiniteSet(DOMAIN all)
      BY <1>2, CachesHold
    <3>4. IsFiniteSet(F)
      BY <3>2, <3>3, FS_Surjection
    <3>5. \A T \in F : IsFiniteSet(T)
      <4> SUFFICES ASSUME NEW m \in DOMAIN all PROVE IsFiniteSet(ToSet(all[m]))
        BY <3>1
      <4>1. ToSet(all[m]) = Latest(Held(v, m))
        BY <1>2, AllNewest
      <4>2. IsFiniteSet(Held(v, m))
        BY <1>2, CachesHold DEF OneHistory
      <4> QED BY <4>1, <4>2, FS_Subset DEF Latest
    <3>6. IsFiniteSet(UNION F)
      BY <3>4, <3>5, FS_UNION
    <3>7. own \in SUBSET UNION F
      BY <1>4, <3>1
    <3> QED BY <3>6, <3>7, FS_Subset
  <2>4. b.last <= latest /\ latest \in Nat
    <3>1. PICK S : S = {x.last : x \in own}
      OBVIOUS
    <3>2. S \subseteq Nat /\ b.last \in S
      BY <2>2, <3>1 DEF EventSummary
    <3>3. IsFiniteSet(S)
      <4>1. PICK f : f = [x \in own |-> x.last]
        OBVIOUS
      <4>2. f \in Surjection(own, S)
        BY <3>1, <4>1 DEF Surjection
      <4> QED BY <2>3, <4>2, FS_Surjection
    <3>4. Max(S) \in S /\ \A m \in S : m <= Max(S)
      BY <3>2, <3>3, MaxIn
    <3> QED BY <3>1, <3>2, <3>4
  <2>5. earliest <= a.first /\ earliest \in Nat
    <3>1. PICK S : S = starts
      OBVIOUS
    <3>2. S \subseteq Nat /\ a.first \in S
      BY <1>6, <2>2, <3>1 DEF EventSummary
    <3>3. Min(S) \in S /\ \A m \in S : Min(S) <= m
      BY <3>2, MinIn
    <3>4. earliest = Min(S)
      BY <3>1, <3>2
    <3> QED BY <3>2, <3>3, <3>4
  <2>6. PICK f, l, t, q : f = earliest /\ l = latest /\ t = e.last /\ q = Buffer
    OBVIOUS
  <2>7. f \in Nat /\ l \in Nat /\ t \in Nat /\ q \in Nat \ {0} /\ f <= t /\ t <= l
    <3>1. a.first \in Nat /\ b.last \in Nat /\ t \in Nat
      BY <1>3, <1>6, <2>2, <2>6 DEF EventSummary
    <3>2. q \in Nat \ {0}
      BY <2>6, CacheAssumption, Zenon
    <3> HIDE DEF earliest, latest
    <3>3. f \in Nat /\ f <= a.first /\ l \in Nat /\ b.last <= l
      BY <2>4, <2>5, <2>6
    <3> QED BY <1>6, <2>6, <3>1, <3>2, <3>3
  <2>8. t > f - q /\ t < l + q
    BY <2>7
  <2>9. Close(n, e)
    BY <2>1, <2>6, <2>8
  <2> HIDE DEF Close
  <2> QED BY <1>a, <2>9
<1>7. own \cap near = {}
  BY <1>5
<1>8. \A n \in DOMAIN all : \A e \in ToSet(all[n]) \ own :
         ((\E a \in own : a.first # 0 /\ a.first <= e.last) /\ (\E a \in own : e.last <= a.last)) => e \in near
  BY <1>6
<1> QED BY <1>1, <1>7, <1>8, Zenon DEF own

EventsRead == shown = <<>> \/ \E v \in Caches : shown = readEvents(v)

LEMMA ReadNewest == EventsRead => EventsNewest
<1> SUFFICES ASSUME EventsRead, shown # <<>> PROVE EventsNewest
  BY DEF EventsNewest
<1>1. PICK v \in Caches : shown = readEvents(v)
  BY DEF EventsRead
<1>2. PICK all : all = allNamespaceEvents(v)
  OBVIOUS
<1>3. shown = [v |-> v, all |-> all, near |-> correlated(all, v.ns, v.obj)]
  BY <1>1, <1>2 DEF readEvents
<1>4. shown.v = v /\ shown.all = all /\ shown.near = correlated(all, v.ns, v.obj)
  BY <1>3
<1>5. DOMAIN all = DOMAIN v.sweep \cup DOMAIN v.feed
  BY <1>2 DEF allNamespaceEvents
<1>6. ASSUME NEW ns \in DOMAIN all
      PROVE  LET copies == Copies(v.sweep, ns) \cup Copies(v.feed, ns)
             IN /\ ToSet(all[ns]) = {e \in copies : \A c \in copies : c.name = e.name => c.count <= e.count}
                /\ \A i, j \in DOMAIN all[ns] : i < j => all[ns][i].last >= all[ns][j].last
                                                      /\ all[ns][i].name # all[ns][j].name
  BY <1>2, <1>5, AllNewest DEF Latest, Held
<1>7. LET near == correlated(all, v.ns, v.obj)
          own == {e \in scopeEvents(all, v.ns) : e.obj = v.obj}
          While(e) == (\E a \in own : a.first # 0 /\ a.first <= e.last) /\ (\E a \in own : e.last <= a.last)
      IN /\ own \cap near = {}
         /\ \A ns \in DOMAIN all : \A e \in ToSet(all[ns]) \ own : While(e) => e \in near
  BY <1>2, Near, Zenon
<1>8. LET own == {e \in scopeEvents(shown.all, shown.v.ns) : e.obj = shown.v.obj}
          While(e) == (\E a \in own : a.first # 0 /\ a.first <= e.last) /\ (\E a \in own : e.last <= a.last)
      IN /\ own \cap shown.near = {}
         /\ \A ns \in DOMAIN shown.all : \A e \in ToSet(shown.all[ns]) \ own : While(e) => e \in shown.near
  BY <1>4, <1>7
<1>9. \A ns \in DOMAIN shown.all :
         LET copies == Copies(shown.v.sweep, ns) \cup Copies(shown.v.feed, ns)
         IN /\ ToSet(shown.all[ns]) = {e \in copies : \A c \in copies : c.name = e.name => c.count <= e.count}
            /\ \A i, j \in DOMAIN shown.all[ns] : i < j => shown.all[ns][i].last >= shown.all[ns][j].last
                                                           /\ shown.all[ns][i].name # shown.all[ns][j].name
  BY <1>4, <1>6
<1> QED BY <1>8, <1>9, Zenon DEF EventsNewest

\* Whatever the caches hold, the pages show the latest copy of every event once, newest
\* first (mergeEvents), and an object's correlated events are those of others seen while
\* its own were (buildCorrelateResponse).
THEOREM EventsNewestAlways == EventsSpec => []EventsNewest
<1>1. EventsInit => EventsRead
  BY DEF EventsInit, EventsRead
<1>2. EventsRead /\ [ReadEvents]_shown => EventsRead'
  BY DEF EventsRead, ReadEvents
<1>3. EventsRead => EventsNewest
  BY ReadNewest
<1> QED BY <1>1, <1>2, <1>3, PTL DEF EventsSpec

------------------------------------------------------------------------------
(* Links: what the rules list, loop by loop. *)

LEMMA SetAppend ==
    ASSUME NEW A, NEW s \in Seq(A), NEW a \in A
    PROVE  Append(s, a) \in Seq(A) /\ ToSet(Append(s, a)) = ToSet(s) \cup {a}
<1>1. Len(s) \in Nat /\ DOMAIN s = 1..Len(s) /\ DOMAIN Append(s, a) = 1 .. Len(s) + 1
  OBVIOUS
<1>2. \A i \in 1..Len(s) : Append(s, a)[i] = s[i]
  OBVIOUS
<1>3. Append(s, a)[Len(s) + 1] = a
  OBVIOUS
<1>4. ToSet(Append(s, a)) = ToSet(s) \cup {a}
  BY <1>1, <1>2, <1>3 DEF ToSet
<1> QED BY <1>4

LEMMA SetConcat ==
    ASSUME NEW A, NEW s \in Seq(A), NEW t \in Seq(A)
    PROVE  s \o t \in Seq(A) /\ ToSet(s \o t) = ToSet(s) \cup ToSet(t) /\ Len(s \o t) = Len(s) + Len(t)
<1>1. PICK n, m \in Nat : n = Len(s) /\ m = Len(t) /\ DOMAIN s = 1..n /\ DOMAIN t = 1..m
  OBVIOUS
<1>0. s \o t \in Seq(A) /\ Len(s \o t) = n + m
  BY <1>1, ConcatProperties
<1>2. PICK u \in Seq(A) : u = s \o t /\ DOMAIN u = 1 .. n + m /\ Len(u) = n + m
  <2>1. DOMAIN (s \o t) = 1 .. Len(s \o t)
    BY <1>0, LenProperties
  <2> QED BY <1>0, <2>1
<1>a. \A i \in 1 .. n + m : u[i] = IF i <= n THEN s[i] ELSE t[i - n]
  BY <1>1, <1>2, ConcatProperties
<1>3. \A i \in 1..n : u[i] = s[i]
  BY <1>1, <1>a
<1>4. \A i \in 1..m : u[n + i] = t[i]
  <2> SUFFICES ASSUME NEW i \in 1..m PROVE u[n + i] = t[i]
    OBVIOUS
  <2>1. n + i \in 1 .. n + m /\ ~(n + i <= n) /\ (n + i) - n = i
    OBVIOUS
  <2> QED BY <1>a, <2>1
<1>5. \A i \in 1 .. n + m : i \in 1..n \/ (i - n \in 1..m /\ n + (i - n) = i)
  OBVIOUS
<1>6. \A i \in 1..m : n + i \in 1 .. n + m
  OBVIOUS
<1>7. \A i \in 1 .. n + m : u[i] \in ToSet(s) \cup ToSet(t)
  <2> SUFFICES ASSUME NEW i \in 1 .. n + m PROVE u[i] \in ToSet(s) \cup ToSet(t)
    OBVIOUS
  <2>1. CASE i \in 1..n
    BY <1>1, <1>3, <2>1 DEF ToSet
  <2>2. CASE i \notin 1..n
    <3>1. PICK j \in 1..m : n + j = i
      BY <1>5, <2>2
    <3>2. u[i] = t[j]
      BY <1>4, <3>1
    <3> QED BY <1>1, <3>2 DEF ToSet
  <2> QED BY <2>1, <2>2
<1>8. ToSet(s) \subseteq ToSet(u)
  BY <1>1, <1>2, <1>3 DEF ToSet
<1>9. ToSet(t) \subseteq ToSet(u)
  <2> SUFFICES ASSUME NEW x, x \in ToSet(t) PROVE x \in ToSet(u)
    OBVIOUS
  <2>1. PICK i \in 1..m : x = t[i]
    BY <1>1 DEF ToSet
  <2>2. n + i \in DOMAIN u /\ u[n + i] = x
    BY <1>2, <1>4, <1>6, <2>1, Zenon
  <2> QED BY <2>2, Zenon DEF ToSet
<1>10. ToSet(u) \subseteq ToSet(s) \cup ToSet(t)
  BY <1>2, <1>7 DEF ToSet
<1> QED BY <1>1, <1>2, <1>8, <1>9, <1>10

------------------------------------------------------------------------------
(* Loops.  J[i] is what the values may be after i turns. *)

LEMMA LoopKeeps ==
    ASSUME NEW n \in Nat, NEW h, NEW J, h[0] \in J[0], \A i \in 1..n : h[i - 1] \in J[i - 1] => h[i] \in J[i]
    PROVE  \A i \in 0..n : h[i] \in J[i]
<1> DEFINE bad == {i \in 0..n : h[i] \notin J[i]}
<1> SUFFICES ASSUME bad # {} PROVE FALSE
  OBVIOUS
<1>1. PICK i \in bad : i \in Nat /\ \A m \in bad : i <= m
  <2>1. bad \subseteq Nat
    OBVIOUS
  <2> HIDE DEF bad
  <2> QED BY <2>1, Smallest
<1>2. i \in 0..n /\ h[i] \notin J[i]
  OBVIOUS
<1>3. i # 0 => i \in 1..n /\ i - 1 \in 0..n /\ i - 1 \notin bad
  BY <1>1, <1>2
<1> QED BY <1>2, <1>3

\* The values f of a loop of m turns that starts with x.
Loop(f, m, X, x, G) == f \in [0..m -> X] /\ f[0] = x /\ \A i \in 1..m : f[i] = G[<<f[i - 1], i>>]

\* A loop whose turns stay within X has its values.
LEMMA LoopRuns ==
    ASSUME NEW n \in Nat, NEW X, NEW x \in X, NEW G \in [X \X (1..n) -> X]
    PROVE  \E f : Loop(f, n, X, x, G)
<1> DEFINE Runs(m, f) == f \in [0..m -> X] /\ f[0] = x /\ \A i \in 1..m : f[i] = G[<<f[i - 1], i>>]
           bad == {m \in 0..n : ~ \E f : Runs(m, f)}
<1> SUFFICES ASSUME bad # {} PROVE FALSE
  <2>1. n \in 0..n
    OBVIOUS
  <2>2. \E f : Runs(n, f)
    <3> HIDE DEF Runs
    <3> QED BY <2>1
  <2> QED BY <2>2, Zenon DEF Loop
<1>1. PICK m \in bad : m \in Nat /\ \A k \in bad : m <= k
  <2>1. bad \subseteq Nat
    OBVIOUS
  <2> HIDE DEF bad
  <2> QED BY <2>1, Smallest
<1>2. m \in 0..n /\ ~ \E f : Runs(m, f)
  OBVIOUS
<1>3. m # 0
  <2>1. PICK f : f = [i \in 0..0 |-> x]
    OBVIOUS
  <2>2. f \in [0..0 -> X] /\ f[0] = x /\ 1..0 = {}
    BY <2>1
  <2>3. Runs(0, f)
    BY <2>2
  <2> QED BY <1>2, <2>3
<1>4. m \in 1..n /\ m - 1 \in 0..n /\ m - 1 \notin bad
  BY <1>1, <1>2, <1>3
<1>5. PICK f : Runs(m - 1, f)
  BY <1>4
<1>6. PICK g : g = [i \in 0..m |-> IF i = m THEN G[<<f[m - 1], m>>] ELSE f[i]]
  OBVIOUS
<1>7. f[m - 1] \in X /\ G[<<f[m - 1], m>>] \in X
  BY <1>4, <1>5
<1>8. \A i \in 0 .. m - 1 : g[i] = f[i] /\ g[i] \in X
  BY <1>4, <1>5, <1>6
<1>9. g[m] = G[<<f[m - 1], m>>] /\ g[m] \in X
  BY <1>4, <1>6, <1>7
<1>10. g \in [0..m -> X]
  <2>1. \A i \in 0..m : g[i] \in X
    BY <1>4, <1>8, <1>9
  <2> QED BY <1>6, <2>1
<1>11. \A i \in 1..m : g[i] = G[<<g[i - 1], i>>]
  <2> SUFFICES ASSUME NEW i \in 1..m PROVE g[i] = G[<<g[i - 1], i>>]
    OBVIOUS
  <2>1. CASE i = m
    <3>1. m - 1 \in 0 .. m - 1
      BY <1>4
    <3>2. g[m - 1] = f[m - 1]
      BY <1>8, <3>1
    <3> QED BY <1>9, <2>1, <3>2
  <2>2. CASE i # m
    <3>1. i \in 1 .. m - 1 /\ i \in 0 .. m - 1 /\ i - 1 \in 0 .. m - 1
      BY <1>4, <2>2
    <3> QED BY <1>5, <1>8, <3>1
  <2> QED BY <2>1, <2>2
<1>12. g[0] = x
  BY <1>4, <1>5, <1>8
<1>13. Runs(m, g)
  BY <1>10, <1>11, <1>12
<1> QED BY <1>2, <1>13

------------------------------------------------------------------------------
(* Links *)

IsWhere(f, s, S) ==
    f = [i \in 0..Len(s) |-> IF i = 0 THEN <<>> ELSE IF s[i] \in S THEN Append(f[i - 1], s[i]) ELSE f[i - 1]]

\* Where keeps what is in the set, and nothing else.
LEMMA WhereIs ==
    ASSUME NEW A, NEW s \in Seq(A), NEW S
    PROVE  Where(s, S) \in Seq(A) /\ ToSet(Where(s, S)) = ToSet(s) \cap S
<1>1. PICK n \in Nat : n = Len(s) /\ DOMAIN s = 1..n
  OBVIOUS
<1>2. \A i \in 1..n : s[i] \in A
  BY <1>1
<1>3. <<>> \in Seq(A)
  OBVIOUS
<1>4. \E f : IsWhere(f, s, S)
  <2>1. PICK G : G = [q \in Seq(A) \X (1..n) |-> IF s[q[2]] \in S THEN Append(q[1], s[q[2]]) ELSE q[1]]
    OBVIOUS
  <2>2. G \in [Seq(A) \X (1..n) -> Seq(A)]
    BY <1>2, <2>1
  <2>3. PICK f \in [0..n -> Seq(A)] : f[0] = <<>> /\ \A i \in 1..n : f[i] = G[<<f[i - 1], i>>]
    <3>1. PICK X, e : X = Seq(A) /\ e = <<>>
      OBVIOUS
    <3>2. e \in X /\ G \in [X \X (1..n) -> X]
      BY <1>3, <2>2, <3>1
    <3>3. PICK f : Loop(f, n, X, e, G)
      BY <3>2, LoopRuns, Zenon
    <3> QED BY <3>1, <3>3 DEF Loop
  <2>4. \A i \in 0..n : f[i] = IF i = 0 THEN <<>> ELSE IF s[i] \in S THEN Append(f[i - 1], s[i]) ELSE f[i - 1]
    <3> SUFFICES ASSUME NEW i \in 0..n, i # 0
                 PROVE  f[i] = IF s[i] \in S THEN Append(f[i - 1], s[i]) ELSE f[i - 1]
      BY <2>3
    <3>1. i \in 1..n /\ i - 1 \in 0..n
      OBVIOUS
    <3>2. <<f[i - 1], i>> \in Seq(A) \X (1..n)
      BY <2>3, <3>1
    <3> QED BY <2>1, <2>3, <3>1, <3>2
  <2>5. f = [i \in 0..n |-> IF i = 0 THEN <<>> ELSE IF s[i] \in S THEN Append(f[i - 1], s[i]) ELSE f[i - 1]]
    BY <2>3, <2>4
  <2> QED BY <1>1, <2>5, Zenon DEF IsWhere
<1>5. PICK f : f = (CHOOSE h : IsWhere(h, s, S)) /\ IsWhere(f, s, S)
  BY <1>4
<1>6. Where(s, S) = f[n]
  BY <1>1, <1>5, Zenon DEF Where, IsWhere
<1>7. \A i \in 0..n : f[i] = IF i = 0 THEN <<>> ELSE IF s[i] \in S THEN Append(f[i - 1], s[i]) ELSE f[i - 1]
  BY <1>1, <1>5, Zenon DEF IsWhere
<1>8. PICK J : J = [i \in 0..n |-> {x \in Seq(A) : ToSet(x) = {s[j] : j \in 1..i} \cap S}]
  OBVIOUS
<1>9. f[0] \in J[0]
  <2>1. f[0] = <<>> /\ ToSet(<<>>) = {} /\ 0 \in 0..n /\ 1..0 = {}
    BY <1>7 DEF ToSet
  <2>2. {s[j] : j \in 1..0} \cap S = {}
    BY <2>1
  <2> QED BY <1>3, <1>8, <2>1, <2>2
<1>10. ASSUME NEW i \in 1..n, f[i - 1] \in J[i - 1] PROVE f[i] \in J[i]
  <2>1. i \in 0..n /\ i - 1 \in 0..n /\ i # 0
    OBVIOUS
  <2>2. PICK x : x = f[i - 1] /\ x \in Seq(A) /\ ToSet(x) = {s[j] : j \in 1 .. i - 1} \cap S
    BY <1>8, <1>10, <2>1
  <2>3. {s[j] : j \in 1..i} = {s[j] : j \in 1 .. i - 1} \cup {s[i]}
    OBVIOUS
  <2>4. CASE s[i] \in S
    <3>1. f[i] = Append(x, s[i])
      BY <1>7, <2>1, <2>2, <2>4
    <3>2. ToSet(Append(x, s[i])) = ToSet(x) \cup {s[i]} /\ Append(x, s[i]) \in Seq(A)
      BY <1>2, <2>2, SetAppend
    <3> QED BY <1>8, <2>1, <2>2, <2>3, <2>4, <3>1, <3>2
  <2>5. CASE s[i] \notin S
    <3>1. f[i] = x
      BY <1>7, <2>1, <2>2, <2>5
    <3> QED BY <1>8, <2>1, <2>2, <2>3, <2>5, <3>1
  <2> QED BY <2>4, <2>5
<1>11. f[n] \in J[n]
  <2>1. \A i \in 0..n : f[i] \in J[i]
    BY ONLY <1>9, <1>10, n \in Nat, LoopKeeps
  <2> QED BY <2>1
<1>12. {s[j] : j \in 1..n} = ToSet(s)
  BY <1>1 DEF ToSet
<1> QED BY <1>6, <1>8, <1>11, <1>12

IsFlat(f, lists) == f = [i \in 0..Len(lists) |-> IF i = 0 THEN <<>> ELSE f[i - 1] \o lists[i]]

\* Flat lists what is in some of the lists.
LEMMA FlatIs ==
    ASSUME NEW A, NEW n \in Nat, NEW lists \in [1..n -> Seq(A)]
    PROVE  /\ Flat(lists) \in Seq(A)
           /\ \A x : x \in ToSet(Flat(lists)) <=> \E i \in 1..n : x \in ToSet(lists[i])
<1>1. n = Len(lists)
  OBVIOUS
<1>2. \A i \in 1..n : lists[i] \in Seq(A)
  OBVIOUS
<1>3. <<>> \in Seq(A)
  OBVIOUS
<1>4. \E f : IsFlat(f, lists)
  <2>1. PICK G : G = [q \in Seq(A) \X (1..n) |-> q[1] \o lists[q[2]]]
    OBVIOUS
  <2>2. G \in [Seq(A) \X (1..n) -> Seq(A)]
    <3>1. \A q \in Seq(A) \X (1..n) : q[1] \o lists[q[2]] \in Seq(A)
      <4> SUFFICES ASSUME NEW q \in Seq(A) \X (1..n) PROVE q[1] \o lists[q[2]] \in Seq(A)
        OBVIOUS
      <4>1. PICK s, t : s = q[1] /\ t = lists[q[2]] /\ s \in Seq(A) /\ t \in Seq(A)
        BY <1>2
      <4>2. s \o t \in Seq(A)
        BY <4>1, SetConcat
      <4> QED BY <4>1, <4>2
    <3> QED BY <2>1, <3>1
  <2>3. PICK f \in [0..n -> Seq(A)] : f[0] = <<>> /\ \A i \in 1..n : f[i] = G[<<f[i - 1], i>>]
    <3>1. PICK X, e : X = Seq(A) /\ e = <<>>
      OBVIOUS
    <3>2. e \in X /\ G \in [X \X (1..n) -> X]
      BY <1>3, <2>2, <3>1
    <3>3. PICK f : Loop(f, n, X, e, G)
      BY <3>2, LoopRuns, Zenon
    <3> QED BY <3>1, <3>3 DEF Loop
  <2>4. \A i \in 0..n : f[i] = IF i = 0 THEN <<>> ELSE f[i - 1] \o lists[i]
    <3> SUFFICES ASSUME NEW i \in 0..n, i # 0 PROVE f[i] = f[i - 1] \o lists[i]
      BY <2>3
    <3>1. i \in 1..n /\ i - 1 \in 0..n
      OBVIOUS
    <3>2. <<f[i - 1], i>> \in Seq(A) \X (1..n)
      BY <2>3, <3>1
    <3> QED BY <2>1, <2>3, <3>1, <3>2
  <2>5. f = [i \in 0..n |-> IF i = 0 THEN <<>> ELSE f[i - 1] \o lists[i]]
    BY <2>3, <2>4
  <2> QED BY <1>1, <2>5, Zenon DEF IsFlat
<1>5. PICK f : f = (CHOOSE h : IsFlat(h, lists)) /\ IsFlat(f, lists)
  BY <1>4
<1>6. Flat(lists) = f[n]
  BY <1>1, <1>5, Zenon DEF Flat, IsFlat
<1>7. \A i \in 0..n : f[i] = IF i = 0 THEN <<>> ELSE f[i - 1] \o lists[i]
  BY <1>1, <1>5, Zenon DEF IsFlat
<1>8. PICK J : J = [i \in 0..n |-> {s \in Seq(A) : \A x : x \in ToSet(s) <=> \E j \in 1..i : x \in ToSet(lists[j])}]
  OBVIOUS
<1>9. f[0] \in J[0]
  <2>1. f[0] = <<>> /\ ToSet(<<>>) = {} /\ 0 \in 0..n /\ 1..0 = {}
    BY <1>7 DEF ToSet
  <2> QED BY <1>3, <1>8, <2>1
<1>10. ASSUME NEW i \in 1..n, f[i - 1] \in J[i - 1] PROVE f[i] \in J[i]
  <2>1. i \in 0..n /\ i - 1 \in 0..n /\ i # 0
    OBVIOUS
  <2>2. PICK s : s = f[i - 1] /\ s \in Seq(A) /\ \A x : x \in ToSet(s) <=> \E j \in 1 .. i - 1 : x \in ToSet(lists[j])
    BY <1>8, <1>10, <2>1
  <2>3. PICK t : t = lists[i] /\ t \in Seq(A)
    BY <1>2
  <2>4. PICK u : u = f[i] /\ u = s \o t
    BY <1>7, <2>1, <2>2, <2>3
  <2>5. u \in Seq(A) /\ ToSet(u) = ToSet(s) \cup ToSet(t)
    BY <2>2, <2>3, <2>4, SetConcat
  <2>6. \A j : j \in 1..i <=> j \in 1 .. i - 1 \/ j = i
    OBVIOUS
  <2>7. \A x : x \in ToSet(u) <=> \E j \in 1..i : x \in ToSet(lists[j])
    BY <2>2, <2>3, <2>5, <2>6, Zenon
  <2> QED BY <1>8, <2>1, <2>4, <2>5, <2>7
<1>11. f[n] \in J[n]
  <2>1. \A i \in 0..n : f[i] \in J[i]
    BY ONLY <1>9, <1>10, n \in Nat, LoopKeeps
  <2> QED BY <2>1
<1> QED BY <1>6, <1>8, <1>11

IsPods(f, v) ==
    f = [i \in 0..Len(v.warnings) |->
           IF i = 0 THEN IF v.anchor[1] = "Pod" THEN <<v.anchor[2]>> ELSE <<>>
           ELSE IF v.warnings[i].of = NoPod \/ Contains(f[i - 1], v.warnings[i].of) \/ Len(f[i - 1]) >= MaxPods
                THEN f[i - 1] ELSE Append(f[i - 1], v.warnings[i].of)]

\* The evidence is of Pods the view has.
LEMMA PodsAre ==
    ASSUME NEW v \in Views
    PROVE  evidencePods(v) \in Seq(DOMAIN v.pods) /\ Pods(v) \in Seq(DOMAIN v.pods)
<1> DEFINE w == v.warnings
           a == IF v.anchor[1] = "Pod" THEN <<v.anchor[2]>> ELSE <<>>
<1>1. PICK A : A = DOMAIN v.pods
  OBVIOUS
<1>2. PICK n \in Nat : n = Len(w) /\ DOMAIN w = 1..n
  BY <1>1, ViewAssumption
<1>3. \A i \in 1..n : w[i].of \in A \cup {NoPod}
  <2> SUFFICES ASSUME NEW i \in 1..n PROVE w[i].of \in A \cup {NoPod}
    OBVIOUS
  <2>1. w[i] \in ToSet(v.warnings)
    BY <1>1, <1>2 DEF ToSet
  <2> QED BY <1>1, <2>1, ViewAssumption
<1>4. a \in Seq(A)
  <2>1. CASE v.anchor[1] = "Pod"
    <3>1. PICK p \in A : p = v.anchor[2]
      BY <1>1, <2>1, ViewAssumption
    <3>2. <<p>> \in Seq(A)
      OBVIOUS
    <3> QED BY <1>1, <2>1, <3>1, <3>2
  <2>2. CASE v.anchor[1] # "Pod"
    BY <1>1, <2>2
  <2> QED BY <2>1, <2>2
<1>5. PICK G : G = [q \in Seq(A) \X (1..n) |->
                      IF w[q[2]].of = NoPod \/ Contains(q[1], w[q[2]].of) \/ Len(q[1]) >= MaxPods
                      THEN q[1] ELSE Append(q[1], w[q[2]].of)]
  OBVIOUS
<1>6. G \in [Seq(A) \X (1..n) -> Seq(A)]
  <2> SUFFICES ASSUME NEW q \in Seq(A) \X (1..n)
               PROVE  (IF w[q[2]].of = NoPod \/ Contains(q[1], w[q[2]].of) \/ Len(q[1]) >= MaxPods
                       THEN q[1] ELSE Append(q[1], w[q[2]].of)) \in Seq(A)
    BY <1>5
  <2>1. q[1] \in Seq(A) /\ w[q[2]].of \in A \cup {NoPod}
    BY <1>3
  <2> QED BY <2>1
<1>7. PICK f \in [0..n -> Seq(A)] : f[0] = a /\ \A i \in 1..n : f[i] = G[<<f[i - 1], i>>]
  <2>1. PICK X : X = Seq(A)
    OBVIOUS
  <2>2. a \in X /\ G \in [X \X (1..n) -> X]
    BY <1>4, <1>6, <2>1
  <2>3. PICK f : Loop(f, n, X, a, G)
    BY <2>2, LoopRuns, Zenon
  <2> QED BY <2>1, <2>3 DEF Loop
<1>8. \A i \in 0..n : f[i] = IF i = 0 THEN a
                             ELSE IF w[i].of = NoPod \/ Contains(f[i - 1], w[i].of) \/ Len(f[i - 1]) >= MaxPods
                                  THEN f[i - 1] ELSE Append(f[i - 1], w[i].of)
  <2> SUFFICES ASSUME NEW i \in 0..n, i # 0
               PROVE  f[i] = IF w[i].of = NoPod \/ Contains(f[i - 1], w[i].of) \/ Len(f[i - 1]) >= MaxPods
                             THEN f[i - 1] ELSE Append(f[i - 1], w[i].of)
    BY <1>7
  <2>1. i \in 1..n /\ i - 1 \in 0..n
    OBVIOUS
  <2>2. <<f[i - 1], i>> \in Seq(A) \X (1..n)
    BY <1>7, <2>1
  <2> QED BY <1>5, <1>7, <2>1, <2>2
<1>9. \E h : IsPods(h, v)
  <2>1. f = [i \in 0..n |-> IF i = 0 THEN a
                            ELSE IF w[i].of = NoPod \/ Contains(f[i - 1], w[i].of) \/ Len(f[i - 1]) >= MaxPods
                                 THEN f[i - 1] ELSE Append(f[i - 1], w[i].of)]
    BY <1>7, <1>8
  <2> QED BY <1>1, <1>2, <2>1, Zenon DEF IsPods
<1>10. PICK g : g = (CHOOSE h : IsPods(h, v)) /\ IsPods(g, v)
  BY <1>9
<1>11. evidencePods(v) = g[n]
  BY <1>1, <1>2, <1>10, Zenon DEF evidencePods, IsPods
<1>12. \A i \in 0..n : g[i] = IF i = 0 THEN a
                              ELSE IF w[i].of = NoPod \/ Contains(g[i - 1], w[i].of) \/ Len(g[i - 1]) >= MaxPods
                                   THEN g[i - 1] ELSE Append(g[i - 1], w[i].of)
  BY <1>1, <1>2, <1>10, Zenon DEF IsPods
<1>13. PICK J : J = [i \in 0..n |-> Seq(A)]
  OBVIOUS
<1>14. g[0] \in J[0]
  <2> HIDE DEF a
  <2>1. 0 \in 0..n
    OBVIOUS
  <2>2. g[0] = a
    BY <1>12, <2>1, Zenon
  <2> QED BY <1>4, <1>13, <2>1, <2>2
<1>15. ASSUME NEW i \in 1..n, g[i - 1] \in J[i - 1] PROVE g[i] \in J[i]
  <2>1. i \in 0..n /\ i - 1 \in 0..n /\ i # 0
    OBVIOUS
  <2>2. PICK s \in Seq(A) : s = g[i - 1]
    BY <1>13, <1>15, <2>1
  <2>3. w[i].of \in A \cup {NoPod}
    BY <1>3
  <2>4. g[i] = IF w[i].of = NoPod \/ Contains(s, w[i].of) \/ Len(s) >= MaxPods THEN s ELSE Append(s, w[i].of)
    BY <1>12, <2>1, <2>2
  <2> QED BY <1>13, <2>1, <2>3, <2>4
<1>16. g[n] \in J[n]
  <2>1. \A i \in 0..n : g[i] \in J[i]
    BY ONLY <1>14, <1>15, n \in Nat, LoopKeeps
  <2> QED BY <2>1
<1>17. evidencePods(v) \in Seq(A)
  BY <1>11, <1>13, <1>16
<1>18. Pods(v) \in Seq(A)
  BY <1>17, WhereIs, Zenon DEF Pods
<1> QED BY <1>1, <1>17, <1>18

Rules == {"config", "claim", "storageclass", "pullsecret", "service", "nodes"}
LinkItems == [rule : Rules, obj : Linkable]

ListedObjs(l) == {l[i].obj : i \in DOMAIN l}
Distinct(l) == \A i, j \in DOMAIN l : l[i].obj = l[j].obj => i = j
ListSound(v, l) == l \in Seq(LinkItems) /\ Distinct(l) /\ v.anchor \notin ListedObjs(l)

\* k is l and then items of the rule.
Grown(l, k, rule) ==
    /\ Len(l) <= Len(k)
    /\ \A i \in 1..Len(l) : k[i] = l[i]
    /\ \A i \in 1..Len(k) : i > Len(l) => k[i].rule = rule

LEMMA GrownTrans ==
    ASSUME NEW rule, NEW l \in Seq(LinkItems), NEW k \in Seq(LinkItems), NEW m \in Seq(LinkItems), Grown(l, k, rule), Grown(k, m, rule)
    PROVE  Grown(l, m, rule)
<1>1. PICK a, b, c \in Nat : a = Len(l) /\ b = Len(k) /\ c = Len(m)
  OBVIOUS
<1>2. a <= b /\ b <= c
  BY <1>1 DEF Grown
<1>3. \A i \in 1..a : m[i] = l[i]
  <2> SUFFICES ASSUME NEW i \in 1..a PROVE m[i] = l[i]
    OBVIOUS
  <2>1. i \in 1..b
    BY <1>2
  <2> QED BY <1>1, <2>1, Zenon DEF Grown
<1>4. \A i \in 1..c : i > a => m[i].rule = rule
  <2> SUFFICES ASSUME NEW i \in 1..c, i > a PROVE m[i].rule = rule
    OBVIOUS
  <2>1. CASE i > b
    BY <1>1, <2>1 DEF Grown
  <2>2. CASE ~(i > b)
    <3>1. i \in 1..b
      BY <2>2
    <3>2. m[i] = k[i] /\ k[i].rule = rule
      BY <1>1, <3>1 DEF Grown
    <3> QED BY <3>2
  <2> QED BY <2>1, <2>2
<1> QED BY <1>1, <1>2, <1>3, <1>4 DEF Grown

\* add lists an object once, and not the anchor.
LEMMA AddIs ==
    ASSUME NEW v, NEW l, ListSound(v, l), NEW rule \in Rules, NEW o \in Linkable
    PROVE  /\ ListSound(v, add(v, l, rule, o)) /\ Grown(l, add(v, l, rule, o), rule)
           /\ ListedObjs(add(v, l, rule, o)) = ListedObjs(l) \cup ({o} \ {v.anchor})
           /\ Len(add(v, l, rule, o)) <= Len(l) + 1
<1>1. PICK n \in Nat : n = Len(l) /\ DOMAIN l = 1..n /\ l \in Seq(LinkItems)
  BY DEF ListSound
<1>2. CASE o = v.anchor \/ \E i \in DOMAIN l : l[i].obj = o
  <2>1. add(v, l, rule, o) = l
    BY <1>2 DEF add
  <2>2. ListedObjs(l) = ListedObjs(l) \cup ({o} \ {v.anchor})
    BY <1>2 DEF ListedObjs
  <2>3. Grown(l, l, rule)
    BY <1>1 DEF Grown
  <2> QED BY <1>1, <2>1, <2>2, <2>3
<1>3. CASE ~(o = v.anchor \/ \E i \in DOMAIN l : l[i].obj = o)
  <2>1. PICK x \in LinkItems : x = [rule |-> rule, obj |-> o] /\ x.rule = rule /\ x.obj = o
    <3>1. [rule |-> rule, obj |-> o] \in LinkItems
      BY DEF LinkItems
    <3> QED BY <3>1
  <2>2. PICK k : k = Append(l, x) /\ k = add(v, l, rule, o)
    BY <1>3, <2>1 DEF add
  <2>a. PICK A : A = LinkItems /\ l \in Seq(A) /\ x \in A
    BY <1>1, <2>1
  <2>b. Append(l, x) \in Seq(A) /\ Len(Append(l, x)) = n + 1
    BY ONLY <1>1, <2>a, n \in Nat, AppendProperties
  <2>3. k \in Seq(LinkItems) /\ Len(k) = n + 1 /\ DOMAIN k = 1 .. n + 1
    BY <2>2, <2>a, <2>b
  <2>c. (\A i \in 1..n : Append(l, x)[i] = l[i]) /\ Append(l, x)[n + 1] = x
    BY ONLY <1>1, <2>a, n \in Nat, AppendProperties
  <2>4. \A i \in 1..n : k[i] = l[i]
    BY <2>2, <2>c, Zenon
  <2>5. k[n + 1] = x
    BY <2>2, <2>c, Zenon
  <2>6. \A i \in 1 .. n + 1 : i \in 1..n \/ i = n + 1
    OBVIOUS
  <2>7. n + 1 \in 1 .. n + 1 /\ \A i \in 1..n : i \in 1 .. n + 1
    OBVIOUS
  <2>8. ListedObjs(k) = ListedObjs(l) \cup {o}
    <3>1. \A y : y \in ListedObjs(k) => y \in ListedObjs(l) \cup {o}
      BY <1>1, <2>1, <2>3, <2>4, <2>5, <2>6 DEF ListedObjs
    <3>2. o \in ListedObjs(k)
      BY <2>1, <2>3, <2>5, <2>7 DEF ListedObjs
    <3>3. \A y : y \in ListedObjs(l) => y \in ListedObjs(k)
      BY <1>1, <2>3, <2>4, <2>7 DEF ListedObjs
    <3> QED BY <3>1, <3>2, <3>3
  <2>9. Grown(l, k, rule)
    <3>1. \A i \in 1 .. n + 1 : i > n => i = n + 1
      OBVIOUS
    <3> QED BY <1>1, <2>1, <2>3, <2>4, <2>5, <3>1 DEF Grown
  <2>10. Distinct(k)
    <3> SUFFICES ASSUME NEW i \in 1 .. n + 1, NEW j \in 1 .. n + 1, k[i].obj = k[j].obj PROVE i = j
      BY <2>3 DEF Distinct
    <3>1. \A a \in 1..n : l[a].obj # o
      BY <1>1, <1>3
    <3>2. CASE i \in 1..n /\ j \in 1..n
      BY <1>1, <2>4, <3>2 DEF ListSound, Distinct
    <3>3. CASE i \notin 1..n \/ j \notin 1..n
      BY <2>1, <2>4, <2>5, <2>6, <3>1, <3>3
    <3> QED BY <3>2, <3>3
  <2>11. v.anchor \notin ListedObjs(k)
    BY <1>3, <2>8 DEF ListSound
  <2>12. ListSound(v, k)
    BY <2>3, <2>10, <2>11 DEF ListSound
  <2>13. ListedObjs(k) = ListedObjs(l) \cup ({o} \ {v.anchor})
    BY <1>3, <2>8
  <2> QED BY <1>1, <2>2, <2>3, <2>9, <2>12, <2>13
<1> QED BY <1>2, <1>3

IsAddAll(f, v, l, rule, objs) ==
    f = [i \in 0..Len(objs) |-> IF i = 0 THEN l ELSE add(v, f[i - 1], rule, objs[i])]

\* addAll lists all of the objects but the anchor, each once.
LEMMA AddAllIs ==
    ASSUME NEW v, NEW l, ListSound(v, l), NEW rule \in Rules, NEW objs \in Seq(Linkable)
    PROVE  /\ ListSound(v, addAll(v, l, rule, objs)) /\ Grown(l, addAll(v, l, rule, objs), rule)
           /\ ListedObjs(addAll(v, l, rule, objs)) = ListedObjs(l) \cup (ToSet(objs) \ {v.anchor})
           /\ Len(addAll(v, l, rule, objs)) <= Len(l) + Len(objs)
<1>1. PICK n \in Nat : n = Len(objs) /\ DOMAIN objs = 1..n
  OBVIOUS
<1>2. \A i \in 1..n : objs[i] \in Linkable
  BY <1>1
<1>3. PICK X : X = {k \in Seq(LinkItems) : ListSound(v, k)}
  OBVIOUS
<1>4. \A k : k \in X <=> ListSound(v, k)
  BY <1>3 DEF ListSound
<1>5. \E f : IsAddAll(f, v, l, rule, objs)
  <2>1. PICK G : G = [q \in X \X (1..n) |-> add(v, q[1], rule, objs[q[2]])]
    OBVIOUS
  <2>2. G \in [X \X (1..n) -> X]
    <3>1. \A k \in X, i \in 1..n : add(v, k, rule, objs[i]) \in X
      BY <1>2, <1>4, AddIs
    <3>2. \A q \in X \X (1..n) : q[1] \in X /\ q[2] \in 1..n
      OBVIOUS
    <3>3. \A q \in X \X (1..n) : add(v, q[1], rule, objs[q[2]]) \in X
      BY <3>1, <3>2, Zenon
    <3> QED BY <2>1, <3>3
  <2>3. PICK f \in [0..n -> X] : f[0] = l /\ \A i \in 1..n : f[i] = G[<<f[i - 1], i>>]
    <3>1. l \in X
      BY <1>4
    <3>2. PICK f : Loop(f, n, X, l, G)
      BY <2>2, <3>1, LoopRuns, Zenon
    <3> QED BY <3>2 DEF Loop
  <2>4. \A i \in 0..n : f[i] = IF i = 0 THEN l ELSE add(v, f[i - 1], rule, objs[i])
    <3> SUFFICES ASSUME NEW i \in 0..n, i # 0 PROVE f[i] = add(v, f[i - 1], rule, objs[i])
      BY <2>3
    <3>1. i \in 1..n /\ i - 1 \in 0..n
      OBVIOUS
    <3>2. <<f[i - 1], i>> \in X \X (1..n)
      BY <2>3, <3>1
    <3> QED BY <2>1, <2>3, <3>1, <3>2
  <2>5. f = [i \in 0..n |-> IF i = 0 THEN l ELSE add(v, f[i - 1], rule, objs[i])]
    BY <2>3, <2>4
  <2> QED BY <1>1, <2>5, Zenon DEF IsAddAll
<1>6. PICK f : f = (CHOOSE h : IsAddAll(h, v, l, rule, objs)) /\ IsAddAll(f, v, l, rule, objs)
  BY <1>5
<1>7. addAll(v, l, rule, objs) = f[n]
  BY <1>1, <1>6, Zenon DEF addAll, IsAddAll
<1>8. \A i \in 0..n : f[i] = IF i = 0 THEN l ELSE add(v, f[i - 1], rule, objs[i])
  BY <1>1, <1>6, Zenon DEF IsAddAll
<1> DEFINE Good(i, k) == /\ Grown(l, k, rule) /\ Len(k) <= Len(l) + i
                         /\ ListedObjs(k) = ListedObjs(l) \cup ({objs[j] : j \in 1..i} \ {v.anchor})
<1>9. PICK J : J = [i \in 0..n |-> {k \in X : Good(i, k)}]
  OBVIOUS
<1>10. PICK a \in Nat : a = Len(l) /\ l \in Seq(LinkItems)
  BY DEF ListSound
<1>11. f[0] \in J[0]
  <2>1. f[0] = l /\ 0 \in 0..n /\ 1..0 = {}
    BY <1>8
  <2>2. Grown(l, l, rule) /\ Len(l) <= Len(l) + 0
    BY <1>10 DEF Grown
  <2>3. {objs[j] : j \in 1..0} = {}
    BY <2>1
  <2>4. Good(0, l)
    BY <2>2, <2>3
  <2> QED BY <1>4, <1>9, <2>1, <2>4
<1>12. ASSUME NEW i \in 1..n, f[i - 1] \in J[i - 1] PROVE f[i] \in J[i]
  <2>1. i \in 0..n /\ i - 1 \in 0..n /\ i # 0
    OBVIOUS
  <2>2. PICK k \in X : k = f[i - 1] /\ Good(i - 1, k)
    BY <1>9, <1>12, <2>1
  <2>3. PICK o \in Linkable : o = objs[i]
    BY <1>2
  <2>4. PICK m : m = f[i] /\ m = add(v, k, rule, o)
    BY <1>8, <2>1, <2>2, <2>3
  <2>5. ListSound(v, k)
    BY <1>4
  <2>6. ListSound(v, m) /\ Grown(k, m, rule) /\ ListedObjs(m) = ListedObjs(k) \cup ({o} \ {v.anchor}) /\ Len(m) <= Len(k) + 1
    BY <2>4, <2>5, AddIs
  <2>7. k \in Seq(LinkItems) /\ m \in Seq(LinkItems)
    BY <2>5, <2>6 DEF ListSound
  <2>8. Grown(l, m, rule)
    BY <1>10, <2>2, <2>6, <2>7, GrownTrans, Zenon
  <2>9. {objs[j] : j \in 1..i} = {objs[j] : j \in 1 .. i - 1} \cup {o}
    BY <2>3
  <2>10. ListedObjs(m) = ListedObjs(l) \cup ({objs[j] : j \in 1..i} \ {v.anchor})
    <3>1. ListedObjs(k) = ListedObjs(l) \cup ({objs[j] : j \in 1 .. i - 1} \ {v.anchor})
      BY <2>2
    <3>2. PICK P, Q : P = {objs[j] : j \in 1..i} /\ Q = {objs[j] : j \in 1 .. i - 1}
      OBVIOUS
    <3>3. ListedObjs(m) = ListedObjs(l) \cup (P \ {v.anchor})
      BY <2>6, <2>9, <3>1, <3>2
    <3> QED BY <3>2, <3>3
  <2>11. Len(m) <= Len(l) + i
    <3>1. Len(k) <= a + (i - 1) /\ Len(k) \in Nat /\ Len(m) \in Nat
      BY <1>10, <2>2, <2>7
    <3> QED BY <1>10, <2>6, <3>1
  <2>12. Good(i, m)
    BY <2>8, <2>10, <2>11
  <2>13. m \in X
    BY <1>4, <2>6
  <2> HIDE DEF Good
  <2> QED BY <1>9, <2>1, <2>4, <2>12, <2>13
<1>13. f[n] \in J[n]
  <2>1. \A i \in 0..n : f[i] \in J[i]
    BY ONLY <1>11, <1>12, n \in Nat, LoopKeeps
  <2> QED BY <2>1
<1>14. {objs[j] : j \in 1..n} = ToSet(objs)
  BY <1>1 DEF ToSet
<1>15. PICK m : m = f[n] /\ m \in X /\ Good(n, m)
  BY <1>9, <1>13
<1>16. ListSound(v, m)
  BY <1>4, <1>15
<1> QED BY <1>1, <1>7, <1>14, <1>15, <1>16

Ordered(l) == \A i, j \in DOMAIN l : i < j => Rank[l[i].rule] <= Rank[l[j].rule]
UpTo(l, r) == \A i \in DOMAIN l : Rank[l[i].rule] <= r
Among(l, R) == \A i \in DOMAIN l : l[i].rule \in R
Of(l, R) == {l[i].obj : i \in {j \in DOMAIN l : l[j].rule \in R}}

LEMMA RankNat == \A r \in Rules : Rank[r] \in Nat
  BY DEF Rules, Rank

LEMMA ItemsAt ==
    ASSUME NEW l \in Seq(LinkItems), NEW i \in DOMAIN l
    PROVE  l[i].rule \in Rules /\ l[i].obj \in Linkable
<1>1. l[i] \in LinkItems
  BY ElementOfSeq
<1> QED BY <1>1 DEF LinkItems

\* A list that grows by a later rule keeps the rules in order.
LEMMA GrownOrder ==
    ASSUME NEW l \in Seq(LinkItems), NEW k \in Seq(LinkItems), NEW rule \in Rules, Grown(l, k, rule),
           Ordered(l), UpTo(l, Rank[rule])
    PROVE  Ordered(k) /\ UpTo(k, Rank[rule])
<1>1. PICK a, b \in Nat : a = Len(l) /\ b = Len(k) /\ DOMAIN l = 1..a /\ DOMAIN k = 1..b /\ a <= b
  BY DEF Grown
<1>2. \A i \in 1..b : (i <= a => i \in 1..a /\ k[i] = l[i]) /\ (i > a => k[i].rule = rule)
  BY <1>1 DEF Grown
<1>3. Rank[rule] \in Nat
  BY RankNat
<1>4. UpTo(k, Rank[rule])
  <2> SUFFICES ASSUME NEW i \in 1..b PROVE Rank[k[i].rule] <= Rank[rule]
    BY <1>1 DEF UpTo
  <2>1. CASE i <= a
    BY <1>1, <1>2, <2>1 DEF UpTo
  <2>2. CASE i > a
    BY <1>2, <1>3, <2>2
  <2> QED BY <2>1, <2>2
<1>5. Ordered(k)
  <2> SUFFICES ASSUME NEW i \in 1..b, NEW j \in 1..b, i < j PROVE Rank[k[i].rule] <= Rank[k[j].rule]
    BY <1>1 DEF Ordered
  <2>1. CASE j <= a
    <3>1. i \in 1..a /\ j \in 1..a /\ k[i] = l[i] /\ k[j] = l[j]
      BY <1>2, <2>1
    <3> QED BY <1>1, <3>1 DEF Ordered
  <2>2. CASE j > a
    BY <1>1, <1>2, <1>4, <2>2 DEF UpTo
  <2> QED BY <2>1, <2>2
<1> QED BY <1>4, <1>5

LEMMA GrownAmong ==
    ASSUME NEW l \in Seq(LinkItems), NEW k \in Seq(LinkItems), NEW R, NEW rule \in R, Grown(l, k, rule), Among(l, R)
    PROVE  Among(k, R)
<1>1. PICK a, b \in Nat : a = Len(l) /\ b = Len(k) /\ DOMAIN l = 1..a /\ DOMAIN k = 1..b /\ a <= b
  BY DEF Grown
<1>2. \A i \in 1..b : (i <= a => i \in 1..a /\ k[i] = l[i]) /\ (i > a => k[i].rule = rule)
  BY <1>1 DEF Grown
<1>3. \A i \in 1..b : k[i].rule \in R
  BY <1>1, <1>2 DEF Among
<1> QED BY <1>1, <1>3 DEF Among

LEMMA GrownOf ==
    ASSUME NEW l \in Seq(LinkItems), NEW k \in Seq(LinkItems), NEW R, NEW rule, rule \notin R, Grown(l, k, rule)
    PROVE  Of(k, R) = Of(l, R)
<1>1. PICK a, b \in Nat : a = Len(l) /\ b = Len(k) /\ DOMAIN l = 1..a /\ DOMAIN k = 1..b /\ a <= b
  BY DEF Grown
<1>2. \A i \in 1..b : (i <= a => i \in 1..a /\ k[i] = l[i]) /\ (i > a => k[i].rule = rule)
  BY <1>1 DEF Grown
<1>3. \A i \in 1..a : i \in 1..b /\ k[i] = l[i]
  BY <1>1, <1>2
<1>4. \A i \in 1..b : k[i].rule \in R => i \in 1..a /\ k[i] = l[i]
  BY <1>2
<1> QED BY <1>1, <1>3, <1>4 DEF Of

LEMMA AmongOf == ASSUME NEW l, NEW R, Among(l, R) PROVE Of(l, R) = ListedObjs(l)
  BY DEF Among, Of, ListedObjs

\* Each item of a list without repeats is an object of its own.
LEMMA OfCard ==
    ASSUME NEW l \in Seq(LinkItems), Distinct(l), NEW R
    PROVE  /\ IsFiniteSet(Of(l, R))
           /\ Cardinality(Of(l, R)) = Cardinality({i \in DOMAIN l : l[i].rule \in R})
<1>1. PICK I : I = {i \in DOMAIN l : l[i].rule \in R}
  OBVIOUS
<1>2. PICK n \in Nat : DOMAIN l = 1..n
  OBVIOUS
<1>3. IsFiniteSet(I)
  BY <1>1, <1>2, FS_Interval, FS_Subset
<1>4. PICK f : f = [i \in I |-> l[i].obj]
  OBVIOUS
<1>5. PICK Y : Y = Of(l, R)
  OBVIOUS
<1>6. f \in Bijection(I, Y)
  <2>1. f \in [I -> Y]
    BY <1>1, <1>4, <1>5 DEF Of
  <2>2. \A y \in Y : \E i \in I : f[i] = y
    BY <1>1, <1>4, <1>5 DEF Of
  <2>3. \A i, j \in I : f[i] = f[j] => i = j
    BY <1>1, <1>4 DEF Distinct
  <2>4. DOMAIN f = I
    BY <1>4
  <2> QED BY <2>1, <2>2, <2>3, <2>4 DEF Bijection, Injection, Surjection, IsInjective
<1>7. IsFiniteSet(Y) /\ Cardinality(I) = Cardinality(Y)
  <2>1. ExistsBijection(I, Y)
    BY <1>6 DEF ExistsBijection
  <2> QED BY <1>3, <2>1, FS_Bijection
<1> QED BY <1>1, <1>5, <1>7

NoCalls(l) == \A o \in ListedObjs(l) : o[1] # "Service"

LEMMA GrownSame == ASSUME NEW l \in Seq(LinkItems), NEW rule PROVE Grown(l, l, rule)
<1>1. Len(l) \in Nat
  OBVIOUS
<1> QED BY <1>1 DEF Grown

LEMMA KindsIn ==
    ASSUME NEW kinds, NEW s \in Seq(OfKind(kinds))
    PROVE  s \in Seq(Linkable) /\ \A o \in ToSet(s) : o[1] \in kinds
<1>1. PICK K : K = OfKind(kinds) /\ K \subseteq Linkable /\ \A o \in K : o[1] \in kinds
  BY DEF OfKind
<1>2. s \in Seq(K) /\ ToSet(s) \subseteq K
  BY <1>1, ToSetFinite
<1>3. s \in Seq(Linkable)
  BY <1>1, <1>2
<1> QED BY <1>1, <1>2, <1>3

\* What a rule adds to a list without Services, if its objects are of other kinds.
LEMMA AddKinds ==
    ASSUME NEW v, NEW l, ListSound(v, l), NoCalls(l), NEW rule \in Rules,
           NEW kinds, "Service" \notin kinds, NEW objs \in Seq(OfKind(kinds))
    PROVE  /\ ListSound(v, addAll(v, l, rule, objs)) /\ NoCalls(addAll(v, l, rule, objs))
           /\ Grown(l, addAll(v, l, rule, objs), rule)
           /\ ListedObjs(addAll(v, l, rule, objs)) = ListedObjs(l) \cup (ToSet(objs) \ {v.anchor})
           /\ Len(addAll(v, l, rule, objs)) <= Len(l) + Len(objs)
<1>1. objs \in Seq(Linkable) /\ \A o \in ToSet(objs) : o[1] \in kinds
  BY KindsIn
<1>2. PICK k : k = addAll(v, l, rule, objs)
  OBVIOUS
<1>3. /\ ListSound(v, k) /\ Grown(l, k, rule) /\ ListedObjs(k) = ListedObjs(l) \cup (ToSet(objs) \ {v.anchor})
      /\ Len(k) <= Len(l) + Len(objs)
  BY <1>1, <1>2, AddAllIs
<1>4. NoCalls(k)
  BY <1>1, <1>3 DEF NoCalls
<1> QED BY <1>2, <1>3, <1>4

LEMMA EmptyList == ASSUME NEW v PROVE ListSound(v, <<>>) /\ NoCalls(<<>>) /\ ListedObjs(<<>>) = {} /\ <<>> \in Seq(LinkItems)
<1>1. <<>> \in Seq(LinkItems) /\ DOMAIN <<>> = {}
  OBVIOUS
<1>2. ListedObjs(<<>>) = {}
  BY <1>1 DEF ListedObjs
<1> QED BY <1>1, <1>2 DEF ListSound, NoCalls, Distinct

LEMMA TextsAre ==
    ASSUME NEW v \in Views
    PROVE  \E n \in Nat : DOMAIN texts(v) = 1..n /\ \A i \in 1..n : texts(v)[i].absent \in Seq(OfKind({"ConfigMap", "Secret"}))
<1>1. PICK A : A = ToSet(v.warnings) \cup ToSet(v.logs)
  OBVIOUS
<1>2. PICK s, t : s = v.warnings /\ t = v.logs /\ s \in Seq(A) /\ t \in Seq(A)
  <2>1. v.warnings \in Seq(ToSet(v.warnings)) /\ v.logs \in Seq(ToSet(v.logs))
    BY ViewAssumption
  <2>2. ToSet(v.warnings) \subseteq A /\ ToSet(v.logs) \subseteq A
    BY <1>1
  <2> QED BY <2>1, <2>2
<1>3. PICK u : u = texts(v) /\ u \in Seq(A)
  BY <1>2, SetConcat DEF texts
<1>4. \A x \in A : x.absent \in Seq(OfKind({"ConfigMap", "Secret"}))
  BY <1>1, ViewAssumption
<1>5. PICK n \in Nat : DOMAIN u = 1..n /\ \A i \in 1..n : u[i] \in A
  BY <1>3
<1> QED BY <1>3, <1>4, <1>5

Refs(v) == (UNION {ToSet(t.absent) : t \in ToSet(texts(v))}) \ v.denied

LEMMA ConfigIs ==
    ASSUME NEW v \in Views
    PROVE  /\ ListSound(v, configRefs(v, <<>>)) /\ NoCalls(configRefs(v, <<>>))
           /\ Grown(<<>>, configRefs(v, <<>>), "config")
           /\ ListedObjs(configRefs(v, <<>>)) = Refs(v) \ {v.anchor}
<1>1. PICK kinds : kinds = {"ConfigMap", "Secret"}
  OBVIOUS
<1>2. PICK K : K = OfKind(kinds) /\ K \subseteq Linkable
  BY DEF OfKind
<1>3. PICK n \in Nat : DOMAIN texts(v) = 1..n /\ \A i \in 1..n : texts(v)[i].absent \in Seq(K)
  BY <1>1, <1>2, TextsAre
<1>4. PICK lists : lists = [i \in DOMAIN texts(v) |-> texts(v)[i].absent]
  OBVIOUS
<1>5. lists \in [1..n -> Seq(K)] /\ \A i \in 1..n : lists[i] = texts(v)[i].absent
  BY <1>3, <1>4
<1>6. PICK refs : refs = Flat(lists)
  OBVIOUS
<1>7. refs \in Seq(K) /\ \A x : x \in ToSet(refs) <=> \E i \in 1..n : x \in ToSet(lists[i])
  BY <1>5, <1>6, FlatIs
<1>8. PICK objs : objs = Where(refs, Linkable \ v.denied)
  OBVIOUS
<1>9. objs \in Seq(K) /\ ToSet(objs) = ToSet(refs) \cap (Linkable \ v.denied)
  BY <1>7, <1>8, WhereIs
<1>10. PICK k, e : e = <<>> /\ k = addAll(v, e, "config", objs) /\ k = configRefs(v, <<>>)
  BY <1>4, <1>6, <1>8, Zenon DEF configRefs
<1>11. "Service" \notin kinds /\ "config" \in Rules
  BY <1>1 DEF Rules
<1>12. ListSound(v, e) /\ NoCalls(e) /\ ListedObjs(e) = {}
  BY <1>10, EmptyList
<1>13. ListSound(v, k) /\ NoCalls(k) /\ Grown(e, k, "config") /\ ListedObjs(k) = ListedObjs(e) \cup (ToSet(objs) \ {v.anchor})
  BY <1>2, <1>9, <1>10, <1>11, <1>12, AddKinds
<1>14. ToSet(refs) \subseteq Linkable
  BY <1>2, <1>7, ToSetFinite
<1>15. ToSet(refs) = UNION {ToSet(t.absent) : t \in ToSet(texts(v))}
  <2>1. ToSet(texts(v)) = {texts(v)[i] : i \in 1..n}
    BY <1>3 DEF ToSet
  <2>2. \A x : x \in UNION {ToSet(t.absent) : t \in ToSet(texts(v))} <=> \E i \in 1..n : x \in ToSet(texts(v)[i].absent)
    BY <2>1
  <2> QED BY <1>5, <1>7, <2>2
<1>16. ToSet(refs) \ v.denied = Refs(v)
  <2> DEFINE W == UNION {ToSet(t.absent) : t \in ToSet(texts(v))}
  <2>1. ToSet(refs) = W
    BY <1>15, Zenon
  <2>2. Refs(v) = W \ v.denied
    BY DEF Refs
  <2> HIDE DEF W
  <2> QED BY <2>1, <2>2
<1>17. ListedObjs(k) = Refs(v) \ {v.anchor}
  BY <1>9, <1>12, <1>13, <1>14, <1>16
<1>19. Grown(<<>>, k, "config")
  BY <1>10, <1>13, Zenon
<1> QED BY <1>10, <1>13, <1>17, <1>19, Zenon

HeldClaims(v) == {c \in UNION {ToSet(v.pods[p].claims) : p \in ToSet(Pods(v))} :
              \E p \in ToSet(Pods(v)) : Contains(v.pods[p].claims, c) /\ Troubled(v, p, c)}

LEMMA ClaimsAre ==
    ASSUME NEW v \in Views, NEW l, ListSound(v, l), NoCalls(l)
    PROVE  /\ ListSound(v, claims(v, l)) /\ NoCalls(claims(v, l))
           /\ IF v.anchor[1] = "PersistentVolumeClaim" THEN Grown(l, claims(v, l), "storageclass")
              ELSE /\ Grown(l, claims(v, l), "claim")
                   /\ ListedObjs(claims(v, l)) = ListedObjs(l) \cup (HeldClaims(v) \ {v.anchor})
<1>1. "storageclass" \in Rules /\ "claim" \in Rules
  BY DEF Rules
<1>2. l \in Seq(LinkItems)
  BY DEF ListSound
<1>3. CASE v.anchor[1] = "PersistentVolumeClaim"
  <2>1. PICK k : k = claims(v, l) /\ k = anchorClaim(v, l)
    BY <1>3 DEF claims
  <2>2. k = l \/ k = addAll(v, l, "storageclass", v.class)
    BY <2>1 DEF anchorClaim
  <2>3. CASE k = l
    BY <1>2, <1>3, <2>1, <2>3, GrownSame
  <2>4. CASE k = addAll(v, l, "storageclass", v.class)
    <3>1. PICK kinds, objs : kinds = {"StorageClass"} /\ objs = v.class
      OBVIOUS
    <3>2. objs \in Seq(OfKind(kinds)) /\ "Service" \notin kinds
      BY <3>1, ViewAssumption
    <3>3. ListSound(v, k) /\ NoCalls(k) /\ Grown(l, k, "storageclass")
      BY <1>1, <2>4, <3>1, <3>2, AddKinds
    <3> QED BY <1>3, <2>1, <3>3
  <2> QED BY <2>2, <2>3, <2>4
<1>4. CASE v.anchor[1] # "PersistentVolumeClaim"
  <2>1. PICK kinds, A, P : kinds = {"PersistentVolumeClaim"} /\ A = DOMAIN v.pods /\ P = Pods(v)
    OBVIOUS
  <2>2. PICK K : K = OfKind(kinds) /\ K \subseteq Linkable
    BY DEF OfKind
  <2>3. P \in Seq(A)
    BY <2>1, PodsAre
  <2>4. PICK n \in Nat : DOMAIN P = 1..n /\ \A i \in 1..n : P[i] \in A
    BY <2>3
  <2>5. \A p \in A : v.pods[p].claims \in Seq(K)
    BY <2>1, <2>2, ViewAssumption
  <2>6. PICK lists : lists = [i \in DOMAIN Pods(v) |-> podClaims(v, i)]
    OBVIOUS
  <2>7. \A i \in 1..n : podClaims(v, i) = Where(v.pods[P[i]].claims, {c \in Linkable : Troubled(v, P[i], c)})
    BY <2>1, Zenon DEF podClaims
  <2>8. ASSUME NEW i \in 1..n
        PROVE  /\ lists[i] \in Seq(K)
               /\ ToSet(lists[i]) = ToSet(v.pods[P[i]].claims) \cap {c \in Linkable : Troubled(v, P[i], c)}
    <3>1. PICK s, S : s = v.pods[P[i]].claims /\ S = {c \in Linkable : Troubled(v, P[i], c)}
      OBVIOUS
    <3>2. s \in Seq(K)
      BY <2>4, <2>5, <3>1
    <3>3. lists[i] = Where(s, S)
      BY <2>1, <2>4, <2>6, <2>7, <3>1
    <3>4. Where(s, S) \in Seq(K) /\ ToSet(Where(s, S)) = ToSet(s) \cap S
      BY <3>2, WhereIs
    <3> QED BY <3>1, <3>3, <3>4
  <2>9. lists \in [1..n -> Seq(K)]
    BY <2>1, <2>4, <2>6, <2>8
  <2>10. PICK objs : objs = Flat(lists)
    OBVIOUS
  <2>11. objs \in Seq(K) /\ \A x : x \in ToSet(objs) <=> \E i \in 1..n : x \in ToSet(lists[i])
    BY <2>9, <2>10, FlatIs
  <2>12. PICK k : k = claims(v, l) /\ k = addAll(v, l, "claim", objs)
    BY <1>4, <2>6, <2>10, Zenon DEF claims
  <2>13. "Service" \notin kinds
    BY <2>1
  <2>14. ListSound(v, k) /\ NoCalls(k) /\ Grown(l, k, "claim") /\ ListedObjs(k) = ListedObjs(l) \cup (ToSet(objs) \ {v.anchor})
    BY <1>1, <2>2, <2>11, <2>12, <2>13, AddKinds
  <2>15. ToSet(objs) = HeldClaims(v)
    <3>1. ToSet(P) = {P[i] : i \in 1..n}
      BY <2>4 DEF ToSet
    <3>2. \A p \in A : ToSet(v.pods[p].claims) \subseteq Linkable
      <4> SUFFICES ASSUME NEW p \in A PROVE ToSet(v.pods[p].claims) \subseteq Linkable
        OBVIOUS
      <4>1. PICK s : s = v.pods[p].claims /\ s \in Seq(K)
        BY <2>5
      <4> QED BY <2>2, <4>1, ToSetFinite
    <3>3. \A p \in A : \A c : c \in ToSet(v.pods[p].claims) <=> Contains(v.pods[p].claims, c)
      <4> SUFFICES ASSUME NEW p \in A, NEW c PROVE c \in ToSet(v.pods[p].claims) <=> Contains(v.pods[p].claims, c)
        OBVIOUS
      <4>1. PICK s : s = v.pods[p].claims /\ s \in Seq(K)
        BY <2>5
      <4>2. c \in ToSet(s) <=> Contains(s, c)
        BY <4>1 DEF ToSet, Contains
      <4> QED BY <4>1, <4>2
    <3>4. \A c : c \in HeldClaims(v) <=> \E i \in 1..n : c \in ToSet(v.pods[P[i]].claims) /\ Troubled(v, P[i], c)
      <4>1. \A c : c \in HeldClaims(v) <=> \E p \in ToSet(P) : c \in ToSet(v.pods[p].claims) /\ Troubled(v, p, c)
        <5>1. \A p \in ToSet(P) : p \in A
          BY <2>4, <3>1
        <5> QED BY <2>1, <3>3, <5>1 DEF HeldClaims
      <4> QED BY <3>1, <4>1
    <3>5. \A c : c \in ToSet(objs) <=> \E i \in 1..n : c \in ToSet(v.pods[P[i]].claims) /\ Troubled(v, P[i], c)
      BY <2>4, <2>8, <2>11, <3>2
    <3> QED BY <3>4, <3>5
  <2> QED BY <1>4, <2>12, <2>14, <2>15
<1> QED BY <1>3, <1>4

LEMMA PullsAre ==
    ASSUME NEW v \in Views, NEW l, ListSound(v, l), NoCalls(l)
    PROVE  ListSound(v, pullSecrets(v, l)) /\ NoCalls(pullSecrets(v, l)) /\ Grown(l, pullSecrets(v, l), "pullsecret")
<1>1. PICK k : k = pullSecrets(v, l)
  OBVIOUS
<1>2. l \in Seq(LinkItems) /\ "pullsecret" \in Rules
  BY DEF ListSound, Rules
<1>3. CASE Pulling(v) = <<>>
  <2>1. k = l
    BY <1>1, <1>3 DEF pullSecrets
  <2> QED BY <1>1, <1>2, <2>1, GrownSame
<1>4. CASE Pulling(v) # <<>>
  <2>1. PICK A, P : A = DOMAIN v.pods /\ P = Pulling(v)
    OBVIOUS
  <2>2. P \in Seq(A)
    <3>1. Pods(v) \in Seq(A)
      BY <2>1, PodsAre
    <3> QED BY <2>1, <3>1, WhereIs, Zenon DEF Pulling
  <2>3. PICK p \in A : p = Head(P)
    BY <1>4, <2>1, <2>2
  <2>4. PICK kinds : kinds = {"Secret"}
    OBVIOUS
  <2>5. PICK s, t : /\ s = v.pods[p].secrets /\ t = (IF Exists(v, v.pods[p].account) THEN v.accountSecrets ELSE <<>>)
                    /\ s \in Seq(OfKind(kinds)) /\ t \in Seq(OfKind(kinds))
    <3>1. v.pods[p].secrets \in Seq(OfKind(kinds)) /\ v.accountSecrets \in Seq(OfKind(kinds))
      BY <2>1, <2>4, ViewAssumption
    <3>2. <<>> \in Seq(OfKind(kinds))
      OBVIOUS
    <3> QED BY <3>1, <3>2
  <2>6. PICK objs : objs = s \o t
    OBVIOUS
  <2>7. objs \in Seq(OfKind(kinds))
    <3>1. PICK K : K = OfKind(kinds)
      OBVIOUS
    <3> QED BY <2>5, <2>6, <3>1, SetConcat
  <2>8. k = IF objs # <<>> THEN addAll(v, l, "pullsecret", objs) ELSE add(v, l, "pullsecret", v.pods[p].account)
    BY <1>1, <1>4, <2>1, <2>3, <2>5, <2>6 DEF pullSecrets
  <2>9. CASE objs # <<>>
    <3>1. k = addAll(v, l, "pullsecret", objs)
      BY <2>8, <2>9
    <3>2. "Service" \notin kinds
      BY <2>4
    <3>3. ListSound(v, k) /\ NoCalls(k) /\ Grown(l, k, "pullsecret")
      BY <1>2, <2>7, <3>1, <3>2, AddKinds
    <3> QED BY <1>1, <3>3
  <2>10. CASE objs = <<>>
    <3>1. PICK o \in Linkable : o = v.pods[p].account /\ o[1] = "ServiceAccount"
      BY <2>1, ViewAssumption DEF OfKind
    <3>2. k = add(v, l, "pullsecret", o)
      BY <2>8, <2>10, <3>1
    <3>3. ListSound(v, k) /\ Grown(l, k, "pullsecret") /\ ListedObjs(k) = ListedObjs(l) \cup ({o} \ {v.anchor})
      BY <1>2, <3>2, AddIs
    <3>4. NoCalls(k)
      BY <3>1, <3>3 DEF NoCalls
    <3> QED BY <1>1, <3>3, <3>4
  <2> QED BY <2>9, <2>10
<1> QED BY <1>3, <1>4

LEMMA HostsAre ==
    ASSUME NEW v \in Views
    PROVE  errorLines(v) \in Seq(OfKind({"Service"}))
<1>1. PICK K : K = OfKind({"Service"})
  OBVIOUS
<1>2. \A t \in ToSet(v.warnings) \cup ToSet(v.logs) : t.hosts \in Seq(K)
  BY <1>1, ViewAssumption
<1>3. PICK n \in Nat : DOMAIN v.warnings = 1..n /\ \A i \in 1..n : v.warnings[i].hosts \in Seq(K)
  <2>1. v.warnings \in Seq(ToSet(v.warnings))
    BY ViewAssumption
  <2>2. \A i \in DOMAIN v.warnings : v.warnings[i] \in ToSet(v.warnings)
    BY DEF ToSet
  <2> QED BY <1>2, <2>1, <2>2
<1>4. PICK m \in Nat : DOMAIN v.logs = 1..m /\ \A i \in 1..m : v.logs[i].hosts \in Seq(K)
  <2>1. v.logs \in Seq(ToSet(v.logs))
    BY ViewAssumption
  <2>2. \A i \in DOMAIN v.logs : v.logs[i] \in ToSet(v.logs)
    BY DEF ToSet
  <2> QED BY <1>2, <2>1, <2>2
<1>5. <<>> \in Seq(K)
  OBVIOUS
<1> DEFINE line(i) == IF ~v.logs[i].connect THEN <<>>
                      ELSE (IF i > 1 THEN v.logs[i - 1].hosts ELSE <<>>) \o v.logs[i].hosts
<1>6. PICK warned : warned = [i \in DOMAIN v.warnings |-> IF v.warnings[i].connect THEN v.warnings[i].hosts ELSE <<>>]
  OBVIOUS
<1>7. PICK logged : logged = [i \in DOMAIN v.logs |-> line(i)]
  OBVIOUS
<1>8. warned \in [1..n -> Seq(K)]
  BY <1>3, <1>5, <1>6
<1>9. logged \in [1..m -> Seq(K)]
  <2>1. ASSUME NEW i \in 1..m PROVE line(i) \in Seq(K)
    <3>1. PICK s, t : /\ s = (IF i > 1 THEN v.logs[i - 1].hosts ELSE <<>>) /\ t = v.logs[i].hosts
                      /\ s \in Seq(K) /\ t \in Seq(K)
      <4>1. i > 1 => i - 1 \in 1..m
        OBVIOUS
      <4> QED BY <1>4, <1>5, <4>1
    <3>2. s \o t \in Seq(K)
      BY <3>1, SetConcat
    <3> QED BY <1>5, <3>1, <3>2
  <2> HIDE DEF line
  <2> QED BY <1>4, <1>7, <2>1
<1>10. PICK s, t : s = Flat(warned) /\ t = Flat(logged) /\ s \in Seq(K) /\ t \in Seq(K)
  BY <1>8, <1>9, FlatIs
<1>11. errorLines(v) = s \o t
  BY <1>6, <1>7, <1>10, Zenon DEF errorLines
<1>12. s \o t \in Seq(K)
  BY <1>10, SetConcat
<1> QED BY <1>1, <1>11, <1>12

LEMMA NodesAre ==
    ASSUME NEW v \in Views, NEW l, ListSound(v, l)
    PROVE  ListSound(v, nodes(v, l)) /\ Grown(l, nodes(v, l), "nodes") /\ Len(nodes(v, l)) <= Len(l) + MaxNodes
<1>1. PICK k : k = nodes(v, l)
  OBVIOUS
<1>2. l \in Seq(LinkItems) /\ "nodes" \in Rules /\ Len(l) \in Nat /\ MaxNodes \in Nat
  BY ViewAssumption DEF ListSound, Rules
<1>3. CASE Unplaced(v) = <<>>
  <2>1. k = l
    BY <1>1, <1>3 DEF nodes
  <2> QED BY <1>1, <1>2, <2>1, GrownSame
<1>4. CASE Unplaced(v) # <<>>
  <2>1. PICK K, s, M : K = OfKind({"Node"}) /\ s = v.nodes /\ s \in Seq(K) /\ M = v.pods[Head(Unplaced(v))].nodes
    BY ViewAssumption
  <2>2. PICK a, b : a = Where(s, M) /\ b = Where(s, Linkable \ M) /\ a \in Seq(K) /\ b \in Seq(K)
    BY <2>1, WhereIs
  <2>3. PICK sorted : sorted = a \o b /\ sorted \in Seq(K)
    BY <2>2, SetConcat
  <2>4. PICK n \in Nat : n = (IF Len(sorted) < MaxNodes THEN Len(sorted) ELSE MaxNodes) /\ n <= MaxNodes /\ n <= Len(sorted)
    <3>1. Len(sorted) \in Nat
      BY <2>3
    <3> QED BY <1>2, <3>1
  <2>5. PICK objs : objs = SubSeq(sorted, 1, n)
    OBVIOUS
  <2>6. objs \in Seq(K) /\ Len(objs) = n
    <3>1. \A i \in 1..n : sorted[i] \in K
      BY <2>3, <2>4
    <3> QED BY <2>3, <2>4, <2>5, <3>1, SubSeqProperties
  <2>7. objs \in Seq(Linkable)
    BY <2>1, <2>6, KindsIn
  <2>8. k = addAll(v, l, "nodes", objs)
    BY <1>1, <1>4, <2>1, <2>2, <2>3, <2>4, <2>5, Zenon DEF nodes
  <2>9. ListSound(v, k) /\ Grown(l, k, "nodes") /\ Len(k) <= Len(l) + Len(objs)
    BY <1>2, <2>7, <2>8, AddAllIs
  <2>10. Len(k) \in Nat
    BY <2>9 DEF ListSound
  <2>11. Len(k) <= Len(l) + MaxNodes
    BY <1>2, <2>4, <2>6, <2>9, <2>10
  <2> QED BY <1>1, <2>9, <2>11
<1> QED BY <1>3, <1>4

\* The items of the service rule are the Services.
CallsOnly(l) == \A i \in DOMAIN l : l[i].rule = "service" <=> l[i].obj[1] = "Service"
Calls(l) == Of(l, {"service"})

LEMMA CallsAre == ASSUME NEW l, CallsOnly(l) PROVE Calls(l) = {o \in ListedObjs(l) : o[1] = "Service"}
  BY DEF CallsOnly, Calls, Of, ListedObjs

LEMMA CallsCounted ==
    ASSUME NEW v, NEW l, ListSound(v, l)
    PROVE  IsFiniteSet(Calls(l)) /\ Services(l) = Cardinality(Calls(l)) /\ Services(l) \in Nat
<1>1. {i \in DOMAIN l : l[i].rule \in {"service"}} = {i \in DOMAIN l : l[i].rule = "service"}
  OBVIOUS
<1>2. l \in Seq(LinkItems) /\ Distinct(l)
  BY DEF ListSound
<1>3. PICK R : R = {"service"}
  OBVIOUS
<1>4. IsFiniteSet(Of(l, R)) /\ Cardinality(Of(l, R)) = Cardinality({i \in DOMAIN l : l[i].rule \in R})
  BY <1>2, OfCard
<1>5. Calls(l) = Of(l, R)
  BY <1>3 DEF Calls
<1>6. Services(l) = Cardinality({i \in DOMAIN l : l[i].rule \in R})
  BY <1>1, <1>3 DEF Services
<1>7. IsFiniteSet(Calls(l)) /\ Services(l) = Cardinality(Calls(l))
  BY <1>4, <1>5, <1>6
<1>8. Cardinality(Calls(l)) \in Nat
  BY <1>7, FS_CardinalityType
<1> QED BY <1>7, <1>8

LEMMA AddCall ==
    ASSUME NEW v, NEW l, ListSound(v, l), CallsOnly(l), NEW o \in Linkable, o[1] = "Service"
    PROVE  /\ ListSound(v, add(v, l, "service", o)) /\ Grown(l, add(v, l, "service", o), "service")
           /\ CallsOnly(add(v, l, "service", o))
           /\ Calls(add(v, l, "service", o)) = Calls(l) \cup ({o} \ {v.anchor})
<1>1. PICK k : k = add(v, l, "service", o)
  OBVIOUS
<1>2. "service" \in Rules
  BY DEF Rules
<1>3. ListSound(v, k) /\ Grown(l, k, "service") /\ ListedObjs(k) = ListedObjs(l) \cup ({o} \ {v.anchor})
  BY <1>1, <1>2, AddIs
<1>4. PICK a, b \in Nat : a = Len(l) /\ b = Len(k) /\ DOMAIN l = 1..a /\ DOMAIN k = 1..b /\ a <= b
  BY <1>3 DEF Grown, ListSound
<1>5. \A i \in 1..b : (i <= a => i \in 1..a /\ k[i] = l[i]) /\ (i > a => k[i].rule = "service")
  BY <1>3, <1>4 DEF Grown
<1>6. \A j \in 1..a : j \in 1..b /\ k[j] = l[j] /\ j <= a
  BY <1>4, <1>5
<1>7. CallsOnly(k)
  <2> SUFFICES ASSUME NEW i \in 1..b PROVE k[i].rule = "service" <=> k[i].obj[1] = "Service"
    BY <1>4 DEF CallsOnly
  <2>1. CASE i <= a
    BY <1>4, <1>5, <2>1 DEF CallsOnly
  <2>2. CASE ~(i <= a)
    <3>1. k[i].rule = "service"
      BY <1>4, <1>5, <2>2
    <3>2. k[i].obj \in ListedObjs(k)
      BY <1>4 DEF ListedObjs
    <3>3. k[i].obj \notin ListedObjs(l)
      <4> SUFFICES ASSUME NEW j \in 1..a, l[j].obj = k[i].obj PROVE FALSE
        BY <1>4 DEF ListedObjs
      <4>1. j \in 1..b /\ k[j].obj = k[i].obj /\ j <= a
        BY <1>6
      <4>2. i = j
        BY <1>3, <1>4, <4>1 DEF ListSound, Distinct
      <4> QED BY <2>2, <4>1, <4>2
    <3>4. k[i].obj = o
      BY <1>3, <3>2, <3>3
    <3> QED BY <3>1, <3>4
  <2> QED BY <2>1, <2>2
<1>8. Calls(k) = Calls(l) \cup ({o} \ {v.anchor})
  BY <1>3, <1>7, CallsAre
<1> QED BY <1>1, <1>3, <1>7, <1>8

Reached(v, s) == Exists(v, s) /\ ~selectsEvidence(v, s)
CallOne(v, k, s) ==
    IF Services(k) >= MaxServices \/ ~Exists(v, s) \/ selectsEvidence(v, s) THEN k ELSE add(v, k, "service", s)
IsCalling(f, v, l) ==
    f = [i \in 0..Len(errorLines(v)) |-> IF i = 0 THEN l ELSE CallOne(v, f[i - 1], errorLines(v)[i])]

LEMMA CallingIs ==
    ASSUME NEW v, NEW l, NEW n, n = Len(errorLines(v))
    PROVE  serviceDeps(v, l) = (CHOOSE h : IsCalling(h, v, l))[n]
  BY Zenon DEF serviceDeps, IsCalling, CallOne

\* What the list of called Services is when the hosts in H were looked at.
CallsSound(v, H, k) ==
    /\ Calls(k) \subseteq {s \in H : Reached(v, s)} \ {v.anchor}
    /\ Services(k) <= MaxServices
    /\ Services(k) < MaxServices => Calls(k) = {s \in H : Reached(v, s)} \ {v.anchor}

LEMMA CallOneIs ==
    ASSUME NEW v, NEW l, ListSound(v, l), CallsOnly(l), NEW H, CallsSound(v, H, l), MaxServices \in Nat,
           NEW o \in Linkable, o[1] = "Service"
    PROVE  /\ ListSound(v, CallOne(v, l, o)) /\ Grown(l, CallOne(v, l, o), "service")
           /\ CallsOnly(CallOne(v, l, o)) /\ CallsSound(v, H \cup {o}, CallOne(v, l, o))
<1>1. PICK k : k = CallOne(v, l, o)
  OBVIOUS
<1>2. IsFiniteSet(Calls(l)) /\ Services(l) = Cardinality(Calls(l)) /\ Services(l) \in Nat
  BY CallsCounted
<1>3. l \in Seq(LinkItems)
  BY DEF ListSound
<1>4. CASE Services(l) >= MaxServices
  <2>1. k = l
    BY <1>1, <1>4 DEF CallOne
  <2>2. CallsSound(v, H \cup {o}, l)
    <3>1. Calls(l) \subseteq {s \in H \cup {o} : Reached(v, s)} \ {v.anchor}
      BY DEF CallsSound
    <3>2. Services(l) <= MaxServices /\ ~(Services(l) < MaxServices)
      BY <1>2, <1>4 DEF CallsSound
    <3> QED BY <3>1, <3>2 DEF CallsSound
  <2> QED BY <1>1, <1>3, <2>1, <2>2, GrownSame
<1>5. CASE ~(Services(l) >= MaxServices) /\ ~Reached(v, o)
  <2>1. k = l
    BY <1>1, <1>5 DEF CallOne, Reached
  <2>2. {s \in H \cup {o} : Reached(v, s)} = {s \in H : Reached(v, s)}
    BY <1>5
  <2>3. CallsSound(v, H \cup {o}, l)
    BY <2>2, Zenon DEF CallsSound
  <2> QED BY <1>1, <1>3, <2>1, <2>3, GrownSame
<1>6. CASE ~(Services(l) >= MaxServices) /\ Reached(v, o)
  <2>1. k = add(v, l, "service", o)
    BY <1>1, <1>6 DEF CallOne, Reached
  <2>2. ListSound(v, k) /\ Grown(l, k, "service") /\ CallsOnly(k) /\ Calls(k) = Calls(l) \cup ({o} \ {v.anchor})
    BY <2>1, AddCall
  <2>3. Services(k) = Cardinality(Calls(k))
    BY <2>2, CallsCounted
  <2>4. Services(k) <= Services(l) + 1 /\ Services(k) \in Nat
    <3>1. PICK C : C = Calls(l)
      OBVIOUS
    <3>a. IsFiniteSet(C) /\ Cardinality(C) \in Nat
      BY <1>2, <3>1
    <3>b. Cardinality(C \cup {o}) = IF o \in C THEN Cardinality(C) ELSE Cardinality(C) + 1
      BY <3>a, FS_AddElement, Zenon
    <3>2. Cardinality(C \cup {o}) <= Cardinality(C) + 1 /\ Cardinality(C) \in Nat
      BY <3>a, <3>b
    <3>3. Calls(k) = C \/ Calls(k) = C \cup {o}
      BY <2>2, <3>1
    <3>4. Services(k) \in Nat
      BY <2>2, CallsCounted
    <3>5. Cardinality(Calls(k)) <= Cardinality(C) + 1
      <4>1. CASE Calls(k) = C
        <5>1. Cardinality(Calls(k)) = Cardinality(C)
          BY <4>1, Zenon
        <5> QED BY <3>2, <5>1
      <4>2. CASE Calls(k) = C \cup {o}
        <5>1. Cardinality(Calls(k)) = Cardinality(C \cup {o})
          BY <4>2, Zenon
        <5> QED BY <3>2, <5>1
      <4> QED BY <3>3, <4>1, <4>2
    <3>6. Cardinality(C) = Services(l)
      BY <1>2, <3>1
    <3> QED BY <2>3, <3>4, <3>5, <3>6
  <2>5. Calls(l) = {s \in H : Reached(v, s)} \ {v.anchor}
    BY <1>2, <1>6 DEF CallsSound
  <2>6. Calls(k) = {s \in H \cup {o} : Reached(v, s)} \ {v.anchor}
    BY <1>6, <2>2, <2>5
  <2>7. Services(k) <= MaxServices
    BY <1>2, <1>6, <2>4
  <2>8. CallsSound(v, H \cup {o}, k)
    BY <2>6, <2>7 DEF CallsSound
  <2> QED BY <1>1, <2>2, <2>8
<1> QED BY <1>4, <1>5, <1>6

LEMMA ServicesAre ==
    ASSUME NEW v \in Views, NEW l, ListSound(v, l), CallsOnly(l), Calls(l) = {}
    PROVE  /\ ListSound(v, serviceDeps(v, l)) /\ Grown(l, serviceDeps(v, l), "service")
           /\ CallsSound(v, ToSet(errorLines(v)), serviceDeps(v, l))
<1>1. PICK hosts : hosts = errorLines(v) /\ hosts \in Seq(OfKind({"Service"}))
  BY HostsAre
<1>2. PICK n \in Nat : n = Len(hosts) /\ DOMAIN hosts = 1..n
  BY <1>1
<1>3. \A i \in 1..n : hosts[i] \in Linkable /\ hosts[i][1] = "Service"
  <2> SUFFICES ASSUME NEW i \in 1..n PROVE hosts[i] \in Linkable /\ hosts[i][1] = "Service"
    OBVIOUS
  <2>1. hosts[i] \in OfKind({"Service"})
    BY <1>1, <1>2
  <2> QED BY <2>1 DEF OfKind
<1>4. MaxServices \in Nat
  BY ViewAssumption
<1> DEFINE H(i) == {hosts[j] : j \in 1..i}
           Good(i, k) == ListSound(v, k) /\ Grown(l, k, "service") /\ CallsOnly(k) /\ CallsSound(v, H(i), k)
<1>5. PICK X : X = {k \in Seq(LinkItems) : ListSound(v, k) /\ CallsOnly(k)}
  OBVIOUS
<1>6. \A k : k \in X <=> ListSound(v, k) /\ CallsOnly(k)
  BY <1>5 DEF ListSound
<1>7. \A k \in X, i \in 1..n : CallOne(v, k, hosts[i]) \in X
  <2> SUFFICES ASSUME NEW k \in X, NEW i \in 1..n PROVE CallOne(v, k, hosts[i]) \in X
    OBVIOUS
  <2>1. PICK o \in Linkable : o = hosts[i] /\ o[1] = "Service"
    BY <1>3
  <2>2. ListSound(v, k) /\ CallsOnly(k)
    BY <1>6
  <2>3. CallOne(v, k, o) = k \/ CallOne(v, k, o) = add(v, k, "service", o)
    BY DEF CallOne
  <2>4. ListSound(v, add(v, k, "service", o)) /\ CallsOnly(add(v, k, "service", o))
    BY <2>1, <2>2, AddCall
  <2> QED BY <1>6, <2>1, <2>3, <2>4
<1>8. \E f : IsCalling(f, v, l)
  <2>0. PICK S : S = X \X (1..n)
    OBVIOUS
  <2>1. PICK G : G = [q \in X \X (1..n) |-> CallOne(v, q[1], hosts[q[2]])]
    OBVIOUS
  <2>a. \A q \in S : G[q] = CallOne(v, q[1], hosts[q[2]])
    <3>1. G = [q \in S |-> CallOne(v, q[1], hosts[q[2]])]
      BY <2>0, <2>1, Zenon
    <3> QED BY <3>1, Zenon
  <2>2. G \in [X \X (1..n) -> X]
    <3>1. \A q \in X \X (1..n) : q[1] \in X /\ q[2] \in 1..n
      OBVIOUS
    <3>2. \A q \in X \X (1..n) : CallOne(v, q[1], hosts[q[2]]) \in X
      BY <1>7, <3>1, Zenon
    <3> QED BY <2>1, <3>2
  <2>3. PICK f \in [0..n -> X] : f[0] = l /\ \A i \in 1..n : f[i] = G[<<f[i - 1], i>>]
    <3>1. l \in X
      BY <1>6
    <3>2. PICK f : Loop(f, n, X, l, G)
      BY <2>2, <3>1, LoopRuns, Zenon
    <3> QED BY <3>2 DEF Loop
  <2>4. \A i \in 0..n : f[i] = IF i = 0 THEN l ELSE CallOne(v, f[i - 1], hosts[i])
    <3> SUFFICES ASSUME NEW i \in 0..n, i # 0 PROVE f[i] = CallOne(v, f[i - 1], hosts[i])
      BY <2>3
    <3>1. i \in 1..n /\ i - 1 \in 0..n
      OBVIOUS
    <3>2. <<f[i - 1], i>> \in X \X (1..n)
      BY <2>3, <3>1
    <3>3. f[i] = G[<<f[i - 1], i>>]
      BY <2>3, <3>1, Zenon
    <3>4. PICK q : q = <<f[i - 1], i>> /\ q \in X \X (1..n) /\ q[1] = f[i - 1] /\ q[2] = i
      BY <3>2
    <3>5. G[q] = CallOne(v, q[1], hosts[q[2]])
      BY <2>0, <2>a, <3>4, Zenon
    <3> QED BY <3>3, <3>4, <3>5, Zenon
  <2>5. f = [i \in 0..n |-> IF i = 0 THEN l ELSE CallOne(v, f[i - 1], hosts[i])]
    BY <2>3, <2>4
  <2> QED BY <1>1, <1>2, <2>5, Zenon DEF IsCalling
<1>9. PICK f : f = (CHOOSE h : IsCalling(h, v, l)) /\ IsCalling(f, v, l)
  BY <1>8
<1>10. serviceDeps(v, l) = f[n]
  BY <1>1, <1>2, <1>9, CallingIs
<1>11. \A i \in 0..n : f[i] = IF i = 0 THEN l ELSE CallOne(v, f[i - 1], hosts[i])
  BY <1>1, <1>2, <1>9, Zenon DEF IsCalling
<1>12. PICK J : J = [i \in 0..n |-> {k \in X : Good(i, k)}]
  OBVIOUS
<1>13. f[0] \in J[0]
  <2>1. f[0] = l /\ 0 \in 0..n /\ 1..0 = {}
    BY <1>11
  <2>2. H(0) = {}
    BY <2>1
  <2>3. Services(l) = 0
    BY CallsCounted, FS_EmptySet
  <2>4. CallsSound(v, H(0), l)
    BY <1>4, <2>2, <2>3 DEF CallsSound
  <2>5. Grown(l, l, "service")
    BY GrownSame DEF ListSound
  <2>6. Good(0, l)
    BY <2>4, <2>5, Zenon
  <2>7. l \in X
    BY <1>6
  <2> HIDE DEF Good
  <2> QED BY <1>12, <2>1, <2>6, <2>7
<1>14. ASSUME NEW i \in 1..n, f[i - 1] \in J[i - 1] PROVE f[i] \in J[i]
  <2>1. i \in 0..n /\ i - 1 \in 0..n /\ i # 0
    OBVIOUS
  <2>2. PICK k \in X : k = f[i - 1] /\ Good(i - 1, k)
    <3> HIDE DEF Good
    <3> QED BY <1>12, <1>14, <2>1
  <2>3. PICK o \in Linkable : o = hosts[i] /\ o[1] = "Service"
    BY <1>3
  <2>4. PICK m : m = f[i] /\ m = CallOne(v, k, o)
    BY <1>11, <2>1, <2>2, <2>3
  <2>5. PICK Q : Q = H(i - 1)
    OBVIOUS
  <2>6. ListSound(v, k) /\ Grown(l, k, "service") /\ CallsOnly(k) /\ CallsSound(v, Q, k)
    BY <2>2, <2>5, Zenon
  <2>7. ListSound(v, m) /\ Grown(k, m, "service") /\ CallsOnly(m) /\ CallsSound(v, Q \cup {o}, m)
    BY <1>4, <2>3, <2>4, <2>6, CallOneIs
  <2>8. H(i) = Q \cup {o}
    BY <2>3, <2>5
  <2>9. l \in Seq(LinkItems) /\ k \in Seq(LinkItems) /\ m \in Seq(LinkItems)
    BY <2>6, <2>7 DEF ListSound
  <2>10. Grown(l, m, "service")
    BY <2>6, <2>7, <2>9, GrownTrans, Zenon
  <2>11. CallsSound(v, H(i), m)
    <3> HIDE DEF H
    <3> QED BY <2>7, <2>8
  <2>12. Good(i, m)
    BY <2>7, <2>10, <2>11, Zenon
  <2>13. m \in X
    BY <1>6, <2>7
  <2> HIDE DEF Good
  <2> QED BY <1>12, <2>1, <2>4, <2>12, <2>13
<1>15. f[n] \in J[n]
  <2>1. \A i \in 0..n : f[i] \in J[i]
    BY ONLY <1>13, <1>14, n \in Nat, LoopKeeps
  <2> QED BY <2>1
<1>16. PICK m : m = f[n] /\ Good(n, m)
  <2> HIDE DEF Good
  <2> QED BY <1>12, <1>15
<1>17. H(n) = ToSet(errorLines(v))
  BY <1>1, <1>2 DEF ToSet
<1>18. CallsSound(v, ToSet(errorLines(v)), m)
  <2> HIDE DEF H
  <2> QED BY <1>16, <1>17
<1> QED BY <1>10, <1>16, <1>18

LEMMA GrownUp ==
    ASSUME NEW v, NEW l, ListSound(v, l), NEW k, ListSound(v, k), NEW rule \in Rules, Grown(l, k, rule),
           Ordered(l), NEW r \in Nat, UpTo(l, r), r <= Rank[rule]
    PROVE  Ordered(k) /\ UpTo(k, Rank[rule])
<1>1. l \in Seq(LinkItems) /\ k \in Seq(LinkItems)
  BY DEF ListSound
<1>2. Rank[rule] \in Nat
  BY RankNat
<1>3. UpTo(l, Rank[rule])
  <2> SUFFICES ASSUME NEW i \in DOMAIN l PROVE Rank[l[i].rule] <= Rank[rule]
    BY DEF UpTo
  <2>1. Rank[l[i].rule] \in Nat
    BY <1>1, ItemsAt, RankNat
  <2>2. Rank[l[i].rule] <= r
    BY DEF UpTo
  <2> QED BY <1>2, <2>1, <2>2
<1> QED BY <1>1, <1>3, GrownOrder

\* What LinkedSound says of the items listed for a view.
FollowSound(v, l) ==
    LET objs == {l[i].obj : i \in DOMAIN l}
        called == {l[i].obj : i \in {j \in DOMAIN l : l[j].rule = "service"}}
    IN /\ Cardinality(objs) = Len(l) /\ v.anchor \notin objs
       /\ \A i, j \in DOMAIN l : i < j => Rank[l[i].rule] <= Rank[l[j].rule]
       /\ {l[i].obj : i \in {j \in DOMAIN l : l[j].rule \in {"config", "claim"}}} = Wanted(v)
       /\ called \subseteq Callable(v)
       /\ Cardinality(called) = (IF Cardinality(Callable(v)) < MaxServices
                                 THEN Cardinality(Callable(v)) ELSE MaxServices)
       /\ Cardinality({i \in DOMAIN l : l[i].rule = "nodes"}) <= MaxNodes

\* The rules one after the other keep what each of them promises.
LEMMA LinkedFollowed == ASSUME NEW v \in Views PROVE FollowSound(v, followLinks(v))
<1>1. PICK l0, l1, l2, l3, l4, l5 :
        /\ l0 = <<>> /\ l1 = configRefs(v, <<>>) /\ l2 = claims(v, l1) /\ l3 = pullSecrets(v, l2)
        /\ l4 = serviceDeps(v, l3) /\ l5 = nodes(v, l4) /\ l5 = followLinks(v)
  BY DEF followLinks
<1>2. ListSound(v, l0) /\ ListedObjs(l0) = {}
  BY <1>1, EmptyList
<1>3. ListSound(v, l1) /\ NoCalls(l1) /\ Grown(l0, l1, "config") /\ ListedObjs(l1) = Refs(v) \ {v.anchor}
  BY <1>1, ConfigIs
<1>4. /\ ListSound(v, l2) /\ NoCalls(l2)
      /\ IF v.anchor[1] = "PersistentVolumeClaim" THEN Grown(l1, l2, "storageclass")
         ELSE Grown(l1, l2, "claim") /\ ListedObjs(l2) = ListedObjs(l1) \cup (HeldClaims(v) \ {v.anchor})
  BY <1>1, <1>3, ClaimsAre
<1>5. ListSound(v, l3) /\ NoCalls(l3) /\ Grown(l2, l3, "pullsecret")
  BY <1>1, <1>4, PullsAre
<1>6. l0 \in Seq(LinkItems) /\ l1 \in Seq(LinkItems) /\ l2 \in Seq(LinkItems) /\ l3 \in Seq(LinkItems)
  BY <1>2, <1>3, <1>4, <1>5 DEF ListSound
<1>7. PICK R : R = {"config", "claim", "storageclass", "pullsecret"}
  OBVIOUS
<1>8. DOMAIN l0 = {}
  BY <1>1
<1>9. Among(l3, R)
  <2>1. Among(l0, R)
    BY <1>8 DEF Among
  <2>2. "config" \in R /\ "claim" \in R /\ "storageclass" \in R /\ "pullsecret" \in R
    BY <1>7
  <2>3. Among(l1, R)
    BY <1>3, <1>6, <2>1, <2>2, GrownAmong
  <2>4. Among(l2, R)
    BY <1>4, <1>6, <2>2, <2>3, GrownAmong
  <2> QED BY <1>5, <1>6, <2>2, <2>4, GrownAmong
<1>10. CallsOnly(l3) /\ Calls(l3) = {}
  <2>1. \A i \in DOMAIN l3 : l3[i].rule # "service"
    BY <1>7, <1>9 DEF Among
  <2>2. \A i \in DOMAIN l3 : l3[i].obj[1] # "Service"
    BY <1>5 DEF NoCalls, ListedObjs
  <2> QED BY <2>1, <2>2 DEF CallsOnly, Calls, Of
<1>11. ListSound(v, l4) /\ Grown(l3, l4, "service") /\ CallsSound(v, ToSet(errorLines(v)), l4)
  BY <1>1, <1>5, <1>10, ServicesAre
<1>12. ListSound(v, l5) /\ Grown(l4, l5, "nodes") /\ Len(l5) <= Len(l4) + MaxNodes
  BY <1>1, <1>11, NodesAre
<1>13. l4 \in Seq(LinkItems) /\ l5 \in Seq(LinkItems) /\ Distinct(l5) /\ v.anchor \notin ListedObjs(l5)
  BY <1>11, <1>12 DEF ListSound
<1>14. Cardinality({l5[i].obj : i \in DOMAIN l5}) = Len(l5)
  <2>1. {i \in DOMAIN l5 : l5[i].rule \in Rules} = DOMAIN l5
    BY <1>13, ItemsAt
  <2>2. Of(l5, Rules) = {l5[i].obj : i \in DOMAIN l5}
    BY <2>1 DEF Of
  <2>3. Cardinality(Of(l5, Rules)) = Cardinality({i \in DOMAIN l5 : l5[i].rule \in Rules})
    BY <1>13, OfCard
  <2>4. PICK n \in Nat : n = Len(l5) /\ DOMAIN l5 = 1..n
    BY <1>13
  <2>5. Cardinality(1..n) = n
    BY FS_Interval
  <2> QED BY <2>1, <2>2, <2>3, <2>4, <2>5
<1>15. Ordered(l5)
  <2>1. /\ Rank["config"] = 1 /\ Rank["claim"] = 2 /\ Rank["storageclass"] = 2 /\ Rank["pullsecret"] = 3
        /\ Rank["service"] = 4 /\ Rank["nodes"] = 5
    BY DEF Rank
  <2>2. {"config", "claim", "storageclass", "pullsecret", "service", "nodes"} = Rules
    BY DEF Rules
  <2>3. Ordered(l0) /\ UpTo(l0, 0)
    BY <1>8 DEF Ordered, UpTo
  <2>4. Ordered(l1) /\ UpTo(l1, 1)
    <3>1. "config" \in Rules /\ 0 <= Rank["config"]
      BY <2>1, <2>2
    <3> QED BY <1>2, <1>3, <2>1, <2>3, <3>1, GrownUp
  <2>5. Ordered(l2) /\ UpTo(l2, 2)
    <3>1. PICK rule \in Rules : Grown(l1, l2, rule) /\ Rank[rule] = 2
      BY <1>4, <2>1, <2>2
    <3>2. 1 <= Rank[rule]
      BY <3>1
    <3> QED BY <1>3, <1>4, <2>4, <3>1, <3>2, GrownUp
  <2>6. Ordered(l3) /\ UpTo(l3, 3)
    <3>1. "pullsecret" \in Rules /\ 2 <= Rank["pullsecret"]
      BY <2>1, <2>2
    <3> QED BY <1>4, <1>5, <2>1, <2>5, <3>1, GrownUp
  <2>7. Ordered(l4) /\ UpTo(l4, 4)
    <3>1. "service" \in Rules /\ 3 <= Rank["service"]
      BY <2>1, <2>2
    <3> QED BY <1>5, <1>11, <2>1, <2>6, <3>1, GrownUp
  <2>8. "nodes" \in Rules /\ 4 <= Rank["nodes"]
    BY <2>1, <2>2
  <2> QED BY <1>11, <1>12, <2>7, <2>8, GrownUp
<1>16. Of(l5, {"config", "claim"}) = Wanted(v)
  <2>1. PICK W : W = {"config", "claim"}
    OBVIOUS
  <2>2. "pullsecret" \notin W /\ "service" \notin W /\ "nodes" \notin W /\ "storageclass" \notin W
    BY <2>1
  <2>3. Of(l5, W) = Of(l4, W)
    BY <1>12, <1>13, <2>2, GrownOf
  <2>4. Of(l4, W) = Of(l3, W)
    BY <1>6, <1>11, <1>13, <2>2, GrownOf
  <2>5. Of(l3, W) = Of(l2, W)
    BY <1>5, <1>6, <2>2, GrownOf
  <2>6. Among(l1, W)
    <3>1. Among(l0, W) /\ "config" \in W
      BY <1>8, <2>1 DEF Among
    <3> QED BY <1>3, <1>6, <3>1, GrownAmong
  <2>7. Of(l1, W) = Refs(v) \ {v.anchor}
    BY <1>3, <2>6, AmongOf
  <2>8. Wanted(v) = (Refs(v) \cup (IF v.anchor[1] = "PersistentVolumeClaim" THEN {} ELSE HeldClaims(v))) \ {v.anchor}
    BY Zenon DEF Wanted, Refs, HeldClaims
  <2>9. CASE v.anchor[1] = "PersistentVolumeClaim"
    <3>1. Of(l2, W) = Of(l1, W)
      BY <1>4, <1>6, <2>2, <2>9, GrownOf
    <3>2. Wanted(v) = Refs(v) \ {v.anchor}
      BY <2>8, <2>9
    <3> QED BY <2>1, <2>3, <2>4, <2>5, <2>7, <3>1, <3>2
  <2>10. CASE v.anchor[1] # "PersistentVolumeClaim"
    <3>1. "claim" \in W
      BY <2>1
    <3>2. Among(l2, W)
      BY <1>4, <1>6, <2>6, <2>10, <3>1, GrownAmong
    <3>3. Of(l2, W) = (Refs(v) \ {v.anchor}) \cup (HeldClaims(v) \ {v.anchor})
      BY <1>3, <1>4, <2>10, <3>2, AmongOf
    <3>4. Wanted(v) = (Refs(v) \cup HeldClaims(v)) \ {v.anchor}
      BY <2>8, <2>10
    <3>5. (Refs(v) \cup HeldClaims(v)) \ {v.anchor} = (Refs(v) \ {v.anchor}) \cup (HeldClaims(v) \ {v.anchor})
      OBVIOUS
    <3> QED BY <2>1, <2>3, <2>4, <2>5, <3>3, <3>4, <3>5
  <2> QED BY <2>9, <2>10
<1>17. PICK C, D : C = Calls(l5) /\ D = Callable(v)
  OBVIOUS
<1>18. C \subseteq D /\ Cardinality(C) = IF Cardinality(D) < MaxServices THEN Cardinality(D) ELSE MaxServices
  <2>0. PICK S : S = {"service"}
    OBVIOUS
  <2>1. S = {"service"} /\ "nodes" \notin S
    BY <2>0
  <2>2. C = Calls(l4)
    <3>1. Of(l5, S) = Of(l4, S)
      BY <1>12, <1>13, <2>1, GrownOf
    <3> QED BY <1>17, <2>1, <3>1 DEF Calls
  <2>3. D = {s \in ToSet(errorLines(v)) : Reached(v, s)} \ {v.anchor}
    BY <1>17, Zenon DEF Callable, Reached
  <2>4. C \subseteq D /\ Services(l4) <= MaxServices /\ (Services(l4) < MaxServices => C = D)
    BY <1>11, <2>2, <2>3 DEF CallsSound
  <2>5. Services(l4) = Cardinality(C) /\ Services(l4) \in Nat /\ MaxServices \in Nat
    BY <1>11, <2>2, CallsCounted, ViewAssumption
  <2>6. IsFiniteSet(D)
    <3>1. IsFiniteSet(ToSet(errorLines(v)))
      BY HostsAre, ToSetFinite
    <3>2. D \subseteq ToSet(errorLines(v))
      BY <2>3
    <3> QED BY <3>1, <3>2, FS_Subset
  <2>7. Cardinality(D) \in Nat /\ Cardinality(C) <= Cardinality(D)
    BY <2>4, <2>6, FS_Subset, FS_CardinalityType
  <2>8. CASE Services(l4) < MaxServices
    <3>1. C = D
      BY <2>4, <2>8
    <3> QED BY <2>4, <2>5, <2>8, <3>1
  <2>9. CASE ~(Services(l4) < MaxServices)
    <3>1. Cardinality(C) = MaxServices /\ ~(Cardinality(D) < MaxServices)
      BY <2>4, <2>5, <2>7, <2>9
    <3> QED BY <2>4, <3>1
  <2> QED BY <2>8, <2>9
<1>19. Cardinality({i \in DOMAIN l5 : l5[i].rule = "nodes"}) <= MaxNodes
  <2>1. PICK a, b \in Nat : a = Len(l4) /\ b = Len(l5) /\ DOMAIN l5 = 1..b /\ DOMAIN l4 = 1..a /\ a <= b /\ b <= a + MaxNodes
    BY <1>12, <1>13 DEF Grown
  <2>a. PICK T : T = R \cup {"service"}
    OBVIOUS
  <2>2. T = R \cup {"service"} /\ "nodes" \notin T
    BY <1>7, <2>a
  <2>3. Among(l3, T) /\ "service" \in T
    BY <1>9, <2>2 DEF Among
  <2>4. Among(l4, T)
    BY <1>6, <1>11, <1>13, <2>3, GrownAmong
  <2>5. PICK N : N = {i \in DOMAIN l5 : l5[i].rule = "nodes"}
    OBVIOUS
  <2>6. N \subseteq (a + 1)..b
    <3> SUFFICES ASSUME NEW i \in 1..b, l5[i].rule = "nodes", ~(i > a) PROVE FALSE
      BY <2>1, <2>5
    <3>1. i \in 1..a
      OBVIOUS
    <3>2. l5[i] = l4[i]
      BY <1>12, <2>1, <3>1 DEF Grown
    <3> QED BY <2>1, <2>2, <2>4, <3>1, <3>2 DEF Among
  <2>7. IsFiniteSet((a + 1)..b) /\ Cardinality((a + 1)..b) = IF a + 1 > b THEN 0 ELSE b - (a + 1) + 1
    BY FS_Interval
  <2>8. PICK I : I = (a + 1)..b
    OBVIOUS
  <2>9. Cardinality(N) <= Cardinality(I) /\ Cardinality(N) \in Nat
    BY <2>6, <2>7, <2>8, FS_Subset, FS_CardinalityType
  <2>10. Cardinality(I) <= MaxNodes /\ Cardinality(I) \in Nat /\ MaxNodes \in Nat
    BY <2>1, <2>7, <2>8, ViewAssumption
  <2> QED BY <2>5, <2>9, <2>10
<1>20. C = {l5[i].obj : i \in {j \in DOMAIN l5 : l5[j].rule = "service"}}
  BY <1>17 DEF Calls, Of
<1>21. v.anchor \notin {l5[i].obj : i \in DOMAIN l5}
  BY <1>13, Zenon DEF ListedObjs
<1>22. {l5[i].obj : i \in {j \in DOMAIN l5 : l5[j].rule \in {"config", "claim"}}} = Wanted(v)
  BY <1>16, Zenon DEF Of
<1>23. \A i, j \in DOMAIN l5 : i < j => Rank[l5[i].rule] <= Rank[l5[j].rule]
  BY <1>15, Zenon DEF Ordered
<1>24. FollowSound(v, l5)
  <2> DEFINE called == {l5[i].obj : i \in {j \in DOMAIN l5 : l5[j].rule = "service"}}
  <2>1. /\ called \subseteq Callable(v)
        /\ Cardinality(called) = (IF Cardinality(Callable(v)) < MaxServices THEN Cardinality(Callable(v)) ELSE MaxServices)
    <3>1. C = called
      BY <1>20, Zenon
    <3> HIDE DEF called
    <3> QED BY <1>17, <1>18, <3>1
  <2> QED BY <1>14, <1>19, <1>21, <1>22, <1>23, <2>1, Zenon DEF FollowSound
<1> QED BY <1>1, <1>24

\* followLinks lists each object once, in the order of the rules, and leaves out only the
\* Services and nodes over their limits, whatever the evidence and the cluster are.
THEOREM LinkedSoundAlways == LinksSpec => []LinkedSound
<1>1. LinksInit => LinkedSound
  BY DEF LinksInit, LinkedSound
<1>2. LinkedSound /\ [FollowLinks]_links => LinkedSound'
  <2> SUFFICES ASSUME LinkedSound, [FollowLinks]_links PROVE LinkedSound'
    OBVIOUS
  <2>1. CASE UNCHANGED links
    BY <2>1 DEF LinkedSound
  <2>2. CASE FollowLinks
    <3>1. PICK v \in Views : links' = [v |-> v, items |-> followLinks(v)]
      BY <2>2 DEF FollowLinks
    <3>2. PICK l : l = followLinks(v)
      OBVIOUS
    <3>3. FollowSound(v, l)
      BY <3>2, LinkedFollowed
    <3>4. links'.v = v /\ links'.items = l
      BY <3>1, <3>2
    <3>5. FollowSound(links'.v, links'.items)
      BY <3>3, <3>4, Zenon
    <3> QED BY <3>5, Zenon DEF LinkedSound, FollowSound
  <2> QED BY <2>1, <2>2
<1> QED BY <1>1, <1>2, PTL DEF LinksSpec
------------------------------------------------------------------------------
(* Home *)

\* A sum over a function's domain, of cardinalities, is the cardinality of the union.
LEMMA SumCounts ==
    ASSUME NEW W, NEW S, IsFiniteSet(S), Apart(W, S), NEW f, f = [x \in S |-> f[x]],
           \A x \in S : f[x] = Cardinality(W[x])
    PROVE  SumFunction(f) = Cardinality(Union(W, S))
<1> DEFINE g == CHOOSE g : IsSum(g, f, S)
<1>1. IsSum(g, f, S)
  BY CountIsSum, Zenon
<1>2. DOMAIN f = S
  OBVIOUS
<1>3. SumFunction(f) = g[S]
  BY <1>2, Zenon DEF SumFunction, SumFunctionOnSet, FoldFunctionOnSet, MapThenFoldSet, IsSum
<1> QED BY <1>1, <1>3, SumIsCount

\* SetToSeq has the elements of the set.
LEMMA SeqOfSet ==
    ASSUME NEW S, IsFiniteSet(S)
    PROVE  SetToSeq(S) \in Seq(S) /\ ToSet(SetToSeq(S)) = S
<1>1. PICK n \in Nat : n = Cardinality(S)
  BY FS_CardinalityType
<1>2. IsFiniteSet(1..n) /\ Cardinality(1..n) = n
  BY FS_Interval
<1>3. PICK h : h \in Bijection(1..n, S)
  BY <1>1, FS_CardinalityType DEF ExistsBijection
<1>4. h \in [1..n -> S] /\ IsInjective(h)
  BY <1>3 DEF Bijection, Injection, Surjection
<1>5. PICK s : s = SetToSeq(S)
  OBVIOUS
<1>6. s \in [1..n -> S] /\ IsInjective(s)
  BY <1>1, <1>4, <1>5, Zenon DEF SetToSeq
<1>7. s \in Surjection(1..n, S)
  BY <1>1, <1>2, <1>6, FS_Injection DEF Injection
<1>8. ToSet(s) = S
  BY <1>6, <1>7 DEF Surjection, ToSet
<1> QED BY <1>5, <1>6, <1>8

LEMMA ImageFinite ==
    ASSUME NEW S, IsFiniteSet(S), NEW T, NEW f, f = [x \in S |-> f[x]], T = {f[x] : x \in S}
    PROVE  IsFiniteSet(T)
<1>1. f \in Surjection(S, T)
  BY DEF Surjection
<1> QED BY <1>1, FS_Surjection

\* The loops of groupPatterns over the pairs e of problems to join.
IsJoin(f, D, e) ==
    f = [k \in 0..Len(e) |-> IF k = 0 THEN [i \in D |-> i] ELSE union(f[k - 1], e[k][1], e[k][2])]

\* Sets that have both or none of every pair joined.
Whole(D, e) == {S \in SUBSET D : \A k \in 1..Len(e) : e[k][1] \in S <=> e[k][2] \in S}

\* The roots p tell apart no two of a pair up to k, and only what a whole set tells apart.
Rooted(p, D, e, k) ==
    /\ p \in [D -> D]
    /\ \A l \in 1..k : p[e[l][1]] = p[e[l][2]]
    /\ \A S \in Whole(D, e) : \A i, j \in D : p[i] = p[j] => (i \in S <=> j \in S)

LEMMA UnionJoins ==
    ASSUME NEW D, NEW e \in Seq(D \X D), NEW k \in 1..Len(e), NEW p, Rooted(p, D, e, k - 1)
    PROVE  Rooted(union(p, e[k][1], e[k][2]), D, e, k)
<1>1. PICK a, b : a = e[k][1] /\ b = e[k][2]
  OBVIOUS
<1>2. a \in D /\ b \in D
  BY <1>1
<1>3. PICK u : u = union(p, a, b)
  OBVIOUS
<1>4. p \in [D -> D]
  BY DEF Rooted
<1>5. \A i \in D : u[i] = IF p[i] = p[a] THEN p[b] ELSE p[i]
  BY <1>3, <1>4 DEF union
<1>6. u \in [D -> D]
  <2>1. u = [i \in D |-> IF p[i] = p[a] THEN p[b] ELSE p[i]]
    BY <1>3, <1>4 DEF union
  <2> QED BY <1>2, <1>4, <2>1
<1>7. u[a] = u[b]
  BY <1>2, <1>5
<1>8. \A x, y \in D : p[x] = p[y] => u[x] = u[y]
  BY <1>5
<1>9. ASSUME NEW l \in 1..k PROVE u[e[l][1]] = u[e[l][2]]
  <2>1. CASE l = k
    BY <1>1, <1>7, <2>1
  <2>2. CASE l # k
    <3>1. l \in 1 .. k - 1 /\ l \in 1..Len(e)
      BY <2>2
    <3>2. p[e[l][1]] = p[e[l][2]]
      BY <3>1 DEF Rooted
    <3>3. e[l][1] \in D /\ e[l][2] \in D
      BY <3>1
    <3> QED BY <1>8, <3>2, <3>3
  <2> QED BY <2>1, <2>2
<1>10. ASSUME NEW S \in Whole(D, e), NEW i \in D, NEW j \in D, u[i] = u[j] PROVE i \in S <=> j \in S
  <2>1. \A x, y \in D : p[x] = p[y] => (x \in S <=> y \in S)
    BY DEF Rooted
  <2>2. a \in S <=> b \in S
    BY <1>1 DEF Whole
  <2>3. CASE p[i] = p[a] /\ p[j] # p[a]
    <3>1. p[j] = p[b]
      BY <1>5, <1>10, <2>3
    <3> QED BY <1>2, <2>1, <2>2, <2>3, <3>1
  <2>4. CASE p[i] # p[a] /\ p[j] = p[a]
    <3>1. p[i] = p[b]
      BY <1>5, <1>10, <2>4
    <3> QED BY <1>2, <2>1, <2>2, <2>4, <3>1
  <2>5. CASE (p[i] = p[a] /\ p[j] = p[a]) \/ (p[i] # p[a] /\ p[j] # p[a])
    <3>1. p[i] = p[j]
      BY <1>5, <1>10, <2>5
    <3> QED BY <2>1, <3>1
  <2> QED BY <2>3, <2>4, <2>5
<1>11. Rooted(u, D, e, k)
  BY <1>6, <1>9, <1>10, Zenon DEF Rooted
<1> QED BY <1>1, <1>3, <1>11

LEMMA JoinRuns ==
    ASSUME NEW D, NEW e \in Seq(D \X D)
    PROVE  \E f : IsJoin(f, D, e)
<1>1. PICK n \in Nat : n = Len(e)
  OBVIOUS
<1>2. PICK X, x, G : /\ X = [D -> D] /\ x = [i \in D |-> i]
                     /\ G = [q \in X \X (1..n) |-> union(q[1], e[q[2]][1], e[q[2]][2])]
  OBVIOUS
<1>3. x \in X
  BY <1>2
<1>4. ASSUME NEW p \in X, NEW k \in 1..n PROVE union(p, e[k][1], e[k][2]) \in X
  <2>1. e[k][1] \in D /\ e[k][2] \in D
    BY <1>1
  <2>2. DOMAIN p = D /\ \A i \in D : p[i] \in D
    BY <1>2
  <2>3. \A b \in D : p[b] \in D
    BY <2>2
  <2> QED BY <1>2, <2>1, <2>2 DEF union
<1>5. G \in [X \X (1..n) -> X]
  BY <1>2, <1>4
<1>6. PICK f : Loop(f, n, X, x, G)
  BY <1>3, <1>5, LoopRuns, Zenon
<1>7. f \in [0..n -> X] /\ f[0] = x /\ \A i \in 1..n : f[i] = G[<<f[i - 1], i>>]
  BY <1>6, Zenon DEF Loop
<1>8. \A k \in 0..n : f[k] = IF k = 0 THEN x ELSE union(f[k - 1], e[k][1], e[k][2])
  <2> SUFFICES ASSUME NEW k \in 0..n, k # 0 PROVE f[k] = union(f[k - 1], e[k][1], e[k][2])
    BY <1>7
  <2>1. k \in 1..n /\ k - 1 \in 0..n
    OBVIOUS
  <2>2. <<f[k - 1], k>> \in X \X (1..n)
    BY <1>7, <2>1
  <2>3. f[k] = G[<<f[k - 1], k>>]
    BY <1>7, <2>1
  <2> QED BY <1>2, <2>2, <2>3
<1>9. f = [k \in 0..n |-> IF k = 0 THEN x ELSE union(f[k - 1], e[k][1], e[k][2])]
  BY <1>7, <1>8
<1> QED BY <1>1, <1>2, <1>9, Zenon DEF IsJoin

\* Joined pair by pair, the problems have the root of those they were joined with and no
\* other's.
LEMMA JoinedRoots ==
    ASSUME NEW D, NEW e \in Seq(D \X D), NEW f, IsJoin(f, D, e)
    PROVE  Rooted(f[Len(e)], D, e, Len(e))
<1>1. PICK n \in Nat : n = Len(e)
  OBVIOUS
<1>2. \A k \in 0..n : f[k] = IF k = 0 THEN [i \in D |-> i] ELSE union(f[k - 1], e[k][1], e[k][2])
  BY <1>1, Zenon DEF IsJoin
<1>3. PICK J : J = [k \in 0..n |-> {p \in [D -> D] : Rooted(p, D, e, k)}]
  OBVIOUS
<1>4. f[0] \in J[0]
  <2>1. PICK p : p = [i \in D |-> i]
    OBVIOUS
  <2>2. p \in [D -> D] /\ \A i \in D : p[i] = i
    BY <2>1
  <2>3. 1..0 = {}
    OBVIOUS
  <2>4. Rooted(p, D, e, 0)
    BY <2>2, <2>3 DEF Rooted
  <2>5. f[0] = p /\ 0 \in 0..n
    BY <1>2, <2>1
  <2> QED BY <1>3, <2>2, <2>4, <2>5
<1>5. ASSUME NEW k \in 1..n, f[k - 1] \in J[k - 1] PROVE f[k] \in J[k]
  <2>1. k \in 0..n /\ k - 1 \in 0..n /\ k # 0 /\ k \in 1..Len(e)
    BY <1>1
  <2>2. PICK p : p = f[k - 1] /\ Rooted(p, D, e, k - 1)
    BY <1>3, <1>5, <2>1
  <2>3. PICK u : u = union(p, e[k][1], e[k][2]) /\ f[k] = u
    BY <1>2, <2>1, <2>2
  <2>4. Rooted(u, D, e, k)
    BY <2>1, <2>2, <2>3, UnionJoins
  <2>5. u \in [D -> D]
    BY <2>4 DEF Rooted
  <2> QED BY <1>3, <2>1, <2>3, <2>4, <2>5
<1>6. f[n] \in J[n]
  <2>1. \A k \in 0..n : f[k] \in J[k]
    BY ONLY <1>4, <1>5, n \in Nat, LoopKeeps
  <2> QED BY <2>1
<1> QED BY <1>1, <1>3, <1>6

\* Problems with the times and the tier that fillFromWarnings gives.
Timed(ps) ==
    /\ \E n \in Nat : DOMAIN ps = 1..n
    /\ \A i \in DOMAIN ps : ps[i].of.first \in Nat /\ ps[i].of.last \in Nat
    /\ \A i \in DOMAIN ps : ps[i].of.tier \in {"new", "ongoing", "chronic"}
    /\ \A i \in DOMAIN ps : ps[i].of.idle = (Now - ps[i].of.last >= IdleAfter)

LEMMA AlikeBoth ==
    ASSUME NEW p, NEW q, p.of.first \in Nat, q.of.first \in Nat, Alike(p, q)
    PROVE  Alike(q, p)
<1>1. PICK a \in Nat, b \in Nat, w \in Nat : a = p.of.first /\ b = q.of.first /\ w = Window
  BY HomesAssumption
<1>2. a - b \in -w .. w => b - a \in -w .. w
  BY <1>1
<1>3. p.of.first - q.of.first \in -Window .. Window => q.of.first - p.of.first \in -Window .. Window
  BY <1>1, <1>2
<1> QED BY <1>3, Zenon DEF Alike

\* The problems that share an infrastructure reason: some, of one tier.
LEMMA SharedAre ==
    ASSUME NEW ps, NEW s \in Shared(ps)
    PROVE  s \subseteq DOMAIN ps /\ s # {} /\ \A i, j \in s : ps[i].of.tier = ps[j].of.tier
<1>1. PICK k \in DOMAIN ps :
        s = {j \in DOMAIN ps : <<primary(ps[j]), ps[j].of.tier>> = <<primary(ps[k]), ps[k].of.tier>>}
  BY DEF Shared
<1>2. k \in s /\ \A i \in s : i \in DOMAIN ps /\ ps[i].of.tier = ps[k].of.tier
  BY <1>1
<1> QED BY <1>2

\* The pairs are of problems linked, and link all of them.
LEMMA JoinsAre ==
    ASSUME NEW ps, Timed(ps), NEW D, D = DOMAIN ps
    PROVE  /\ Joins(ps) \in Seq(D \X D)
           /\ \A x \in D \X D : x \in ToSet(Joins(ps)) <=>
                 \/ x[1] < x[2] /\ Alike(ps[x[1]], ps[x[2]])
                 \/ \E s \in Shared(ps) : x[1] = Min(s) /\ x[2] \in s \ {Min(s)}
<1>1. PICK n \in Nat : D = 1..n
  BY DEF Timed
<1>2. IsFiniteSet(D \X D)
  <2>1. IsFiniteSet(D)
    BY <1>1, FS_Interval
  <2> QED BY <2>1, FS_Product
<1>3. PICK A, B : /\ A = {e \in D \X D : e[1] < e[2] /\ Alike(ps[e[1]], ps[e[2]])}
                  /\ B = UNION {{Min(s)} \X (s \ {Min(s)}) : s \in Shared(ps)}
  OBVIOUS
<1>4. A \subseteq D \X D
  BY <1>3
<1>5. \A x : x \in B <=> \E s \in Shared(ps) : x \in {Min(s)} \X (s \ {Min(s)})
  BY <1>3
<1>6. \A s \in Shared(ps) : Min(s) \in D /\ s \subseteq D
  <2> SUFFICES ASSUME NEW s \in Shared(ps) PROVE Min(s) \in D /\ s \subseteq D
    OBVIOUS
  <2>1. s \subseteq D /\ s # {}
    BY SharedAre, Zenon
  <2>2. s \subseteq Nat
    BY <1>1, <2>1
  <2>3. Min(s) \in s
    BY <2>1, <2>2, MinIn
  <2> QED BY <2>1, <2>3
<1>7. B \subseteq D \X D
  BY <1>5, <1>6
<1>8. \A x \in D \X D : x \in B <=> \E s \in Shared(ps) : x[1] = Min(s) /\ x[2] \in s \ {Min(s)}
  BY <1>5
<1>9. IsFiniteSet(A) /\ IsFiniteSet(B)
  BY <1>2, <1>4, <1>7, FS_Subset
<1>10. PICK a, b : a = SetToSeq(A) /\ b = SetToSeq(B)
  OBVIOUS
<1>11. a \in Seq(A) /\ ToSet(a) = A /\ b \in Seq(B) /\ ToSet(b) = B
  BY <1>9, <1>10, SeqOfSet
<1>12. a \in Seq(D \X D) /\ b \in Seq(D \X D)
  BY <1>4, <1>7, <1>11
<1>13. Joins(ps) = a \o b
  BY <1>3, <1>10 DEF Joins
<1>14. a \o b \in Seq(D \X D) /\ ToSet(a \o b) = A \cup B
  BY <1>11, <1>12, SetConcat
<1>15. \A x \in D \X D : x \in A <=> x[1] < x[2] /\ Alike(ps[x[1]], ps[x[2]])
  BY <1>3
<1>16. \A x \in D \X D : x \in A \cup B <=>
                 \/ x[1] < x[2] /\ Alike(ps[x[1]], ps[x[2]])
                 \/ \E s \in Shared(ps) : x[1] = Min(s) /\ x[2] \in s \ {Min(s)}
  BY <1>8, <1>15, Zenon
<1> QED BY <1>13, <1>14, <1>16

\* Problems of which one is linked to the other have one root.
LEMMA LinkedJoin ==
    ASSUME NEW ps, Timed(ps), NEW D, D = DOMAIN ps, NEW e, e = Joins(ps), NEW p,
           \A k \in 1..Len(e) : p[e[k][1]] = p[e[k][2]],
           NEW i \in D, NEW j \in D, Direct(ps, i, j)
    PROVE  p[i] = p[j]
<1>1. e \in Seq(D \X D)
  BY JoinsAre
<1>2. PICK n \in Nat : D = 1..n
  BY DEF Timed
<1>3. ASSUME NEW a \in D, NEW b \in D, <<a, b>> \in ToSet(e) PROVE p[a] = p[b]
  <2>1. PICK k \in 1..Len(e) : e[k] = <<a, b>>
    BY <1>1, <1>3 DEF ToSet
  <2> QED BY <2>1
<1>4. ASSUME NEW a \in D, NEW b \in D, a < b, Alike(ps[a], ps[b]) PROVE p[a] = p[b]
  <2>1. PICK x : x = <<a, b>>
    OBVIOUS
  <2>2. x \in D \X D /\ x[1] = a /\ x[2] = b
    BY <2>1
  <2>3. x \in ToSet(e)
    BY <1>4, <2>2, JoinsAre
  <2> QED BY <1>3, <2>1, <2>3
<1>5. CASE Alike(ps[i], ps[j])
  <2>1. i # j
    BY <1>5 DEF Alike
  <2>2. Alike(ps[j], ps[i])
    BY <1>5, AlikeBoth DEF Timed
  <2>3. i < j \/ j < i
    BY <1>2, <2>1
  <2> QED BY <1>4, <1>5, <2>2, <2>3
<1>6. ASSUME NEW s \in Shared(ps), NEW x \in s PROVE p[Min(s)] = p[x]
  <2>1. s \subseteq D /\ s # {}
    BY SharedAre, Zenon
  <2>2. Min(s) \in D /\ x \in D
    <3>1. s \subseteq Nat
      BY <1>2, <2>1
    <3>2. Min(s) \in s
      BY <2>1, <3>1, MinIn
    <3> QED BY <2>1, <3>2
  <2>3. CASE x = Min(s)
    BY <2>3
  <2>4. CASE x # Min(s)
    <3>1. PICK z : z = <<Min(s), x>>
      OBVIOUS
    <3>2. z \in D \X D /\ z[1] = Min(s) /\ z[2] \in s \ {Min(s)}
      BY <2>2, <2>4, <3>1
    <3>3. z \in ToSet(e)
      BY <3>2, JoinsAre
    <3> QED BY <1>3, <2>2, <3>1, <3>3
  <2> QED BY <2>3, <2>4
<1>7. CASE \E s \in Shared(ps) : {i, j} \subseteq s
  <2>1. PICK s \in Shared(ps) : i \in s /\ j \in s
    BY <1>7
  <2> QED BY <1>6, <2>1
<1> QED BY <1>5, <1>7 DEF Direct

LEMMA ClosedWhole ==
    ASSUME NEW ps, Timed(ps), NEW D, D = DOMAIN ps, NEW S \in SUBSET D, Closed(ps, S)
    PROVE  S \in Whole(D, Joins(ps))
<1>1. PICK e : e = Joins(ps) /\ e \in Seq(D \X D)
  BY JoinsAre
<1>2. PICK n \in Nat : D = 1..n
  BY DEF Timed
<1>3. ASSUME NEW a \in D, NEW b \in D, Direct(ps, a, b), Direct(ps, b, a) PROVE a \in S <=> b \in S
  BY <1>3 DEF Closed
<1>4. ASSUME NEW k \in 1..Len(e) PROVE e[k][1] \in S <=> e[k][2] \in S
  <2>1. PICK x : x = e[k] /\ x \in D \X D /\ x \in ToSet(e)
    BY <1>1 DEF ToSet
  <2>2. x[1] \in D /\ x[2] \in D
    BY <2>1
  <2>3. \/ Alike(ps[x[1]], ps[x[2]])
        \/ \E s \in Shared(ps) : x[1] = Min(s) /\ x[2] \in s \ {Min(s)}
    BY <1>1, <2>1, JoinsAre
  <2>4. CASE Alike(ps[x[1]], ps[x[2]])
    <3>1. Alike(ps[x[2]], ps[x[1]])
      BY <2>2, <2>4, AlikeBoth DEF Timed
    <3> QED BY <1>3, <2>1, <2>2, <2>4, <3>1 DEF Direct
  <2>5. CASE \E s \in Shared(ps) : x[1] = Min(s) /\ x[2] \in s \ {Min(s)}
    <3>1. PICK s \in Shared(ps) : x[1] = Min(s) /\ x[2] \in s
      BY <2>5
    <3>2. s \subseteq Nat /\ s # {}
      <4>1. s \subseteq D /\ s # {}
        BY SharedAre, Zenon
      <4> QED BY <1>2, <4>1
    <3>3. x[1] \in s
      BY <3>1, <3>2, MinIn
    <3>4. Direct(ps, x[1], x[2]) /\ Direct(ps, x[2], x[1])
      BY <3>1, <3>3 DEF Direct
    <3> QED BY <1>3, <2>1, <2>2, <3>4
  <2> QED BY <2>3, <2>4, <2>5
<1> QED BY <1>1, <1>4 DEF Whole

\* Those that have the root of a problem are those of its cause.
LEMMA JoinedIsCause ==
    ASSUME NEW ps, Timed(ps), NEW D, D = DOMAIN ps, NEW i \in D
    PROVE  {j \in D : Joined(ps)[j] = Joined(ps)[i]} = Cause(ps, i)
<1>1. PICK e : e = Joins(ps) /\ e \in Seq(D \X D)
  BY JoinsAre
<1>2. PICK f : f = (CHOOSE g : IsJoin(g, DOMAIN ps, Joins(ps))) /\ IsJoin(f, D, e)
  BY <1>1, JoinRuns
<1>3. Joined(ps) = f[Len(e)]
  BY <1>1, <1>2, Zenon DEF Joined, IsJoin
<1>4. PICK p : p = Joined(ps) /\ Rooted(p, D, e, Len(e))
  BY <1>1, <1>2, <1>3, JoinedRoots
<1>5. p \in [D -> D] /\ \A k \in 1..Len(e) : p[e[k][1]] = p[e[k][2]]
  BY <1>4 DEF Rooted
<1>6. PICK C : C = {j \in D : p[j] = p[i]}
  OBVIOUS
<1>7. Closed(ps, C)
  <2> SUFFICES ASSUME NEW a \in C, NEW b \in D, Direct(ps, a, b) PROVE b \in C
    BY DEF Closed
  <2>1. a \in D /\ p[a] = p[i]
    BY <1>6
  <2>2. p[a] = p[b]
    BY <1>1, <1>5, <2>1, LinkedJoin
  <2> QED BY <1>6, <2>1, <2>2
<1>8. Cause(ps, i) \subseteq C
  <2>1. C \in SUBSET D /\ i \in C
    BY <1>6
  <2> QED BY <1>7, <2>1 DEF Cause
<1>9. C \subseteq Cause(ps, i)
  <2> SUFFICES ASSUME NEW j \in C, NEW S \in SUBSET D, i \in S, Closed(ps, S) PROVE j \in S
    BY <1>6 DEF Cause
  <2>1. S \in Whole(D, e)
    BY <1>1, ClosedWhole
  <2>2. p[j] = p[i] /\ j \in D
    BY <1>6
  <2> QED BY <1>4, <2>1, <2>2 DEF Rooted
<1> QED BY <1>4, <1>6, <1>8, <1>9

\* Problems of one cause have one tier; causes are apart.
LEMMA CauseIs ==
    ASSUME NEW ps, Timed(ps), NEW i \in DOMAIN ps
    PROVE  /\ i \in Cause(ps, i) /\ Cause(ps, i) \subseteq DOMAIN ps
           /\ \A j \in Cause(ps, i) : ps[j].of.tier = ps[i].of.tier /\ Cause(ps, j) = Cause(ps, i)
<1>1. PICK D : D = DOMAIN ps
  OBVIOUS
<1>2. i \in Cause(ps, i) /\ Cause(ps, i) \subseteq D
  BY <1>1 DEF Cause
<1>3. ASSUME NEW j \in Cause(ps, i) PROVE ps[j].of.tier = ps[i].of.tier
  <2>1. PICK T : T = {k \in D : ps[k].of.tier = ps[i].of.tier}
    OBVIOUS
  <2>2. Closed(ps, T)
    <3> SUFFICES ASSUME NEW a \in T, NEW b \in D, Direct(ps, a, b) PROVE ps[b].of.tier = ps[a].of.tier
      BY <1>1, <2>1 DEF Closed
    <3>1. CASE Alike(ps[a], ps[b])
      BY <3>1 DEF Alike
    <3>2. CASE \E s \in Shared(ps) : {a, b} \subseteq s
      <4>1. PICK s \in Shared(ps) : a \in s /\ b \in s
        BY <3>2
      <4> QED BY <4>1, SharedAre
    <3> QED BY <3>1, <3>2 DEF Direct
  <2>3. T \in SUBSET D /\ i \in T
    BY <1>1, <2>1
  <2>4. j \in T
    BY <1>1, <2>2, <2>3 DEF Cause
  <2> QED BY <2>1, <2>4
<1>4. ASSUME NEW j \in Cause(ps, i) PROVE Cause(ps, j) = Cause(ps, i)
  <2>1. j \in D /\ i \in D
    BY <1>1, <1>2
  <2>2. PICK p : p = Joined(ps)
    OBVIOUS
  <2>3. /\ {k \in D : p[k] = p[i]} = Cause(ps, i)
        /\ {k \in D : p[k] = p[j]} = Cause(ps, j)
    BY <1>1, <2>1, <2>2, JoinedIsCause
  <2>4. p[j] = p[i]
    BY <2>3
  <2> QED BY <2>3, <2>4
<1> QED BY <1>1, <1>2, <1>3, <1>4

\* The row of a problem.
RowOf(ps, i) == IF Wide(ps, i) THEN makePattern(ps, Cause(ps, i)) ELSE Alone(ps, i)

In(ps, i) == IF Wide(ps, i) THEN Cause(ps, i) ELSE {i}

\* What a row says of its members.
IsRow(p, ps) ==
    /\ p.members # {} /\ p.members \subseteq DOMAIN ps
    /\ p.namespaces = {ps[i].ns : i \in p.members}
    /\ p.occurrences = SumFunction([i \in p.members |-> ps[i].of.occurrences])
    /\ p.last \in Nat /\ \A i \in p.members : ps[i].of.last <= p.last
    /\ p.idle = (Now - p.last >= IdleAfter)
    /\ p.tier \in {"new", "ongoing", "chronic"} /\ \A i \in p.members : p.tier = ps[i].of.tier
    /\ p.cascade \in BOOLEAN
    /\ p.scope \in {"namespace", "pattern"}

LEMMA PatternIsRow ==
    ASSUME NEW ps, Timed(ps), NEW m \in SUBSET (DOMAIN ps), m # {},
           \A i, j \in m : ps[i].of.tier = ps[j].of.tier, NEW p,
           p = makePattern(ps, m) \/ p = [makePattern(ps, m) EXCEPT !.scope = "namespace"]
    PROVE  IsRow(p, ps) /\ p.members = m
<1>1. PICK ns, occ, first, last, tier, idle, cas :
        /\ ns = {ps[i].ns : i \in m} /\ occ = SumFunction([i \in m |-> ps[i].of.occurrences])
        /\ first = Min({ps[i].of.first : i \in m}) /\ last = Max({ps[i].of.last : i \in m})
        /\ tier = ps[CHOOSE i \in m : TRUE].of.tier /\ idle = (Now - last >= IdleAfter)
        /\ cas = (\E i \in m : ps[i].cascade)
  OBVIOUS
<1>2. PICK q : q = [scope |-> "pattern", members |-> m, namespaces |-> ns, occurrences |-> occ,
                    first |-> first, last |-> last, tier |-> tier, idle |-> idle, cascade |-> cas]
  OBVIOUS
<1>3. makePattern(ps, m) = q
  BY <1>1, <1>2, Zenon DEF makePattern
<1>4. p = q \/ p = [q EXCEPT !.scope = "namespace"]
  BY <1>3
<1>5. /\ p.members = m /\ p.namespaces = ns /\ p.occurrences = occ /\ p.last = last /\ p.tier = tier
      /\ p.idle = idle /\ p.cascade = cas /\ p.scope \in {"namespace", "pattern"}
  BY <1>2, <1>4
<1>6. last \in Nat /\ \A i \in m : ps[i].of.last <= last
  <2>1. PICK L : L = {ps[i].of.last : i \in m}
    OBVIOUS
  <2>2. L \subseteq Nat /\ L # {} /\ \A i \in m : ps[i].of.last \in L
    BY <2>1 DEF Timed
  <2>3. IsFiniteSet(m)
    <3>1. PICK n \in Nat : DOMAIN ps = 1..n
      BY DEF Timed
    <3>2. IsFiniteSet(DOMAIN ps)
      BY <3>1, FS_Interval
    <3> QED BY <3>2, FS_Subset
  <2>4. IsFiniteSet(L)
    <3>1. PICK f : f = [i \in m |-> ps[i].of.last]
      OBVIOUS
    <3>2. f = [i \in m |-> f[i]] /\ L = {f[i] : i \in m}
      BY <2>1, <3>1
    <3> QED BY <2>3, <3>2, ImageFinite
  <2>5. Max(L) \in L /\ \A x \in L : x <= Max(L)
    BY <2>2, <2>4, MaxIn
  <2>6. last = Max(L)
    BY <1>1, <2>1
  <2> QED BY <2>2, <2>5, <2>6
<1>7. tier \in {"new", "ongoing", "chronic"} /\ \A i \in m : tier = ps[i].of.tier
  <2>1. PICK c : c = (CHOOSE i \in m : TRUE) /\ c \in m
    OBVIOUS
  <2>2. tier = ps[c].of.tier
    BY <1>1, <2>1
  <2> QED BY <2>1, <2>2 DEF Timed
<1>8. cas \in BOOLEAN
  BY <1>1
<1> QED BY <1>1, <1>5, <1>6, <1>7, <1>8 DEF IsRow

LEMMA RowOfIs ==
    ASSUME NEW ps, Timed(ps), NEW i \in DOMAIN ps
    PROVE  IsRow(RowOf(ps, i), ps) /\ RowOf(ps, i).members = In(ps, i)
<1>1. PICK m, p : m = In(ps, i) /\ p = RowOf(ps, i)
  OBVIOUS
<1>2. /\ i \in Cause(ps, i) /\ Cause(ps, i) \in SUBSET (DOMAIN ps)
      /\ \A j \in Cause(ps, i) : ps[j].of.tier = ps[i].of.tier
  BY CauseIs
<1>3. m \in SUBSET (DOMAIN ps) /\ m # {} /\ \A j, k \in m : ps[j].of.tier = ps[k].of.tier
  BY <1>1, <1>2 DEF In
<1>4. p = makePattern(ps, m) \/ p = [makePattern(ps, m) EXCEPT !.scope = "namespace"]
  BY <1>1, Zenon DEF In, RowOf, Alone
<1>5. IsRow(p, ps) /\ p.members = m
  BY <1>3, <1>4, PatternIsRow
<1> QED BY <1>1, <1>5

LEMMA RowsAre ==
    ASSUME NEW ps, Timed(ps)
    PROVE  groupPatterns(ps) = {RowOf(ps, i) : i \in DOMAIN ps}
<1>1. PICK D, parent : D = DOMAIN ps /\ parent = Joined(ps)
  OBVIOUS
<1>2. PICK comps : comps = {{j \in D : parent[j] = parent[i]} : i \in D}
  OBVIOUS
<1>3. PICK wide : wide = {m \in comps : Cardinality({ps[i].ns : i \in m}) >= 2}
  OBVIOUS
<1>4. groupPatterns(ps) = {makePattern(ps, m) : m \in wide} \cup {Alone(ps, i) : i \in D \ UNION wide}
  BY <1>1, <1>2, <1>3 DEF groupPatterns
<1>5. \A i \in D : {j \in D : parent[j] = parent[i]} = Cause(ps, i)
  BY <1>1, JoinedIsCause
<1>6. \A m : m \in comps <=> \E i \in D : m = Cause(ps, i)
  BY <1>2, <1>5
<1>7. \A i \in D : Cause(ps, i) \in wide <=> Wide(ps, i)
  BY <1>3, <1>6 DEF Wide
<1>8. \A m : m \in wide <=> \E i \in D : m = Cause(ps, i) /\ Wide(ps, i)
  BY <1>3, <1>6, <1>7
<1>9. \A i \in D : i \in UNION wide <=> Wide(ps, i)
  <2> SUFFICES ASSUME NEW i \in D PROVE i \in UNION wide <=> Wide(ps, i)
    OBVIOUS
  <2>1. Wide(ps, i) => i \in UNION wide
    <3>1. i \in Cause(ps, i)
      BY <1>1, CauseIs
    <3> QED BY <1>7, <3>1
  <2>2. ASSUME i \in UNION wide PROVE Wide(ps, i)
    <3>1. PICK k \in D : i \in Cause(ps, k) /\ Wide(ps, k)
      BY <1>8, <2>2
    <3>2. Cause(ps, i) = Cause(ps, k)
      BY <1>1, <3>1, CauseIs
    <3> QED BY <3>1, <3>2 DEF Wide
  <2> QED BY <2>1, <2>2
<1>10. \A p : p \in {makePattern(ps, m) : m \in wide} <=> \E i \in D : Wide(ps, i) /\ p = makePattern(ps, Cause(ps, i))
  BY <1>8
<1>11. \A p : p \in {Alone(ps, i) : i \in D \ UNION wide} <=> \E i \in D : ~Wide(ps, i) /\ p = Alone(ps, i)
  BY <1>9
<1>12. \A p : p \in groupPatterns(ps) <=> \E i \in D : p = RowOf(ps, i)
  BY <1>4, <1>10, <1>11 DEF RowOf
<1> QED BY <1>1, <1>12

\* Every problem is in one row.
LEMMA RowsPart ==
    ASSUME NEW ps, Timed(ps), NEW rows, rows = groupPatterns(ps)
    PROVE  /\ IsFiniteSet(rows) /\ \A p \in rows : IsRow(p, ps)
           /\ {p.members : p \in rows} = {In(ps, i) : i \in DOMAIN ps}
           /\ \A p, q \in rows : p.members \cap q.members # {} => p = q
           /\ \A i \in DOMAIN ps : \E p \in rows : i \in p.members
<1>1. rows = {RowOf(ps, i) : i \in DOMAIN ps}
  BY RowsAre
<1>2. \A p : p \in rows <=> \E i \in DOMAIN ps : p = RowOf(ps, i)
  BY <1>1
<1>3. \A i \in DOMAIN ps : IsRow(RowOf(ps, i), ps) /\ RowOf(ps, i).members = In(ps, i)
  BY RowOfIs
<1>4. IsFiniteSet(rows)
  <2>1. PICK n \in Nat : DOMAIN ps = 1..n
    BY DEF Timed
  <2>2. IsFiniteSet(DOMAIN ps)
    BY <2>1, FS_Interval
  <2>3. PICK f : f = [i \in DOMAIN ps |-> RowOf(ps, i)]
    OBVIOUS
  <2>4. f = [i \in DOMAIN ps |-> f[i]] /\ rows = {f[i] : i \in DOMAIN ps}
    BY <1>1, <2>3
  <2> QED BY <2>2, <2>4, ImageFinite
<1>5. \A p \in rows : IsRow(p, ps)
  BY <1>2, <1>3, Zenon
<1>6. {p.members : p \in rows} = {In(ps, i) : i \in DOMAIN ps}
  BY <1>2, <1>3
<1>7. \A i \in DOMAIN ps : i \in In(ps, i)
  BY CauseIs DEF In
<1>8. \A i \in DOMAIN ps : \E p \in rows : i \in p.members
  BY <1>2, <1>3, <1>7
<1>9. ASSUME NEW i \in DOMAIN ps, NEW j \in DOMAIN ps, NEW k \in In(ps, i), k \in In(ps, j)
      PROVE  RowOf(ps, i) = RowOf(ps, j)
  <2>1. ASSUME NEW x \in DOMAIN ps, k \in In(ps, x) PROVE k \in DOMAIN ps /\ RowOf(ps, x) = RowOf(ps, k)
    <3>1. CASE Wide(ps, x)
      <4>1. k \in Cause(ps, x)
        BY <2>1, <3>1 DEF In
      <4>2. k \in DOMAIN ps /\ Cause(ps, k) = Cause(ps, x)
        BY <4>1, CauseIs
      <4>3. Wide(ps, k)
        BY <3>1, <4>2 DEF Wide
      <4> QED BY <3>1, <4>2, <4>3 DEF RowOf
    <3>2. CASE ~Wide(ps, x)
      BY <2>1, <3>2 DEF In
    <3> QED BY <3>1, <3>2
  <2> QED BY <1>9, <2>1
<1>10. \A p, q \in rows : p.members \cap q.members # {} => p = q
  <2> SUFFICES ASSUME NEW p \in rows, NEW q \in rows, NEW k, k \in p.members, k \in q.members PROVE p = q
    OBVIOUS
  <2>1. PICK i \in DOMAIN ps : p = RowOf(ps, i)
    BY <1>2
  <2>2. PICK j \in DOMAIN ps : q = RowOf(ps, j)
    BY <1>2
  <2>3. k \in In(ps, i) /\ k \in In(ps, j)
    BY <1>3, <2>1, <2>2
  <2> QED BY <1>9, <2>1, <2>2, <2>3
<1> QED BY <1>4, <1>5, <1>6, <1>8, <1>10

\* What sortProblems compares, first to last.
Key(p) ==
    <<tierOrder[p.tier], IF p.cascade THEN 0 ELSE 1, IF p.idle THEN 1 ELSE 0, 0 - p.last,
      IF p.scope = "namespace" THEN 0 ELSE 1, Min(p.members)>>

Lex(a, b) ==
    \/ a[1] < b[1]
    \/ a[1] = b[1] /\ a[2] < b[2]
    \/ a[1] = b[1] /\ a[2] = b[2] /\ a[3] < b[3]
    \/ a[1] = b[1] /\ a[2] = b[2] /\ a[3] = b[3] /\ a[4] < b[4]
    \/ a[1] = b[1] /\ a[2] = b[2] /\ a[3] = b[3] /\ a[4] = b[4] /\ a[5] < b[5]
    \/ a[1] = b[1] /\ a[2] = b[2] /\ a[3] = b[3] /\ a[4] = b[4] /\ a[5] = b[5] /\ a[6] < b[6]

Keys6 == Int \X Int \X Int \X Int \X Int \X Int

LEMMA LexOrders ==
    /\ \A a, b \in Keys6 : a[6] # b[6] => Lex(a, b) \/ Lex(b, a)
    /\ \A a, b \in Keys6 : Lex(a, b) => ~Lex(b, a)
    /\ \A a, b, c \in Keys6 : Lex(a, b) /\ Lex(b, c) => Lex(a, c)
<1>1. \A a, b \in Keys6 : a[6] # b[6] => Lex(a, b) \/ Lex(b, a)
  BY DEF Keys6, Lex
<1>2. \A a, b \in Keys6 : Lex(a, b) => ~Lex(b, a)
  BY DEF Keys6, Lex
<1>3. \A a, b, c \in Keys6 : Lex(a, b) /\ Lex(b, c) => Lex(a, c)
  BY DEF Keys6, Lex
<1> QED BY <1>1, <1>2, <1>3

LEMMA TierOrders ==
    /\ \A t \in {"new", "ongoing", "chronic"} : tierOrder[t] \in 0..2
    /\ \A t, u \in {"new", "ongoing", "chronic"} : tierOrder[t] = tierOrder[u] => t = u
<1>1. tierOrder["new"] = 0 /\ tierOrder["ongoing"] = 1 /\ tierOrder["chronic"] = 2
  BY DEF tierOrder
<1> QED BY <1>1

LEMMA KeyIs ==
    ASSUME NEW ps, Timed(ps), NEW p, IsRow(p, ps)
    PROVE  Key(p) \in Keys6 /\ Min(p.members) \in p.members
<1>1. tierOrder[p.tier] \in Int
  <2>1. p.tier \in {"new", "ongoing", "chronic"}
    BY DEF IsRow
  <2> QED BY <2>1, TierOrders
<1>2. p.members # {} /\ p.members \subseteq Nat
  <2>1. PICK n \in Nat : DOMAIN ps = 1..n
    BY DEF Timed
  <2>2. p.members # {} /\ p.members \subseteq DOMAIN ps
    BY DEF IsRow
  <2> QED BY <2>1, <2>2
<1>3. Min(p.members) \in p.members
  BY <1>2, MinIn
<1>4. Min(p.members) \in Int
  BY <1>2, <1>3
<1>5. p.last \in Nat
  BY DEF IsRow
<1>6. 0 - p.last \in Int
  BY <1>5
<1>7. (IF p.cascade THEN 0 ELSE 1) \in Int /\ (IF p.idle THEN 1 ELSE 0) \in Int
      /\ (IF p.scope = "namespace" THEN 0 ELSE 1) \in Int
  OBVIOUS
<1> QED BY <1>1, <1>3, <1>4, <1>6, <1>7 DEF Key, Keys6

LEMMA BeforeIsLex ==
    ASSUME NEW ps, NEW p, IsRow(p, ps), NEW q, IsRow(q, ps)
    PROVE  Before(p, q) <=> Lex(Key(p), Key(q))
<1>1. PICK x, y : x = Key(p) /\ y = Key(q)
  OBVIOUS
<1>2. /\ x[1] = tierOrder[p.tier] /\ x[2] = (IF p.cascade THEN 0 ELSE 1) /\ x[3] = (IF p.idle THEN 1 ELSE 0)
      /\ x[4] = 0 - p.last /\ x[5] = (IF p.scope = "namespace" THEN 0 ELSE 1) /\ x[6] = Min(p.members)
  BY <1>1 DEF Key
<1>3. /\ y[1] = tierOrder[q.tier] /\ y[2] = (IF q.cascade THEN 0 ELSE 1) /\ y[3] = (IF q.idle THEN 1 ELSE 0)
      /\ y[4] = 0 - q.last /\ y[5] = (IF q.scope = "namespace" THEN 0 ELSE 1) /\ y[6] = Min(q.members)
  BY <1>1 DEF Key
<1>4. /\ x[1] \in 0..2 /\ y[1] \in 0..2
      /\ p.tier = q.tier <=> x[1] = y[1]
  <2>1. p.tier \in {"new", "ongoing", "chronic"} /\ q.tier \in {"new", "ongoing", "chronic"}
    BY DEF IsRow
  <2> QED BY <1>2, <1>3, <2>1, TierOrders
<1>5. p.cascade \in BOOLEAN /\ q.cascade \in BOOLEAN
  BY DEF IsRow
<1>6. p.idle \in BOOLEAN /\ q.idle \in BOOLEAN
  BY DEF IsRow
<1>7. p.last \in Nat /\ q.last \in Nat
  BY DEF IsRow
<1>8. p.scope \in {"namespace", "pattern"} /\ q.scope \in {"namespace", "pattern"}
  BY DEF IsRow
<1>9. /\ p.cascade = q.cascade <=> x[2] = y[2]
      /\ p.cascade # q.cascade => (p.cascade <=> x[2] < y[2])
  BY <1>2, <1>3, <1>5
<1>10. /\ p.idle = q.idle <=> x[3] = y[3]
       /\ p.idle # q.idle => (q.idle <=> x[3] < y[3])
  BY <1>2, <1>3, <1>6
<1>11. /\ p.last = q.last <=> x[4] = y[4]
       /\ p.last > q.last <=> x[4] < y[4]
  BY <1>2, <1>3, <1>7
<1>12. /\ p.scope = q.scope <=> x[5] = y[5]
       /\ p.scope # q.scope => (p.scope = "namespace" <=> x[5] < y[5])
  BY <1>2, <1>3, <1>8
<1>13. /\ x[2] \in 0..1 /\ y[2] \in 0..1 /\ x[3] \in 0..1 /\ y[3] \in 0..1 /\ x[4] \in Int /\ y[4] \in Int
       /\ x[5] \in 0..1 /\ y[5] \in 0..1
  BY <1>2, <1>3, <1>7
<1>14. /\ x[1] < y[1] => x[1] # y[1]
       /\ x[2] < y[2] => x[2] # y[2]
       /\ x[3] < y[3] => x[3] # y[3]
       /\ x[4] < y[4] => x[4] # y[4]
       /\ x[5] < y[5] => x[5] # y[5]
  BY <1>4, <1>13
<1>15. CASE x[1] # y[1]
  <2>1. Before(p, q) <=> x[1] < y[1]
    BY <1>2, <1>3, <1>4, <1>15 DEF Before
  <2> QED BY <1>1, <1>15, <2>1 DEF Lex
<1>16. CASE x[1] = y[1] /\ x[2] # y[2]
  <2>1. Before(p, q) <=> x[2] < y[2]
    BY <1>4, <1>9, <1>16 DEF Before
  <2> QED BY <1>1, <1>14, <1>16, <2>1 DEF Lex
<1>17. CASE x[1] = y[1] /\ x[2] = y[2] /\ x[3] # y[3]
  <2>1. Before(p, q) <=> x[3] < y[3]
    BY <1>4, <1>9, <1>10, <1>17 DEF Before
  <2> QED BY <1>1, <1>14, <1>17, <2>1 DEF Lex
<1>18. CASE x[1] = y[1] /\ x[2] = y[2] /\ x[3] = y[3] /\ x[4] # y[4]
  <2>1. Before(p, q) <=> x[4] < y[4]
    BY <1>4, <1>9, <1>10, <1>11, <1>18 DEF Before
  <2> QED BY <1>1, <1>14, <1>18, <2>1 DEF Lex
<1>19. CASE x[1] = y[1] /\ x[2] = y[2] /\ x[3] = y[3] /\ x[4] = y[4] /\ x[5] # y[5]
  <2>1. Before(p, q) <=> x[5] < y[5]
    BY <1>4, <1>9, <1>10, <1>11, <1>12, <1>19 DEF Before
  <2> QED BY <1>1, <1>14, <1>19, <2>1 DEF Lex
<1>20. CASE x[1] = y[1] /\ x[2] = y[2] /\ x[3] = y[3] /\ x[4] = y[4] /\ x[5] = y[5]
  <2>1. Before(p, q) <=> x[6] < y[6]
    BY <1>2, <1>3, <1>4, <1>9, <1>10, <1>11, <1>12, <1>20 DEF Before
  <2> QED BY <1>1, <1>14, <1>20, <2>1 DEF Lex
<1> QED BY <1>15, <1>16, <1>17, <1>18, <1>19, <1>20

\* The states of the rail are in the order of the rows.
LEMMA RankInOrder ==
    ASSUME NEW ps, NEW p, IsRow(p, ps), NEW q, IsRow(q, ps)
    PROVE  stateRank(p) \in Nat /\ (Before(p, q) => stateRank(p) <= stateRank(q))
<1>1. p.tier \in {"new", "ongoing", "chronic"} /\ q.tier \in {"new", "ongoing", "chronic"}
  BY DEF IsRow
<1>2. PICK t \in 0..2, u \in 0..2 : t = tierOrder[p.tier] /\ u = tierOrder[q.tier] /\ (p.tier = q.tier <=> t = u)
  BY <1>1, TierOrders
<1>3. PICK x, y : /\ x = (IF p.cascade THEN 0 ELSE IF p.idle THEN 2 ELSE 1)
                  /\ y = (IF q.cascade THEN 0 ELSE IF q.idle THEN 2 ELSE 1)
  OBVIOUS
<1>4. x \in 0..2 /\ y \in 0..2
  BY <1>3
<1>5. stateRank(p) = t * 3 + x /\ stateRank(q) = u * 3 + y
  BY <1>2, <1>3 DEF stateRank
<1>6. ASSUME Before(p, q) PROVE t < u \/ (t = u /\ x <= y)
  <2>1. CASE t # u
    BY <1>2, <1>6, <2>1 DEF Before
  <2>2. CASE t = u /\ p.cascade # q.cascade
    <3>1. p.cascade
      BY <1>2, <1>6, <2>2 DEF Before
    <3> QED BY <1>3, <1>4, <2>2, <3>1
  <2>3. CASE t = u /\ p.cascade = q.cascade /\ p.idle # q.idle
    <3>1. q.idle
      BY <1>2, <1>6, <2>3 DEF Before
    <3>2. p.cascade \in BOOLEAN /\ q.cascade \in BOOLEAN /\ p.idle \in BOOLEAN
      BY DEF IsRow
    <3> QED BY <1>3, <2>3, <3>1, <3>2
  <2>4. CASE t = u /\ p.cascade = q.cascade /\ p.idle = q.idle
    BY <1>3, <1>4, <2>4
  <2> QED BY <2>1, <2>2, <2>3, <2>4
<1>7. t < u \/ (t = u /\ x <= y) => t * 3 + x <= u * 3 + y
  BY <1>4
<1> QED BY <1>4, <1>5, <1>6, <1>7

\* Rows that are apart, as RowsPart has them.
ApartRows(rows, ps) ==
    /\ IsFiniteSet(rows) /\ \A p \in rows : IsRow(p, ps)
    /\ \A p, q \in rows : p.members \cap q.members # {} => p = q

LEMMA SortedRows ==
    ASSUME NEW ps, Timed(ps), NEW rows, ApartRows(rows, ps)
    PROVE  /\ DOMAIN sortProblems(rows) = 1..Cardinality(rows)
           /\ \A i \in DOMAIN sortProblems(rows) : sortProblems(rows)[i] \in rows
           /\ \A p \in rows : \E i \in DOMAIN sortProblems(rows) : sortProblems(rows)[i] = p
           /\ \A i, j \in DOMAIN sortProblems(rows) : i < j => Before(sortProblems(rows)[i], sortProblems(rows)[j])
<1>1. PICK B : B = {z \in rows \X rows : Before(z[1], z[2])}
  OBVIOUS
<1>2. \A p, q \in rows : <<p, q>> \in B <=> Before(p, q)
  BY <1>1
<1>3. \A p, q \in rows : Before(p, q) <=> Lex(Key(p), Key(q))
  BY BeforeIsLex DEF ApartRows
<1>4. \A p \in rows : Key(p) \in Keys6 /\ Key(p)[6] \in p.members
  <2>1. \A p \in rows : Key(p) \in Keys6 /\ Min(p.members) \in p.members
    BY KeyIs DEF ApartRows
  <2>2. \A p : Key(p)[6] = Min(p.members)
    BY DEF Key
  <2> QED BY <2>1, <2>2
<1>5. \A p, q \in rows : p # q => Key(p)[6] # Key(q)[6]
  BY <1>4 DEF ApartRows
<1>6. Orders(B, rows)
  <2>1. \A p, q \in rows : p # q => Lex(Key(p), Key(q)) \/ Lex(Key(q), Key(p))
    BY <1>4, <1>5, LexOrders
  <2>2. \A p, q \in rows : Lex(Key(p), Key(q)) => ~Lex(Key(q), Key(p))
    BY <1>4, LexOrders
  <2>3. \A p, q, r \in rows : Lex(Key(p), Key(q)) /\ Lex(Key(q), Key(r)) => Lex(Key(p), Key(r))
    BY <1>4, LexOrders
  <2>4. \A p, q \in rows : <<p, q>> \in B <=> Lex(Key(p), Key(q))
    BY <1>2, <1>3, Zenon
  <2> QED BY <2>1, <2>2, <2>3, <2>4, Zenon DEF Orders
<1>7. IsFiniteSet(rows)
  BY DEF ApartRows
<1>8. \A p \in rows : Fore(B, rows, p) = {q \in rows : Before(q, p)}
  BY <1>2 DEF Fore
<1>9. PICK n \in Nat : n = Cardinality(rows)
  BY <1>7, FS_CardinalityType
<1>10. PICK r : r = [p \in rows |-> Cardinality(Fore(B, rows, p))]
  OBVIOUS
<1>11. /\ \A i \in 1..n : \E p \in rows : r[p] = i - 1
       /\ \A p \in rows : r[p] + 1 \in 1..n
       /\ \A p, q \in rows : Before(p, q) => r[p] < r[q]
  <2>1. /\ \A i \in 1..Cardinality(rows) : \E p \in rows : Cardinality(Fore(B, rows, p)) = i - 1
        /\ \A p \in rows : Cardinality(Fore(B, rows, p)) + 1 \in 1..Cardinality(rows)
        /\ \A p, q \in rows : <<p, q>> \in B => Cardinality(Fore(B, rows, p)) < Cardinality(Fore(B, rows, q))
    BY <1>6, <1>7, Ranks
  <2>2. \A p \in rows : r[p] = Cardinality(Fore(B, rows, p))
    BY <1>10, Zenon
  <2>3. \A i \in 1..n : \E p \in rows : r[p] = i - 1
    BY <1>9, <2>1, <2>2
  <2>4. \A p \in rows : r[p] + 1 \in 1..n
    BY <1>9, <2>1, <2>2
  <2>5. \A p, q \in rows : Before(p, q) => r[p] < r[q]
    BY <1>2, <2>1, <2>2, Zenon
  <2> QED BY <2>3, <2>4, <2>5, Zenon
<1>12. \A p \in rows : r[p] \in Nat
  BY <1>6, <1>7, <1>10, Ranks
<1>13. PICK s : s = sortProblems(rows)
  OBVIOUS
<1>14. s = [i \in 1..n |-> CHOOSE p \in rows : Cardinality({q \in rows : Before(q, p)}) = i - 1]
  BY <1>9, <1>13 DEF sortProblems
<1>15. \A p \in rows : r[p] = Cardinality({q \in rows : Before(q, p)})
  BY <1>8, <1>10
<1>16. ASSUME NEW i \in 1..n PROVE s[i] \in rows /\ r[s[i]] = i - 1
  <2>1. \E p \in rows : Cardinality({q \in rows : Before(q, p)}) = i - 1
    BY <1>11, <1>15
  <2>2. s[i] = CHOOSE p \in rows : Cardinality({q \in rows : Before(q, p)}) = i - 1
    BY <1>14
  <2>3. s[i] \in rows /\ Cardinality({q \in rows : Before(q, s[i])}) = i - 1
    BY <2>1, <2>2
  <2> QED BY <1>15, <2>3
<1>17. \A p, q \in rows : r[p] = r[q] => p = q
  <2> SUFFICES ASSUME NEW p \in rows, NEW q \in rows, p # q PROVE r[p] # r[q]
    OBVIOUS
  <2>1. Before(p, q) \/ Before(q, p)
    BY <1>2, <1>6 DEF Orders
  <2>2. r[p] < r[q] \/ r[q] < r[p]
    BY <1>11, <2>1
  <2> QED BY <1>12, <2>2
<1>18. ASSUME NEW p \in rows PROVE \E i \in 1..n : s[i] = p
  <2>1. PICK i \in 1..n : i = r[p] + 1
    BY <1>11
  <2>2. s[i] \in rows /\ r[s[i]] = i - 1
    BY <1>16
  <2>3. r[s[i]] = r[p]
    BY <1>12, <2>1, <2>2
  <2> QED BY <1>17, <2>2, <2>3
<1>19. ASSUME NEW i \in 1..n, NEW j \in 1..n, i < j PROVE Before(s[i], s[j])
  <2>1. s[i] \in rows /\ r[s[i]] = i - 1 /\ s[j] \in rows /\ r[s[j]] = j - 1
    BY <1>16
  <2>2. s[i] # s[j] /\ ~(r[s[j]] < r[s[i]])
    BY <1>19, <2>1
  <2>3. Before(s[i], s[j]) \/ Before(s[j], s[i])
    BY <1>2, <1>6, <2>1, <2>2 DEF Orders
  <2> QED BY <1>11, <2>1, <2>2, <2>3
<1>20. DOMAIN s = 1..n
  BY <1>14
<1> QED BY <1>9, <1>13, <1>16, <1>18, <1>19, <1>20

\* A namespace of the rail has the state of the first row that names it.
LEMMA RailIs ==
    ASSUME NEW ps, Timed(ps), NEW rows, ApartRows(rows, ps), NEW ns \in UNION {p.namespaces : p \in rows},
           NEW list, list = sortProblems(rows)
    PROVE  Active(rows)[ns] = stateRank(list[Min({i \in DOMAIN list : ns \in list[i].namespaces})])
<1>1. PICK n : n = Cardinality(rows) /\ DOMAIN list = 1..n
  BY SortedRows
<1>2. /\ \A i \in 1..n : list[i] \in rows
      /\ \A p \in rows : \E i \in 1..n : list[i] = p
      /\ \A i, j \in 1..n : i < j => Before(list[i], list[j])
  BY <1>1, SortedRows
<1>3. PICK I : I = {i \in DOMAIN list : ns \in list[i].namespaces}
  OBVIOUS
<1>4. I # {} /\ I \subseteq Nat
  <2>1. PICK p \in rows : ns \in p.namespaces
    OBVIOUS
  <2>2. PICK i \in 1..n : list[i] = p
    BY <1>2, <2>1
  <2> QED BY <1>1, <1>3, <2>1, <2>2
<1>5. PICK k : k = Min(I) /\ k \in I /\ \A i \in I : k <= i
  BY <1>4, MinIn
<1>6. k \in 1..n /\ ns \in list[k].namespaces /\ list[k] \in rows
  BY <1>1, <1>2, <1>3, <1>5
<1>7. PICK R : R = {stateRank(p) : p \in {q \in rows : ns \in q.namespaces}}
  OBVIOUS
<1>8. stateRank(list[k]) \in R
  BY <1>6, <1>7
<1>9. \A p \in rows : stateRank(p) \in Nat
  BY RankInOrder DEF ApartRows
<1>10. ASSUME NEW x \in R PROVE stateRank(list[k]) <= x
  <2>1. PICK p \in rows : x = stateRank(p) /\ ns \in p.namespaces
    BY <1>7
  <2>2. PICK i \in 1..n : list[i] = p
    BY <1>2
  <2>3. i \in I
    BY <1>1, <1>3, <2>1, <2>2
  <2>4. k <= i
    BY <1>5, <2>3
  <2>5. CASE k = i
    BY <1>9, <2>1, <2>2, <2>5
  <2>6. CASE k # i
    <3>1. k < i
      BY <1>6, <2>2, <2>4, <2>6
    <3>2. Before(list[k], p)
      BY <1>2, <1>6, <2>2, <3>1
    <3>3. IsRow(list[k], ps) /\ IsRow(p, ps)
      BY <1>6 DEF ApartRows
    <3> QED BY <2>1, <3>2, <3>3, RankInOrder
  <2> QED BY <2>5, <2>6
<1>11. R \subseteq Nat
  BY <1>7, <1>9
<1>12. Min(R) = stateRank(list[k])
  <2>1. PICK a, b : a = Min(R) /\ b = stateRank(list[k]) /\ a \in Nat /\ b \in Nat
    BY <1>8, <1>11, MinIn
  <2>2. a <= b
    BY <1>8, <1>11, <2>1, MinIn
  <2>3. b <= a
    BY <1>8, <1>10, <1>11, <2>1, MinIn
  <2> QED BY <2>1, <2>2, <2>3
<1>13. Active(rows)[ns] = Min(R)
  BY <1>7 DEF Active
<1> QED BY <1>3, <1>5, <1>12, <1>13

\* A sum is the sum of the sums of its parts.
LEMMA SumOfParts ==
    ASSUME NEW S, IsFiniteSet(S), NEW f \in [S -> Nat], NEW P, IsFiniteSet(P), NEW M,
           \A p \in P : M[p] \subseteq S, \A x \in S : \E p \in P : x \in M[p],
           \A p, q \in P : M[p] \cap M[q] # {} => p = q,
           NEW g, g = [p \in P |-> g[p]], \A p \in P : g[p] = SumFunction([x \in M[p] |-> f[x]])
    PROVE  SumFunction(g) = SumFunction(f) /\ SumFunction(f) \in Nat
<1>1. PICK X : X = [x \in S |-> {x} \X (1..f[x])]
  OBVIOUS
<1>2. ASSUME NEW x \in S PROVE IsFiniteSet(X[x]) /\ f[x] = Cardinality(X[x])
  <2>1. IsFiniteSet({x}) /\ Cardinality({x}) = 1
    BY FS_Singleton
  <2>2. IsFiniteSet(1..f[x]) /\ Cardinality(1..f[x]) = f[x]
    BY FS_Interval
  <2>3. PICK A, B, c : A = {x} /\ B = 1..f[x] /\ c = f[x] /\ c \in Nat
    OBVIOUS
  <2>4. IsFiniteSet(A) /\ IsFiniteSet(B) /\ Cardinality(A) = 1 /\ Cardinality(B) = c
    BY <2>1, <2>2, <2>3
  <2>5. IsFiniteSet(A \X B) /\ Cardinality(A \X B) = Cardinality(A) * Cardinality(B)
    BY <2>4, FS_Product
  <2>6. Cardinality(A \X B) = c
    BY <2>3, <2>4, <2>5
  <2> QED BY <1>1, <2>3, <2>5, <2>6
<1>3. \A x \in S : \A z \in X[x] : z[1] = x
  BY <1>1
<1>4. Apart(X, S)
  <2>1. \A x, y \in S : x # y => X[x] \cap X[y] = {}
    BY <1>3
  <2> QED BY <1>2, <2>1 DEF Apart
<1>5. SumFunction(f) = Cardinality(Union(X, S))
  <2>1. f = [x \in S |-> f[x]]
    OBVIOUS
  <2> QED BY <1>2, <1>4, <2>1, SumCounts
<1>6. IsFiniteSet(Union(X, S))
  BY <1>4, UnionFinite
<1>7. PICK Y : Y = [p \in P |-> Union(X, M[p])]
  OBVIOUS
<1>8. ASSUME NEW p \in P PROVE IsFiniteSet(Y[p]) /\ g[p] = Cardinality(Y[p])
  <2>1. PICK m : m = M[p] /\ m \in SUBSET S
    OBVIOUS
  <2>2. IsFiniteSet(m) /\ Apart(X, m)
    BY <1>4, <2>1, FS_Subset DEF Apart
  <2>3. PICK h : h = [x \in m |-> f[x]]
    OBVIOUS
  <2>4. h = [x \in m |-> h[x]] /\ \A x \in m : h[x] = Cardinality(X[x])
    BY <1>2, <2>1, <2>3
  <2>5. SumFunction(h) = Cardinality(Union(X, m))
    BY <2>2, <2>4, SumCounts
  <2>6. IsFiniteSet(Union(X, m))
    BY <1>4, <2>1, UnionFinite
  <2>7. g[p] = SumFunction(h)
    BY <2>1, <2>3
  <2> QED BY <1>7, <2>1, <2>5, <2>6, <2>7
<1>9. Apart(Y, P)
  <2>1. ASSUME NEW p \in P, NEW q \in P, NEW z, z \in Y[p], z \in Y[q] PROVE p = q
    <3>1. PICK x \in M[p] : z \in X[x]
      BY <1>7, <2>1 DEF Union
    <3>2. PICK y \in M[q] : z \in X[y]
      BY <1>7, <2>1 DEF Union
    <3>3. x \in S /\ y \in S
      OBVIOUS
    <3>4. x = y
      BY <1>3, <3>1, <3>2, <3>3
    <3> QED BY <3>4
  <2> QED BY <1>8, <2>1 DEF Apart
<1>10. SumFunction(g) = Cardinality(Union(Y, P))
  BY <1>8, <1>9, SumCounts
<1>11. Union(Y, P) = Union(X, S)
  <2>1. \A z : z \in Union(Y, P) <=> \E p \in P : \E x \in M[p] : z \in X[x]
    BY <1>7 DEF Union
  <2>2. \A z : z \in Union(X, S) <=> \E x \in S : z \in X[x]
    BY DEF Union
  <2> QED BY <2>1, <2>2
<1> QED BY <1>5, <1>6, <1>10, <1>11, FS_CardinalityType

\* The sum of finitely many numbers is one.
LEMMA SumNat ==
    ASSUME NEW S, IsFiniteSet(S), NEW f \in [S -> Nat]
    PROVE  SumFunction(f) \in Nat
<1>1. PICK P, M, g : P = {S} /\ M = [p \in P |-> p] /\ g = [p \in P |-> SumFunction([x \in M[p] |-> f[x]])]
  OBVIOUS
<1>2. IsFiniteSet(P)
  BY <1>1, FS_Singleton
<1>3. \A p \in P : M[p] \subseteq S
  BY <1>1
<1>4. \A x \in S : \E p \in P : x \in M[p]
  BY <1>1
<1>5. \A p, q \in P : M[p] \cap M[q] # {} => p = q
  BY <1>1
<1>6. g = [p \in P |-> g[p]] /\ \A p \in P : g[p] = SumFunction([x \in M[p] |-> f[x]])
  BY <1>1
<1> QED BY <1>2, <1>3, <1>4, <1>5, <1>6, SumOfParts

\* Warnings as HomesAssumption has them.
KnownWarnings(W) == IsFiniteSet(W) /\ \A w \in W : w.count \in Nat /\ w.first \in Nat /\ w.last \in Nat

LEMMA HomesAre ==
    ASSUME NEW v \in Homes
    PROVE  /\ Now \in Nat /\ IdleAfter \in Nat
           /\ KnownWarnings(v.cluster)
           /\ \E n \in Nat : DOMAIN v.groups = 1..n
           /\ \A i \in DOMAIN v.groups :
                /\ KnownWarnings(v.groups[i].warnings) /\ v.groups[i].warnings # {}
                /\ v.groups[i].since \in Nat /\ v.groups[i].ns \in v.events
                /\ v.groups[i].members \in Seq([pod : Nat, depth : Nat, warn : BOOLEAN, last : Nat])
<1>1. Now \in Nat /\ IdleAfter \in Nat
  BY HomesAssumption
<1>2. KnownWarnings(v.cluster)
  BY HomesAssumption DEF KnownWarnings
<1>3. \E n \in Nat : DOMAIN v.groups = 1..n
  BY HomesAssumption
<1>4. ASSUME NEW i \in DOMAIN v.groups
      PROVE  /\ KnownWarnings(v.groups[i].warnings) /\ v.groups[i].warnings # {}
             /\ v.groups[i].since \in Nat /\ v.groups[i].ns \in v.events
             /\ v.groups[i].members \in Seq([pod : Nat, depth : Nat, warn : BOOLEAN, last : Nat])
  BY HomesAssumption DEF KnownWarnings
<1> QED BY <1>1, <1>2, <1>3, <1>4

LEMMA FilledIs ==
    ASSUME NEW W, KnownWarnings(W), W # {}, NEW since \in Nat, NEW p, p = fillFromWarnings(W, since)
    PROVE  /\ p.first \in Nat /\ p.last \in Nat /\ p.tier \in {"new", "ongoing", "chronic"}
           /\ p.idle = (Now - p.last >= IdleAfter)
           /\ p.occurrences = SumFunction([w \in W |-> w.count]) /\ p.occurrences \in Nat
           /\ DOMAIN p.reasons = {w.reason : w \in W}
<1>1. PICK A, L, seen, first, last, reasons, occ, tier, idle :
        /\ A = {IF w.first = 0 THEN w.last ELSE w.first : w \in W}
        /\ L = {w.last : w \in W}
        /\ seen = Min(A) /\ first = (IF since # 0 /\ since < seen THEN since ELSE seen)
        /\ last = Max(L)
        /\ reasons = [r \in {w.reason : w \in W} |->
                        SumFunction([w \in {w \in W : w.reason = r} |-> w.count])]
        /\ occ = SumFunction([w \in W |-> w.count])
        /\ tier = Tier(first) /\ idle = (Now - last >= IdleAfter)
  OBVIOUS
<1>2. p = [reasons |-> reasons, occurrences |-> occ, first |-> first, last |-> last, tier |-> tier, idle |-> idle]
  BY <1>1, Zenon DEF fillFromWarnings
<1>3. /\ p.reasons = reasons /\ p.occurrences = occ /\ p.first = first /\ p.last = last /\ p.tier = tier
      /\ p.idle = idle
  BY <1>2
<1>4. first \in Nat
  <2>1. A \subseteq Nat /\ A # {}
    BY <1>1 DEF KnownWarnings
  <2>2. seen \in Nat
    BY <1>1, <2>1, MinIn
  <2> QED BY <1>1, <2>2
<1>5. last \in Nat
  <2>1. L \subseteq Nat /\ L # {}
    BY <1>1 DEF KnownWarnings
  <2>2. PICK f : f = [w \in W |-> w.last]
    OBVIOUS
  <2>3. f = [w \in W |-> f[w]] /\ L = {f[w] : w \in W}
    BY <1>1, <2>2
  <2>4. IsFiniteSet(L)
    BY <2>3, ImageFinite DEF KnownWarnings
  <2>5. Max(L) \in L
    BY <2>1, <2>4, MaxIn
  <2> QED BY <1>1, <2>1, <2>5
<1>6. tier \in {"new", "ongoing", "chronic"}
  BY <1>1 DEF Tier
<1>7. occ \in Nat
  <2>1. PICK f : f = [w \in W |-> w.count]
    OBVIOUS
  <2>2. f \in [W -> Nat] /\ IsFiniteSet(W)
    BY <2>1 DEF KnownWarnings
  <2>3. SumFunction(f) \in Nat
    BY <2>2, SumNat
  <2> QED BY <1>1, <2>1, <2>3
<1>8. DOMAIN reasons = {w.reason : w \in W}
  BY <1>1
<1>9. p.idle = (Now - p.last >= IdleAfter) /\ p.occurrences = SumFunction([w \in W |-> w.count])
  BY <1>1, <1>3
<1> QED BY <1>3, <1>4, <1>5, <1>6, <1>7, <1>8, <1>9

LEMMA ProblemIs ==
    ASSUME NEW g, NEW p, p = groupProblem(g)
    PROVE  p.ns = g.ns /\ p.of = fillFromWarnings(g.warnings, g.since) /\ p.pod = newestPod(g.members)
<1>1. PICK of, pod, cas, title, ns : /\ of = fillFromWarnings(g.warnings, g.since) /\ pod = newestPod(g.members)
                                     /\ cas = cascade(g.members) /\ title = g.title /\ ns = g.ns
  OBVIOUS
<1>2. p = [scope |-> "namespace", ns |-> ns, title |-> title, of |-> of, pod |-> pod, cascade |-> cas]
  BY <1>1, Zenon DEF groupProblem
<1> QED BY <1>1, <1>2

Member == [pod : Nat, depth : Nat, warn : BOOLEAN, last : Nat]

BestOne(best, m) ==
    IF m.pod # 0 /\ m.warn /\ (m.last > best.last \/ (m.last = best.last /\ best.pod # 0 /\ m.pod < best.pod))
    THEN [pod |-> m.pod, last |-> m.last] ELSE best

IsBest(f, members) ==
    f = [i \in 0..Len(members) |-> IF i = 0 THEN [pod |-> 0, last |-> 0] ELSE BestOne(f[i - 1], members[i])]

\* The Pods that failed, of some members.
Failed(X) == {m \in X : m.pod # 0 /\ m.warn /\ m.last > 0}

\* b names the one whose warning is the newest, the first by name.
Settles(b, P) ==
    /\ P = {} => b.pod = 0 /\ b.last = 0
    /\ P # {} => \E m \in P : b.pod = m.pod /\ b.last = m.last
    /\ \A m \in P : m.last < b.last \/ (m.last = b.last /\ b.pod <= m.pod)

LEMMA BestSettles ==
    ASSUME NEW X, X \subseteq Member, NEW m \in Member, NEW b \in [pod : Nat, last : Nat], Settles(b, Failed(X))
    PROVE  BestOne(b, m) \in [pod : Nat, last : Nat] /\ Settles(BestOne(b, m), Failed(X \cup {m}))
<1>1. PICK P, Q, c : P = Failed(X) /\ Q = Failed(X \cup {m}) /\ c = BestOne(b, m)
  OBVIOUS
<1>2. PICK mp \in Nat, ml \in Nat, bp \in Nat, bl \in Nat : mp = m.pod /\ ml = m.last /\ bp = b.pod /\ bl = b.last
  BY DEF Member
<1>3. \A x \in P : x.pod \in Nat /\ x.last \in Nat /\ x.pod # 0 /\ x.last > 0
  BY <1>1 DEF Failed, Member
<1>4. /\ P = {} => bp = 0 /\ bl = 0
      /\ P # {} => \E x \in P : bp = x.pod /\ bl = x.last
      /\ \A x \in P : x.last < bl \/ (x.last = bl /\ bp <= x.pod)
  BY <1>1, <1>2 DEF Settles
<1>5. P # {} => bp # 0 /\ bl > 0
  BY <1>3, <1>4
<1>6. CASE mp # 0 /\ m.warn /\ (ml > bl \/ (ml = bl /\ bp # 0 /\ mp < bp))
  <2>1. c = [pod |-> mp, last |-> ml]
    BY <1>1, <1>2, <1>6 DEF BestOne
  <2>2. c.pod = mp /\ c.last = ml /\ c \in [pod : Nat, last : Nat]
    BY <2>1
  <2>3. ml > 0
    BY <1>4, <1>5, <1>6
  <2>4. Q = P \cup {m}
    BY <1>1, <1>2, <1>6, <2>3 DEF Failed
  <2>5. \A x \in P : x.last < ml \/ (x.last = ml /\ mp <= x.pod)
    BY <1>3, <1>4, <1>6
  <2>6. \A x \in Q : x.last < ml \/ (x.last = ml /\ mp <= x.pod)
    BY <1>2, <2>4, <2>5
  <2>7. m \in Q
    BY <2>4
  <2>8. Settles(c, Q)
    BY <1>2, <2>2, <2>6, <2>7 DEF Settles
  <2> QED BY <1>1, <2>2, <2>8
<1>7. CASE ~(mp # 0 /\ m.warn /\ (ml > bl \/ (ml = bl /\ bp # 0 /\ mp < bp)))
  <2>1. c = b
    BY <1>1, <1>2, <1>7 DEF BestOne
  <2>2. CASE mp # 0 /\ m.warn /\ ml > 0
    <3>1. Q = P \cup {m}
      BY <1>1, <1>2, <2>2 DEF Failed
    <3>2. P # {}
      BY <1>4, <1>7, <2>2
    <3>3. ml < bl \/ (ml = bl /\ bp <= mp)
      BY <1>5, <1>7, <2>2, <3>2
    <3>4. \A x \in Q : x.last < bl \/ (x.last = bl /\ bp <= x.pod)
      BY <1>2, <1>4, <3>1, <3>3
    <3>5. \E x \in Q : bp = x.pod /\ bl = x.last
      BY <1>4, <3>1, <3>2
    <3>6. Settles(b, Q)
      BY <1>2, <3>4, <3>5 DEF Settles
    <3> QED BY <1>1, <2>1, <3>6
  <2>3. CASE ~(mp # 0 /\ m.warn /\ ml > 0)
    <3>1. Q = P
      BY <1>1, <1>2, <2>3 DEF Failed
    <3> QED BY <1>1, <2>1, <3>1
  <2> QED BY <2>2, <2>3
<1> QED BY <1>6, <1>7

\* The Pod named, whatever the order of the members.
LEMMA PodIs ==
    ASSUME NEW members \in Seq(Member)
    PROVE  LET pods == Failed(ToSet(members))
               newest == {m \in pods : \A n \in pods : n.last <= m.last}
           IN newestPod(members) = (IF pods = {} THEN 0 ELSE Min({m.pod : m \in newest}))
<1>1. PICK n \in Nat : n = Len(members) /\ \A i \in 1..n : members[i] \in Member
  OBVIOUS
<1>2. PICK V, z : V = [pod : Nat, last : Nat] /\ z = [pod |-> 0, last |-> 0]
  OBVIOUS
<1>3. z \in V /\ z.pod = 0 /\ z.last = 0
  BY <1>2
<1>4. \E f : IsBest(f, members)
  <2>1. PICK G : G = [q \in V \X (1..n) |-> BestOne(q[1], members[q[2]])]
    OBVIOUS
  <2>2. \A b \in V : \A i \in 1..n : BestOne(b, members[i]) \in V
    BY <1>1, <1>2 DEF BestOne, Member
  <2>3. G \in [V \X (1..n) -> V]
    BY <2>1, <2>2
  <2>4. PICK f : Loop(f, n, V, z, G)
    BY <1>3, <2>3, LoopRuns, Zenon
  <2>5. f \in [0..n -> V] /\ f[0] = z /\ \A i \in 1..n : f[i] = G[<<f[i - 1], i>>]
    BY <2>4, Zenon DEF Loop
  <2>6. \A i \in 0..n : f[i] = IF i = 0 THEN z ELSE BestOne(f[i - 1], members[i])
    <3> SUFFICES ASSUME NEW i \in 0..n, i # 0 PROVE f[i] = BestOne(f[i - 1], members[i])
      BY <2>5
    <3>1. i \in 1..n /\ i - 1 \in 0..n
      OBVIOUS
    <3>2. <<f[i - 1], i>> \in V \X (1..n)
      BY <2>5, <3>1
    <3>3. f[i] = G[<<f[i - 1], i>>]
      BY <2>5, <3>1
    <3> QED BY <2>1, <3>2, <3>3
  <2>7. f = [i \in 0..n |-> IF i = 0 THEN z ELSE BestOne(f[i - 1], members[i])]
    BY <2>5, <2>6
  <2> QED BY <1>1, <1>2, <2>7, Zenon DEF IsBest
<1>5. PICK f : f = (CHOOSE h : IsBest(h, members)) /\ IsBest(f, members)
  BY <1>4
<1>6. newestPod(members) = f[n].pod
  BY <1>1, <1>5, Zenon DEF newestPod, IsBest, BestOne
<1>7. \A i \in 0..n : f[i] = IF i = 0 THEN z ELSE BestOne(f[i - 1], members[i])
  BY <1>1, <1>2, <1>5, Zenon DEF IsBest
<1>8. PICK J : J = [i \in 0..n |-> {b \in V : Settles(b, Failed({members[j] : j \in 1..i}))}]
  OBVIOUS
<1>9. f[0] \in J[0]
  <2>1. 1..0 = {}
    OBVIOUS
  <2>2. {members[j] : j \in 1..0} = {}
    BY <2>1
  <2>3. Failed({members[j] : j \in 1..0}) = {}
    BY <2>2 DEF Failed
  <2>4. Settles(z, Failed({members[j] : j \in 1..0}))
    BY <1>3, <2>3 DEF Settles
  <2>5. f[0] = z /\ 0 \in 0..n
    BY <1>7
  <2> QED BY <1>3, <1>8, <2>4, <2>5
<1>10. ASSUME NEW i \in 1..n, f[i - 1] \in J[i - 1] PROVE f[i] \in J[i]
  <2>1. i \in 0..n /\ i - 1 \in 0..n /\ i # 0
    OBVIOUS
  <2>2. PICK X, Y : X = {members[j] : j \in 1 .. i - 1} /\ Y = {members[j] : j \in 1..i}
    OBVIOUS
  <2>3. PICK b : b = f[i - 1] /\ b \in V /\ Settles(b, Failed(X))
    BY <1>8, <1>10, <2>1, <2>2
  <2>4. PICK m : m = members[i]
    OBVIOUS
  <2>5. m \in Member /\ X \subseteq Member
    BY <1>1, <2>2, <2>4
  <2>6. Y = X \cup {m}
    BY <2>2, <2>4
  <2>7. PICK c : c = BestOne(b, m)
    OBVIOUS
  <2>8. c \in V /\ Settles(c, Failed(Y))
    BY <1>2, <2>3, <2>5, <2>6, <2>7, BestSettles
  <2>9. f[i] = c
    BY <1>7, <2>1, <2>3, <2>4, <2>7
  <2> QED BY <1>8, <2>1, <2>2, <2>8, <2>9
<1>11. f[n] \in J[n]
  <2>1. \A i \in 0..n : f[i] \in J[i]
    BY ONLY <1>9, <1>10, n \in Nat, LoopKeeps
  <2> QED BY <2>1
<1>12. {members[j] : j \in 1..n} = ToSet(members)
  BY <1>1 DEF ToSet
<1>13. PICK b, P : b = f[n] /\ P = Failed(ToSet(members)) /\ b \in V /\ Settles(b, P)
  BY <1>8, <1>11, <1>12
<1>14. b.pod \in Nat /\ b.last \in Nat
  BY <1>2, <1>13
<1>15. \A m \in P : m.pod \in Nat /\ m.last \in Nat
  <2>1. ToSet(members) \subseteq Member
    BY <1>1, <1>12
  <2> QED BY <1>13, <2>1 DEF Failed, Member
<1>16. PICK newest, N : newest = {m \in P : \A k \in P : k.last <= m.last} /\ N = {m.pod : m \in newest}
  OBVIOUS
<1>17. ASSUME P # {} PROVE b.pod = Min(N)
  <2>1. PICK m \in P : b.pod = m.pod /\ b.last = m.last
    BY <1>13, <1>17 DEF Settles
  <2>2. \A k \in P : k.last < b.last \/ (k.last = b.last /\ b.pod <= k.pod)
    BY <1>13 DEF Settles
  <2>3. m \in newest
    BY <1>14, <1>15, <1>16, <2>1, <2>2
  <2>4. b.pod \in N
    BY <1>16, <2>1, <2>3
  <2>5. \A k \in newest : b.pod <= k.pod
    BY <1>14, <1>15, <1>16, <2>1, <2>2
  <2>6. \A x \in N : b.pod <= x
    BY <1>16, <2>5
  <2>7. N \subseteq Nat
    BY <1>15, <1>16
  <2>8. PICK a \in Nat : a = Min(N) /\ a \in N /\ \A x \in N : a <= x
    BY <2>4, <2>7, MinIn
  <2>9. a <= b.pod /\ b.pod <= a
    BY <2>4, <2>6, <2>8
  <2> QED BY <1>14, <2>8, <2>9
<1>18. P = {} => b.pod = 0
  BY <1>13 DEF Settles
<1> QED BY <1>6, <1>13, <1>16, <1>17, <1>18

\* The problems of the groups.
Problems(v) == [i \in DOMAIN v.groups |-> groupProblem(v.groups[i])]

LEMMA ProblemsAre ==
    ASSUME NEW v \in Homes, NEW ps, ps = Problems(v)
    PROVE  /\ DOMAIN ps = DOMAIN v.groups /\ Timed(ps)
           /\ \A i \in DOMAIN ps :
                /\ ps[i].ns \in v.events /\ ps[i].pod = newestPod(v.groups[i].members)
                /\ ps[i].of.occurrences = SumFunction([w \in v.groups[i].warnings |-> w.count])
                /\ ps[i].of.occurrences \in Nat
<1>1. DOMAIN ps = DOMAIN v.groups /\ \E n \in Nat : DOMAIN ps = 1..n
  BY HomesAre DEF Problems
<1>2. ASSUME NEW i \in DOMAIN ps
      PROVE  /\ ps[i].ns \in v.events /\ ps[i].pod = newestPod(v.groups[i].members)
             /\ ps[i].of.first \in Nat /\ ps[i].of.last \in Nat /\ ps[i].of.tier \in {"new", "ongoing", "chronic"}
             /\ ps[i].of.idle = (Now - ps[i].of.last >= IdleAfter)
             /\ ps[i].of.occurrences = SumFunction([w \in v.groups[i].warnings |-> w.count])
             /\ ps[i].of.occurrences \in Nat
  <2>1. PICK g, p : g = v.groups[i] /\ p = ps[i]
    OBVIOUS
  <2>2. p = groupProblem(g)
    BY <1>1, <2>1 DEF Problems
  <2>3. p.ns = g.ns /\ p.of = fillFromWarnings(g.warnings, g.since) /\ p.pod = newestPod(g.members)
    BY <2>2, ProblemIs
  <2>4. KnownWarnings(g.warnings) /\ g.warnings # {} /\ g.since \in Nat /\ g.ns \in v.events
    BY <1>1, <2>1, HomesAre
  <2>5. PICK of : of = p.of /\ of = fillFromWarnings(g.warnings, g.since)
    BY <2>3
  <2>6. /\ of.first \in Nat /\ of.last \in Nat /\ of.tier \in {"new", "ongoing", "chronic"}
        /\ of.idle = (Now - of.last >= IdleAfter)
        /\ of.occurrences = SumFunction([w \in g.warnings |-> w.count]) /\ of.occurrences \in Nat
    BY <2>4, <2>5, FilledIs
  <2> QED BY <2>1, <2>3, <2>4, <2>5, <2>6
<1> QED BY <1>1, <1>2 DEF Timed

\* Every warning about a cluster-scoped object is counted in one problem.
LEMMA ClusterCounted ==
    ASSUME NEW W, KnownWarnings(W), NEW P, P = clusterProblems(W)
    PROVE  SumFunction([p \in P |-> p.of.occurrences]) = SumFunction([w \in W |-> w.count])
<1>1. PICK K : K = {<<w.kind, w.reason>> : w \in W}
  OBVIOUS
<1>2. PICK Sub : Sub = [k \in K |-> {w \in W : <<w.kind, w.reason>> = k}]
  OBVIOUS
<1>3. PICK Filled : Filled = [k \in K |-> fillFromWarnings(Sub[k], 0)]
  OBVIOUS
<1>4. PICK Row : Row = [k \in K |-> [scope |-> "cluster", kind |-> k[1], cascade |-> FALSE, of |-> Filled[k]]]
  OBVIOUS
<1>5. P = {Row[k] : k \in K}
  <2>1. P = {[scope |-> "cluster", kind |-> k[1], cascade |-> FALSE,
              of |-> fillFromWarnings({w \in W : <<w.kind, w.reason>> = k}, 0)] : k \in K}
    BY <1>1, Zenon DEF clusterProblems
  <2>2. \A k \in K : Row[k] = [scope |-> "cluster", kind |-> k[1], cascade |-> FALSE,
                               of |-> fillFromWarnings({w \in W : <<w.kind, w.reason>> = k}, 0)]
    BY <1>2, <1>3, <1>4, Zenon
  <2>3. ASSUME NEW k \in K PROVE Row[k] \in P
    BY <2>1, <2>2, Zenon
  <2>4. ASSUME NEW p \in P PROVE \E k \in K : p = Row[k]
    <3>1. PICK k \in K : p = [scope |-> "cluster", kind |-> k[1], cascade |-> FALSE,
                              of |-> fillFromWarnings({w \in W : <<w.kind, w.reason>> = k}, 0)]
      BY <2>1, Zenon
    <3>2. p = Row[k]
      BY <2>2, <3>1, Zenon
    <3> QED BY <3>2
  <2> QED BY <2>3, <2>4
<1>6. IsFiniteSet(K) /\ IsFiniteSet(P)
  <2>1. PICK f : f = [w \in W |-> <<w.kind, w.reason>>]
    OBVIOUS
  <2>2. f = [w \in W |-> f[w]] /\ K = {f[w] : w \in W} /\ IsFiniteSet(W)
    BY <1>1, <2>1 DEF KnownWarnings
  <2>3. IsFiniteSet(K)
    BY <2>2, ImageFinite
  <2>4. Row = [k \in K |-> Row[k]]
    BY <1>4
  <2> QED BY <1>5, <2>3, <2>4, ImageFinite
<1>7. ASSUME NEW k \in K
      PROVE  /\ Sub[k] # {} /\ Sub[k] \subseteq W
             /\ Row[k].kind = k[1] /\ DOMAIN Row[k].of.reasons = {k[2]} /\ k = <<k[1], k[2]>>
             /\ Row[k].of.occurrences = SumFunction([w \in Sub[k] |-> w.count])
  <2>1. PICK x \in W : k = <<x.kind, x.reason>>
    BY <1>1
  <2>2. PICK S : S = Sub[k] /\ S = {w \in W : <<w.kind, w.reason>> = k}
    BY <1>2
  <2>3. x \in S /\ S \in SUBSET W /\ \A w \in S : w.kind = k[1] /\ w.reason = k[2]
    BY <2>1, <2>2
  <2>4. KnownWarnings(S)
    <3>1. IsFiniteSet(W)
      BY DEF KnownWarnings
    <3>2. IsFiniteSet(S)
      BY <2>3, <3>1, FS_Subset
    <3> QED BY <2>3, <3>2 DEF KnownWarnings
  <2>5. PICK o : o = fillFromWarnings(S, 0) /\ o = Filled[k]
    BY <1>3, <2>2
  <2>6. DOMAIN o.reasons = {w.reason : w \in S} /\ o.occurrences = SumFunction([w \in S |-> w.count])
    BY <2>3, <2>4, <2>5, FilledIs
  <2>7. {w.reason : w \in S} = {k[2]}
    BY <2>3
  <2>8. Row[k].kind = k[1] /\ Row[k].of = o
    BY <1>4, <2>5
  <2> QED BY <2>1, <2>2, <2>3, <2>6, <2>7, <2>8
<1>8. PICK M : M = [p \in P |-> {w \in W : w.kind = p.kind /\ DOMAIN p.of.reasons = {w.reason}}]
  OBVIOUS
<1>9. ASSUME NEW k \in K PROVE Row[k] \in P /\ M[Row[k]] = Sub[k]
  <2>1. Row[k] \in P
    BY <1>5
  <2>2. M[Row[k]] = {w \in W : w.kind = k[1] /\ {k[2]} = {w.reason}}
    BY <1>7, <1>8, <2>1
  <2>3. Sub[k] = {w \in W : <<w.kind, w.reason>> = k}
    BY <1>2
  <2>4. k = <<k[1], k[2]>>
    BY <1>7
  <2>5. \A w \in W : <<w.kind, w.reason>> = k <=> w.kind = k[1] /\ w.reason = k[2]
    BY <2>4
  <2> QED BY <2>1, <2>2, <2>3, <2>5
<1>10. \A p \in P : M[p] \subseteq W
  BY <1>8
<1>11. \A w \in W : \E p \in P : w \in M[p]
  <2> SUFFICES ASSUME NEW w \in W PROVE \E p \in P : w \in M[p]
    OBVIOUS
  <2>1. PICK k \in K : k = <<w.kind, w.reason>>
    BY <1>1
  <2>2. w \in Sub[k]
    BY <1>2, <2>1
  <2> QED BY <1>9, <2>2
<1>12. \A p, q \in P : M[p] \cap M[q] # {} => p = q
  <2> SUFFICES ASSUME NEW p \in P, NEW q \in P, NEW w, w \in M[p], w \in M[q] PROVE p = q
    OBVIOUS
  <2>1. PICK k \in K : p = Row[k]
    BY <1>5
  <2>2. PICK l \in K : q = Row[l]
    BY <1>5
  <2>3. w \in Sub[k] /\ w \in Sub[l]
    BY <1>9, <2>1, <2>2
  <2>4. k = l
    BY <1>2, <2>3
  <2> QED BY <2>1, <2>2, <2>4
<1>13. PICK f, g : f = [w \in W |-> w.count] /\ g = [p \in P |-> p.of.occurrences]
  OBVIOUS
<1>14. f \in [W -> Nat] /\ IsFiniteSet(W)
  BY <1>13 DEF KnownWarnings
<1>15. ASSUME NEW p \in P PROVE g[p] = SumFunction([w \in M[p] |-> f[w]])
  <2>1. PICK k \in K : p = Row[k]
    BY <1>5
  <2>2. PICK S : S = Sub[k] /\ S = M[p] /\ S \subseteq W
    BY <1>7, <1>9, <2>1
  <2>3. g[p] = SumFunction([w \in S |-> w.count])
    BY <1>7, <1>13, <2>1, <2>2
  <2>4. [w \in S |-> w.count] = [w \in S |-> f[w]]
    BY <1>13, <2>2
  <2> QED BY <2>2, <2>3, <2>4
<1>16. g = [p \in P |-> g[p]]
  BY <1>13
<1>17. SumFunction(g) = SumFunction(f)
  BY <1>6, <1>10, <1>11, <1>12, <1>14, <1>15, <1>16, SumOfParts
<1> QED BY <1>13, <1>17

LEMMA RowsCounted ==
    ASSUME NEW v \in Homes, NEW ps, ps = Problems(v), NEW rows, rows = groupPatterns(ps)
    PROVE  SumFunction([p \in rows |-> p.occurrences])
             = SumFunction([i \in DOMAIN v.groups |-> SumFunction([w \in v.groups[i].warnings |-> w.count])])
<1>1. /\ DOMAIN ps = DOMAIN v.groups /\ Timed(ps)
      /\ \A i \in DOMAIN ps : /\ ps[i].of.occurrences = SumFunction([w \in v.groups[i].warnings |-> w.count])
                              /\ ps[i].of.occurrences \in Nat
  BY ProblemsAre
<1>2. PICK D : D = DOMAIN ps /\ D = DOMAIN v.groups
  BY <1>1
<1>3. IsFiniteSet(D)
  <2>1. PICK n \in Nat : D = 1..n
    BY <1>1, <1>2 DEF Timed
  <2> QED BY <2>1, FS_Interval
<1>4. PICK f, g, M : /\ f = [i \in D |-> ps[i].of.occurrences] /\ g = [p \in rows |-> p.occurrences]
                     /\ M = [p \in rows |-> p.members]
  OBVIOUS
<1>5. f \in [D -> Nat]
  BY <1>1, <1>2, <1>4
<1>6. /\ IsFiniteSet(rows) /\ \A p \in rows : IsRow(p, ps)
      /\ \A p, q \in rows : p.members \cap q.members # {} => p = q
      /\ \A i \in D : \E p \in rows : i \in p.members
  BY <1>1, <1>2, RowsPart
<1>7. /\ \A p \in rows : M[p] \subseteq D
      /\ \A p, q \in rows : M[p] \cap M[q] # {} => p = q
      /\ \A i \in D : \E p \in rows : i \in M[p]
  BY <1>2, <1>4, <1>6 DEF IsRow
<1>8. ASSUME NEW p \in rows PROVE g[p] = SumFunction([i \in M[p] |-> f[i]])
  <2>1. PICK m : m = p.members /\ m = M[p] /\ m \subseteq D
    BY <1>4, <1>7
  <2>2. p.occurrences = SumFunction([i \in m |-> ps[i].of.occurrences])
    BY <1>6, <2>1 DEF IsRow
  <2>3. [i \in m |-> ps[i].of.occurrences] = [i \in m |-> f[i]]
    BY <1>4, <2>1
  <2> QED BY <1>4, <2>1, <2>2, <2>3
<1>9. g = [p \in rows |-> g[p]]
  BY <1>4
<1>10. SumFunction(g) = SumFunction(f)
  BY <1>3, <1>5, <1>6, <1>7, <1>8, <1>9, SumOfParts
<1>11. f = [i \in D |-> SumFunction([w \in v.groups[i].warnings |-> w.count])]
  BY <1>1, <1>2, <1>4
<1> QED BY <1>2, <1>4, <1>10, <1>11

\* What a page built has.
Built(h, v, ps, rows) ==
    /\ ps = Problems(v) /\ rows = groupPatterns(ps)
    /\ h.v = v /\ h.problems = ps /\ h.rows = rows /\ h.list = sortProblems(rows)
    /\ h.cluster = clusterProblems(v.cluster) /\ h.active = Active(rows)
    /\ h.normal = ((v.namespaces \cup v.events) \ DOMAIN Active(rows)) \cap v.own
    /\ h.quiet = ((v.namespaces \cup v.events) \ DOMAIN Active(rows)) \ v.own

LEMMA BuiltIs ==
    ASSUME NEW v, NEW h, h = buildHome(v)
    PROVE  \E ps, rows : Built(h, v, ps, rows)
<1>1. PICK ps, rows : ps = Problems(v) /\ rows = groupPatterns(ps)
  OBVIOUS
<1>2. PICK list, cluster, active, other, normal, quiet :
        /\ list = sortProblems(rows) /\ cluster = clusterProblems(v.cluster) /\ active = Active(rows)
        /\ other = (v.namespaces \cup v.events) \ DOMAIN active
        /\ normal = other \cap v.own /\ quiet = other \ v.own
  OBVIOUS
<1>3. h = [v |-> v, problems |-> ps, rows |-> rows, list |-> list, cluster |-> cluster,
           active |-> active, normal |-> normal, quiet |-> quiet]
  BY <1>1, <1>2, Zenon DEF buildHome, Problems
<1>4. /\ h.v = v /\ h.problems = ps /\ h.rows = rows /\ h.list = list /\ h.cluster = cluster
      /\ h.active = active /\ h.normal = normal /\ h.quiet = quiet
  BY <1>3
<1>5. Built(h, v, ps, rows)
  BY <1>1, <1>2, <1>4, Zenon DEF Built
<1> QED BY <1>5, Zenon

LEMMA PageSound ==
    ASSUME NEW v \in Homes, NEW ps, NEW rows, Built(home, v, ps, rows)
    PROVE  RowsSound /\ Counted /\ RailSound /\ PodSettled
<1>1. /\ ps = Problems(v) /\ rows = groupPatterns(ps)
      /\ home.v = v /\ home.problems = ps /\ home.rows = rows /\ home.list = sortProblems(rows)
      /\ home.cluster = clusterProblems(v.cluster) /\ home.active = Active(rows)
  BY DEF Built
<1>2. /\ DOMAIN ps = DOMAIN v.groups /\ Timed(ps)
      /\ \A i \in DOMAIN ps : ps[i].ns \in v.events /\ ps[i].pod = newestPod(v.groups[i].members)
  BY <1>1, ProblemsAre
<1>3. /\ IsFiniteSet(rows) /\ \A p \in rows : IsRow(p, ps)
      /\ {p.members : p \in rows} = {In(ps, i) : i \in DOMAIN ps}
      /\ \A p, q \in rows : p.members \cap q.members # {} => p = q
      /\ \A i \in DOMAIN ps : \E p \in rows : i \in p.members
  BY <1>1, <1>2, RowsPart
<1>4. RowsSound
  <2>1. {p.members : p \in rows} = {IF Wide(ps, i) THEN Cause(ps, i) ELSE {i} : i \in DOMAIN ps}
    BY <1>3, Zenon DEF In
  <2>2. ASSUME NEW p \in rows, NEW i \in p.members PROVE p.tier = ps[i].of.tier /\ (p.idle => ps[i].of.idle)
    <3>1. IsRow(p, ps) /\ i \in DOMAIN ps /\ p.tier = ps[i].of.tier
      BY <1>3 DEF IsRow
    <3>2. PICK a \in Nat, b \in Nat : a = ps[i].of.last /\ b = p.last /\ a <= b
      BY <1>2, <3>1 DEF IsRow, Timed
    <3>3. p.idle = (Now - b >= IdleAfter) /\ ps[i].of.idle = (Now - a >= IdleAfter)
      BY <1>2, <3>1, <3>2 DEF IsRow, Timed
    <3>4. Now \in Nat /\ IdleAfter \in Nat
      BY HomesAre
    <3>5. Now - b >= IdleAfter => Now - a >= IdleAfter
      BY <3>2, <3>4
    <3> QED BY <3>1, <3>3, <3>5
  <2> QED BY <1>1, <2>1, <2>2 DEF RowsSound
<1>5. Counted
  <2>1. SumFunction([p \in rows |-> p.occurrences])
             = SumFunction([i \in DOMAIN v.groups |-> SumFunction([w \in v.groups[i].warnings |-> w.count])])
    BY <1>1, RowsCounted
  <2>2. PICK P : P = clusterProblems(v.cluster)
    OBVIOUS
  <2>3. SumFunction([p \in P |-> p.of.occurrences]) = SumFunction([w \in v.cluster |-> w.count])
    BY <2>2, HomesAre, ClusterCounted
  <2> QED BY <1>1, <2>1, <2>2, <2>3 DEF Counted
<1>6. RailSound
  <2>1. PICK A : A = UNION {p.namespaces : p \in rows}
    OBVIOUS
  <2>2. DOMAIN Active(rows) = A
    BY <2>1 DEF Active
  <2>3. A \subseteq v.events
    <3>1. \A p \in rows : p.namespaces = {ps[i].ns : i \in p.members} /\ p.members \subseteq DOMAIN ps
      BY <1>3 DEF IsRow
    <3> QED BY <1>2, <2>1, <3>1
  <2>4. /\ A \cup home.normal \cup home.quiet = v.namespaces \cup v.events
        /\ home.normal \cap home.quiet = {} /\ (home.normal \cup home.quiet) \cap A = {}
    <3>1. /\ home.normal = ((v.namespaces \cup v.events) \ A) \cap v.own
          /\ home.quiet = ((v.namespaces \cup v.events) \ A) \ v.own
      BY <2>2 DEF Built
    <3> QED BY <2>3, <3>1
  <2>5. ASSUME NEW i \in DOMAIN ps PROVE ps[i].ns \in A
    <3>1. PICK p \in rows : i \in p.members
      BY <1>3
    <3>2. p.namespaces = {ps[j].ns : j \in p.members}
      BY <1>3, <3>1, Zenon DEF IsRow
    <3> QED BY <2>1, <3>1, <3>2
  <2>6. PICK list : list = sortProblems(rows)
    OBVIOUS
  <2>7. ASSUME NEW ns \in A
        PROVE  Active(rows)[ns] = stateRank(list[Min({i \in DOMAIN list : ns \in list[i].namespaces})])
    BY <1>2, <1>3, <2>1, <2>6, RailIs DEF ApartRows
  <2> QED BY <1>1, <2>2, <2>4, <2>5, <2>6, <2>7 DEF RailSound
<1>7. PodSettled
  <2>1. ASSUME NEW i \in DOMAIN ps
        PROVE  LET pods == {m \in ToSet(v.groups[i].members) : m.pod # 0 /\ m.warn /\ m.last > 0}
                   newest == {m \in pods : \A n \in pods : n.last <= m.last}
               IN ps[i].pod = (IF pods = {} THEN 0 ELSE Min({m.pod : m \in newest}))
    <3>1. PICK members : members = v.groups[i].members /\ members \in Seq(Member)
      BY <1>2, HomesAre DEF Member
    <3>2. PICK pods : pods = {m \in ToSet(members) : m.pod # 0 /\ m.warn /\ m.last > 0} /\ pods = Failed(ToSet(members))
      BY DEF Failed
    <3>3. newestPod(members) = (IF pods = {} THEN 0 ELSE Min({m.pod : m \in {m \in pods : \A n \in pods : n.last <= m.last}}))
      BY <3>1, <3>2, PodIs, Zenon
    <3>4. ps[i].pod = newestPod(members)
      BY <1>2, <3>1
    <3> QED BY <3>1, <3>2, <3>3, <3>4, Zenon
  <2> QED BY <1>1, <2>1, Zenon DEF PodSettled
<1> QED BY <1>4, <1>5, <1>6, <1>7

HomeBuilt == home = <<>> \/ \E v \in Homes : home = buildHome(v)

\* Every home page that buildHome builds is sound (HomeSound): its rows are the causes,
\* whatever order the pairs were joined in, and counts, rail and named Pods agree with them.
THEOREM HomeSoundAlways == HomeSpec => []HomeSound
<1>1. HomeInit => HomeBuilt
  BY DEF HomeInit, HomeBuilt
<1>2. HomeBuilt /\ [BuildHome]_home => HomeBuilt'
  <2> SUFFICES ASSUME HomeBuilt, [BuildHome]_home PROVE HomeBuilt'
    OBVIOUS
  <2>1. CASE BuildHome
    BY <2>1, Zenon DEF BuildHome, HomeBuilt
  <2>2. CASE UNCHANGED home
    BY <2>2, Zenon DEF HomeBuilt
  <2> QED BY <2>1, <2>2
<1>3. HomeBuilt => HomeSound
  <2> SUFFICES ASSUME NEW v \in Homes, home = buildHome(v) PROVE HomeSound
    BY Zenon DEF HomeBuilt, HomeSound
  <2>1. PICK ps, rows : Built(home, v, ps, rows)
    BY BuiltIs
  <2> QED BY <2>1, PageSound, Zenon DEF HomeSound
<1> QED BY <1>1, <1>2, <1>3, PTL DEF HomeSpec

------------------------------------------------------------------------------
(* Evidence *)

\* Sums as cardinalities: f[x] elements for each x.
LEMMA SumAsCount ==
    ASSUME NEW S, IsFiniteSet(S), NEW f \in [S -> Nat]
    PROVE  \E X : /\ \A x \in S : \A z \in X[x] : z[1] = x
                  /\ \A x \in S : Cardinality(X[x]) = f[x]
                  /\ \A s \in SUBSET S : /\ SumFunction([x \in s |-> f[x]]) = Cardinality(Union(X, s))
                                         /\ IsFiniteSet(Union(X, s))
<1>1. PICK X : X = [x \in S |-> {x} \X (1..f[x])]
  OBVIOUS
<1>2. ASSUME NEW x \in S PROVE IsFiniteSet(X[x]) /\ Cardinality(X[x]) = f[x]
  <2>1. IsFiniteSet({x}) /\ Cardinality({x}) = 1
    BY FS_Singleton
  <2>2. IsFiniteSet(1..f[x]) /\ Cardinality(1..f[x]) = f[x]
    BY FS_Interval
  <2>3. PICK A, B, c : A = {x} /\ B = 1..f[x] /\ c = f[x] /\ c \in Nat
    OBVIOUS
  <2>4. IsFiniteSet(A) /\ IsFiniteSet(B) /\ Cardinality(A) = 1 /\ Cardinality(B) = c
    BY <2>1, <2>2, <2>3
  <2>5. IsFiniteSet(A \X B) /\ Cardinality(A \X B) = Cardinality(A) * Cardinality(B)
    BY <2>4, FS_Product
  <2>6. Cardinality(A \X B) = c
    BY <2>3, <2>4, <2>5
  <2> QED BY <1>1, <2>3, <2>5, <2>6
<1>3. \A x \in S : \A z \in X[x] : z[1] = x
  BY <1>1
<1>4. Apart(X, S)
  <2>1. \A x, y \in S : x # y => X[x] \cap X[y] = {}
    BY <1>3
  <2> QED BY <1>2, <2>1 DEF Apart
<1>5. ASSUME NEW s \in SUBSET S
      PROVE  SumFunction([x \in s |-> f[x]]) = Cardinality(Union(X, s)) /\ IsFiniteSet(Union(X, s))
  <2>1. IsFiniteSet(s) /\ Apart(X, s)
    BY <1>4, FS_Subset DEF Apart
  <2>2. PICK h : h = [x \in s |-> f[x]]
    OBVIOUS
  <2>3. h = [x \in s |-> h[x]] /\ \A x \in s : h[x] = Cardinality(X[x])
    BY <1>2, <2>2
  <2>4. SumFunction(h) = Cardinality(Union(X, s))
    BY <2>1, <2>3, SumCounts
  <2> QED BY <1>4, <2>2, <2>4, UnionFinite
<1> QED BY <1>2, <1>3, <1>5

\* A sum over two sets that have nothing in common.
LEMMA SumSplit ==
    ASSUME NEW S, IsFiniteSet(S), NEW f \in [S -> Nat], NEW A, NEW B, A \cup B = S, A \cap B = {},
           NEW a, a = [x \in A |-> f[x]], NEW b, b = [x \in B |-> f[x]]
    PROVE  SumFunction(f) = SumFunction(a) + SumFunction(b) /\ SumFunction(a) \in Nat /\ SumFunction(b) \in Nat
<1>1. PICK X : /\ \A x \in S : \A z \in X[x] : z[1] = x
               /\ \A s \in SUBSET S : /\ SumFunction([x \in s |-> f[x]]) = Cardinality(Union(X, s))
                                      /\ IsFiniteSet(Union(X, s))
  BY SumAsCount
<1>2. PICK U, V, W : U = Union(X, A) /\ V = Union(X, B) /\ W = Union(X, S)
  OBVIOUS
<1>3. A \in SUBSET S /\ B \in SUBSET S /\ S \in SUBSET S
  OBVIOUS
<1>4. /\ SumFunction([x \in A |-> f[x]]) = Cardinality(U) /\ IsFiniteSet(U)
      /\ SumFunction([x \in B |-> f[x]]) = Cardinality(V) /\ IsFiniteSet(V)
      /\ SumFunction([x \in S |-> f[x]]) = Cardinality(W)
  BY <1>1, <1>2, <1>3
<1>5. U \cap V = {}
  <2>1. \A z \in U : z[1] \in A
    BY <1>1, <1>2 DEF Union
  <2>2. \A z \in V : z[1] \in B
    BY <1>1, <1>2 DEF Union
  <2> QED BY <2>1, <2>2
<1>6. W = U \cup V
  BY <1>2 DEF Union
<1>7. Cardinality(U \cup V) = Cardinality(U) + Cardinality(V) - Cardinality(U \cap V)
  BY <1>4, FS_Union
<1>8. PICK u \in Nat, v \in Nat : u = Cardinality(U) /\ v = Cardinality(V)
  BY <1>4, FS_CardinalityType
<1>9. Cardinality(U \cap V) = 0
  BY <1>5, FS_EmptySet
<1>10. f = [x \in S |-> f[x]]
  OBVIOUS
<1>11. Cardinality(W) = u + v
  BY <1>6, <1>7, <1>8, <1>9
<1> QED BY <1>4, <1>8, <1>10, <1>11

LEMMA SumOne ==
    ASSUME NEW S, IsFiniteSet(S), NEW f \in [S -> Nat], NEW a \in S
    PROVE  SumFunction([x \in {a} |-> f[x]]) = f[a]
<1>1. PICK X : /\ \A x \in S : Cardinality(X[x]) = f[x]
               /\ \A s \in SUBSET S : SumFunction([x \in s |-> f[x]]) = Cardinality(Union(X, s))
  BY SumAsCount
<1>2. Union(X, {a}) = X[a]
  BY DEF Union
<1> QED BY <1>1, <1>2

LEMMA SumNone == ASSUME NEW f, f = [x \in {} |-> f[x]] PROVE SumFunction(f) = 0
<1>1. PICK X : X = [x \in {} |-> {}]
  OBVIOUS
<1>2. IsFiniteSet({}) /\ Apart(X, {}) /\ Union(X, {}) = {}
  BY FS_EmptySet DEF Apart, Union
<1>3. \A x \in {} : f[x] = Cardinality(X[x])
  OBVIOUS
<1>4. SumFunction(f) = Cardinality(Union(X, {}))
  BY <1>2, <1>3, SumCounts
<1> QED BY <1>2, <1>4, FS_EmptySet

\* More of the same numbers have no smaller sum.
LEMMA SumMore ==
    ASSUME NEW S, IsFiniteSet(S), NEW f \in [S -> Nat], NEW B, B \subseteq S, NEW A, A \subseteq B
    PROVE  /\ SumFunction([x \in A |-> f[x]]) \in Nat /\ SumFunction([x \in B |-> f[x]]) \in Nat
           /\ SumFunction([x \in A |-> f[x]]) <= SumFunction([x \in B |-> f[x]])
<1>1. PICK g, C, a, c : /\ g = [x \in B |-> f[x]] /\ C = B \ A
                        /\ a = [x \in A |-> g[x]] /\ c = [x \in C |-> g[x]]
  OBVIOUS
<1>2. g \in [B -> Nat] /\ IsFiniteSet(B) /\ A \cup C = B /\ A \cap C = {}
  BY <1>1, FS_Subset
<1>3. SumFunction(g) = SumFunction(a) + SumFunction(c) /\ SumFunction(a) \in Nat /\ SumFunction(c) \in Nat
  BY <1>1, <1>2, SumSplit
<1>4. a = [x \in A |-> f[x]]
  BY <1>1
<1>5. PICK u \in Nat, v \in Nat : u = SumFunction(a) /\ v = SumFunction(c) /\ SumFunction(g) = u + v
  BY <1>3
<1> QED BY <1>1, <1>4, <1>5

\* One more number.
LEMMA SumWith ==
    ASSUME NEW S, IsFiniteSet(S), NEW f \in [S -> Nat], NEW e \in S, NEW A, A = S \ {e}
    PROVE  /\ SumFunction(f) = SumFunction([x \in A |-> f[x]]) + f[e]
           /\ SumFunction([x \in A |-> f[x]]) \in Nat
<1>1. PICK B, a, b : B = {e} /\ a = [x \in A |-> f[x]] /\ b = [x \in B |-> f[x]]
  OBVIOUS
<1>2. A \cup B = S /\ A \cap B = {}
  BY <1>1
<1>3. SumFunction(f) = SumFunction(a) + SumFunction(b) /\ SumFunction(a) \in Nat
  BY <1>1, <1>2, SumSplit
<1>4. SumFunction(b) = f[e]
  BY <1>1, SumOne
<1> QED BY <1>1, <1>3, <1>4

LEMMA SumNext ==
    ASSUME NEW n \in Nat, NEW f \in [1 .. n + 1 -> Nat]
    PROVE  /\ SumFunction(f) = SumFunction([i \in 1..n |-> f[i]]) + f[n + 1]
           /\ SumFunction([i \in 1..n |-> f[i]]) \in Nat
<1>1. IsFiniteSet(1 .. n + 1)
  BY FS_Interval
<1>2. n + 1 \in 1 .. n + 1
  OBVIOUS
<1>3. 1..n = (1 .. n + 1) \ {n + 1}
  OBVIOUS
<1>4. PICK S, A, e : S = 1 .. n + 1 /\ A = 1..n /\ e = n + 1
  OBVIOUS
<1>5. IsFiniteSet(S) /\ f \in [S -> Nat] /\ e \in S /\ A = S \ {e}
  BY <1>1, <1>2, <1>3, <1>4
<1>6. /\ SumFunction(f) = SumFunction([x \in A |-> f[x]]) + f[e]
      /\ SumFunction([x \in A |-> f[x]]) \in Nat
  BY ONLY <1>5, SumWith
<1> QED BY <1>4, <1>6

------------------------------------------------------------------------------
(* Evidence *)

\* One round of sort.Search.
Halve(f, s) ==
    LET h == (s.i + s.j) \div 2
    IN IF s.i >= s.j THEN s ELSE IF f[h] THEN [s EXCEPT !.j = h] ELSE [s EXCEPT !.i = h + 1]

IsSearch(g, n, f) == g = [k \in 0..n |-> IF k = 0 THEN [i |-> 0, j |-> n] ELSE Halve(f, g[k - 1])]

Bounds(n) == [i : 0..n, j : 0..n]

\* After k rounds no more than m are left; what is before i is FALSE, what is from j on TRUE.
Narrowed(n, f, m) ==
    {s \in Bounds(n) : /\ s.i <= s.j /\ s.j - s.i <= m
                       /\ (s.i = 0 \/ ~f[s.i - 1])
                       /\ (s.j = n \/ f[s.j])}

LEMMA HalveNarrows ==
    ASSUME NEW n \in Nat, NEW f \in [0 .. n - 1 -> BOOLEAN], NEW m \in Nat, NEW s \in Narrowed(n, f, m + 1)
    PROVE  Halve(f, s) \in Narrowed(n, f, m)
<1>1. PICK i \in 0..n, j \in 0..n : i = s.i /\ j = s.j /\ s = [i |-> i, j |-> j]
  BY DEF Narrowed, Bounds
<1>2. i <= j /\ j - i <= m + 1 /\ (i = 0 \/ ~f[i - 1]) /\ (j = n \/ f[j])
  BY <1>1 DEF Narrowed
<1>3. PICK h : h = (i + j) \div 2
  OBVIOUS
<1>4. CASE i >= j
  <2>1. Halve(f, s) = s
    BY <1>1, <1>4 DEF Halve
  <2>2. j - i <= m
    BY <1>2, <1>4
  <2> QED BY <1>1, <1>2, <2>1, <2>2 DEF Narrowed
<1>5. CASE i < j
  <2>1. h \in 0 .. n - 1 /\ i <= h /\ h < j
    BY <1>3, <1>5
  <2>2. CASE f[h]
    <3>1. Halve(f, s) = [i |-> i, j |-> h]
      BY <1>1, <1>3, <1>5, <2>2 DEF Halve
    <3>2. PICK t : t = [i |-> i, j |-> h]
      OBVIOUS
    <3>3. t.i = i /\ t.j = h /\ t \in Bounds(n)
      BY <2>1, <3>2 DEF Bounds
    <3>4. i <= h /\ h - i <= m
      BY <1>2, <2>1
    <3> QED BY <1>2, <2>2, <3>1, <3>2, <3>3, <3>4 DEF Narrowed
  <2>3. CASE ~f[h]
    <3>1. Halve(f, s) = [i |-> h + 1, j |-> j]
      BY <1>1, <1>3, <1>5, <2>3 DEF Halve
    <3>2. PICK t : t = [i |-> h + 1, j |-> j]
      OBVIOUS
    <3>3. t.i = h + 1 /\ t.j = j /\ t \in Bounds(n) /\ t.i - 1 = h
      BY <2>1, <3>2 DEF Bounds
    <3>4. h + 1 <= j /\ j - (h + 1) <= m
      BY <1>2, <2>1
    <3> QED BY <1>2, <2>3, <3>1, <3>2, <3>3, <3>4 DEF Narrowed
  <2> QED BY <2>2, <2>3
<1> QED BY <1>4, <1>5

\* sort.Search finds a place where the predicate changes.
LEMMA SearchIs ==
    ASSUME NEW n \in Nat, NEW f \in [0 .. n - 1 -> BOOLEAN]
    PROVE  /\ Search(n, f) \in 0..n
           /\ Search(n, f) = 0 \/ ~f[Search(n, f) - 1]
           /\ Search(n, f) = n \/ f[Search(n, f)]
<1>1. PICK V, z : V = Bounds(n) /\ z = [i |-> 0, j |-> n]
  OBVIOUS
<1>2. z \in V /\ z.i = 0 /\ z.j = n
  BY <1>1 DEF Bounds
<1>3. \E g : IsSearch(g, n, f)
  <2>1. PICK G : G = [q \in V \X (1..n) |-> Halve(f, q[1])]
    OBVIOUS
  <2>2. ASSUME NEW s \in V PROVE Halve(f, s) \in V
    <3>1. PICK i \in 0..n, j \in 0..n : i = s.i /\ j = s.j /\ s = [i |-> i, j |-> j]
      BY <1>1 DEF Bounds
    <3>2. PICK h : h = (i + j) \div 2
      OBVIOUS
    <3>3. i < j => h \in 0..n /\ h + 1 \in 0..n
      BY <3>2
    <3>4. Halve(f, s) = IF i >= j THEN s ELSE IF f[h] THEN [i |-> i, j |-> h] ELSE [i |-> h + 1, j |-> j]
      BY <3>1, <3>2 DEF Halve
    <3> QED BY <1>1, <3>1, <3>3, <3>4 DEF Bounds
  <2>3. G \in [V \X (1..n) -> V]
    BY <2>1, <2>2
  <2>4. PICK g : Loop(g, n, V, z, G)
    BY <1>2, <2>3, LoopRuns, Zenon
  <2>5. g \in [0..n -> V] /\ g[0] = z /\ \A k \in 1..n : g[k] = G[<<g[k - 1], k>>]
    BY <2>4, Zenon DEF Loop
  <2>6. \A k \in 0..n : g[k] = IF k = 0 THEN z ELSE Halve(f, g[k - 1])
    <3> SUFFICES ASSUME NEW k \in 0..n, k # 0 PROVE g[k] = Halve(f, g[k - 1])
      BY <2>5
    <3>1. k \in 1..n /\ k - 1 \in 0..n
      OBVIOUS
    <3>2. <<g[k - 1], k>> \in V \X (1..n)
      BY <2>5, <3>1
    <3>3. g[k] = G[<<g[k - 1], k>>]
      BY <2>5, <3>1
    <3> QED BY <2>1, <3>2, <3>3
  <2>7. g = [k \in 0..n |-> IF k = 0 THEN z ELSE Halve(f, g[k - 1])]
    BY <2>5, <2>6
  <2> QED BY <1>1, <2>7, Zenon DEF IsSearch
<1>4. PICK g : g = (CHOOSE h : IsSearch(h, n, f)) /\ IsSearch(g, n, f)
  BY <1>3
<1>5. Search(n, f) = g[n].i
  BY <1>4, Zenon DEF Search, IsSearch, Halve
<1>6. \A k \in 0..n : g[k] = IF k = 0 THEN z ELSE Halve(f, g[k - 1])
  <2>1. g = [k \in 0..n |-> IF k = 0 THEN [i |-> 0, j |-> n] ELSE Halve(f, g[k - 1])]
    BY <1>4, Zenon DEF IsSearch
  <2>2. z = [i |-> 0, j |-> n]
    BY <1>1
  <2>3. \A k \in 0..n : g[k] = IF k = 0 THEN [i |-> 0, j |-> n] ELSE Halve(f, g[k - 1])
    BY <2>1, Zenon
  <2> QED BY <2>2, <2>3
<1>7. PICK J : J = [k \in 0..n |-> Narrowed(n, f, n - k)]
  OBVIOUS
<1>8. g[0] \in J[0]
  <2>1. J[0] = Narrowed(n, f, n) /\ g[0] = z
    BY <1>6, <1>7
  <2> QED BY <1>1, <1>2, <2>1 DEF Narrowed
<1>9. ASSUME NEW k \in 1..n, g[k - 1] \in J[k - 1] PROVE g[k] \in J[k]
  <2>1. PICK m \in Nat : m = n - k /\ m + 1 = n - (k - 1)
    OBVIOUS
  <2>2. g[k - 1] \in Narrowed(n, f, m + 1)
    BY <1>7, <1>9, <2>1
  <2>3. Halve(f, g[k - 1]) \in Narrowed(n, f, m)
    BY <2>2, HalveNarrows
  <2> QED BY <1>6, <1>7, <2>1, <2>3
<1>10. g[n] \in J[n]
  <2>1. \A k \in 0..n : g[k] \in J[k]
    BY ONLY <1>8, <1>9, n \in Nat, LoopKeeps
  <2> QED BY <2>1
<1>11. PICK s : s = g[n] /\ s \in Narrowed(n, f, 0)
  BY <1>7, <1>10
<1>12. PICK i \in 0..n, j \in 0..n : i = s.i /\ j = s.j
  BY <1>11 DEF Narrowed, Bounds
<1>13. i <= j /\ j - i <= 0 /\ (i = 0 \/ ~f[i - 1]) /\ (j = n \/ f[j])
  BY <1>11, <1>12 DEF Narrowed
<1>14. i = j
  BY <1>13
<1> QED BY <1>5, <1>11, <1>12, <1>13, <1>14

\* The largest count that is ok, if those before it are too; 0 if none is.
LEMMA MostIs ==
    ASSUME NEW n \in Nat, NEW ok \in [0..n -> BOOLEAN], \A a, b \in 0..n : a < b /\ ok[b] => ok[a]
    PROVE  /\ most(n, ok) \in 0..n
           /\ ok[most(n, ok)] \/ most(n, ok) = 0
           /\ \A k \in 0..n : ok[k] => k <= most(n, ok)
<1>1. PICK f : f = [k \in 0..n |-> ~ok[k]]
  OBVIOUS
<1>a. \A k \in 0..n : f[k] <=> ~ok[k]
  BY <1>1, Zenon
<1>2. f \in [0 .. (n + 1) - 1 -> BOOLEAN] /\ n + 1 \in Nat
  BY <1>1
<1>3. PICK r : r = Search(n + 1, f)
  OBVIOUS
<1>4. r \in 0 .. n + 1 /\ (r = 0 \/ ~f[r - 1]) /\ (r = n + 1 \/ f[r])
  BY <1>2, <1>3, SearchIs
<1>5. most(n, ok) = Max({r - 1, 0})
  BY <1>1, <1>3, Zenon DEF most
<1>6. CASE r = 0
  <2>1. Max({r - 1, 0}) = 0
    <3>1. \A x \in {r - 1, 0} : (\A y \in {r - 1, 0} : x >= y) <=> x = 0
      BY <1>6
    <3> QED BY <3>1 DEF Max
  <2>2. ~ok[0]
    BY <1>a, <1>4, <1>6
  <2>3. \A k \in 0..n : ~ok[k]
    BY <2>2
  <2> QED BY <1>5, <2>1, <2>3
<1>7. CASE r # 0
  <2>1. r - 1 \in 0..n
    BY <1>4, <1>7
  <2>2. Max({r - 1, 0}) = r - 1
    <3>1. \A x \in {r - 1, 0} : (\A y \in {r - 1, 0} : x >= y) <=> x = r - 1
      BY <2>1
    <3> QED BY <3>1 DEF Max
  <2>3. ok[r - 1]
    BY <1>a, <1>4, <1>7, <2>1
  <2>4. \A k \in 0..n : ok[k] => k <= r - 1
    <3> SUFFICES ASSUME NEW k \in 0..n, ok[k], k >= r PROVE FALSE
      BY <1>4, <1>7
    <3>1. r \in 0..n /\ ~ok[r]
      BY <1>a, <1>4
    <3> QED BY <3>1
  <2> QED BY <1>5, <2>1, <2>2, <2>3, <2>4
<1> QED BY <1>6, <1>7

\* What render is given.
Gauged(e) ==
    /\ e.fixed \in Nat /\ e.raw \in Nat
    /\ e.events \in Seq([at : Nat, size : Nat]) /\ e.members \in Seq(Nat)
    /\ e.logs \in Seq([error : BOOLEAN, size : Nat])

LEMMA SeqIs == ASSUME NEW S, NEW s \in Seq(S) PROVE Len(s) \in Nat /\ DOMAIN s = 1..Len(s) /\ \A i \in DOMAIN s : s[i] \in S
  OBVIOUS

\* Of more events more are kept.
LEMMA EventsMore ==
    ASSUME NEW evs \in Seq([at : Nat, size : Nat]), NEW n \in Nat, NEW m \in Nat, n <= m
    PROVE  /\ SumFunction(newestEvents(evs, n)) \in Nat /\ SumFunction(newestEvents(evs, m)) \in Nat
           /\ SumFunction(newestEvents(evs, n)) <= SumFunction(newestEvents(evs, m))
<1>1. PICK S, f : S = DOMAIN evs /\ f = [i \in S |-> evs[i].size]
  OBVIOUS
<1>2. IsFiniteSet(S) /\ f \in [S -> Nat]
  <2>1. PICK l \in Nat : S = 1..l /\ \A i \in 1..l : evs[i] \in [at : Nat, size : Nat]
    <3>1. Len(evs) \in Nat /\ DOMAIN evs = 1..Len(evs) /\ \A i \in DOMAIN evs : evs[i] \in [at : Nat, size : Nat]
      BY SeqIs, Zenon
    <3> QED BY <1>1, <3>1
  <2>2. IsFiniteSet(S)
    BY <2>1, FS_Interval
  <2>3. \A i \in S : evs[i].size \in Nat
    BY <2>1
  <2> QED BY <1>1, <2>2, <2>3
<1>3. PICK c : c = [i \in S |-> Cardinality({j \in S : evs[j].at > evs[i].at \/ (evs[j].at = evs[i].at /\ j < i)})]
  OBVIOUS
<1>4. \A i \in S : c[i] \in Nat
  BY <1>2, <1>3, FS_Subset, FS_CardinalityType
<1>5. PICK A, B : A = {i \in S : c[i] < n} /\ B = {i \in S : c[i] < m}
  OBVIOUS
<1>6. A \subseteq B /\ B \subseteq S
  BY <1>4, <1>5
<1>7. newestEvents(evs, n) = [i \in A |-> f[i]] /\ newestEvents(evs, m) = [i \in B |-> f[i]]
  <2>1. \A k : newestEvents(evs, k) =
               [i \in {q \in S : Cardinality({j \in S : evs[j].at > evs[q].at \/ (evs[j].at = evs[q].at /\ j < q)}) < k} |-> evs[i].size]
    BY <1>1, Zenon DEF newestEvents
  <2>2. \A k : {q \in S : Cardinality({j \in S : evs[j].at > evs[q].at \/ (evs[j].at = evs[q].at /\ j < q)}) < k}
               = {q \in S : c[q] < k}
    BY <1>3
  <2>3. \A k : newestEvents(evs, k) = [i \in {q \in S : c[q] < k} |-> evs[i].size]
    BY <2>1, <2>2
  <2>4. newestEvents(evs, n) = [i \in A |-> evs[i].size] /\ newestEvents(evs, m) = [i \in B |-> evs[i].size]
    BY <1>5, <2>3
  <2>5. \A i \in S : f[i] = evs[i].size
    BY <1>1
  <2> QED BY <1>6, <2>4, <2>5
<1>8. PICK a, b : a = [i \in A |-> f[i]] /\ b = [i \in B |-> f[i]]
  OBVIOUS
<1>9. SumFunction(a) \in Nat /\ SumFunction(b) \in Nat /\ SumFunction(a) <= SumFunction(b)
  BY <1>2, <1>6, <1>8, SumMore
<1> QED BY <1>7, <1>8, <1>9

LEMMA MembersMore ==
    ASSUME NEW s \in Seq(Nat), NEW n \in 0..Len(s), NEW m \in 0..Len(s), n <= m
    PROVE  /\ SumFunction([i \in 1..n |-> s[i]]) \in Nat /\ SumFunction([i \in 1..m |-> s[i]]) \in Nat
           /\ SumFunction([i \in 1..n |-> s[i]]) <= SumFunction([i \in 1..m |-> s[i]])
<1>1. PICK S, A, B : S = 1..Len(s) /\ A = 1..n /\ B = 1..m
  OBVIOUS
<1>2. IsFiniteSet(S) /\ s \in [S -> Nat]
  BY <1>1, FS_Interval
<1>3. A \subseteq B /\ B \subseteq S
  BY <1>1
<1> QED BY <1>1, <1>2, <1>3, SumMore

\* How many of a finite set of numbers are above i.
Above(S, i) == Cardinality({j \in S : j > i})

LEMMA AboveApart ==
    ASSUME NEW S, S \subseteq Nat, IsFiniteSet(S)
    PROVE  /\ \A i \in S : Above(S, i) \in Nat
           /\ \A i, j \in S : i < j => Above(S, j) < Above(S, i)
<1>1. PICK B : B = {z \in S \X S : z[1] > z[2]}
  OBVIOUS
<1>2. \A a, b \in S : <<a, b>> \in B <=> a > b
  BY <1>1
<1>3. Orders(B, S)
  BY <1>2 DEF Orders
<1>4. \A i \in S : Fore(B, S, i) = {j \in S : j > i}
  BY <1>2 DEF Fore
<1>5. /\ \A i \in S : Cardinality(Fore(B, S, i)) \in Nat
      /\ \A i, j \in S : <<j, i>> \in B => Cardinality(Fore(B, S, j)) < Cardinality(Fore(B, S, i))
  BY <1>3, Ranks
<1>6. \A i \in S : Above(S, i) = Cardinality(Fore(B, S, i))
  BY <1>4 DEF Above
<1> QED BY <1>2, <1>5, <1>6

\* The newest of S, up to k of them; from k to l no more than l - k are added.
Top(S, k) == {i \in S : Above(S, i) < k}

LEMMA TopGrows ==
    ASSUME NEW S, S \subseteq Nat, IsFiniteSet(S), NEW k \in Nat, NEW l \in Nat, k <= l
    PROVE  /\ Top(S, k) \subseteq Top(S, l)
           /\ Cardinality(Top(S, l) \ Top(S, k)) <= l - k
<1>1. PICK X, Y, r : X = Top(S, l) \ Top(S, k) /\ Y = k .. l - 1 /\ r = [i \in X |-> Above(S, i)]
  OBVIOUS
<1>2. /\ \A i \in S : Above(S, i) \in Nat
      /\ \A i, j \in S : i < j => Above(S, j) < Above(S, i)
  BY AboveApart
<1>3. \A i \in X : i \in S /\ r[i] \in Y
  BY <1>1, <1>2 DEF Top
<1>4. \A i, j \in X : r[i] = r[j] => i = j
  <2> SUFFICES ASSUME NEW i \in X, NEW j \in X, r[i] = r[j], i # j PROVE FALSE
    OBVIOUS
  <2>1. PICK a \in Nat, b \in Nat : a = i /\ b = j /\ a \in S /\ b \in S
    BY <1>3
  <2>2. Above(S, a) = Above(S, b)
    BY <1>1, <2>1
  <2>3. a < b \/ b < a
    BY <2>1
  <2> QED BY <1>2, <2>1, <2>2, <2>3
<1>5. r \in Injection(X, Y)
  <2>1. r = [i \in X |-> r[i]]
    BY <1>1
  <2>2. r \in [X -> Y]
    BY <1>3, <2>1
  <2>3. DOMAIN r = X
    BY <2>1
  <2> QED BY <1>4, <2>2, <2>3 DEF Injection, IsInjective
<1>6. IsFiniteSet(Y) /\ Cardinality(Y) = l - k
  BY <1>1, FS_Interval
<1>7. Cardinality(X) <= Cardinality(Y)
  BY <1>5, <1>6, FS_Injection
<1>8. Top(S, k) \subseteq Top(S, l)
  <2>1. \A i \in S : Above(S, i) < k => Above(S, i) < l
    BY <1>2
  <2> QED BY <2>1, Zenon DEF Top
<1> QED BY <1>1, <1>6, <1>7, <1>8

\* The log lines pickLogLines picks when it may not take all.
Picked(D, E, n) ==
    LET errs == Top(E, (n * 2) \div 3)
    IN errs \cup Top(D \ errs, n - Cardinality(errs))

LEMMA PickGrows ==
    ASSUME NEW D, D \subseteq Nat, IsFiniteSet(D), NEW E, E \subseteq D, NEW n \in Nat, NEW m \in Nat, n <= m
    PROVE  Picked(D, E, n) \subseteq Picked(D, E, m)
<1>1. PICK k \in Nat, l \in Nat : k = (n * 2) \div 3 /\ l = (m * 2) \div 3
  OBVIOUS
<1>2. k <= l /\ l - k <= m - n
  BY <1>1
<1>3. PICK A, B, X : A = Top(E, k) /\ B = Top(E, l) /\ X = B \ A
  OBVIOUS
<1>4. E \subseteq Nat /\ IsFiniteSet(E)
  BY FS_Subset
<1>5. A \subseteq B /\ Cardinality(X) <= l - k
  BY <1>2, <1>3, <1>4, TopGrows
<1>6. A \subseteq E /\ B \subseteq E
  BY <1>3 DEF Top
<1>7. IsFiniteSet(A) /\ IsFiniteSet(B) /\ IsFiniteSet(X)
  BY <1>3, <1>4, <1>6, FS_Subset
<1>8. PICK a \in Nat, b \in Nat, x \in Nat : a = Cardinality(A) /\ b = Cardinality(B) /\ x = Cardinality(X)
  BY <1>7, FS_CardinalityType
<1>9. b = a + x
  <2>1. A \cup X = B /\ A \cap X = {}
    BY <1>3, <1>5
  <2>a. Cardinality(A \cup X) = Cardinality(B)
    BY <2>1
  <2>2. Cardinality(A \cup X) = Cardinality(A) + Cardinality(X) - Cardinality(A \cap X)
    BY <1>7, FS_Union
  <2>3. Cardinality(A \cap X) = 0
    BY <2>1, FS_EmptySet
  <2>4. Cardinality(B) = a + x - 0
    BY ONLY <1>8, <2>a, <2>2, <2>3
  <2> QED BY <1>8, <2>4
<1>10. PICK R, Q : R = D \ A /\ Q = D \ B
  OBVIOUS
<1>11. ASSUME NEW i \in Q, Above(R, i) < n - a PROVE Above(Q, i) < m - b
  <2>1. PICK U, V, W : U = {j \in R : j > i} /\ V = {j \in Q : j > i} /\ W = {j \in X : j > i}
    OBVIOUS
  <2>2. U = V \cup W /\ V \cap W = {}
    BY <1>3, <1>5, <1>6, <1>10, <2>1
  <2>3. IsFiniteSet(V) /\ IsFiniteSet(W)
    <3>1. V \subseteq D /\ W \subseteq X
      BY <1>10, <2>1
    <3> QED BY <1>7, <3>1, FS_Subset
  <2>4. Cardinality(V \cup W) = Cardinality(V) + Cardinality(W) - Cardinality(V \cap W)
    BY <2>3, FS_Union
  <2>5. Cardinality(V \cap W) = 0
    BY <2>2, FS_EmptySet
  <2>6. PICK v \in Nat, w \in Nat : v = Cardinality(V) /\ w = Cardinality(W)
    BY <2>3, FS_CardinalityType
  <2>a. Cardinality(V \cup W) = Cardinality(U)
    BY <2>2
  <2>b. Cardinality(U) = v + w - 0
    BY ONLY <2>4, <2>5, <2>6, <2>a
  <2>c. Above(R, i) = Cardinality(U) /\ Above(Q, i) = Cardinality(V)
    BY <2>1 DEF Above
  <2>7. Above(R, i) = v + w /\ Above(Q, i) = v
    BY ONLY <2>6, <2>b, <2>c, v \in Nat, w \in Nat
  <2>8. x <= l - k
    BY <1>5, <1>8
  <2> QED BY <1>2, <1>8, <1>9, <1>11, <2>7, <2>8
<1>12. Picked(D, E, n) = A \cup {i \in R : Above(R, i) < n - a}
  BY <1>1, <1>3, <1>8, <1>10 DEF Picked, Top
<1>13. Picked(D, E, m) = B \cup {i \in Q : Above(Q, i) < m - b}
  BY <1>1, <1>3, <1>8, <1>10 DEF Picked, Top
<1>14. ASSUME NEW i \in R, Above(R, i) < n - a PROVE i \in B \/ (i \in Q /\ Above(Q, i) < m - b)
  BY <1>10, <1>11, <1>14
<1> QED BY <1>5, <1>12, <1>13, <1>14

\* Of more log lines more are kept.
LEMMA LinesMore ==
    ASSUME NEW s \in Seq([error : BOOLEAN, size : Nat]), NEW n \in Nat, NEW m \in Nat, n <= m
    PROVE  /\ SumFunction(pickLogLines(s, n)) \in Nat /\ SumFunction(pickLogLines(s, m)) \in Nat
           /\ SumFunction(pickLogLines(s, n)) <= SumFunction(pickLogLines(s, m))
<1>a. PICK l \in Nat : l = Len(s)
  BY SeqIs
<1>1. PICK D, f, E : l = Len(s) /\ D = DOMAIN s /\ f = [i \in D |-> s[i].size] /\ E = {i \in D : s[i].error}
  BY <1>a
<1>2. D = 1..l /\ \A i \in D : s[i].size \in Nat
  <2>1. DOMAIN s = 1..Len(s) /\ \A i \in DOMAIN s : s[i] \in [error : BOOLEAN, size : Nat]
    BY SeqIs, Zenon
  <2> QED BY <1>1, <2>1
<1>3. IsFiniteSet(D) /\ D \subseteq Nat /\ f \in [D -> Nat] /\ E \subseteq D
  <2>1. IsFiniteSet(D)
    BY <1>2, FS_Interval
  <2>2. f \in [D -> Nat]
    BY <1>1, <1>2
  <2>3. D \subseteq Nat
    BY <1>2
  <2>4. E \subseteq D
    BY <1>1
  <2> QED BY <2>1, <2>2, <2>3, <2>4
<1>4. ASSUME NEW k \in Nat
      PROVE  pickLogLines(s, k) = [i \in (IF l <= k THEN D ELSE Picked(D, E, k)) |-> s[i].size]
  <2>1. PICK errs : errs = {i \in D : s[i].error /\ Cardinality({j \in D : s[j].error /\ j > i}) < (k * 2) \div 3}
    OBVIOUS
  <2>2. PICK pick : pick = errs \cup {i \in D \ errs : Cardinality({j \in D \ errs : j > i}) < k - Cardinality(errs)}
    OBVIOUS
  <2>3. pickLogLines(s, k) = [i \in (IF Len(s) <= k THEN D ELSE pick) |-> s[i].size]
    BY <1>1, <2>1, <2>2, Zenon DEF pickLogLines
  <2>4. errs = Top(E, (k * 2) \div 3)
    <3>1. \A i \in D : {j \in D : s[j].error /\ j > i} = {j \in E : j > i}
      BY <1>1
    <3>2. \A i \in D : Cardinality({j \in D : s[j].error /\ j > i}) = Above(E, i)
      BY <3>1 DEF Above
    <3>3. errs = {i \in D : s[i].error /\ Above(E, i) < (k * 2) \div 3}
      BY <2>1, <3>2
    <3> QED BY <1>1, <3>3 DEF Top
  <2>5. pick = Picked(D, E, k)
    BY <2>2, <2>4, Zenon DEF Picked, Top, Above
  <2> QED BY <1>1, <2>3, <2>5
<1>5. PICK A, B : A = (IF l <= n THEN D ELSE Picked(D, E, n)) /\ B = (IF l <= m THEN D ELSE Picked(D, E, m))
  OBVIOUS
<1>6. A \subseteq B /\ B \subseteq D
  <2>1. Picked(D, E, n) \subseteq Picked(D, E, m)
    BY <1>3, PickGrows
  <2>2. Picked(D, E, n) \subseteq D /\ Picked(D, E, m) \subseteq D
    BY <1>3 DEF Picked, Top
  <2> QED BY <1>1, <1>5, <2>1, <2>2
<1>7. PICK a, b : a = [i \in A |-> f[i]] /\ b = [i \in B |-> f[i]]
  OBVIOUS
<1>8. SumFunction(a) \in Nat /\ SumFunction(b) \in Nat /\ SumFunction(a) <= SumFunction(b)
  BY <1>3, <1>6, <1>7, SumMore
<1>9. pickLogLines(s, n) = [i \in A |-> s[i].size] /\ pickLogLines(s, m) = [i \in B |-> s[i].size]
  BY <1>4, <1>5
<1>10. a = pickLogLines(s, n) /\ b = pickLogLines(s, m)
  <2>1. \A i \in B : f[i] = s[i].size
    BY <1>1, <1>6
  <2> QED BY <1>6, <1>7, <1>9, <2>1
<1> QED BY <1>8, <1>10

LEMMA RenderIs ==
    ASSUME NEW e, NEW a, NEW c, NEW l
    PROVE  render(e, a, c, l) =
             e.fixed + SumFunction(newestEvents(e.events, a)) + (IF Len(e.events) - a > 0 THEN NoteSize ELSE 0)
             + SumFunction([i \in 1..c |-> e.members[i]]) + (IF Len(e.members) - c > 0 THEN NoteSize ELSE 0)
             + (IF l < 0 THEN e.raw ELSE SumFunction(pickLogLines(e.logs, l)) + NoteSize)
  BY Zenon DEF render

Parts(e, a, c, l, fixed, ea, na, mc, nc, ll) ==
    /\ fixed = e.fixed
    /\ ea = SumFunction(newestEvents(e.events, a))
    /\ na = (IF Len(e.events) - a > 0 THEN NoteSize ELSE 0)
    /\ mc = SumFunction([i \in 1..c |-> e.members[i]])
    /\ nc = (IF Len(e.members) - c > 0 THEN NoteSize ELSE 0)
    /\ ll = (IF l < 0 THEN e.raw ELSE SumFunction(pickLogLines(e.logs, l)) + NoteSize)

Renders(e, a, c, l, fixed, ea, na, mc, nc, ll) == render(e, a, c, l) = fixed + ea + na + mc + nc + ll

LEMMA RenderParts ==
    ASSUME NEW e, NEW a, NEW c, NEW l, NEW fixed, NEW ea, NEW na, NEW mc, NEW nc, NEW ll,
           Parts(e, a, c, l, fixed, ea, na, mc, nc, ll)
    PROVE  Renders(e, a, c, l, fixed, ea, na, mc, nc, ll)
  BY RenderIs, Zenon DEF Parts, Renders

\* No less, and all of n only when it was all already.
Notch(a, b, n) == a <= b /\ (b = a \/ b < n)

LEMMA SixGrow ==
    ASSUME NEW f \in Nat, NEW a \in Nat, NEW b \in Nat, NEW c \in Nat, NEW d \in Nat, NEW l \in Nat,
           NEW v \in Nat, NEW w \in Nat, NEW x \in Nat, NEW y \in Nat, NEW z \in Nat,
           a <= v, b <= w, c <= x, d <= y, l <= z
    PROVE  f + a + b + c + d + l \in Nat /\ f + a + b + c + d + l <= f + v + w + x + y + z
  OBVIOUS

\* More of the evidence makes a longer prompt, but for the last step, which has no note.
LEMMA RenderMore ==
    ASSUME NEW e, Gauged(e), NEW a \in Nat, NEW b \in Nat, Notch(a, b, Len(e.events)),
           NEW c \in 0..Len(e.members), NEW d \in 0..Len(e.members), Notch(c, d, Len(e.members)),
           NEW l \in Int, NEW k \in Int, (0 <= l /\ l <= k) \/ k = l
    PROVE  render(e, a, c, l) <= render(e, b, d, k) /\ render(e, a, c, l) \in Nat
<1>1. PICK ev \in Nat, mem \in Nat, fixed \in Nat, raw \in Nat, note \in Nat :
        ev = Len(e.events) /\ mem = Len(e.members) /\ fixed = e.fixed /\ raw = e.raw /\ note = NoteSize
  <2>1. Len(e.events) \in Nat
    BY SeqIs, Zenon DEF Gauged
  <2>2. Len(e.members) \in Nat
    BY SeqIs, Zenon DEF Gauged
  <2> QED BY <2>1, <2>2, GatheredAssumption DEF Gauged
<1>2. PICK ea \in Nat, eb \in Nat : /\ ea = SumFunction(newestEvents(e.events, a))
                                    /\ eb = SumFunction(newestEvents(e.events, b)) /\ ea <= eb
  BY EventsMore DEF Gauged, Notch
<1>a. PICK fc, fd : fc = [i \in 1..c |-> e.members[i]] /\ fd = [i \in 1..d |-> e.members[i]]
  OBVIOUS
<1>3. PICK mc \in Nat, md \in Nat : mc = SumFunction(fc) /\ md = SumFunction(fd) /\ mc <= md
  BY <1>a, MembersMore DEF Gauged, Notch
<1>4. PICK ll \in Nat, lk \in Nat : /\ ll = IF l < 0 THEN raw ELSE SumFunction(pickLogLines(e.logs, l)) + note
                                    /\ lk = IF k < 0 THEN raw ELSE SumFunction(pickLogLines(e.logs, k)) + note
                                    /\ ll <= lk
  <2>1. CASE l < 0
    BY <2>1
  <2>2. CASE l >= 0
    <3>1. PICK x \in Nat, y \in Nat : x = SumFunction(pickLogLines(e.logs, l)) /\ y = SumFunction(pickLogLines(e.logs, k)) /\ x <= y
      <4>1. l \in Nat /\ k \in Nat /\ l <= k
        BY <2>2
      <4> QED BY <4>1, LinesMore DEF Gauged
    <3> QED BY <2>2, <3>1
  <2> QED BY <2>1, <2>2
<1>5. PICK na \in Nat, nb \in Nat, nc \in Nat, nd \in Nat :
        /\ na = IF ev - a > 0 THEN note ELSE 0
        /\ nb = IF ev - b > 0 THEN note ELSE 0
        /\ nc = IF mem - c > 0 THEN note ELSE 0
        /\ nd = IF mem - d > 0 THEN note ELSE 0
  OBVIOUS
<1>6. na <= nb /\ nc <= nd
  BY <1>1, <1>5 DEF Notch
<1>7. render(e, a, c, l) = fixed + ea + na + mc + nc + ll
  <2>2. na = (IF Len(e.events) - a > 0 THEN NoteSize ELSE 0)
    BY <1>1, <1>5
  <2>3. nc = (IF Len(e.members) - c > 0 THEN NoteSize ELSE 0)
    BY <1>1, <1>5
  <2>4. ll = (IF l < 0 THEN e.raw ELSE SumFunction(pickLogLines(e.logs, l)) + NoteSize)
    BY <1>1, <1>4
  <2>5. fixed = e.fixed
    BY <1>1
  <2>6. ea = SumFunction(newestEvents(e.events, a))
    BY <1>2
  <2>7. mc = SumFunction([i \in 1..c |-> e.members[i]])
    BY <1>a, <1>3
  <2>8. Parts(e, a, c, l, fixed, ea, na, mc, nc, ll)
    BY <2>2, <2>3, <2>4, <2>5, <2>6, <2>7, Zenon DEF Parts
  <2>9. Renders(e, a, c, l, fixed, ea, na, mc, nc, ll)
    BY <2>8, RenderParts, Zenon
  <2> QED BY <2>9, Zenon DEF Renders
<1>8. render(e, b, d, k) = fixed + eb + nb + md + nd + lk
  <2>2. nb = (IF Len(e.events) - b > 0 THEN NoteSize ELSE 0)
    BY <1>1, <1>5
  <2>3. nd = (IF Len(e.members) - d > 0 THEN NoteSize ELSE 0)
    BY <1>1, <1>5
  <2>4. lk = (IF k < 0 THEN e.raw ELSE SumFunction(pickLogLines(e.logs, k)) + NoteSize)
    BY <1>1, <1>4
  <2>5. fixed = e.fixed
    BY <1>1
  <2>6. eb = SumFunction(newestEvents(e.events, b))
    BY <1>2
  <2>7. md = SumFunction([i \in 1..d |-> e.members[i]])
    BY <1>a, <1>3
  <2>8. Parts(e, b, d, k, fixed, eb, nb, md, nd, lk)
    BY <2>2, <2>3, <2>4, <2>5, <2>6, <2>7, Zenon DEF Parts
  <2>9. Renders(e, b, d, k, fixed, eb, nb, md, nd, lk)
    BY <2>8, RenderParts, Zenon
  <2> QED BY <2>9, Zenon DEF Renders
<1>9. ea <= eb /\ na <= nb /\ mc <= md /\ nc <= nd /\ ll <= lk
  BY <1>2, <1>3, <1>4, <1>6
<1>10. fixed + ea + na + mc + nc + ll \in Nat /\ fixed + ea + na + mc + nc + ll <= fixed + eb + nb + md + nd + lk
  BY <1>9, SixGrow
<1> QED BY <1>7, <1>8, <1>10

\* What the binary search keeps of n when all n are too much.
LEMMA SomeOfAll ==
    ASSUME NEW n \in Nat, NEW ok \in [0..n -> BOOLEAN], ~ok[n], \A a, b \in 0..n : a < b /\ b < n /\ ok[b] => ok[a]
    PROVE  /\ most(n, ok) \in 0..n
           /\ ok[most(n, ok)] \/ most(n, ok) = 0
           /\ \A k \in 0..n : ok[k] => k <= most(n, ok)
<1>1. \A a, b \in 0..n : a < b /\ ok[b] => ok[a]
  <2> SUFFICES ASSUME NEW a \in 0..n, NEW b \in 0..n, a < b, ok[b] PROVE ok[a]
    OBVIOUS
  <2>1. b # n
    OBVIOUS
  <2> QED BY <2>1
<1> QED BY <1>1, MostIs

\* BestForm, of any evidence.
Best(e, budget, kept) ==
    LET ok == {f \in Forms(e) : budget <= 0 \/ render(e, f[1], f[2], f[3]) <= budget}
    IN IF ok = {} THEN kept = <<0, 0, IF e.raw = 0 THEN -1 ELSE 0>>
       ELSE kept \in ok /\ \A f \in ok \ {kept} : Fuller(kept, f)

Sized(e, ev, mem, lgs, none) ==
    ev = Len(e.events) /\ mem = Len(e.members) /\ lgs = Len(e.logs) /\ none = (IF e.raw = 0 THEN -1 ELSE 0)

Shaped(e, ev, mem, lgs, none, f) ==
    \/ f = <<ev, mem, -1>>
    \/ e.raw # 0 /\ \E n \in 0..lgs : f = <<ev, mem, n>>
    \/ \E n \in 0..mem : f = <<ev, n, none>>
    \/ \E n \in 0..ev : f = <<n, 0, none>>

LEMMA FormsAre ==
    ASSUME NEW e, NEW ev, NEW mem, NEW lgs, NEW none, Sized(e, ev, mem, lgs, none), NEW f
    PROVE  f \in Forms(e) <=> Shaped(e, ev, mem, lgs, none, f)
<1>1. PICK A, B, C : A = {<<ev, mem, n>> : n \in 0..lgs} /\ B = {<<ev, n, none>> : n \in 0..mem} /\ C = {<<n, 0, none>> : n \in 0..ev}
  OBVIOUS
<1>2. Forms(e) = {<<ev, mem, -1>>} \cup (IF e.raw = 0 THEN {} ELSE A) \cup B \cup C
  <2>1. /\ A = {<<Len(e.events), Len(e.members), n>> : n \in 0..Len(e.logs)}
        /\ B = {<<Len(e.events), n, IF e.raw = 0 THEN -1 ELSE 0>> : n \in 0..Len(e.members)}
        /\ C = {<<n, 0, IF e.raw = 0 THEN -1 ELSE 0>> : n \in 0..Len(e.events)}
    <3>1. A = {<<Len(e.events), Len(e.members), n>> : n \in 0..Len(e.logs)}
      BY <1>1, Zenon DEF Sized
    <3>2. B = {<<Len(e.events), n, IF e.raw = 0 THEN -1 ELSE 0>> : n \in 0..Len(e.members)}
      BY <1>1, Zenon DEF Sized
    <3>3. C = {<<n, 0, IF e.raw = 0 THEN -1 ELSE 0>> : n \in 0..Len(e.events)}
      BY <1>1, Zenon DEF Sized
    <3> QED BY <3>1, <3>2, <3>3, Zenon
  <2>2. Forms(e) = {<<Len(e.events), Len(e.members), -1>>} \cup (IF e.raw = 0 THEN {} ELSE A) \cup B \cup C
    BY <2>1, Zenon DEF Forms
  <2>3. ev = Len(e.events) /\ mem = Len(e.members)
    BY Zenon DEF Sized
  <2> QED BY <2>2, <2>3, Zenon
<1>3. (f \in A <=> \E n \in 0..lgs : f = <<ev, mem, n>>) /\ (f \in B <=> \E n \in 0..mem : f = <<ev, n, none>>)
      /\ (f \in C <=> \E n \in 0..ev : f = <<n, 0, none>>)
  BY <1>1, Zenon
<1>4. f \in Forms(e) <=> f = <<ev, mem, -1>> \/ (e.raw # 0 /\ f \in A) \/ f \in B \/ f \in C
  <2>1. CASE e.raw = 0
    BY <1>2, <2>1, Zenon
  <2>2. CASE e.raw # 0
    BY <1>2, <2>2, Zenon
  <2> QED BY <2>1, <2>2
<1>5. (f \in A <=> \E n \in 0..lgs : f = <<ev, mem, n>>) /\ (f \in B <=> \E n \in 0..mem : f = <<ev, n, none>>)
      /\ (f \in C <=> \E n \in 0..ev : f = <<n, 0, none>>)
      => (f = <<ev, mem, -1>> \/ (e.raw # 0 /\ f \in A) \/ f \in B \/ f \in C <=> Shaped(e, ev, mem, lgs, none, f))
  BY DEF Shaped
<1> QED BY <1>3, <1>4, <1>5, Zenon

\* f is within the budget.
Within(e, budget, f) == budget <= 0 \/ render(e, f[1], f[2], f[3]) <= budget

LEMMA BestKept ==
    ASSUME NEW e, NEW budget, NEW kept, kept \in Forms(e), Within(e, budget, kept),
           \A f \in Forms(e) : Within(e, budget, f) /\ f # kept => Fuller(kept, f)
    PROVE  Best(e, budget, kept)
<1>1. PICK ok : ok = {f \in Forms(e) : Within(e, budget, f)}
  OBVIOUS
<1>2. kept \in ok /\ ok # {} /\ \A f \in ok \ {kept} : Fuller(kept, f)
  BY <1>1
<1>3. ok = {f \in Forms(e) : budget <= 0 \/ render(e, f[1], f[2], f[3]) <= budget}
  BY <1>1, Zenon DEF Within
<1> QED BY <1>2, <1>3, Zenon DEF Best

LEMMA BestNone ==
    ASSUME NEW e, NEW budget, NEW kept, \A f \in Forms(e) : ~Within(e, budget, f),
           kept = <<0, 0, IF e.raw = 0 THEN -1 ELSE 0>>
    PROVE  Best(e, budget, kept)
<1>1. {f \in Forms(e) : budget <= 0 \/ render(e, f[1], f[2], f[3]) <= budget} = {}
  BY Zenon DEF Within
<1> QED BY <1>1, Zenon DEF Best

\* The searches of fit.
Tried(e, budget, ev, mem, lgs, lg, km, ke) ==
    /\ lg = (IF e.raw = 0 THEN -1 ELSE most(lgs, [n \in 0..lgs |-> render(e, ev, mem, n) <= budget]))
    /\ km = most(mem, [n \in 0..mem |-> render(e, ev, n, lg) <= budget])
    /\ ke = most(ev, [n \in 0..ev |-> render(e, n, km, lg) <= budget])

Fitted(e, budget, ev, mem, lg, km, ke, kept) ==
    kept = IF budget <= 0 \/ render(e, ev, mem, -1) <= budget THEN <<ev, mem, -1>>
           ELSE IF e.raw # 0 /\ render(e, ev, mem, lg) <= budget THEN <<ev, mem, lg>>
           ELSE IF render(e, ev, km, lg) <= budget THEN <<ev, km, lg>>
           ELSE <<ke, km, lg>>

LEMMA FitIs ==
    ASSUME NEW e, NEW budget, NEW ev, NEW mem, NEW lgs, NEW none, Sized(e, ev, mem, lgs, none),
           NEW lg, NEW km, NEW ke, Tried(e, budget, ev, mem, lgs, lg, km, ke)
    PROVE  Fitted(e, budget, ev, mem, lg, km, ke, fit(e, budget))
  BY Zenon DEF fit, Sized, Tried, Fitted

\* What the search keeps of n, when the sizes grow, or grow but for the last and that one is too much.
LEMMA SearchFits ==
    ASSUME NEW n \in Nat, NEW r, \A k \in 0..n : r[k] \in Nat, NEW budget \in Int,
           NEW ok, ok = [k \in 0..n |-> r[k] <= budget],
           \A a, b \in 0..n : a < b /\ r[b] <= budget => r[a] <= budget
    PROVE  /\ most(n, ok) \in 0..n
           /\ r[most(n, ok)] <= budget \/ most(n, ok) = 0
           /\ \A k \in 0..n : r[k] <= budget => k <= most(n, ok)
<1>1. \A k \in 0..n : ok[k] <=> r[k] <= budget
  BY Zenon
<1>2. ok \in [0..n -> BOOLEAN]
  OBVIOUS
<1>3. \A a, b \in 0..n : a < b /\ ok[b] => ok[a]
  BY <1>1, Zenon
<1>4. PICK m : m = most(n, ok)
  OBVIOUS
<1>5. m \in 0..n /\ (ok[m] \/ m = 0) /\ \A k \in 0..n : ok[k] => k <= m
  BY <1>2, <1>3, <1>4, MostIs
<1>6. r[m] <= budget \/ m = 0
  BY <1>1, <1>5, Zenon
<1>7. \A k \in 0..n : r[k] <= budget => k <= m
  BY <1>1, <1>5, Zenon
<1> QED BY <1>4, <1>5, <1>6, <1>7

\* fit sends the fullest form within the budget, or the smallest: what each search is over
\* grows with the count, but for the last one, and the whole is known not to fit.
LEMMA FitBest ==
    ASSUME NEW e, Gauged(e), NEW budget \in Int
    PROVE  Best(e, budget, fit(e, budget))
<1>1. PICK ev \in Nat, mem \in Nat, lgs \in Nat : ev = Len(e.events) /\ mem = Len(e.members) /\ lgs = Len(e.logs)
  <2>1. Len(e.events) \in Nat
    BY SeqIs, Zenon DEF Gauged
  <2>2. Len(e.members) \in Nat
    BY SeqIs, Zenon DEF Gauged
  <2>3. Len(e.logs) \in Nat
    BY SeqIs, Zenon DEF Gauged
  <2> QED BY <2>1, <2>2, <2>3
<1>2. PICK none \in {-1, 0} : none = (IF e.raw = 0 THEN -1 ELSE 0)
  OBVIOUS
<1>3. PICK L : L = [n \in 0..lgs |-> render(e, ev, mem, n) <= budget]
  OBVIOUS
<1>4. PICK lg : lg = (IF e.raw = 0 THEN -1 ELSE most(lgs, L))
  OBVIOUS
<1>5. PICK M : M = [n \in 0..mem |-> render(e, ev, n, lg) <= budget]
  OBVIOUS
<1>6. PICK km : km = most(mem, M)
  OBVIOUS
<1>7. PICK E : E = [n \in 0..ev |-> render(e, n, km, lg) <= budget]
  OBVIOUS
<1>8. PICK ke : ke = most(ev, E)
  OBVIOUS
<1>a. Sized(e, ev, mem, lgs, none)
  BY <1>1, <1>2, Zenon DEF Sized
<1>b. Tried(e, budget, ev, mem, lgs, lg, km, ke)
  BY <1>3, <1>4, <1>5, <1>6, <1>7, <1>8, Zenon DEF Tried
<1>9. PICK kept : kept = fit(e, budget)
  OBVIOUS
<1>c. Fitted(e, budget, ev, mem, lg, km, ke, kept)
  BY <1>9, <1>a, <1>b, FitIs, Zenon
<1>10. kept = IF budget <= 0 \/ render(e, ev, mem, -1) <= budget THEN <<ev, mem, -1>>
              ELSE IF e.raw # 0 /\ render(e, ev, mem, lg) <= budget THEN <<ev, mem, lg>>
              ELSE IF render(e, ev, km, lg) <= budget THEN <<ev, km, lg>>
              ELSE <<ke, km, lg>>
  BY <1>c, Zenon DEF Fitted
<1>11. \A f : f \in Forms(e) <=> \/ f = <<ev, mem, -1>>
                                 \/ e.raw # 0 /\ \E n \in 0..lgs : f = <<ev, mem, n>>
                                 \/ \E n \in 0..mem : f = <<ev, n, none>>
                                 \/ \E n \in 0..ev : f = <<n, 0, none>>
  <2>1. \A f : f \in Forms(e) <=> Shaped(e, ev, mem, lgs, none, f)
    BY <1>a, FormsAre, Zenon
  <2> QED BY <2>1, Zenon DEF Shaped
<1>12. \A f \in Forms(e) : f # <<ev, mem, -1>> => Fuller(<<ev, mem, -1>>, f)
  <2> SUFFICES ASSUME NEW f \in Forms(e), f # <<ev, mem, -1>> PROVE Fuller(<<ev, mem, -1>>, f)
    OBVIOUS
  <2>1. CASE e.raw # 0 /\ \E n \in 0..lgs : f = <<ev, mem, n>>
    BY <2>1 DEF Fuller
  <2>2. CASE \E n \in 0..mem : f = <<ev, n, none>>
    BY <1>2, <2>2 DEF Fuller
  <2>3. CASE \E n \in 0..ev : f = <<n, 0, none>>
    BY <1>2, <2>3 DEF Fuller
  <2> QED BY <1>11, <2>1, <2>2, <2>3, Zenon
<1>13. CASE budget <= 0 \/ render(e, ev, mem, -1) <= budget
  <2>1. kept = <<ev, mem, -1>>
    BY <1>10, <1>13, Zenon
  <2>2. kept \in Forms(e)
    BY <1>11, <2>1, Zenon
  <2>3. Within(e, budget, kept)
    <3>1. kept[1] = ev /\ kept[2] = mem /\ kept[3] = -1
      BY <2>1
    <3> QED BY <1>13, <3>1, Zenon DEF Within
  <2>4. \A f \in Forms(e) : f # kept => Fuller(kept, f)
    BY <1>12, <2>1, Zenon
  <2> QED BY <1>9, <2>2, <2>3, <2>4, BestKept, Zenon
<1>14. CASE budget > 0 /\ ~(render(e, ev, mem, -1) <= budget)
  <2>1. Notch(ev, ev, Len(e.events)) /\ Notch(mem, mem, Len(e.members)) /\ mem \in 0..Len(e.members) /\ 0 \in 0..Len(e.members)
    BY <1>1 DEF Notch
  <2>2. PICK rl : rl = [n \in 0..lgs |-> render(e, ev, mem, n)]
    OBVIOUS
  <2>3. \A n \in 0..lgs : rl[n] = render(e, ev, mem, n)
    BY <2>2, Zenon
  <2>4. \A a, b \in 0..lgs : a <= b => rl[a] <= rl[b] /\ rl[a] \in Nat
    <3> SUFFICES ASSUME NEW a \in 0..lgs, NEW b \in 0..lgs, a <= b PROVE rl[a] <= rl[b] /\ rl[a] \in Nat
      OBVIOUS
    <3>1. a \in Int /\ b \in Int /\ ((0 <= a /\ a <= b) \/ b = a)
      OBVIOUS
    <3>2. render(e, ev, mem, a) <= render(e, ev, mem, b) /\ render(e, ev, mem, a) \in Nat
      BY <2>1, <3>1, RenderMore
    <3> QED BY <2>3, <3>2
  <2>5. /\ most(lgs, L) \in 0..lgs
        /\ rl[most(lgs, L)] <= budget \/ most(lgs, L) = 0
        /\ \A k \in 0..lgs : rl[k] <= budget => k <= most(lgs, L)
    <3>1. \A k \in 0..lgs : rl[k] \in Nat
      BY <2>4
    <3>2. \A a, b \in 0..lgs : a < b /\ rl[b] <= budget => rl[a] <= budget
      BY <2>4
    <3>3. L = [k \in 0..lgs |-> rl[k] <= budget]
      BY <1>3, <2>3
    <3> QED BY <3>1, <3>2, <3>3, SearchFits
  <2>6. /\ lg \in Int
        /\ e.raw = 0 => lg = -1
        /\ e.raw # 0 => /\ lg \in 0..lgs
                        /\ rl[lg] <= budget \/ lg = 0
                        /\ \A k \in 0..lgs : rl[k] <= budget => k <= lg
    <3>4. CASE e.raw = 0
      BY <1>4, <3>4
    <3>5. CASE e.raw # 0
      <4>1. lg = most(lgs, L)
        BY <1>4, <3>5
      <4> QED BY <2>5, <3>5, <4>1
    <3> QED BY <3>4, <3>5
  <2>7. \A a, c, l : Within(e, budget, <<a, c, l>>) <=> render(e, a, c, l) <= budget
    <3> SUFFICES ASSUME NEW a, NEW c, NEW l PROVE Within(e, budget, <<a, c, l>>) <=> render(e, a, c, l) <= budget
      OBVIOUS
    <3>1. PICK f : f = <<a, c, l>>
      OBVIOUS
    <3>2. f[1] = a /\ f[2] = c /\ f[3] = l
      BY <3>1
    <3>3. ~(budget <= 0)
      BY <1>14
    <3> QED BY <3>1, <3>2, <3>3, Zenon DEF Within
  <2>8. ~Within(e, budget, <<ev, mem, -1>>)
    BY <1>14, <2>7
  <2>9. CASE e.raw # 0 /\ rl[lg] <= budget
    <3>1. lg \in 0..lgs /\ rl[lg] = render(e, ev, mem, lg) /\ none = 0
      BY <1>2, <2>3, <2>6, <2>9
    <3>2. kept = <<ev, mem, lg>>
      BY <1>10, <1>14, <2>9, <3>1
    <3>3. kept \in Forms(e)
      BY <1>11, <2>9, <3>1, <3>2, Zenon
    <3>4. Within(e, budget, kept)
      BY <2>7, <2>9, <3>1, <3>2, Zenon
    <3>5. ASSUME NEW f \in Forms(e), Within(e, budget, f), f # kept
          PROVE  Fuller(kept, f)
      <4>1. CASE \E n \in 0..lgs : f = <<ev, mem, n>>
        <5>1. PICK n \in 0..lgs : f = <<ev, mem, n>>
          BY <4>1
        <5>2. render(e, ev, mem, n) <= budget
          BY <2>7, <3>5, <5>1, Zenon
        <5>3. rl[n] <= budget
          BY <2>3, <5>2, Zenon
        <5>4. n <= lg
          BY <2>6, <2>9, <5>3
        <5>5. n # lg
          BY <3>2, <3>5, <5>1
        <5> QED BY <3>1, <3>2, <5>1, <5>4, <5>5 DEF Fuller
      <4>2. CASE \E n \in 0..mem : f = <<ev, n, none>> /\ n < mem
        BY <3>1, <3>2, <4>2 DEF Fuller
      <4>3. CASE \E n \in 0..ev : f = <<n, 0, none>> /\ (n < ev \/ 0 < mem)
        BY <3>1, <3>2, <4>3 DEF Fuller
      <4>4. f # <<ev, mem, -1>>
        BY <2>8, <3>5, Zenon
      <4>5. \/ \E n \in 0..lgs : f = <<ev, mem, n>>
            \/ \E n \in 0..mem : f = <<ev, n, none>>
            \/ \E n \in 0..ev : f = <<n, 0, none>>
        BY <1>11, <4>4, Zenon
      <4>6. 0 \in 0..lgs
        OBVIOUS
      <4>7. \A n \in 0..mem : n < mem \/ n = mem
        OBVIOUS
      <4>8. \A n \in 0..ev : n < ev \/ 0 < mem \/ (n = ev /\ 0 = mem)
        OBVIOUS
      <4> QED BY <3>1, <4>1, <4>2, <4>3, <4>5, <4>6, <4>7, <4>8, Zenon
    <3> QED BY <1>9, <3>3, <3>4, <3>5, BestKept, Zenon
  <2>10. CASE ~(e.raw # 0 /\ rl[lg] <= budget)
    <3>1. lg = none /\ ~(render(e, ev, mem, lg) <= budget)
      <4>1. CASE e.raw = 0
        BY <1>2, <1>14, <2>6, <4>1
      <4>2. CASE e.raw # 0
        <5>1. lg \in 0..lgs /\ lg = 0 /\ ~(rl[lg] <= budget)
          BY <2>6, <2>10, <4>2
        <5>2. none = 0
          BY <1>2, <4>2
        <5>3. ~(render(e, ev, mem, lg) <= budget)
          BY <2>3, <5>1, Zenon
        <5> QED BY <5>1, <5>2, <5>3
      <4> QED BY <4>1, <4>2
    <3>2. e.raw # 0 => \A n \in 0..lgs : ~Within(e, budget, <<ev, mem, n>>)
      <4> SUFFICES ASSUME e.raw # 0, NEW n \in 0..lgs, rl[n] <= budget PROVE FALSE
        BY <2>3, <2>7, Zenon
      <4>1. n <= lg /\ lg \in 0..lgs /\ (rl[lg] <= budget \/ lg = 0)
        BY <2>6
      <4>2. lg = 0
        BY <2>10, <4>1
      <4>3. n = lg
        BY <4>1, <4>2
      <4> QED BY <2>10, <4>3
    <3>3. PICK rm : rm = [n \in 0..mem |-> render(e, ev, n, lg)]
      OBVIOUS
    <3>4. \A n \in 0..mem : rm[n] = render(e, ev, n, lg)
      BY <3>3, Zenon
    <3>5. \A a, b \in 0..mem : a < b /\ b < mem => rm[a] <= rm[b]
      <4> SUFFICES ASSUME NEW a \in 0..mem, NEW b \in 0..mem, a < b, b < mem PROVE rm[a] <= rm[b]
        OBVIOUS
      <4>1. Notch(a, b, Len(e.members)) /\ a \in 0..Len(e.members) /\ b \in 0..Len(e.members)
        BY <1>1 DEF Notch
      <4>2. render(e, ev, a, lg) <= render(e, ev, b, lg)
        BY <2>1, <2>6, <4>1, RenderMore
      <4> QED BY <3>4, <4>2
    <3>6. \A n \in 0..mem : rm[n] \in Nat
      <4> SUFFICES ASSUME NEW n \in 0..mem PROVE rm[n] \in Nat
        OBVIOUS
      <4>1. Notch(n, n, Len(e.members)) /\ n \in 0..Len(e.members)
        BY <1>1 DEF Notch
      <4>2. render(e, ev, n, lg) \in Nat
        BY <2>1, <2>6, <4>1, RenderMore
      <4> QED BY <3>4, <4>2
    <3>7. ~(rm[mem] <= budget)
      BY <3>1, <3>4
    <3>8. /\ km \in 0..mem
          /\ rm[km] <= budget \/ km = 0
          /\ \A k \in 0..mem : rm[k] <= budget => k <= km
      <4>1. \A a, b \in 0..mem : a < b /\ rm[b] <= budget => rm[a] <= budget
        <5> SUFFICES ASSUME NEW a \in 0..mem, NEW b \in 0..mem, a < b, rm[b] <= budget PROVE rm[a] <= budget
          OBVIOUS
        <5>1. b < mem
          BY <3>7
        <5>2. rm[a] <= rm[b] /\ rm[a] \in Nat /\ rm[b] \in Nat
          BY <3>5, <3>6, <5>1
        <5> QED BY <5>2
      <4>2. M = [k \in 0..mem |-> rm[k] <= budget]
        BY <1>5, <3>4
      <4> QED BY <1>6, <3>6, <4>1, <4>2, SearchFits
    <3>9. \A n \in 0..mem : Within(e, budget, <<ev, n, none>>) <=> rm[n] <= budget
      BY <2>7, <3>1, <3>4, Zenon
    <3>10. \A f \in Forms(e) : Within(e, budget, f) =>
             (\E n \in 0..mem : f = <<ev, n, none>>) \/ (\E n \in 0..ev : f = <<n, 0, none>>)
      BY <1>11, <2>8, <3>2, Zenon
    <3>11. CASE rm[km] <= budget
      <4>1. kept = <<ev, km, none>>
        <5>1. render(e, ev, km, lg) <= budget
          BY <3>4, <3>8, <3>11, Zenon
        <5>2. ~(budget <= 0)
          BY <1>14
        <5>3. ~(e.raw # 0 /\ render(e, ev, mem, lg) <= budget)
          BY <3>1, Zenon
        <5> QED BY <1>10, <1>14, <3>1, <5>1, <5>2, <5>3, Zenon
      <4>2. kept \in Forms(e)
        BY <1>11, <3>8, <4>1, Zenon
      <4>3. Within(e, budget, kept)
        BY <3>8, <3>9, <3>11, <4>1, Zenon
      <4>4. ASSUME NEW f \in Forms(e), Within(e, budget, f), f # kept
            PROVE  Fuller(kept, f)
        <5>1. CASE \E n \in 0..mem : f = <<ev, n, none>>
          <6>1. PICK n \in 0..mem : f = <<ev, n, none>>
            BY <5>1
          <6>2. rm[n] <= budget
            BY <3>9, <4>4, <6>1, Zenon
          <6>3. n < km
            BY <3>8, <4>1, <4>4, <6>1, <6>2
          <6> QED BY <4>1, <6>1, <6>3 DEF Fuller
        <5>2. CASE \E n \in 0..ev : f = <<n, 0, none>> /\ n < ev
          BY <4>1, <5>2 DEF Fuller
        <5>3. \A n \in 0..ev : n < ev \/ n = ev
          OBVIOUS
        <5>4. 0 \in 0..mem
          OBVIOUS
        <5> QED BY <3>10, <4>4, <5>1, <5>2, <5>3, <5>4, Zenon
      <4> QED BY <1>9, <4>2, <4>3, <4>4, BestKept, Zenon
    <3>12. CASE ~(rm[km] <= budget)
      <4>1. km = 0
        BY <3>8, <3>12
      <4>2. \A n \in 0..mem : ~(rm[n] <= budget)
        <5> SUFFICES ASSUME NEW n \in 0..mem, rm[n] <= budget PROVE FALSE
          OBVIOUS
        <5>1. n <= km
          BY <3>8
        <5>2. n = km
          BY <4>1, <5>1
        <5> QED BY <3>12, <5>2
      <4>3. kept = <<ke, 0, none>>
        <5>1. ~(render(e, ev, km, lg) <= budget)
          BY <3>4, <3>8, <3>12, Zenon
        <5>2. ~(budget <= 0)
          BY <1>14
        <5>3. ~(e.raw # 0 /\ render(e, ev, mem, lg) <= budget)
          BY <3>1, Zenon
        <5>4. kept = <<ke, km, lg>>
          BY <1>10, <1>14, <5>1, <5>2, <5>3, Zenon
        <5> QED BY <3>1, <4>1, <5>4
      <4>4. PICK re : re = [n \in 0..ev |-> render(e, n, 0, lg)]
        OBVIOUS
      <4>5. \A n \in 0..ev : re[n] = render(e, n, 0, lg)
        BY <4>4, Zenon
      <4>6. Notch(0, 0, Len(e.members))
        BY DEF Notch
      <4>7. \A a, b \in 0..ev : a < b /\ b < ev => re[a] <= re[b]
        <5> SUFFICES ASSUME NEW a \in 0..ev, NEW b \in 0..ev, a < b, b < ev PROVE re[a] <= re[b]
          OBVIOUS
        <5>1. Notch(a, b, Len(e.events)) /\ a \in Nat /\ b \in Nat
          BY <1>1 DEF Notch
        <5>2. render(e, a, 0, lg) <= render(e, b, 0, lg)
          BY <2>1, <2>6, <4>6, <5>1, RenderMore
        <5> QED BY <4>5, <5>2
      <4>8. \A n \in 0..ev : re[n] \in Nat
        <5> SUFFICES ASSUME NEW n \in 0..ev PROVE re[n] \in Nat
          OBVIOUS
        <5>1. Notch(n, n, Len(e.events)) /\ n \in Nat
          BY <1>1 DEF Notch
        <5>2. render(e, n, 0, lg) \in Nat
          BY <2>1, <2>6, <4>6, <5>1, RenderMore
        <5> QED BY <4>5, <5>2
      <4>9. ~(re[ev] <= budget)
        <5>1. 0 \in 0..mem /\ ev \in 0..ev
          OBVIOUS
        <5> QED BY <3>4, <4>2, <4>5, <5>1, Zenon
      <4>10. /\ ke \in 0..ev
             /\ re[ke] <= budget \/ ke = 0
             /\ \A k \in 0..ev : re[k] <= budget => k <= ke
        <5>1. \A a, b \in 0..ev : a < b /\ re[b] <= budget => re[a] <= budget
          <6> SUFFICES ASSUME NEW a \in 0..ev, NEW b \in 0..ev, a < b, re[b] <= budget PROVE re[a] <= budget
            OBVIOUS
          <6>1. b < ev
            BY <4>9
          <6>2. re[a] <= re[b] /\ re[a] \in Nat /\ re[b] \in Nat
            BY <4>7, <4>8, <6>1
          <6> QED BY <6>2
        <5>2. E = [k \in 0..ev |-> re[k] <= budget]
          BY <1>7, <4>1, <4>5
        <5> QED BY <1>8, <4>8, <5>1, <5>2, SearchFits
      <4>11. \A n \in 0..ev : Within(e, budget, <<n, 0, none>>) <=> re[n] <= budget
        BY <2>7, <3>1, <4>5, Zenon
      <4>12. \A f \in Forms(e) : Within(e, budget, f) => \E n \in 0..ev : f = <<n, 0, none>> /\ re[n] <= budget
        BY <3>9, <3>10, <4>2, <4>11, Zenon
      <4>13. CASE re[ke] <= budget
        <5>1. kept \in Forms(e)
          BY <1>11, <4>3, <4>10, Zenon
        <5>2. Within(e, budget, kept)
          BY <4>3, <4>10, <4>11, <4>13, Zenon
        <5>3. ASSUME NEW f \in Forms(e), Within(e, budget, f), f # kept
              PROVE  Fuller(kept, f)
          <6>1. PICK n \in 0..ev : f = <<n, 0, none>> /\ re[n] <= budget
            BY <4>12, <5>3
          <6>2. n < ke
            BY <4>3, <4>10, <5>3, <6>1
          <6> QED BY <4>3, <6>1, <6>2 DEF Fuller
        <5> QED BY <1>9, <5>1, <5>2, <5>3, BestKept, Zenon
      <4>14. CASE ~(re[ke] <= budget)
        <5>1. ke = 0
          BY <4>10, <4>14
        <5>2. \A n \in 0..ev : ~(re[n] <= budget)
          <6> SUFFICES ASSUME NEW n \in 0..ev, re[n] <= budget PROVE FALSE
            OBVIOUS
          <6>1. n <= ke
            BY <4>10
          <6>2. n = ke
            BY <5>1, <6>1
          <6> QED BY <4>14, <6>2
        <5>3. \A f \in Forms(e) : ~Within(e, budget, f)
          BY <4>12, <5>2, Zenon
        <5>4. kept = <<0, 0, IF e.raw = 0 THEN -1 ELSE 0>>
          BY <1>2, <4>3, <5>1
        <5> QED BY <1>9, <5>3, <5>4, BestNone, Zenon
      <4> QED BY <4>13, <4>14
    <3> QED BY <3>11, <3>12
  <2> QED BY <2>9, <2>10
<1> QED BY <1>13, <1>14

\* The warnings podLast is given.
Warned(w) ==
    /\ Len(w) \in Nat /\ DOMAIN w = 1..Len(w)
    /\ \A i \in DOMAIN w : w[i].of \in Nat /\ w[i].at \in Nat /\ w[i].size \in Nat

\* Those of a Pod, with a time.
OfPods(w) == {i \in DOMAIN w : w[i].of # 0 /\ w[i].at > 0}

\* Each Pod with its newest warning.
LEMMA LastIs ==
    ASSUME NEW w, Warned(w)
    PROVE  /\ IsFiniteSet(DOMAIN podLast(w)) /\ DOMAIN podLast(w) = {w[i].of : i \in OfPods(w)}
           /\ \A p \in DOMAIN podLast(w) : \E i \in OfPods(w) : w[i].of = p /\ w[i].at = podLast(w)[p]
           /\ \A i \in OfPods(w) : w[i].at <= podLast(w)[w[i].of]
<1>1. PICK l, S, P : l = podLast(w) /\ S = OfPods(w) /\ P = {w[i].of : i \in S}
  OBVIOUS
<1>2. PICK A : A = [p \in P |-> {w[i].at : i \in {j \in DOMAIN w : w[j].of = p /\ w[j].at > 0}}]
  OBVIOUS
<1>3. l = [p \in P |-> Max(A[p])]
  <2>1. podLast(w) = [p \in {w[i].of : i \in {j \in DOMAIN w : w[j].of # 0 /\ w[j].at > 0}} |->
                        Max({w[i].at : i \in {j \in DOMAIN w : w[j].of = p /\ w[j].at > 0}})]
    BY Zenon DEF podLast
  <2>2. P = {w[i].of : i \in {j \in DOMAIN w : w[j].of # 0 /\ w[j].at > 0}}
    BY <1>1, Zenon DEF OfPods
  <2>3. l = [p \in P |-> Max({w[i].at : i \in {j \in DOMAIN w : w[j].of = p /\ w[j].at > 0}})]
    BY <1>1, <2>1, <2>2, Zenon
  <2> QED BY <1>2, <2>3
<1>4. IsFiniteSet(DOMAIN w) /\ S \subseteq DOMAIN w
  BY <1>1, FS_Interval DEF Warned, OfPods
<1>5. IsFiniteSet(P)
  <2>1. IsFiniteSet(S)
    BY <1>4, FS_Subset
  <2>2. PICK f : f = [i \in S |-> w[i].of]
    OBVIOUS
  <2>3. P = {f[i] : i \in S}
    BY <1>1, <2>2
  <2> QED BY <2>1, <2>2, <2>3, ImageFinite
<1>6. DOMAIN l = P
  BY <1>3
<1>7. ASSUME NEW p \in P
      PROVE  /\ l[p] \in A[p] /\ \A x \in A[p] : x <= l[p]
             /\ \A x : x \in A[p] <=> \E i \in S : w[i].of = p /\ w[i].at = x
  <2>1. PICK B : B = {j \in DOMAIN w : w[j].of = p /\ w[j].at > 0}
    OBVIOUS
  <2>2. A[p] = {w[i].at : i \in B}
    BY <1>2, <2>1
  <2>3. PICK q \in S : p = w[q].of
    BY <1>1
  <2>4. p # 0
    BY <1>1, <2>3 DEF OfPods
  <2>5. B = {i \in S : w[i].of = p}
    BY <1>1, <2>1, <2>4 DEF OfPods
  <2>6. \A x : x \in A[p] <=> \E i \in S : w[i].of = p /\ w[i].at = x
    BY <2>2, <2>5, Zenon
  <2>7. A[p] \subseteq Nat /\ A[p] # {}
    <3>1. A[p] \subseteq Nat
      BY <1>4, <2>6 DEF Warned
    <3>2. A[p] # {}
      BY <2>3, <2>6
    <3> QED BY <3>1, <3>2
  <2>8. IsFiniteSet(A[p])
    <3>1. IsFiniteSet(B)
      BY <1>4, <2>1, FS_Subset
    <3>2. PICK f : f = [i \in B |-> w[i].at]
      OBVIOUS
    <3>3. A[p] = {f[i] : i \in B}
      BY <2>2, <3>2
    <3> QED BY <3>1, <3>2, <3>3, ImageFinite
  <2>9. Max(A[p]) \in A[p] /\ \A x \in A[p] : x <= Max(A[p])
    BY <2>7, <2>8, MaxIn
  <2> QED BY <1>3, <2>6, <2>9
<1>8. \A p \in P : \E i \in S : w[i].of = p /\ w[i].at = l[p]
  BY <1>7, Zenon
<1>9. \A i \in S : w[i].at <= l[w[i].of]
  <2> SUFFICES ASSUME NEW i \in S PROVE w[i].at <= l[w[i].of]
    OBVIOUS
  <2>1. w[i].of \in P
    BY <1>1
  <2>2. w[i].at \in A[w[i].of]
    BY <1>7, <2>1, Zenon
  <2> QED BY <1>7, <2>1, <2>2
<1> QED BY <1>1, <1>5, <1>6, <1>8, <1>9

Newest(l, P) ==
    [i \in 1..Cardinality(P) |->
       CHOOSE p \in P : Cardinality({q \in P : l[q] > l[p] \/ (l[q] = l[p] /\ q < p)}) = i - 1]

\* The Pods, each once, newest first.
LEMMA FailingAre ==
    ASSUME NEW w, Warned(w)
    PROVE  /\ Cardinality(DOMAIN podLast(w)) \in Nat
           /\ DOMAIN failingPods(w) = 1..Cardinality(DOMAIN podLast(w))
           /\ \A i \in DOMAIN failingPods(w) : failingPods(w)[i] \in DOMAIN podLast(w)
           /\ \A p \in DOMAIN podLast(w) : \E i \in DOMAIN failingPods(w) : failingPods(w)[i] = p
           /\ \A i, j \in DOMAIN failingPods(w) : i <= j =>
                podLast(w)[failingPods(w)[j]] <= podLast(w)[failingPods(w)[i]]
<1>1. PICK l, P, F, n : l = podLast(w) /\ P = DOMAIN l /\ F = failingPods(w) /\ n = Cardinality(P)
  OBVIOUS
<1>2. IsFiniteSet(P) /\ \A p \in P : p \in Nat /\ l[p] \in Nat
  <2>1. IsFiniteSet(P) /\ P = {w[i].of : i \in OfPods(w)}
    BY <1>1, LastIs
  <2>2. \A p \in P : \E i \in OfPods(w) : w[i].of = p /\ w[i].at = l[p]
    BY <1>1, LastIs, Zenon
  <2>3. \A i \in OfPods(w) : w[i].of \in Nat /\ w[i].at \in Nat
    BY DEF OfPods, Warned
  <2> QED BY <2>1, <2>2, <2>3
<1>3. n \in Nat
  BY <1>1, <1>2, FS_CardinalityType
<1>4. PICK B : B = {z \in P \X P : l[z[1]] > l[z[2]] \/ (l[z[1]] = l[z[2]] /\ z[1] < z[2])}
  OBVIOUS
<1>5. \A a, b \in P : <<a, b>> \in B <=> l[a] > l[b] \/ (l[a] = l[b] /\ a < b)
  BY <1>4
<1>6. Orders(B, P)
  <2>1. \A a, b \in P : a # b => <<a, b>> \in B \/ <<b, a>> \in B
    BY <1>2, <1>5
  <2>2. \A a, b \in P : <<a, b>> \in B => <<b, a>> \notin B
    BY <1>2, <1>5
  <2>3. \A a, b, c \in P : (<<a, b>> \in B /\ <<b, c>> \in B) => <<a, c>> \in B
    BY <1>2, <1>5
  <2> QED BY <2>1, <2>2, <2>3, Zenon DEF Orders
<1>7. PICK C : C = [p \in P |-> Cardinality(Fore(B, P, p))]
  OBVIOUS
<1>8. /\ \A i \in 1..n : \E p \in P : C[p] = i - 1
      /\ \A p \in P : C[p] \in Nat /\ C[p] + 1 \in 1..n
      /\ \A a, b \in P : <<a, b>> \in B => C[a] < C[b]
  BY <1>1, <1>2, <1>6, <1>7, Ranks
<1>9. DOMAIN F = 1..n /\ \A i \in 1..n : F[i] = CHOOSE p \in P : C[p] = i - 1
  <2>1. F = Newest(l, P)
    <3>1. failingPods(w) = Newest(podLast(w), DOMAIN podLast(w))
      BY Zenon DEF failingPods, Newest
    <3> QED BY <1>1, <3>1, Zenon
  <2>2. \A p \in P : {q \in P : l[q] > l[p] \/ (l[q] = l[p] /\ q < p)} = Fore(B, P, p)
    BY <1>5 DEF Fore
  <2>3. \A p \in P : C[p] = Cardinality({q \in P : l[q] > l[p] \/ (l[q] = l[p] /\ q < p)})
    BY <1>7, <2>2
  <2>4. \A i : (CHOOSE p \in P : C[p] = i - 1)
             = (CHOOSE p \in P : Cardinality({q \in P : l[q] > l[p] \/ (l[q] = l[p] /\ q < p)}) = i - 1)
    BY <2>3, Zenon
  <2>5. F = [i \in 1..n |-> CHOOSE p \in P : Cardinality({q \in P : l[q] > l[p] \/ (l[q] = l[p] /\ q < p)}) = i - 1]
    BY <1>1, <2>1, Zenon DEF Newest
  <2>6. DOMAIN F = 1..n
    BY <2>5, Zenon
  <2>7. \A i \in 1..n : F[i] = CHOOSE p \in P : Cardinality({q \in P : l[q] > l[p] \/ (l[q] = l[p] /\ q < p)}) = i - 1
    BY <2>5, Zenon
  <2> QED BY <2>4, <2>6, <2>7, Zenon
<1>10. DOMAIN F = 1..n /\ \A i \in 1..n : F[i] \in P /\ C[F[i]] = i - 1
  <2>1. DOMAIN F = 1..n
    BY <1>9, Zenon
  <2>2. ASSUME NEW i \in 1..n PROVE F[i] \in P /\ C[F[i]] = i - 1
    <3>1. F[i] = CHOOSE p \in P : C[p] = i - 1
      BY <1>9, Zenon
    <3>2. \E p \in P : C[p] = i - 1
      BY <1>8, Zenon
    <3> QED BY <3>1, <3>2, Zenon
  <2> QED BY <2>1, <2>2
<1>11. \A p \in P : \E i \in DOMAIN F : F[i] = p
  <2> SUFFICES ASSUME NEW p \in P PROVE \E i \in DOMAIN F : F[i] = p
    OBVIOUS
  <2>1. PICK i \in 1..n : i = C[p] + 1
    BY <1>8
  <2>2. F[i] \in P /\ C[F[i]] = C[p]
    BY <1>8, <1>10, <2>1
  <2>3. F[i] = p
    <3> SUFFICES ASSUME F[i] # p PROVE FALSE
      OBVIOUS
    <3>1. <<F[i], p>> \in B \/ <<p, F[i]>> \in B
      BY <1>6, <2>2, Zenon DEF Orders
    <3>2. C[F[i]] < C[p] \/ C[p] < C[F[i]]
      BY <1>8, <2>2, <3>1, Zenon
    <3> QED BY <1>8, <2>2, <3>2
  <2> QED BY <1>10, <2>3
<1>12. \A i, j \in DOMAIN F : i <= j => l[F[j]] <= l[F[i]]
  <2> SUFFICES ASSUME NEW i \in 1..n, NEW j \in 1..n, i <= j, ~(l[F[j]] <= l[F[i]]) PROVE FALSE
    BY <1>10
  <2>1. PICK a \in P, b \in P : a = F[i] /\ b = F[j]
    BY <1>10
  <2>2. l[b] > l[a]
    BY <1>2, <2>1
  <2>3. <<b, a>> \in B
    BY <1>5, <2>2
  <2>4. C[b] < C[a]
    BY <1>8, <2>3
  <2>5. C[b] = j - 1 /\ C[a] = i - 1
    BY <1>10, <2>1
  <2> QED BY <1>3, <2>4, <2>5
<1> QED BY <1>1, <1>3, <1>10, <1>11, <1>12

\* The function a loop over numbers defines, from the loop.
LEMMA StepsExist ==
    ASSUME NEW n \in Nat, NEW X, NEW x \in X, NEW G \in [X \X (1..n) -> X]
    PROVE  \E g : g \in [0..n -> X] /\ g[0] = x /\ \A k \in 1..n : g[k] = G[<<g[k - 1], k>>] /\ k - 1 \in 0..n
<1>1. PICK g : Loop(g, n, X, x, G)
  BY LoopRuns, Zenon
<1>2. g \in [0..n -> X] /\ g[0] = x /\ \A k \in 1..n : g[k] = G[<<g[k - 1], k>>]
  BY <1>1, Zenon DEF Loop
<1>3. \A k \in 1..n : k - 1 \in 0..n
  OBVIOUS
<1> QED BY <1>2, <1>3

\* memberWarnings' step.
Kept(evs, v) ==
    IF ~(\E i \in DOMAIN evs : evs[i].of = v.of /\ evs[i].reason = v.reason) /\ Len(evs) < MaxMembers
    THEN Append(evs, v) ELSE evs

IsKept(g, w) == g = [k \in 0..Len(w) |-> IF k = 0 THEN <<>> ELSE Kept(g[k - 1], w[k])]

\* The warnings of members that are kept are some of them.
LEMMA MembersAre ==
    ASSUME NEW w, Warned(w)
    PROVE  memberWarnings(w) \in Seq({w[i] : i \in DOMAIN w})
<1>0. PICK n \in Nat : n = Len(w)
  BY DEF Warned
<1>1. PICK W, X, z : n = Len(w) /\ W = {w[i] : i \in DOMAIN w} /\ X = Seq(W) /\ z = <<>>
  BY <1>0
<1>2. z \in X
  BY <1>1
<1>3. PICK G : G = [q \in X \X (1..n) |-> Kept(q[1], w[q[2]])]
  OBVIOUS
<1>4. ASSUME NEW s \in X, NEW k \in 1..n PROVE Kept(s, w[k]) \in X
  <2>1. w[k] \in W
    BY <1>1 DEF Warned
  <2>2. Append(s, w[k]) \in X
    BY <1>1, <2>1
  <2> QED BY <2>2, Zenon DEF Kept
<1>5. G \in [X \X (1..n) -> X]
  BY <1>3, <1>4
<1>6. PICK g : g \in [0..n -> X] /\ g[0] = z /\ \A k \in 1..n : g[k] = G[<<g[k - 1], k>>] /\ k - 1 \in 0..n
  BY <1>2, <1>5, StepsExist, Zenon
<1>7. \A k \in 0..n : g[k] = IF k = 0 THEN z ELSE Kept(g[k - 1], w[k])
  <2> SUFFICES ASSUME NEW k \in 0..n, k # 0 PROVE g[k] = Kept(g[k - 1], w[k])
    BY <1>6
  <2>1. k \in 1..n
    OBVIOUS
  <2>2. <<g[k - 1], k>> \in X \X (1..n)
    BY <1>6, <2>1
  <2> QED BY <1>3, <1>6, <2>1, <2>2
<1>8. g = [k \in 0..n |-> IF k = 0 THEN z ELSE Kept(g[k - 1], w[k])]
  BY <1>6, <1>7
<1>9. IsKept(g, w)
  BY <1>1, <1>8, Zenon DEF IsKept
<1>10. PICK h : h = (CHOOSE f : IsKept(f, w)) /\ IsKept(h, w)
  BY <1>9
<1>11. memberWarnings(w) = h[n]
  BY <1>1, <1>10, Zenon DEF memberWarnings, IsKept, Kept
<1>12. h = [k \in 0..n |-> IF k = 0 THEN z ELSE Kept(h[k - 1], w[k])]
  BY <1>1, <1>10, Zenon DEF IsKept
<1>13. \A k \in 0..n : h[k] = IF k = 0 THEN z ELSE Kept(h[k - 1], w[k])
  BY <1>12, Zenon
<1>14. PICK J : J = [k \in 0..n |-> X]
  OBVIOUS
<1>15. h[0] \in J[0]
  BY <1>2, <1>13, <1>14
<1>16. ASSUME NEW k \in 1..n, h[k - 1] \in J[k - 1] PROVE h[k] \in J[k]
  <2>1. k \in 0..n /\ k - 1 \in 0..n /\ k # 0
    OBVIOUS
  <2>2. h[k - 1] \in X
    BY <1>14, <1>16, <2>1, Zenon
  <2>3. h[k] = Kept(h[k - 1], w[k])
    BY <1>13, <2>1, Zenon
  <2>4. h[k] \in X
    BY <1>4, <2>2, <2>3, Zenon
  <2> QED BY <1>14, <2>1, <2>4, Zenon
<1>17. \A k \in 0..n : h[k] \in J[k]
  BY ONLY <1>15, <1>16, n \in Nat, LoopKeeps
<1>18. h[n] \in X
  BY <1>14, <1>17
<1> QED BY <1>1, <1>11, <1>18

\* The logs got are those of the newest warning of a Pod that has any.
Newly(w, logs, got) ==
    LET with == {i \in OfPods(w) : logs[w[i].of].raw > 0}
    IN with # {} /\ Cardinality({w[i].of : i \in OfPods(w)}) <= TriedPods =>
         \E i \in with : (\A j \in with : w[j].at <= w[i].at) /\ got.raw = logs[w[i].of].raw

\* The logs of a workload are logs, and those of the Pod that failed last of the Pods that
\* have any, if all are asked for.
LEMMA LogsAre ==
    ASSUME NEW w, Warned(w), NEW logs, \A i \in DOMAIN w : w[i].of # 0 => logs[w[i].of] \in Logs,
           NEW got, got = workloadLogs(failingPods(w), logs)
    PROVE  got \in Logs /\ Newly(w, logs, got)
<1>a. PICK S, with : S = OfPods(w) /\ with = {i \in S : logs[w[i].of].raw > 0}
  OBVIOUS
<1>0. PICK n \in Nat : n = Cardinality(DOMAIN podLast(w))
  BY FailingAre
<1>1. PICK l, P, F : l = podLast(w) /\ P = DOMAIN l /\ F = failingPods(w) /\ n = Cardinality(P)
  BY <1>0
<1>2. /\ P = {w[i].of : i \in S}
      /\ \A p \in P : \E i \in S : w[i].of = p /\ w[i].at = l[p]
      /\ \A i \in S : w[i].at <= l[w[i].of]
  BY <1>a, <1>1, LastIs, Zenon
<1>3. /\ DOMAIN F = 1..n
      /\ \A i \in DOMAIN F : F[i] \in P
      /\ \A p \in P : \E i \in DOMAIN F : F[i] = p
      /\ \A i, j \in DOMAIN F : i <= j => l[F[j]] <= l[F[i]]
  BY <1>1, FailingAre, Zenon
<1>4. \A i \in S : i \in DOMAIN w /\ w[i].of # 0 /\ w[i].at \in Nat /\ logs[w[i].of] \in Logs
  BY <1>a DEF OfPods, Warned
<1>5. \A p \in P : logs[p] \in Logs /\ logs[p].raw \in Nat
  <2>1. \A p \in P : logs[p] \in Logs
    BY <1>2, <1>4, Zenon
  <2>2. \A x \in Logs : x.raw \in Nat
    BY DEF Logs
  <2> QED BY <2>1, <2>2
<1>6. PICK has : has = {i \in DOMAIN F : i <= TriedPods /\ logs[F[i]].raw > 0}
  OBVIOUS
<1>7. got = IF has = {} THEN NoLogs ELSE logs[F[Min(has)]]
  BY <1>1, <1>6, Zenon DEF workloadLogs
<1>8. has \subseteq Nat /\ has \subseteq DOMAIN F
  BY <1>3, <1>6
<1>9. has # {} => Min(has) \in has /\ \A m \in has : Min(has) <= m
  BY <1>8, MinIn
<1>10. got \in Logs
  <2>1. CASE has = {}
    <3>1. got = NoLogs
      BY <1>7, <2>1
    <3> QED BY <3>1 DEF NoLogs, Logs
  <2>2. CASE has # {}
    <3>1. F[Min(has)] \in P
      BY <1>3, <1>8, <1>9, <2>2, Zenon
    <3> QED BY <1>5, <1>7, <2>2, <3>1
  <2> QED BY <2>1, <2>2
<1>11. ASSUME with # {}, Cardinality({w[i].of : i \in S}) <= TriedPods
       PROVE  \E i \in with : (\A j \in with : w[j].at <= w[i].at) /\ got.raw = logs[w[i].of].raw
  <2>1. n <= TriedPods
    BY <1>1, <1>2, <1>11, Zenon
  <2>2. ASSUME NEW j \in with PROVE \E x \in has : F[x] = w[j].of
    <3>1. j \in S /\ logs[w[j].of].raw > 0 /\ w[j].of \in P
      BY <1>a, <1>2
    <3>2. PICK x \in DOMAIN F : F[x] = w[j].of
      BY <1>3, <3>1
    <3>3. x <= TriedPods
      <4>1. x \in 1..n /\ TriedPods \in Nat
        BY <1>3, GatheredAssumption
      <4> QED BY <2>1, <4>1
    <3> QED BY <1>6, <3>1, <3>2, <3>3
  <2>3. has # {}
    BY <1>11, <2>2, Zenon
  <2>4. PICK m \in has : m = Min(has)
    BY <1>9, <2>3
  <2>5. F[m] \in P /\ logs[F[m]].raw > 0 /\ got = logs[F[m]]
    BY <1>3, <1>6, <1>7, <2>3, <2>4
  <2>6. PICK i \in S : w[i].of = F[m] /\ w[i].at = l[F[m]]
    BY <1>2, <2>5, Zenon
  <2>7. i \in with
    BY <1>a, <2>5, <2>6
  <2>8. \A j \in with : w[j].at <= w[i].at
    <3> SUFFICES ASSUME NEW j \in with PROVE w[j].at <= w[i].at
      OBVIOUS
    <3>1. PICK x \in has : F[x] = w[j].of
      BY <2>2
    <3>2. m <= x /\ m \in DOMAIN F /\ x \in DOMAIN F
      BY <1>8, <1>9, <2>3, <2>4
    <3>3. l[F[x]] <= l[F[m]]
      BY <1>3, <3>2
    <3>4. w[j].at <= l[F[x]] /\ w[j].at \in Nat
      <4>1. j \in S
        BY <1>a
      <4>2. w[j].at <= l[w[j].of] /\ w[j].at \in Nat
        BY <1>2, <1>4, <4>1, Zenon
      <4> QED BY <3>1, <4>2, Zenon
    <3>5. \A p \in P : l[p] \in Nat
      BY <1>2, <1>4
    <3>6. l[F[x]] \in Nat /\ l[F[m]] \in Nat
      BY <1>3, <3>2, <3>5
    <3>7. \A a, b, c \in Nat : a <= b /\ b <= c => a <= c
      OBVIOUS
    <3> QED BY <2>6, <3>3, <3>4, <3>6, <3>7
  <2> QED BY <2>5, <2>6, <2>7, <2>8
<1>12. Newly(w, logs, got)
  BY <1>a, <1>11, Zenon DEF Newly
<1> QED BY <1>10, <1>12

LEMMA GatheredIs ==
    ASSUME NEW g \in Gathered
    PROVE  /\ g.fixed \in Nat /\ g.overhead \in Nat /\ g.isPod \in BOOLEAN
           /\ g.events \in Seq([at : Nat, size : Nat]) /\ g.linked \in Seq(Linked)
           /\ Warned(g.warns)
           /\ g.isPod => g.logs[0] \in Logs
           /\ ~g.isPod => \A i \in DOMAIN g.warns : g.warns[i].of # 0 => g.logs[g.warns[i].of] \in Logs
<1>1. /\ {g.fixed, g.overhead} \subseteq Nat /\ g.isPod \in BOOLEAN
      /\ g.events \in Seq([at : Nat, size : Nat]) /\ g.linked \in Seq(Linked)
      /\ Len(g.warns) \in Nat /\ DOMAIN g.warns = 1..Len(g.warns)
      /\ \A i \in DOMAIN g.warns : {g.warns[i].of, g.warns[i].at, g.warns[i].size} \subseteq Nat
      /\ IF g.isPod THEN g.logs[0] \in Logs
         ELSE \A i \in DOMAIN g.warns : g.warns[i].of # 0 => g.logs[g.warns[i].of] \in Logs
  BY GatheredAssumption, Zenon
<1>2. g.fixed \in Nat /\ g.overhead \in Nat
  BY <1>1
<1>3. \A i \in DOMAIN g.warns : g.warns[i].of \in Nat /\ g.warns[i].at \in Nat /\ g.warns[i].size \in Nat
  BY <1>1
<1>4. Warned(g.warns)
  BY <1>1, <1>3, Zenon DEF Warned
<1>5. g.isPod => g.logs[0] \in Logs
  BY <1>1, Zenon
<1>6. ~g.isPod => \A i \in DOMAIN g.warns : g.warns[i].of # 0 => g.logs[g.warns[i].of] \in Logs
  BY <1>1, Zenon
<1> QED BY <1>1, <1>2, <1>4, <1>5, <1>6, Zenon

\* What is gathered can be rendered; a workload's logs are those found.
LEMMA EvidenceIs ==
    ASSUME NEW g \in Gathered, NEW linked \in Nat, NEW e, e = evidence(g, linked)
    PROVE  /\ Gauged(e)
           /\ ~g.isPod => e.raw = workloadLogs(failingPods(g.warns), g.logs).raw
<1>1. PICK logs : logs = IF g.isPod THEN g.logs[0] ELSE workloadLogs(failingPods(g.warns), g.logs)
  OBVIOUS
<1>2. PICK evs : evs = IF g.isPod THEN <<>> ELSE memberWarnings(g.warns)
  OBVIOUS
<1>3. PICK fixed, mem : /\ fixed = g.fixed + linked + (IF g.isPod /\ logs.raw = 0 THEN NoteSize ELSE 0)
                        /\ mem = [i \in DOMAIN evs |-> evs[i].size]
  OBVIOUS
<1>4. e = [fixed |-> fixed, events |-> g.events, members |-> mem, raw |-> logs.raw, logs |-> logs.lines]
  BY <1>1, <1>2, <1>3, Zenon DEF evidence
<1>5. e.fixed = fixed /\ e.events = g.events /\ e.members = mem /\ e.raw = logs.raw /\ e.logs = logs.lines
  BY <1>4
<1>6. logs \in Logs
  <2>1. CASE g.isPod
    BY <1>1, <2>1, GatheredIs
  <2>2. CASE ~g.isPod
    <3>1. workloadLogs(failingPods(g.warns), g.logs) \in Logs
      BY <2>2, GatheredIs, LogsAre
    <3> QED BY <1>1, <2>2, <3>1, Zenon
  <2> QED BY <2>1, <2>2
<1>7. logs.raw \in Nat /\ logs.lines \in Seq([error : BOOLEAN, size : Nat])
  BY <1>6 DEF Logs
<1>8. mem \in Seq(Nat)
  <2>1. CASE g.isPod
    BY <1>2, <1>3, <2>1
  <2>2. CASE ~g.isPod
    <3>1. PICK W : W = {g.warns[i] : i \in DOMAIN g.warns}
      OBVIOUS
    <3>2. evs \in Seq(W)
      BY <1>2, <2>2, <3>1, GatheredIs, MembersAre
    <3>3. \A x \in W : x.size \in Nat
      BY <3>1, GatheredIs DEF Warned
    <3>4. Len(evs) \in Nat /\ DOMAIN evs = 1..Len(evs) /\ \A i \in DOMAIN evs : evs[i] \in W
      BY <3>2, SeqIs, Zenon
    <3>5. mem = [i \in 1..Len(evs) |-> evs[i].size] /\ \A i \in 1..Len(evs) : evs[i].size \in Nat
      BY <1>3, <3>3, <3>4
    <3>6. mem \in [1..Len(evs) -> Nat]
      BY <3>5
    <3> QED BY <3>4, <3>6
  <2> QED BY <2>1, <2>2
<1>9. fixed \in Nat
  BY <1>3, GatheredIs, GatheredAssumption
<1>10. Gauged(e)
  BY <1>5, <1>7, <1>8, <1>9, GatheredIs, Zenon DEF Gauged
<1>11. ~g.isPod => e.raw = workloadLogs(failingPods(g.warns), g.logs).raw
  BY <1>1, <1>5, Zenon
<1> QED BY <1>10, <1>11

LEMMA FrontIs ==
    ASSUME NEW S, NEW s \in Seq(S), s # <<>>, NEW n \in Nat, Len(s) = n + 1
    PROVE  /\ Front(s) \in Seq(S) /\ Len(Front(s)) = n /\ \A i \in 1..n : Front(s)[i] = s[i]
           /\ Last(s) = s[n + 1] /\ Last(s) \in S
<1>1. Front(s) = SubSeq(s, 1, n)
  BY DEF Front
<1>2. Last(s) = s[n + 1]
  BY DEF Last
<1> QED BY <1>1, <1>2

LEMMA LinkedIs ==
    ASSUME NEW s \in Seq(Linked)
    PROVE  /\ Len(s) \in Nat /\ DOMAIN s = 1..Len(s)
           /\ \A i \in 1..Len(s) : /\ s[i] \in Linked /\ s[i].size \in Nat /\ s[i].lines \in Seq(Nat)
                                   /\ Len(s[i].lines) \in Nat
<1>1. Len(s) \in Nat /\ DOMAIN s = 1..Len(s) /\ \A i \in 1..Len(s) : s[i] \in Linked
  BY SeqIs
<1>2. \A x \in Linked : x.size \in Nat /\ x.lines \in Seq(Nat)
  BY DEF Linked
<1>3. \A l \in Seq(Nat) : Len(l) \in Nat
  BY SeqIs
<1> QED BY <1>1, <1>2, <1>3, Zenon

LEMMA CountNone == lineCount(<<>>) = 0
<1>1. PICK f : f = [i \in {} |-> 1 + Len(<<>>[i].lines)]
  OBVIOUS
<1>2. f = [i \in {} |-> f[i]] /\ DOMAIN <<>> = {}
  BY <1>1
<1>3. lineCount(<<>>) = SumFunction(f)
  BY <1>1, <1>2, Zenon DEF lineCount
<1> QED BY <1>2, <1>3, SumNone

\* The lines but for the last object, and its own.
LEMMA CountLast ==
    ASSUME NEW s \in Seq(Linked), s # <<>>
    PROVE  /\ lineCount(s) = lineCount(Front(s)) + 1 + Len(Last(s).lines)
           /\ lineCount(Front(s)) \in Nat /\ Len(Last(s).lines) \in Nat /\ Front(s) \in Seq(Linked)
<1>1. PICK n \in Nat : Len(s) = n + 1
  <2>1. Len(s) \in Nat /\ Len(s) # 0
    OBVIOUS
  <2> QED BY <2>1
<1>2. PICK t : t = Front(s) /\ t \in Seq(Linked) /\ Len(t) = n /\ (\A i \in 1..n : t[i] = s[i]) /\ Last(s) = s[n + 1]
  BY <1>1, FrontIs
<1>3. DOMAIN s = 1 .. n + 1 /\ DOMAIN t = 1..n /\ \A i \in 1 .. n + 1 : Len(s[i].lines) \in Nat
  BY <1>1, <1>2, LinkedIs
<1>4. PICK f : f = [i \in 1 .. n + 1 |-> 1 + Len(s[i].lines)]
  OBVIOUS
<1>5. f \in [1 .. n + 1 -> Nat]
  BY <1>3, <1>4
<1>6. PICK h : h = [i \in 1..n |-> f[i]]
  OBVIOUS
<1>7. SumFunction(f) = SumFunction(h) + f[n + 1] /\ SumFunction(h) \in Nat
  BY <1>5, <1>6, SumNext
<1>8. lineCount(s) = SumFunction(f)
  BY <1>3, <1>4, Zenon DEF lineCount
<1>9. lineCount(t) = SumFunction(h)
  <2>1. lineCount(t) = SumFunction([i \in 1..n |-> 1 + Len(t[i].lines)])
    BY <1>3, Zenon DEF lineCount
  <2>2. h = [i \in 1..n |-> 1 + Len(t[i].lines)]
    BY <1>2, <1>4, <1>6
  <2> QED BY <2>1, <2>2
<1>10. f[n + 1] = 1 + Len(s[n + 1].lines) /\ Len(s[n + 1].lines) \in Nat
  BY <1>3, <1>4
<1>11. PICK a \in Nat, b \in Nat : a = SumFunction(h) /\ b = Len(s[n + 1].lines) /\ SumFunction(f) = a + 1 + b
  BY <1>7, <1>10
<1>12. lineCount(s) = a + 1 + b /\ lineCount(t) = a
  BY <1>8, <1>9, <1>11
<1>13. b = Len(Last(s).lines)
  BY <1>2, <1>11, Zenon
<1> QED BY <1>2, <1>12, <1>13

LEMMA CountNat ==
    ASSUME NEW s \in Seq(Linked)
    PROVE  lineCount(s) \in Nat /\ (s # <<>> => lineCount(s) > 0)
<1>1. CASE s = <<>>
  BY <1>1, CountNone
<1>2. CASE s # <<>>
  <2>1. PICK a \in Nat, b \in Nat : a = lineCount(Front(s)) /\ b = Len(Last(s).lines) /\ lineCount(s) = a + 1 + b
    BY <1>2, CountLast
  <2> QED BY <2>1
<1> QED BY <1>1, <1>2

\* A beginning of what was followed, the last object's lines too.
Beginning(kept, all) ==
    /\ Len(kept) <= Len(all)
    /\ \A i \in 1..Len(kept) : IsPrefix(kept[i].lines, all[i].lines) /\ kept[i].size = all[i].size
    /\ \A i \in 1..(Len(kept) - 1) : kept[i] = all[i]

\* The loop: what it has kept and counted of all.
CutOf(all) ==
    {w \in [kept : Seq(Linked), trimmed : Nat] :
       lineCount(w.kept) + w.trimmed = lineCount(all) /\ Beginning(w.kept, all)}

LEMMA PrefixSelf == ASSUME NEW s \in Seq(Nat) PROVE IsPrefix(s, s)
  BY DEF IsPrefix

LEMMA PrefixFront ==
    ASSUME NEW s \in Seq(Nat), NEW t \in Seq(Nat), IsPrefix(s, t), s # <<>>
    PROVE  Front(s) \in Seq(Nat) /\ Len(Front(s)) + 1 = Len(s) /\ Len(Front(s)) \in Nat /\ IsPrefix(Front(s), t)
<1>1. PICK n \in Nat : Len(s) = n + 1
  <2>1. Len(s) \in Nat /\ Len(s) # 0
    OBVIOUS
  <2> QED BY <2>1
<1>2. PICK f : f = Front(s) /\ f \in Seq(Nat) /\ Len(f) = n /\ \A i \in 1..n : f[i] = s[i]
  BY <1>1, FrontIs
<1>3. Len(t) \in Nat /\ n + 1 <= Len(t) /\ SubSeq(s, 1, n + 1) = SubSeq(t, 1, n + 1)
  BY <1>1 DEF IsPrefix
<1>4. \A i \in 1 .. n + 1 : s[i] = t[i]
  BY <1>1, <1>3
<1>5. SubSeq(f, 1, n) = SubSeq(t, 1, n)
  <2>1. SubSeq(f, 1, n) = [i \in 1..n |-> f[i]]
    BY <1>2
  <2>2. SubSeq(t, 1, n) = [i \in 1..n |-> t[i]]
    BY <1>3
  <2>3. \A i \in 1..n : i \in 1 .. n + 1
    OBVIOUS
  <2>4. \A i \in 1..n : f[i] = t[i]
    BY <1>2, <1>4, <2>3, Zenon
  <2>5. [i \in 1..n |-> f[i]] = [i \in 1..n |-> t[i]]
    BY <2>4, Zenon
  <2> QED BY <2>1, <2>2, <2>5, Zenon
<1>6. IsPrefix(f, t)
  BY <1>2, <1>3, <1>5 DEF IsPrefix
<1> QED BY <1>1, <1>2, <1>6

\* A round of the loop keeps a beginning, counts what it drops, and drops something.
LEMMA DropCuts ==
    ASSUME NEW all \in Seq(Linked), NEW w \in CutOf(all), w.kept # <<>>
    PROVE  Dropped(w) \in CutOf(all) /\ Dropped(w).trimmed >= w.trimmed + 1
<1>1. PICK s \in Seq(Linked), t \in Nat : s = w.kept /\ t = w.trimmed
  BY DEF CutOf
<1>2. lineCount(s) + t = lineCount(all) /\ Beginning(s, all) /\ s # <<>>
  BY <1>1 DEF CutOf
<1>3. PICK n \in Nat : Len(s) = n + 1
  <2>1. Len(s) \in Nat /\ Len(s) # 0
    BY <1>2
  <2> QED BY <2>1
<1>4. PICK f : f = Front(s)
  OBVIOUS
<1>5. f \in Seq(Linked) /\ Len(f) = n /\ (\A i \in 1..n : f[i] = s[i]) /\ Last(s) = s[n + 1]
  BY <1>2, <1>3, <1>4, FrontIs
<1>6. PICK a \in Nat, b \in Nat : a = lineCount(f) /\ b = Len(Last(s).lines) /\ lineCount(s) = a + 1 + b
  BY <1>2, <1>4, CountLast
<1>c. PICK c \in Nat : c = lineCount(all) /\ a + 1 + b + t = c
  <2>1. lineCount(all) \in Nat
    BY CountNat
  <2> QED BY <1>2, <1>6, <2>1
<1>7. \A i \in 1..Len(s) : s[i] \in Linked /\ s[i].size \in Nat /\ s[i].lines \in Seq(Nat)
  BY LinkedIs
<1>8. /\ Len(all) \in Nat /\ n + 1 <= Len(all)
      /\ \A i \in 1 .. n + 1 : IsPrefix(s[i].lines, all[i].lines) /\ s[i].size = all[i].size
      /\ \A i \in 1..n : s[i] = all[i]
  BY <1>2, <1>3 DEF Beginning
<1>9. CASE n > 0
  <2>1. PICK v : v = [kept |-> f, trimmed |-> t + 1 + b]
    OBVIOUS
  <2>2. Dropped(w) = v
    <3>1. Len(w.kept) > 1
      BY <1>1, <1>3, <1>9
    <3>2. Dropped(w) = [kept |-> Front(w.kept), trimmed |-> w.trimmed + 1 + Len(Last(w.kept).lines)]
      BY <3>1, Zenon DEF Dropped
    <3> QED BY <1>1, <1>4, <1>6, <2>1, <3>2, Zenon
  <2>3. Beginning(f, all)
    <3>1. Len(f) <= Len(all) /\ Len(f) = n /\ \A i \in 1..n : f[i] = s[i]
      BY <1>5, <1>8
    <3>2. \A i \in 1..n : i \in 1 .. n + 1
      OBVIOUS
    <3>3. \A i \in 1..n : IsPrefix(f[i].lines, all[i].lines) /\ f[i].size = all[i].size
      BY <1>8, <3>1, <3>2, Zenon
    <3>4. \A i \in 1..(n - 1) : i \in 1..n
      OBVIOUS
    <3>5. \A i \in 1..(n - 1) : f[i] = all[i]
      BY <1>8, <3>1, <3>4, Zenon
    <3> QED BY <3>1, <3>3, <3>5, Zenon DEF Beginning
  <2>4. lineCount(f) + (t + 1 + b) = lineCount(all)
    <3>1. a + (t + 1 + b) = c
      BY <1>c
    <3> QED BY <1>6, <1>c, <3>1, Zenon
  <2>5. v \in [kept : Seq(Linked), trimmed : Nat] /\ v.kept = f /\ v.trimmed = t + 1 + b
    BY <1>5, <2>1
  <2>6. v \in CutOf(all)
    BY <2>3, <2>4, <2>5, Zenon DEF CutOf
  <2>7. v.trimmed >= w.trimmed + 1
    BY <1>1, <2>5
  <2> QED BY <2>2, <2>6, <2>7
<1>10. CASE n = 0
  <2>1. Len(s) = 1 /\ a = 0 /\ Last(s) = s[1] /\ s[1] \in Linked
    <3>1. f = <<>>
      BY <1>5, <1>10
    <3>2. a = 0
      BY <1>6, <3>1, CountNone
    <3> QED BY <1>3, <1>5, <1>7, <1>10, <3>2
  <2>2. PICK p \in Seq(Nat) : p = s[1].lines /\ b = Len(p)
    BY <1>3, <1>6, <1>7, <1>10, <2>1
  <2>3. ~(Len(w.kept) > 1)
    BY <1>1, <2>1
  <2>4. CASE p # <<>>
    <3>1. PICK x, u : x = [s[1] EXCEPT !.lines = Front(@)] /\ u = <<x>>
      OBVIOUS
    <3>a. PICK v : v = [kept |-> u, trimmed |-> t + 1]
      OBVIOUS
    <3>2. Dropped(w) = v
      <4>1. w.kept[1].lines # <<>>
        BY <1>1, <2>2, <2>4
      <4>2. Dropped(w) = [kept |-> <<[w.kept[1] EXCEPT !.lines = Front(@)]>>, trimmed |-> w.trimmed + 1]
        BY <2>3, <4>1, Zenon DEF Dropped
      <4> QED BY <1>1, <3>1, <3>a, <4>2, Zenon
    <3>3. IsPrefix(p, all[1].lines) /\ all[1].lines \in Seq(Nat) /\ s[1].size = all[1].size
      <4>1. 1 \in 1..Len(all) /\ 1 \in 1 .. n + 1
        BY <1>8, <1>10
      <4> QED BY <1>8, <2>2, <4>1, LinkedIs
    <3>4. PICK q \in Seq(Nat) : q = Front(p) /\ Len(q) + 1 = b /\ Len(q) \in Nat /\ IsPrefix(q, all[1].lines)
      BY <2>2, <2>4, <3>3, PrefixFront
    <3>5. x \in Linked /\ x.lines = q /\ x.size = s[1].size
      BY <2>1, <2>2, <3>1, <3>4 DEF Linked
    <3>6. u \in Seq(Linked) /\ Len(u) = 1 /\ u[1] = x /\ u # <<>>
      BY <3>1, <3>5
    <3>7. lineCount(u) = 1 + Len(q)
      <4>1. Last(u) = x
        BY <3>6, Zenon DEF Last
      <4>2. Front(u) = <<>>
        BY <3>6 DEF Front
      <4>3. lineCount(u) = lineCount(Front(u)) + 1 + Len(Last(u).lines)
        BY <3>6, CountLast, Zenon
      <4>4. lineCount(u) = 0 + 1 + Len(q)
        BY <3>5, <4>1, <4>2, <4>3, CountNone, Zenon
      <4> QED BY <3>4, <4>4
    <3>8. Beginning(u, all)
      <4>1. Len(u) <= Len(all)
        BY <1>8, <3>6
      <4>2. \A i \in 1..Len(u) : IsPrefix(u[i].lines, all[i].lines) /\ u[i].size = all[i].size
        <5>1. \A i \in 1..Len(u) : i = 1
          BY <3>6
        <5>2. IsPrefix(u[1].lines, all[1].lines) /\ u[1].size = all[1].size
          BY <3>3, <3>4, <3>5, <3>6, Zenon
        <5> QED BY <5>1, <5>2, Zenon
      <4>3. \A i \in 1..(Len(u) - 1) : u[i] = all[i]
        BY <3>6
      <4> QED BY <4>1, <4>2, <4>3 DEF Beginning
    <3>9. v \in [kept : Seq(Linked), trimmed : Nat] /\ v.kept = u /\ v.trimmed = t + 1
      BY <3>a, <3>6
    <3>10. lineCount(u) + (t + 1) = lineCount(all)
      <4>1. PICK d \in Nat : d = Len(q) /\ d + 1 = b
        BY <3>4
      <4>2. a = 0
        BY <2>1
      <4>3. 1 + d + (t + 1) = c
        <5>1. 0 + 1 + (d + 1) + t = c
          BY <1>c, <4>1, <4>2, Zenon
        <5>2. 0 + 1 + (d + 1) + t = 1 + d + (t + 1)
          BY ONLY d \in Nat, t \in Nat
        <5> QED BY <5>1, <5>2, Zenon
      <4>4. lineCount(u) = 1 + d
        BY <3>7, <4>1, Zenon
      <4> QED BY <1>c, <4>3, <4>4, Zenon
    <3>11. v \in CutOf(all)
      BY <3>8, <3>9, <3>10, Zenon DEF CutOf
    <3>12. v.trimmed >= w.trimmed + 1
      BY <1>1, <3>9
    <3> QED BY <3>2, <3>11, <3>12
  <2>5. CASE p = <<>>
    <3>1. PICK v : v = [kept |-> <<>>, trimmed |-> t + 1]
      OBVIOUS
    <3>2. Dropped(w) = v
      <4>1. ~(w.kept[1].lines # <<>>)
        BY <1>1, <2>2, <2>5
      <4>2. Dropped(w) = [kept |-> <<>>, trimmed |-> w.trimmed + 1]
        BY <2>3, <4>1, Zenon DEF Dropped
      <4> QED BY <1>1, <3>1, <4>2, Zenon
    <3>3. v \in [kept : Seq(Linked), trimmed : Nat] /\ v.kept = <<>> /\ v.trimmed = t + 1
      BY <3>1
    <3>4. Beginning(<<>>, all)
      BY <1>8 DEF Beginning
    <3>5. lineCount(<<>>) + (t + 1) = lineCount(all)
      BY <1>2, <1>6, <2>1, <2>2, <2>5, CountNone
    <3>6. v \in CutOf(all)
      BY <3>3, <3>4, <3>5, Zenon DEF CutOf
    <3>7. v.trimmed >= w.trimmed + 1
      BY <1>1, <3>3
    <3> QED BY <3>2, <3>6, <3>7
  <2> QED BY <2>4, <2>5
<1> QED BY <1>9, <1>10

\* renderLinked's loop: when it ends, and a round of it.
Ended(w, budget) == w.kept = <<>> \/ budget <= 0 \/ writeLinked(w.kept, w.trimmed) <= budget

Round(w, budget) == IF Ended(w, budget) THEN w ELSE Dropped(w)

IsCut(g, all, budget) ==
    g = [k \in 0..lineCount(all) |-> IF k = 0 THEN [kept |-> all, trimmed |-> 0] ELSE Round(g[k - 1], budget)]

LEMMA CutIs ==
    ASSUME NEW all \in Seq(Linked), NEW budget, NEW r, r = renderLinked(all, budget)
    PROVE  r \in CutOf(all) /\ Ended(r, budget) /\ (budget <= 0 => r.kept = all)
<1>1. PICK n \in Nat : n = lineCount(all)
  BY CountNat
<1>2. PICK X, z : X = CutOf(all) /\ z = [kept |-> all, trimmed |-> 0]
  OBVIOUS
<1>3. z \in X /\ z.kept = all /\ z.trimmed = 0
  <2>1. z \in [kept : Seq(Linked), trimmed : Nat] /\ z.kept = all /\ z.trimmed = 0
    BY <1>2
  <2>2. lineCount(all) + 0 = lineCount(all)
    BY <1>1
  <2>3. Beginning(all, all)
    <3>1. \A i \in 1..Len(all) : IsPrefix(all[i].lines, all[i].lines)
      BY LinkedIs, PrefixSelf
    <3>2. Len(all) <= Len(all)
      BY LinkedIs
    <3> QED BY <3>1, <3>2, Zenon DEF Beginning
  <2> QED BY <1>2, <2>1, <2>2, <2>3, Zenon DEF CutOf
<1>4. ASSUME NEW w \in X PROVE Round(w, budget) \in X
  <2>1. CASE Ended(w, budget)
    BY <2>1, Zenon DEF Round
  <2>2. CASE ~Ended(w, budget)
    <3>1. w.kept # <<>>
      BY <2>2, Zenon DEF Ended
    <3>2. Dropped(w) \in X
      BY <1>2, <3>1, DropCuts, Zenon
    <3> QED BY <2>2, <3>2, Zenon DEF Round
  <2> QED BY <2>1, <2>2
<1>5. PICK G : G = [q \in X \X (1..n) |-> Round(q[1], budget)]
  OBVIOUS
<1>6. G \in [X \X (1..n) -> X]
  BY <1>4, <1>5
<1>7. PICK g : g \in [0..n -> X] /\ g[0] = z /\ \A k \in 1..n : g[k] = G[<<g[k - 1], k>>] /\ k - 1 \in 0..n
  BY <1>3, <1>6, StepsExist, Zenon
<1>8. \A k \in 0..n : g[k] = IF k = 0 THEN z ELSE Round(g[k - 1], budget)
  <2> SUFFICES ASSUME NEW k \in 0..n, k # 0 PROVE g[k] = Round(g[k - 1], budget)
    BY <1>7
  <2>1. k \in 1..n
    OBVIOUS
  <2>2. <<g[k - 1], k>> \in X \X (1..n)
    BY <1>7, <2>1
  <2> QED BY <1>5, <1>7, <2>1, <2>2
<1>9. g = [k \in 0..n |-> IF k = 0 THEN z ELSE Round(g[k - 1], budget)]
  BY <1>7, <1>8
<1>10. IsCut(g, all, budget)
  BY <1>1, <1>2, <1>9, Zenon DEF IsCut
<1>11. PICK h : h = (CHOOSE f : IsCut(f, all, budget)) /\ IsCut(h, all, budget)
  BY <1>10
<1>12. r = h[n]
  BY <1>1, <1>11, Zenon DEF renderLinked, IsCut, Round, Ended
<1>13. h = [k \in 0..n |-> IF k = 0 THEN z ELSE Round(h[k - 1], budget)]
  BY <1>1, <1>2, <1>11, Zenon DEF IsCut
<1>14. \A k \in 0..n : h[k] = IF k = 0 THEN z ELSE Round(h[k - 1], budget)
  BY <1>13, Zenon
<1>15. PICK J : J = [k \in 0..n |-> {w \in X : (Ended(w, budget) \/ w.trimmed >= k) /\ (budget <= 0 => w.kept = all)}]
  OBVIOUS
<1>16. \A k \in 0..n : \A w : w \in J[k] <=> w \in X /\ (Ended(w, budget) \/ w.trimmed >= k) /\ (budget <= 0 => w.kept = all)
  BY <1>15, Zenon
<1>17. h[0] \in J[0]
  <2>1. 0 \in 0..n /\ z.trimmed >= 0
    BY <1>3
  <2>2. h[0] = z
    BY <1>14, <2>1, Zenon
  <2> QED BY <1>3, <1>16, <2>1, <2>2, Zenon
<1>18. ASSUME NEW k \in 1..n, h[k - 1] \in J[k - 1] PROVE h[k] \in J[k]
  <2>1. k \in 0..n /\ k - 1 \in 0..n /\ k # 0
    OBVIOUS
  <2>2. PICK w : w = h[k - 1]
    OBVIOUS
  <2>3. w \in X /\ (Ended(w, budget) \/ w.trimmed >= k - 1) /\ (budget <= 0 => w.kept = all)
    BY <1>16, <1>18, <2>1, <2>2, Zenon
  <2>4. h[k] = Round(w, budget)
    BY <1>14, <2>1, <2>2, Zenon
  <2>5. CASE Ended(w, budget)
    <3>1. h[k] = w
      BY <2>4, <2>5, Zenon DEF Round
    <3> QED BY <1>16, <2>1, <2>3, <2>5, <3>1, Zenon
  <2>6. CASE ~Ended(w, budget)
    <3>1. w.kept # <<>> /\ ~(budget <= 0)
      BY <2>6, Zenon DEF Ended
    <3>2. h[k] = Dropped(w)
      BY <2>4, <2>6, Zenon DEF Round
    <3>3. Dropped(w) \in X /\ Dropped(w).trimmed >= w.trimmed + 1
      BY <1>2, <2>3, <3>1, DropCuts, Zenon
    <3>4. w.trimmed \in Nat /\ Dropped(w).trimmed \in Nat
      BY <1>2, <2>3, <3>3 DEF CutOf
    <3>5. w.trimmed >= k - 1
      BY <2>3, <2>6, Zenon
    <3>6. Dropped(w).trimmed >= k
      BY <3>3, <3>4, <3>5
    <3> QED BY <1>16, <2>1, <3>1, <3>2, <3>3, <3>6, Zenon
  <2> QED BY <2>5, <2>6
<1>19. \A k \in 0..n : h[k] \in J[k]
  BY ONLY <1>17, <1>18, n \in Nat, LoopKeeps
<1>20. r \in X /\ (Ended(r, budget) \/ r.trimmed >= n) /\ (budget <= 0 => r.kept = all)
  <2>1. n \in 0..n
    OBVIOUS
  <2> QED BY <1>12, <1>16, <1>19, <2>1, Zenon
<1>21. Ended(r, budget)
  <2> SUFFICES ASSUME ~Ended(r, budget) PROVE FALSE
    OBVIOUS
  <2>1. r.kept # <<>> /\ r.trimmed >= n
    BY <1>20, Zenon DEF Ended
  <2>2. r.kept \in Seq(Linked) /\ r.trimmed \in Nat /\ lineCount(r.kept) + r.trimmed = n
    BY <1>1, <1>2, <1>20 DEF CutOf
  <2>3. lineCount(r.kept) \in Nat /\ lineCount(r.kept) > 0
    BY <2>1, <2>2, CountNat
  <2> QED BY <2>1, <2>2, <2>3
<1> QED BY <1>2, <1>20, <1>21

LEMMA WrittenNat ==
    ASSUME NEW s \in Seq(Linked), NEW t \in Nat
    PROVE  writeLinked(s, t) \in Nat
<1>1. PICK f : f = [i \in DOMAIN s |-> s[i].size + SumFunction(s[i].lines)]
  OBVIOUS
<1>2. ASSUME NEW i \in DOMAIN s PROVE s[i].size + SumFunction(s[i].lines) \in Nat
  <2>1. s[i].size \in Nat /\ s[i].lines \in Seq(Nat)
    BY LinkedIs
  <2>2. PICK l \in Seq(Nat), m \in Nat : l = s[i].lines /\ m = Len(l)
    BY <2>1
  <2>a. l \in [1..m -> Nat]
    BY <2>2
  <2>b. IsFiniteSet(1..m)
    BY FS_Interval
  <2>3. SumFunction(l) \in Nat
    BY <2>a, <2>b, SumNat
  <2> QED BY <2>1, <2>2, <2>3
<1>3. f \in [DOMAIN s -> Nat] /\ IsFiniteSet(DOMAIN s)
  BY <1>1, <1>2, LinkedIs, FS_Interval
<1>4. SumFunction(f) \in Nat
  BY <1>3, SumNat
<1>5. writeLinked(s, t) = NoteSize + SumFunction(f) + (IF t > 0 THEN NoteSize ELSE 0)
  BY <1>1, Zenon DEF writeLinked
<1> QED BY <1>4, <1>5, GatheredAssumption

\* The prompt built is that of what was gathered and a context's length.
PromptBuilt == prompt = <<>> \/ \E g \in Gathered, ctxLen \in Windows : prompt = buildContext(g, ctxLen)

LEMMA BudgetInt ==
    ASSUME NEW c \in Nat, NEW o \in Nat
    PROVE  promptBudget(c, o) \in Int
<1>1. PICK a \in Int : a = (c * 60) \div 100 - o
  OBVIOUS
<1>2. PICK m \in {a, 1} : \A x \in {a, 1} : m >= x
  <2>1. a >= 1 \/ 1 >= a
    OBVIOUS
  <2> QED BY <2>1
<1>3. Max({a, 1}) \in {a, 1}
  BY <1>2, Zenon DEF Max
<1>4. promptBudget(c, o) = IF c <= 0 THEN 0 ELSE Max({a, 1})
  BY <1>1, Zenon DEF promptBudget, promptShare
<1> QED BY <1>3, <1>4

LEMMA BuiltSound ==
    ASSUME PromptBuilt, prompt # <<>>
    PROVE  BestForm /\ NewestLogs /\ LinkedCut
<1>1. PICK g \in Gathered, ctxLen \in Windows : prompt = buildContext(g, ctxLen)
  BY DEF PromptBuilt
<1>2. PICK block, size, e, budget :
        /\ block = renderLinked(g.linked, linkedBudget(ctxLen))
        /\ size = (IF block.kept = <<>> THEN 0 ELSE writeLinked(block.kept, block.trimmed))
        /\ e = evidence(g, size)
        /\ budget = promptBudget(ctxLen, g.overhead)
  OBVIOUS
<1>3. prompt = [g |-> g, ctx |-> ctxLen, block |-> block, e |-> e, budget |-> budget, kept |-> fit(e, budget)]
  BY <1>1, <1>2, Zenon DEF buildContext
<1>4. /\ prompt.g = g /\ prompt.ctx = ctxLen /\ prompt.block = block /\ prompt.e = e
      /\ prompt.budget = budget /\ prompt.kept = fit(e, budget)
  BY <1>3
<1>5. block \in CutOf(g.linked) /\ Ended(block, linkedBudget(ctxLen))
      /\ (linkedBudget(ctxLen) <= 0 => block.kept = g.linked)
  BY <1>2, GatheredIs, CutIs
<1>6. /\ block.kept \in Seq(Linked) /\ block.trimmed \in Nat
      /\ lineCount(block.kept) + block.trimmed = lineCount(g.linked) /\ Beginning(block.kept, g.linked)
  BY <1>5 DEF CutOf
<1>7. size \in Nat
  <2>1. writeLinked(block.kept, block.trimmed) \in Nat
    BY <1>6, WrittenNat
  <2> QED BY <1>2, <2>1
<1>8. Gauged(e) /\ (~g.isPod => e.raw = workloadLogs(failingPods(g.warns), g.logs).raw)
  BY <1>2, <1>7, EvidenceIs
<1>9. budget \in Int
  BY <1>2, GatheredIs, GatheredAssumption, BudgetInt
<1>10. BestForm
  <2>1. Best(e, budget, fit(e, budget))
    BY <1>8, <1>9, FitBest
  <2>2. Best(prompt.e, prompt.budget, prompt.kept)
    BY <1>4, <2>1, Zenon
  <2> QED BY <2>2, Zenon DEF Best, BestForm
<1>11. NewestLogs
  <2>1. PICK w, seen, with : /\ w = g.warns /\ seen = {i \in DOMAIN w : w[i].of # 0 /\ w[i].at > 0}
                             /\ with = {i \in seen : g.logs[w[i].of].raw > 0}
    OBVIOUS
  <2>2. ASSUME ~g.isPod, with # {}, Cardinality({w[i].of : i \in seen}) <= TriedPods
        PROVE  \E i \in with : (\A j \in with : w[j].at <= w[i].at) /\ e.raw = g.logs[w[i].of].raw
    <3>1. seen = OfPods(w)
      BY <2>1, Zenon DEF OfPods
    <3>2. PICK got : got = workloadLogs(failingPods(w), g.logs)
      OBVIOUS
    <3>3. Warned(w) /\ \A i \in DOMAIN w : w[i].of # 0 => g.logs[w[i].of] \in Logs
      BY <2>1, <2>2, GatheredIs, Zenon
    <3>a. Newly(w, g.logs, got)
      BY <3>2, <3>3, LogsAre
    <3>4. \E i \in with : (\A j \in with : w[j].at <= w[i].at) /\ got.raw = g.logs[w[i].of].raw
      BY <2>1, <2>2, <3>1, <3>a, Zenon DEF Newly
    <3>5. e.raw = got.raw
      BY <1>8, <2>1, <2>2, <3>2, Zenon
    <3> QED BY <3>4, <3>5, Zenon
  <2>3. prompt.g = g /\ prompt.e = e
    BY <1>4
  <2> QED BY <2>1, <2>2, <2>3, Zenon DEF NewestLogs
<1>12. LinkedCut
  <2>1. PICK all, kept, lb : all = g.linked /\ kept = block.kept /\ lb = linkedBudget(ctxLen)
    OBVIOUS
  <2>2. lineCount(kept) + block.trimmed = lineCount(all)
    BY <1>6, <2>1
  <2>3. \A i \in DOMAIN kept : IsPrefix(kept[i].lines, all[i].lines) /\ kept[i].size = all[i].size
    <3>1. DOMAIN kept = 1..Len(kept)
      BY <1>6, <2>1, LinkedIs
    <3> QED BY <1>6, <2>1, <3>1, Zenon DEF Beginning
  <2>4. \A i \in 1..(Len(kept) - 1) : kept[i] = all[i]
    BY <1>6, <2>1, Zenon DEF Beginning
  <2>5. lb <= 0 => kept = all
    BY <1>5, <2>1
  <2>6. lb > 0 /\ kept # <<>> => writeLinked(kept, block.trimmed) <= lb
    <3>1. lb \in Int
      <4>1. PICK a \in Nat : a = (ctxLen * 15) \div 100
        BY GatheredAssumption
      <4>2. PICK m \in {a, 1} : \A x \in {a, 1} : m >= x
        <5>1. a >= 1 \/ 1 >= a
          OBVIOUS
        <5> QED BY <5>1
      <4>3. Max({a, 1}) \in {a, 1}
        BY <4>2, Zenon DEF Max
      <4>4. lb = IF ctxLen <= 0 THEN 0 ELSE Max({a, 1})
        BY <2>1, <4>1, Zenon DEF linkedBudget, linkedShare
      <4> QED BY <4>3, <4>4
    <3>2. lb > 0 => ~(lb <= 0)
      BY <3>1
    <3> QED BY <1>5, <2>1, <3>2, Zenon DEF Ended
  <2>7. prompt.g = g /\ prompt.block = block /\ prompt.ctx = ctxLen
    BY <1>4
  <2> QED BY <2>1, <2>2, <2>3, <2>4, <2>5, <2>6, <2>7, Zenon DEF LinkedCut
<1> QED BY <1>10, <1>11, <1>12

\* Whatever is gathered, the first prompt has as much of it as fits (fit, addWorkload,
\* renderLinked): no event, warning or log line goes that need not, each search finds the
\* last count that fits, a workload's logs are those of the Pod that failed last of the ones
\* tried, and the linked evidence is a beginning of what was followed, every line of the rest
\* counted as trimmed.
THEOREM PromptSoundAlways == PromptSpec => []PromptSound
<1>1. PromptInit => PromptBuilt
  BY DEF PromptInit, PromptBuilt
<1>2. PromptBuilt /\ [BuildPrompt]_prompt => PromptBuilt'
  <2> SUFFICES ASSUME PromptBuilt, [BuildPrompt]_prompt PROVE PromptBuilt'
    OBVIOUS
  <2>1. CASE BuildPrompt
    BY <2>1, Zenon DEF BuildPrompt, PromptBuilt
  <2>2. CASE UNCHANGED prompt
    BY <2>2, Zenon DEF PromptBuilt
  <2> QED BY <2>1, <2>2
<1>3. PromptBuilt => PromptSound
  BY BuiltSound, Zenon DEF PromptSound
<1> QED BY <1>1, <1>2, <1>3, PTL DEF PromptSpec
=============================================================================
