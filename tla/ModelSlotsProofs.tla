--------------------------- MODULE ModelSlotsProofs ---------------------------
(***************************************************************************)
(* Proofs about ModelSlots, for any number of clusters, calls and runs.    *)
(***************************************************************************)
EXTENDS ModelSlots, FiniteSetTheorems, TLAPS

------------------------------------------------------------------------------
(* The abstract pool *)

Accounted == IsFiniteSet(Holders) /\ SlotsAccounted

\* One step of the pool keeps its counter exact and within the limit.
LEMMA PoolStep ==
    Accounted /\ [Pool!PoolNext]_(Pool!poolVars) => Accounted'
<1> SUFFICES ASSUME Accounted, [Pool!PoolNext]_(Pool!poolVars) PROVE Accounted'
  OBVIOUS
<1> USE SlotsAssumption DEF Accounted, SlotsAccounted
<1>0. Cardinality(Holders) \in Nat
  BY FS_CardinalityType
<1>1. ASSUME NEW h \in Users \cup Notes, Pool!Acquire(h) PROVE Accounted'
  <2>1. /\ IsFiniteSet(Holders \cup {h})
        /\ Cardinality(Holders \cup {h}) = Cardinality(Holders) + 1
    BY <1>1, FS_AddElement DEF Pool!Acquire
  <2> QED
    BY <1>0, <1>1, <2>1 DEF Pool!Acquire
<1>2. ASSUME NEW h \in Users \cup Notes, Pool!Release(h) PROVE Accounted'
  <2>1. /\ IsFiniteSet(Holders \ {h})
        /\ Cardinality(Holders \ {h}) = Cardinality(Holders) - 1
    BY <1>2, FS_RemoveElement DEF Pool!Release
  <2> QED
    BY <1>0, <1>2, <2>1 DEF Pool!Release
<1>3. CASE UNCHANGED Pool!poolVars
  BY <1>3 DEF Pool!poolVars
<1> QED
  BY <1>1, <1>2, <1>3 DEF Pool!PoolNext

\* The pool starts empty.
LEMMA PoolStart == Pool!PoolInit => Accounted
BY FS_EmptySet, SlotsAssumption DEF Pool!PoolInit, Accounted, SlotsAccounted

------------------------------------------------------------------------------
(* The inductive invariant *)

LEMMA InitInd == Init => IndInv
<1> SUFFICES ASSUME Init PROVE IndInv
  OBVIOUS
<1> USE SlotsAssumption DEF Init
<1>1. TypeOK
  BY DEF TypeOK, User, NoCall, Note, NoNote, Brief, NoBrief
<1>2. LinksOK
  BY DEF LinksOK, NoBrief, NoCall
<1>3. OneRun
  BY DEF OneRun, Streams, NoBrief, NoNote
<1>4. NoteMatches /\ RegisteredIsLive
  BY DEF NoteMatches, RegisteredIsLive, NoNote
<1> QED
  BY <1>1, <1>2, <1>3, <1>4 DEF IndInv

\* Only the call of u changes.
UserBecomes(u, x) ==
    /\ user' = [user EXCEPT ![u] = x]
    /\ x \in User
    /\ x.pc = "stop" => x.stop \in Notes /\ x.of \in Clusters

LEMMA UserFrame ==
    ASSUME NEW u \in Users, NEW x, UserBecomes(u, x), user \in [Users -> User],
           \A v \in Users : user[v].pc = "stop" => user[v].stop \in Notes /\ user[v].of \in Clusters
    PROVE  /\ user' \in [Users -> User]
           /\ \A v \in Users :
                user'[v].pc = "stop" => user'[v].stop \in Notes /\ user'[v].of \in Clusters
BY DEF UserBecomes

LEMMA NoCallType == NoCall \in User /\ NoCall.pc = "idle" /\ [NoCall EXCEPT !.pc = "hold"] \in User
<1>1. 0 \in 0..MaxCalls
  BY SlotsAssumption
<1> QED
  BY <1>1 DEF NoCall, User

\* The calls keep their types and know what they stop.
CallsOK ==
    /\ user \in [Users -> User]
    /\ \A u \in Users :
         user[u].pc = "stop" => user[u].stop \in Notes /\ user[u].of \in Clusters

\* A step of the settings or of a call that is not stopping a note.
LEMMA CallsInd ==
    ASSUME IndInv,
           \/ \E n \in 1..MaxCalls + 1 : SetMax(n)
           \/ \E u \in Users : Call(u) \/ Try(u) \/ GiveUp(u) \/ Finish(u)
    PROVE  IndInv'
<1> USE DEF IndInv
<1>1. UNCHANGED <<note, page, brief, stops>>
  BY DEF SetMax, Call, Try, GiveUp, Finish
<1>2. OneRun' /\ NoteMatches' /\ RegisteredIsLive'
  BY <1>1 DEF OneRun, Streams, NoteMatches, RegisteredIsLive
<1>3. max' \in 1..MaxCalls /\ active' \in Int
  <2>1. max \in 1..MaxCalls /\ active \in Int
    BY DEF TypeOK
  <2>2. CASE \E n \in 1..MaxCalls + 1 : SetMax(n)
    <3>1. PICK n \in 1..MaxCalls + 1 : SetMax(n)
      BY <2>2
    <3>2. active' = active /\ max' = IF n < 1 THEN 1 ELSE IF n > MaxCalls THEN MaxCalls ELSE n
      BY <3>1 DEF SetMax
    <3> QED
      BY <2>1, <3>2, SlotsAssumption
  <2>3. CASE \E u \in Users : Call(u) \/ Try(u) \/ GiveUp(u) \/ Finish(u)
    <3>1. PICK u \in Users : Call(u) \/ Try(u) \/ GiveUp(u) \/ Finish(u)
      BY <2>3
    <3>2. max' = max /\ active' \in {active, active + 1, active - 1}
      <4>1. CASE Call(u)
        BY <4>1 DEF Call
      <4>2. CASE Try(u)
        BY <4>2 DEF Try
      <4>3. CASE GiveUp(u) \/ Finish(u)
        BY <4>3 DEF GiveUp, Finish
      <4> QED
        BY <3>1, <4>1, <4>2, <4>3
    <3> QED
      BY <2>1, <3>2
  <2> QED
    BY <2>2, <2>3
<1>4. CallsOK
  BY DEF TypeOK, LinksOK, CallsOK
<1>5. CallsOK'
  <2>1. CASE \E n \in 1..MaxCalls + 1 : SetMax(n)
    BY <1>4, <2>1 DEF SetMax, CallsOK
  <2>2. ASSUME NEW u \in Users, Call(u) PROVE CallsOK'
    <3>1. max \in 0..MaxCalls
      BY SlotsAssumption DEF TypeOK
    <3>2. [user[u] EXCEPT !.pc = "try", !.limit = max] \in User
      BY <1>4, <3>1 DEF User, CallsOK
    <3>3. UserBecomes(u, [user[u] EXCEPT !.pc = "try", !.limit = max])
      BY <1>4, <2>2, <3>2 DEF Call, UserBecomes, CallsOK, User
    <3> QED
      BY <1>4, <3>3, UserFrame DEF CallsOK
  <2>3. ASSUME NEW u \in Users, Try(u) PROVE CallsOK'
    <3> DEFINE x == [user[u] EXCEPT !.pc = IF user[u].waits THEN "poll" ELSE "preempt",
                                    !.limit = 0]
    <3>0. 0 \in 0..MaxCalls
      BY SlotsAssumption
    <3>1. x \in User /\ x.pc # "stop"
      BY <1>4, <3>0 DEF User, CallsOK
    <3>2. [NoCall EXCEPT !.pc = "hold"].pc = "hold"
      BY DEF NoCall
    <3>3. UserBecomes(u, x) \/ UserBecomes(u, [NoCall EXCEPT !.pc = "hold"])
      BY <2>3, <3>1, <3>2, NoCallType DEF Try, UserBecomes
    <3> QED
      BY <1>4, <3>3, UserFrame DEF CallsOK
  <2>4. ASSUME NEW u \in Users, GiveUp(u) \/ Finish(u) PROVE CallsOK'
    BY <1>4, <2>4, UserFrame, NoCallType DEF GiveUp, Finish, UserBecomes, CallsOK
  <2> QED
    BY <2>1, <2>2, <2>3, <2>4
<1>6. TypeOK' /\ LinksOK'
  BY <1>1, <1>3, <1>5 DEF TypeOK, LinksOK, CallsOK
<1> QED
  BY <1>2, <1>6

\* preemptBrief takes a stop function.
LEMMA PreemptInd ==
    ASSUME IndInv, NEW u \in Users, Preempt(u)
    PROVE  IndInv'
<1> USE DEF IndInv
<1>1. UNCHANGED <<max, active, note, page, brief>>
  BY DEF Preempt
<1>2. stops' \in [Clusters -> Notes \cup {None}] /\ \A c \in Clusters : stops'[c] \in {stops[c], None}
  BY DEF Preempt, TypeOK
<1>3. CallsOK
  BY DEF TypeOK, LinksOK, CallsOK
<1>4. CallsOK'
  <2>1. CASE user' = [user EXCEPT ![u] = NoCall]
    BY <1>3, <2>1, UserFrame, NoCallType DEF UserBecomes, CallsOK
  <2>2. ASSUME NEW c \in Clusters, stops[c] # None,
               user' = [user EXCEPT ![u] = [@ EXCEPT !.pc = "stop", !.stop = stops[c],
                                                     !.of = c]]
        PROVE  CallsOK'
    <3> DEFINE x == [user[u] EXCEPT !.pc = "stop", !.stop = stops[c], !.of = c]
    <3>1. stops[c] \in Notes
      BY <2>2 DEF TypeOK
    <3>2. x \in User /\ x.stop = stops[c] /\ x.of = c
      BY <1>3, <3>1 DEF User, CallsOK
    <3>3. UserBecomes(u, x)
      BY <2>2, <3>1, <3>2 DEF UserBecomes
    <3> QED
      BY <1>3, <3>3, UserFrame DEF CallsOK
  <2> QED
    BY <2>1, <2>2 DEF Preempt
<1>5. TypeOK' /\ LinksOK'
  BY <1>1, <1>2, <1>4 DEF TypeOK, LinksOK, CallsOK
<1>6. OneRun' /\ NoteMatches'
  BY <1>1 DEF OneRun, Streams, NoteMatches
<1>7. RegisteredIsLive'
  BY <1>1, <1>2 DEF RegisteredIsLive
<1> QED
  BY <1>5, <1>6, <1>7

\* Every note keeps its type, its status, its run and what it shows.
SameNotes ==
    /\ note' \in [Clusters -> Note]
    /\ \A c \in Clusters : /\ note'[c].status = note[c].status
                           /\ note'[c].runID = note[c].runID
                           /\ note'[c].noteID = note[c].noteID
                           /\ note'[c].target = note[c].target

\* The flags of a note that the page, a stop function and time change.
LEMMA NoteFlags ==
    ASSUME NEW n \in Note, NEW b \in BOOLEAN, NEW a \in {"new", "settled", "debounced"},
           NEW x \in {[n EXCEPT !.preempted = b], [n EXCEPT !.force = b],
                      [n EXCEPT !.cool = b], [n EXCEPT !.age = a]}
    PROVE  /\ x \in Note
           /\ x.status = n.status /\ x.runID = n.runID
           /\ x.noteID = n.noteID /\ x.target = n.target
<1>1. CASE x = [n EXCEPT !.preempted = b]
  BY <1>1 DEF Note
<1>2. CASE x = [n EXCEPT !.force = b]
  BY <1>2 DEF Note
<1>3. CASE x = [n EXCEPT !.cool = b]
  BY <1>3 DEF Note
<1>4. CASE x = [n EXCEPT !.age = a]
  BY <1>4 DEF Note
<1> QED
  BY <1>1, <1>2, <1>3, <1>4

\* It is enough to look at the note that changes.
LEMMA NoteFrame ==
    ASSUME note \in [Clusters -> Note], NEW c \in Clusters, NEW x \in Note,
           note' = [note EXCEPT ![c] = x],
           x.status = note[c].status, x.runID = note[c].runID,
           x.noteID = note[c].noteID, x.target = note[c].target
    PROVE  SameNotes
BY DEF SameNotes

\* The stop function runs.
LEMMA StopInd ==
    ASSUME IndInv, NEW u \in Users, StopNote(u)
    PROVE  IndInv'
<1> USE DEF IndInv
<1> DEFINE k == user[u].stop
           c == user[u].of
<1>1. /\ user[u].pc = "stop" /\ k \in Notes /\ c \in Clusters
      /\ UNCHANGED <<max, active, page, stops>>
  BY DEF LinksOK, StopNote
<1>2. CallsOK
  BY DEF TypeOK, LinksOK, CallsOK
<1>3. CallsOK'
  <2> DEFINE x == [user[u] EXCEPT !.pc = "poll", !.waits = TRUE, !.stop = None, !.of = None]
  <2>1. x \in User /\ x.pc = "poll"
    BY <1>2 DEF User, CallsOK
  <2>2. UserBecomes(u, x)
    BY <2>1 DEF UserBecomes, StopNote
  <2> QED
    BY <1>2, <2>2, UserFrame DEF CallsOK
<1>4. SameNotes
  <2> DEFINE x == [note[c] EXCEPT !.preempted = TRUE]
  <2>1. /\ x \in Note
        /\ x.status = note[c].status /\ x.runID = note[c].runID
        /\ x.noteID = note[c].noteID /\ x.target = note[c].target
    BY <1>1, NoteFlags DEF TypeOK
  <2>2. note' = [note EXCEPT ![c] = x]
    BY <1>1 DEF StopNote
  <2> HIDE DEF x
  <2> QED
    BY <1>1, <2>1, <2>2, NoteFrame DEF TypeOK
<1>5. /\ brief' \in [Notes -> Brief]
      /\ \A j \in Notes : /\ brief'[j].pc = brief[j].pc
                          /\ brief'[j].cluster = brief[j].cluster
                          /\ brief'[j].target = brief[j].target
  <2> DEFINE b == (brief[k].cancelled \/ brief[k].pc = "stream")
             x == [brief[k] EXCEPT !.cancelled = b]
  <2>1. b \in BOOLEAN
    BY <1>1 DEF TypeOK, Brief
  <2> HIDE DEF b
  <2>2. /\ x \in Brief
        /\ x.pc = brief[k].pc /\ x.cluster = brief[k].cluster /\ x.target = brief[k].target
    BY <1>1, <2>1 DEF TypeOK, Brief
  <2>3. brief' = [brief EXCEPT ![k] = x]
    BY <1>1 DEF StopNote, b
  <2> HIDE DEF x
  <2> QED
    BY <1>1, <2>2, <2>3 DEF TypeOK
<1>6. TypeOK' /\ LinksOK'
  BY <1>1, <1>3, <1>4, <1>5 DEF TypeOK, LinksOK, CallsOK, SameNotes
<1>7. OneRun'
  BY <1>1, <1>4, <1>5 DEF OneRun, Streams, SameNotes
<1>8. NoteMatches' /\ RegisteredIsLive'
  BY <1>1, <1>4, <1>5 DEF NoteMatches, RegisteredIsLive, SameNotes, TypeOK
<1> QED
  BY <1>6, <1>7, <1>8

\* A step of the page or of time leaves the status and the run of a note, and a
\* page that asks for a slot has seen that the note is not running.
LEMMA PageInd ==
    ASSUME IndInv, NEW c \in Clusters,
           \/ Regenerate(c) \/ Settle(c) \/ Cool(c)
           \/ \E top \in Problems, inferred \in BOOLEAN : View(c, top, inferred)
    PROVE  IndInv'
<1> USE DEF IndInv
<1>1. UNCHANGED <<max, active, user, brief, stops>>
  BY DEF Regenerate, Settle, Cool, View
<1>2. note \in [Clusters -> Note] /\ page \in [Clusters -> Page \cup {None}]
  BY DEF TypeOK
<1>3. /\ SameNotes
      /\ page' \in [Clusters -> Page \cup {None}]
      /\ \A d \in Clusters : page'[d] # None => note[d].status # "running"
  <2>1. CASE Regenerate(c) \/ Settle(c) \/ Cool(c)
    <3>1. PICK x : /\ note' = [note EXCEPT ![c] = x]
                   /\ \/ x = [note[c] EXCEPT !.force = TRUE]
                      \/ x = [note[c] EXCEPT !.age = "settled"]
                      \/ x = [note[c] EXCEPT !.age = "debounced"]
                      \/ x = [note[c] EXCEPT !.cool = FALSE]
      BY <2>1 DEF Regenerate, Settle, Cool
    <3>2. /\ x \in Note
          /\ x.status = note[c].status /\ x.runID = note[c].runID
          /\ x.noteID = note[c].noteID /\ x.target = note[c].target
      <4>0. note[c] \in Note
        BY <1>2
      <4>1. CASE x = [note[c] EXCEPT !.force = TRUE]
        BY <4>0, <4>1, NoteFlags
      <4>2. CASE x = [note[c] EXCEPT !.age = "settled"]
        BY <4>0, <4>2, NoteFlags
      <4>3. CASE x = [note[c] EXCEPT !.age = "debounced"]
        BY <4>0, <4>3, NoteFlags
      <4>4. CASE x = [note[c] EXCEPT !.cool = FALSE]
        BY <4>0, <4>4, NoteFlags
      <4> QED
        BY <3>1, <4>1, <4>2, <4>3, <4>4
    <3>3. SameNotes
      BY <1>2, <3>1, <3>2, NoteFrame
    <3> QED
      BY <1>2, <2>1, <3>3 DEF Regenerate, Settle, Cool, LinksOK
  <2>2. ASSUME NEW top \in Problems, NEW inferred \in BOOLEAN, View(c, top, inferred)
        PROVE  /\ SameNotes
               /\ page' \in [Clusters -> Page \cup {None}]
               /\ \A d \in Clusters : page'[d] # None => note[d].status # "running"
    <3> DEFINE x == IF top = note[c].seenID THEN note[c]
                    ELSE [note[c] EXCEPT !.seenID = top, !.age = "new"]
    <3>1. /\ note' = [note EXCEPT ![c] = x]
          /\ \/ page' = [page EXCEPT ![c] = None]
             \/ /\ page' = [page EXCEPT ![c] = [top |-> top, limit |-> max]]
                /\ x.status # "running"
      BY <2>2 DEF View, Starts
    <3>2. /\ x \in Note
          /\ x.status = note[c].status /\ x.runID = note[c].runID
          /\ x.noteID = note[c].noteID /\ x.target = note[c].target
      BY <1>2, ZenonT(40) DEF Note
    <3>3. SameNotes
      BY <1>2, <3>1, <3>2, NoteFrame
    <3>4. [top |-> top, limit |-> max] \in Page
      BY SlotsAssumption DEF Page, TypeOK
    <3> HIDE DEF x
    <3> QED
      BY <1>2, <3>1, <3>2, <3>3, <3>4 DEF LinksOK
  <2> QED
    BY <2>1, <2>2
<1>4. TypeOK' /\ LinksOK'
  BY <1>1, <1>3 DEF TypeOK, LinksOK, SameNotes
<1>5. OneRun'
  BY <1>1, <1>3 DEF OneRun, Streams, SameNotes
<1>6. NoteMatches' /\ RegisteredIsLive'
  BY <1>1, <1>3 DEF NoteMatches, RegisteredIsLive, SameNotes
<1> QED
  BY <1>4, <1>5, <1>6

\* A note waits for a slot.
LEMMA WaitInd ==
    ASSUME IndInv, NEW c \in Clusters, Take(c), UNCHANGED <<active, brief, stops>>,
           note' = [note EXCEPT ![c] = [@ EXCEPT !.status = "waiting", !.cool = TRUE]]
    PROVE  IndInv'
<1> USE DEF IndInv
<1>1. /\ page[c] # None
      /\ UNCHANGED <<max, user>>
      /\ page' \in [Clusters -> Page \cup {None}]
      /\ \A d \in Clusters : page'[d] # None => page[d] # None /\ d # c
  BY DEF Take, TypeOK
<1>2. note[c].status # "running"
  BY <1>1 DEF LinksOK
<1>3. /\ note' \in [Clusters -> Note]
      /\ note'[c].status = "waiting"
      /\ \A d \in Clusters : /\ note'[d].noteID = note[d].noteID
                             /\ note'[d].target = note[d].target
                             /\ note'[d].runID = note[d].runID
                             /\ d # c => note'[d].status = note[d].status
  <2> DEFINE x == [note[c] EXCEPT !.status = "waiting", !.cool = TRUE]
  <2>1. /\ x \in Note /\ x.status = "waiting" /\ x.noteID = note[c].noteID
        /\ x.target = note[c].target /\ x.runID = note[c].runID
    BY ZenonT(40) DEF TypeOK, Note
  <2>2. note' = [note EXCEPT ![c] = x]
    OBVIOUS
  <2> HIDE DEF x
  <2> QED
    BY <2>1, <2>2 DEF TypeOK
<1>4. TypeOK' /\ LinksOK'
  BY <1>1, <1>2, <1>3 DEF TypeOK, LinksOK
<1>5. OneRun'
  BY <1>2, <1>3 DEF OneRun, Streams
<1>6. NoteMatches' /\ RegisteredIsLive'
  BY <1>3 DEF NoteMatches, RegisteredIsLive
<1> QED
  BY <1>4, <1>5, <1>6

\* A run starts: the note was not running, so it is the cluster's only one.
LEMMA RunInd ==
    ASSUME IndInv, NEW c \in Clusters, Take(c), active' = active + 1,
           note' = [note EXCEPT ![c] = [@ EXCEPT !.status = "running", !.force = FALSE,
                                                !.preempted = FALSE,
                                                !.runID = page[c].top]],
           NEW k \in Notes, Free(k),
           brief' = [brief EXCEPT ![k] = [pc |-> "stream", cluster |-> c,
                                          target |-> page[c].top, cancelled |-> FALSE]],
           stops' = [stops EXCEPT ![c] = k]
    PROVE  IndInv'
<1> USE DEF IndInv
<1> DEFINE top == page[c].top
<1>1. /\ page[c] # None
      /\ UNCHANGED <<max, user>>
      /\ page' \in [Clusters -> Page \cup {None}]
      /\ \A d \in Clusters : page'[d] # None => page[d] # None /\ d # c
  BY DEF Take, TypeOK
<1>2. note[c].status # "running" /\ top \in Problems
  BY <1>1 DEF LinksOK, TypeOK, Page
<1> HIDE DEF top
<1>3. /\ note' \in [Clusters -> Note]
      /\ note'[c].status = "running" /\ note'[c].runID = top
      /\ \A d \in Clusters : /\ note'[d].noteID = note[d].noteID
                             /\ note'[d].target = note[d].target
                             /\ d # c => note'[d] = note[d]
  <2> DEFINE x == [note[c] EXCEPT !.status = "running", !.force = FALSE,
                                  !.preempted = FALSE, !.runID = top]
  <2>1. /\ x \in Note /\ x.status = "running" /\ x.noteID = note[c].noteID
        /\ x.target = note[c].target /\ x.runID = top
    BY <1>2, ZenonT(40) DEF TypeOK, Note
  <2>2. note' = [note EXCEPT ![c] = x]
    BY DEF top
  <2> HIDE DEF x
  <2> QED
    BY <2>1, <2>2 DEF TypeOK
<1>4. brief[k].pc = "none"
  BY DEF Free, NoBrief
<1>5. /\ brief' \in [Notes -> Brief]
      /\ brief'[k].pc = "stream" /\ brief'[k].cluster = c /\ brief'[k].target = top
      /\ \A j \in Notes : j # k => brief'[j] = brief[j]
  <2> DEFINE x == [pc |-> "stream", cluster |-> c, target |-> top, cancelled |-> FALSE]
  <2>1. x \in Brief /\ x.pc = "stream" /\ x.cluster = c /\ x.target = top
    BY <1>2 DEF Brief
  <2>2. brief' = [brief EXCEPT ![k] = x]
    BY DEF top
  <2> HIDE DEF x
  <2> QED
    BY <2>1, <2>2 DEF TypeOK
<1>6. TypeOK' /\ LinksOK'
  <2>1. TypeOK'
    BY <1>1, <1>3, <1>5 DEF TypeOK
  <2> QED
    BY <1>1, <1>2, <1>3, <1>5, <2>1 DEF LinksOK
<1>7. OneRun'
  <2> SUFFICES ASSUME NEW d \in Clusters
      PROVE /\ note'[d].status = "running" <=> \E j \in Notes : Streams(j, d)'
            /\ \A i, j \in Notes : Streams(i, d)' /\ Streams(j, d)' => i = j
            /\ \A j \in Notes : Streams(j, d)' => brief'[j].target = note'[d].runID
    BY DEF OneRun
  <2>1. CASE d = c
    <3>1. \A j \in Notes : ~Streams(j, c)
      BY <1>2 DEF OneRun
    <3> QED
      BY <1>3, <1>5, <2>1, <3>1 DEF Streams
  <2>2. CASE d # c
    <3>1. \A j \in Notes : Streams(j, d)' <=> Streams(j, d)
      BY <1>4, <1>5, <2>2 DEF Streams
    <3>2. \A j \in Notes : Streams(j, d) => brief'[j].target = brief[j].target
      BY <1>4, <1>5 DEF Streams
    <3> QED
      BY <1>3, <2>2, <3>1, <3>2 DEF OneRun
  <2> QED
    BY <2>1, <2>2
<1>8. NoteMatches'
  BY <1>3 DEF NoteMatches
<1>9. RegisteredIsLive'
  BY <1>4, <1>5 DEF RegisteredIsLive, TypeOK
<1> QED
  BY <1>6, <1>7, <1>8, <1>9

\* The two outcomes of maybeStartBrief's request for a slot.
LEMMA TakeInd ==
    ASSUME IndInv, NEW c \in Clusters, Take(c)
    PROVE  IndInv'
<1>1. CASE /\ note' = [note EXCEPT ![c] = [@ EXCEPT !.status = "waiting", !.cool = TRUE]]
           /\ UNCHANGED <<active, brief, stops>>
  BY <1>1, WaitInd
<1>2. CASE ~(/\ note' = [note EXCEPT ![c] = [@ EXCEPT !.status = "waiting", !.cool = TRUE]]
             /\ UNCHANGED <<active, brief, stops>>)
  <2>1. /\ active' = active + 1
        /\ note' = [note EXCEPT ![c] = [@ EXCEPT !.status = "running", !.force = FALSE,
                                                !.preempted = FALSE,
                                                !.runID = page[c].top]]
    BY <1>2 DEF Take
  <2>2. PICK k \in Notes :
           /\ Free(k)
           /\ brief' = [brief EXCEPT ![k] = [pc |-> "stream", cluster |-> c,
                                             target |-> page[c].top, cancelled |-> FALSE]]
           /\ stops' = [stops EXCEPT ![c] = k]
    BY <1>2 DEF Take
  <2> QED
    BY <2>1, <2>2, RunInd
<1> QED
  BY <1>1, <1>2

\* A run ends: what it writes into the note is about the problem it was about.
LEMMA EndRunInd ==
    ASSUME IndInv, NEW k \in Notes, NEW ok \in BOOLEAN, EndRun(k, ok)
    PROVE  IndInv'
<1> USE DEF IndInv
<1>0. PICK c \in Clusters : c = brief[k].cluster
  BY DEF EndRun, LinksOK
<1> DEFINE n == note[c]
           x == Finished(n, k, ok)
<1>1. /\ brief[k].pc = "stream" /\ brief[k].target \in Problems
      /\ page[c] = None
      /\ note' = [note EXCEPT ![c] = x]
      /\ UNCHANGED <<max, active, user, page, stops>>
  BY <1>0 DEF EndRun, LinksOK
<1>2. n \in Note /\ n.runID = brief[k].target /\ n.noteID = n.target
  BY <1>0, <1>1 DEF TypeOK, OneRun, Streams, NoteMatches
<1> HIDE DEF n
<1>3. x \in Note /\ x.status # "running" /\ x.noteID = x.target
  <2>1. CASE n.preempted
    <3>1. x = [n EXCEPT !.status = "waiting", !.cool = TRUE, !.force = TRUE]
      BY <2>1 DEF Finished
    <3> QED
      BY <1>2, <3>1 DEF Note
  <2>2. CASE ~n.preempted /\ ok
    <3>1. x = [n EXCEPT !.status = "ready", !.noteID = n.runID, !.target = brief[k].target]
      BY <2>2 DEF Finished
    <3> HIDE DEF x
    <3> QED
      BY <1>1, <1>2, <3>1 DEF Note
  <2>3. CASE ~n.preempted /\ ~ok
    <3>1. x = [n EXCEPT !.status = "error", !.cool = TRUE]
      BY <2>3 DEF Finished
    <3> QED
      BY <1>2, <3>1 DEF Note
  <2> QED
    BY <2>1, <2>2, <2>3
<1> HIDE DEF x
<1>4. /\ note' \in [Clusters -> Note]
      /\ note'[c].status # "running" /\ note'[c].noteID = note'[c].target
      /\ \A d \in Clusters : d # c => note'[d] = note[d]
  BY <1>1, <1>3 DEF TypeOK
<1>5. /\ brief' \in [Notes -> Brief]
      /\ brief'[k].pc = "unregister" /\ brief'[k].cluster = c
      /\ brief'[k].target = brief[k].target
      /\ \A j \in Notes : j # k => brief'[j] = brief[j]
  BY <1>0 DEF EndRun, TypeOK, Brief
<1>6. TypeOK' /\ LinksOK'
  <2>1. TypeOK'
    BY <1>1, <1>4, <1>5 DEF TypeOK
  <2> QED
    BY <1>1, <1>4, <1>5, <2>1 DEF LinksOK
<1>7. OneRun'
  <2> SUFFICES ASSUME NEW d \in Clusters
      PROVE /\ note'[d].status = "running" <=> \E j \in Notes : Streams(j, d)'
            /\ \A i, j \in Notes : Streams(i, d)' /\ Streams(j, d)' => i = j
            /\ \A j \in Notes : Streams(j, d)' => brief'[j].target = note'[d].runID
    BY DEF OneRun
  <2>1. CASE d = c
    <3>1. \A j \in Notes : Streams(j, c) => j = k
      BY <1>0, <1>1 DEF OneRun, Streams
    <3>2. \A j \in Notes : ~Streams(j, c)'
      BY <1>5, <3>1 DEF Streams
    <3> QED
      BY <1>4, <2>1, <3>2
  <2>2. CASE d # c
    <3>1. \A j \in Notes : Streams(j, d)' <=> Streams(j, d)
      BY <1>0, <1>5, <2>2 DEF Streams
    <3>2. \A j \in Notes : brief'[j].target = brief[j].target
      BY <1>5
    <3> QED
      BY <1>4, <2>2, <3>1, <3>2 DEF OneRun
  <2> QED
    BY <2>1, <2>2
<1>8. NoteMatches'
  BY <1>4 DEF NoteMatches
<1>9. RegisteredIsLive'
  BY <1>0, <1>1, <1>5 DEF RegisteredIsLive, TypeOK
<1> QED
  BY <1>6, <1>7, <1>8, <1>9

\* The deferred calls of a run that has ended.
LEMMA DeferInd ==
    ASSUME IndInv, NEW k \in Notes, Unregister(k) \/ ReleaseSlot(k)
    PROVE  IndInv'
<1> USE DEF IndInv
<1>1. UNCHANGED <<max, user, note, page>> /\ active' \in Int
  BY DEF Unregister, ReleaseSlot, TypeOK
<1>2. /\ brief[k].pc # "stream" /\ brief[k].pc # "none"
      /\ brief' \in [Notes -> Brief]
      /\ \A j \in Notes : j # k => brief'[j] = brief[j]
      /\ brief'[k].pc \in {"release", "none"}
      /\ brief'[k].pc # "none" => /\ brief'[k].cluster = brief[k].cluster
                                  /\ brief'[k].target = brief[k].target
  <2>0. brief \in [Notes -> Brief] /\ NoBrief \in Brief /\ NoBrief.pc = "none"
    BY DEF TypeOK, Brief, NoBrief
  <2>1. CASE Unregister(k)
    BY <2>0, <2>1 DEF Unregister, Brief
  <2>2. CASE ReleaseSlot(k)
    BY <2>0, <2>2 DEF ReleaseSlot
  <2> QED
    BY <2>1, <2>2
<1>3. /\ stops' \in [Clusters -> Notes \cup {None}]
      /\ \A c \in Clusters : stops'[c] # None => stops'[c] = stops[c] /\ stops[c] # k
  <2>1. CASE Unregister(k)
    BY <2>1 DEF Unregister, TypeOK, RegisteredIsLive
  <2>2. CASE ReleaseSlot(k)
    BY <2>2 DEF ReleaseSlot, TypeOK, RegisteredIsLive
  <2> QED
    BY <2>1, <2>2
<1>4. TypeOK' /\ LinksOK'
  BY <1>1, <1>2, <1>3 DEF TypeOK, LinksOK
<1>5. OneRun' /\ NoteMatches'
  <2>1. \A j \in Notes, c \in Clusters : Streams(j, c)' <=> Streams(j, c)
    BY <1>2 DEF Streams
  <2>2. \A j \in Notes, c \in Clusters : Streams(j, c) => brief'[j].target = brief[j].target
    BY <1>2 DEF Streams
  <2> QED
    BY <1>1, <2>1, <2>2 DEF OneRun, NoteMatches
<1>6. RegisteredIsLive'
  BY <1>2, <1>3 DEF RegisteredIsLive, TypeOK
<1> QED
  BY <1>4, <1>5, <1>6

LEMMA NextInd == IndInv /\ [Next]_vars => IndInv'
<1> SUFFICES ASSUME IndInv, [Next]_vars PROVE IndInv'
  OBVIOUS
<1>1. CASE \E n \in 1..MaxCalls + 1 : SetMax(n)
  BY <1>1, CallsInd
<1>2. ASSUME NEW u \in Users, UserStep(u) PROVE IndInv'
  BY <1>2, CallsInd, PreemptInd, StopInd DEF UserStep
<1>3. ASSUME NEW c \in Clusters, NoteStep(c) PROVE IndInv'
  BY <1>3, PageInd, TakeInd DEF NoteStep
<1>4. ASSUME NEW k \in Notes, RunStep(k) PROVE IndInv'
  BY <1>4, EndRunInd, DeferInd DEF RunStep
<1>5. CASE UNCHANGED vars
  BY <1>5 DEF vars, IndInv, TypeOK, LinksOK, OneRun, Streams, NoteMatches, RegisteredIsLive
<1> QED
  BY <1>1, <1>2, <1>3, <1>4, <1>5 DEF Next

\* The state the code keeps consistent, in every reachable state.
THEOREM Inductive == Spec => []IndInv
BY InitInd, NextInd, PTL DEF Spec

\* Every variable keeps its type; the limit stays between 1 and the largest one
\* (setLLMMaxCalls clamps what a user types).
THEOREM TypeCorrect == Spec => []TypeOK
<1>1. IndInv => TypeOK
  BY DEF IndInv
<1> QED
  BY <1>1, Inductive, PTL

\* A cluster never has two notes running, and its status says whether it has one.
THEOREM OneRunAlways == Spec => []OneRun
<1>1. IndInv => OneRun
  BY DEF IndInv
<1> QED
  BY <1>1, Inductive, PTL

\* A finished note is always shown under the problem it was written about.
THEOREM NoteMatchesAlways == Spec => []NoteMatches
<1>1. IndInv => NoteMatches
  BY DEF IndInv
<1> QED
  BY <1>1, Inductive, PTL

\* A stop function found in briefRuns.stops is that of a run that has its slot.
THEOREM RegisteredIsLiveAlways == Spec => []RegisteredIsLive
<1>1. IndInv => RegisteredIsLive
  BY DEF IndInv
<1> QED
  BY <1>1, Inductive, PTL

------------------------------------------------------------------------------
(* Refinement *)
\* The steps that neither take nor give back a slot.
LEMMA Stutter ==
    ASSUME active' = active,
           \A u \in Users : user'[u].pc = "hold" <=> user[u].pc = "hold",
           \A k \in Notes : brief'[k].pc = "none" <=> brief[k].pc = "none"
    PROVE  UNCHANGED Pool!poolVars
BY DEF Pool!poolVars, Holders

\* A call takes a slot, is told there is none, or gives it back.
LEMMA UserRefines ==
    ASSUME IndInv, NEW u \in Users, UserStep(u)
    PROVE  [Pool!PoolNext]_(Pool!poolVars)
<1>0. user \in [Users -> User] /\ brief \in [Notes -> Brief]
  BY DEF IndInv, TypeOK
<1>1. CASE Try(u) /\ active < user[u].limit
  <2>1. /\ user[u].pc = "try" /\ active' = active + 1 /\ UNCHANGED brief
        /\ user' = [user EXCEPT ![u] = [NoCall EXCEPT !.pc = "hold"]]
    BY <1>0, <1>1 DEF Try, IndInv, TypeOK, User
  <2>2. active < MaxCalls
    BY <1>0, <1>1, SlotsAssumption DEF User, IndInv, TypeOK
  <2>3. [NoCall EXCEPT !.pc = "hold"].pc = "hold"
    BY DEF NoCall
  <2>4. Holders' = Holders \cup {u}
    BY <1>0, <2>1, <2>3 DEF Holders
  <2>5. u \notin Holders
    BY <2>1, SlotsAssumption DEF Holders
  <2>6. Pool!Acquire(u)
    BY <2>1, <2>2, <2>4, <2>5 DEF Pool!Acquire
  <2> QED
    BY <2>6 DEF Pool!PoolNext
<1>2. CASE Finish(u)
  <2>1. /\ user[u].pc = "hold" /\ active' = active - 1 /\ UNCHANGED brief
        /\ user' = [user EXCEPT ![u] = NoCall] /\ NoCall.pc # "hold"
    BY <1>2 DEF Finish, NoCall
  <2>2. Holders' = Holders \ {u} /\ u \in Holders
    BY <1>0, <2>1, SlotsAssumption DEF Holders
  <2>3. Pool!Release(u)
    BY <2>1, <2>2 DEF Pool!Release
  <2> QED
    BY <2>3 DEF Pool!PoolNext
<1>3. CASE /\ Call(u) \/ Try(u) \/ Preempt(u) \/ StopNote(u) \/ GiveUp(u)
           /\ ~(Try(u) /\ active < user[u].limit)
  <2>1. user[u].pc # "hold" /\ active' = active
    BY <1>0, <1>3 DEF Call, Try, Preempt, StopNote, GiveUp, IndInv, TypeOK, User
  <2>2. \A k \in Notes : brief'[k].pc = brief[k].pc
    <3>1. CASE StopNote(u)
      BY <1>0, <3>1 DEF StopNote, Brief
    <3>2. CASE ~StopNote(u)
      BY <1>3, <3>2 DEF Call, Try, Preempt, GiveUp
    <3> QED
      BY <3>1, <3>2
  <2>3. user'[u].pc # "hold" /\ \A v \in Users : v # u => user'[v] = user[v]
    <3> USE <1>0 DEF User
    <3>1. CASE Call(u)
      BY <3>1 DEF Call
    <3>2. CASE Try(u) /\ ~(active < user[u].limit)
      <4>1. user' = [user EXCEPT ![u] = [@ EXCEPT !.pc = IF user[u].waits THEN "poll" ELSE "preempt",
                                                  !.limit = 0]]
        BY <3>2 DEF Try
      <4> QED
        BY <4>1
    <3>3. CASE Preempt(u)
      <4>1. CASE user' = [user EXCEPT ![u] = NoCall]
        BY <4>1 DEF NoCall
      <4>2. CASE \E c \in Clusters :
                   user' = [user EXCEPT ![u] = [@ EXCEPT !.pc = "stop", !.stop = stops[c],
                                                         !.of = c]]
        BY <4>2
      <4> QED
        BY <3>3, <4>1, <4>2 DEF Preempt
    <3>4. CASE StopNote(u)
      BY <3>4 DEF StopNote
    <3>5. CASE GiveUp(u)
      BY <3>5 DEF GiveUp, NoCall
    <3> QED
      BY <1>3, <3>1, <3>2, <3>3, <3>4, <3>5
  <2> QED
    BY <1>0, <2>1, <2>2, <2>3, Stutter
<1> QED
  BY <1>1, <1>2, <1>3 DEF UserStep

\* A note takes a slot when its run starts, and gives it back at the end.
LEMMA NoteRefines ==
    ASSUME IndInv,
           \/ \E c \in Clusters : NoteStep(c)
           \/ \E k \in Notes : RunStep(k)
    PROVE  [Pool!PoolNext]_(Pool!poolVars)
<1>0. user \in [Users -> User] /\ brief \in [Notes -> Brief]
  BY DEF IndInv, TypeOK
<1>1. ASSUME NEW c \in Clusters, Take(c), active < page[c].limit
      PROVE  [Pool!PoolNext]_(Pool!poolVars)
  <2>1. page[c] \in Page
    BY <1>1 DEF Take, IndInv, TypeOK
  <2>2. page[c].limit \in 0..MaxCalls /\ active \in Int
    BY <2>1 DEF Page, IndInv, TypeOK
  <2>3. PICK k \in Notes :
           /\ Free(k)
           /\ brief' = [brief EXCEPT ![k] = [pc |-> "stream", cluster |-> c,
                                             target |-> page[c].top, cancelled |-> FALSE]]
    BY <1>1, <2>2 DEF Take
  <2>4. active' = active + 1 /\ UNCHANGED user
    BY <1>1, <2>2 DEF Take
  <2>5. Holders' = Holders \cup {k}
    BY <1>0, <2>3, <2>4 DEF Holders
  <2>6. k \notin Holders
    BY <2>3, SlotsAssumption DEF Holders, Free, NoBrief
  <2>7. Pool!Acquire(k)
    BY <1>1, <2>2, <2>4, <2>5, <2>6, SlotsAssumption DEF Pool!Acquire
  <2> QED
    BY <2>7 DEF Pool!PoolNext
<1>2. ASSUME NEW k \in Notes, ReleaseSlot(k) PROVE [Pool!PoolNext]_(Pool!poolVars)
  <2>1. /\ brief[k].pc # "none" /\ active' = active - 1 /\ UNCHANGED user
        /\ brief' = [brief EXCEPT ![k] = NoBrief] /\ NoBrief.pc = "none"
    BY <1>2 DEF ReleaseSlot, NoBrief
  <2>2. Holders' = Holders \ {k} /\ k \in Holders
    BY <1>0, <2>1, SlotsAssumption DEF Holders
  <2>3. Pool!Release(k)
    BY <2>1, <2>2 DEF Pool!Release
  <2> QED
    BY <2>3 DEF Pool!PoolNext
<1>3. ASSUME NEW c \in Clusters, NoteStep(c), ~(Take(c) /\ active < page[c].limit)
      PROVE  [Pool!PoolNext]_(Pool!poolVars)
  <2>1. UNCHANGED <<active, user, brief>>
    BY <1>3 DEF NoteStep, Regenerate, Take, Settle, Cool, View
  <2> QED
    BY <2>1, Stutter
<1>4. ASSUME NEW k \in Notes, Unregister(k) \/ \E ok \in BOOLEAN : EndRun(k, ok)
      PROVE  [Pool!PoolNext]_(Pool!poolVars)
  <2>1. UNCHANGED <<active, user>>
    BY <1>4 DEF Unregister, EndRun
  <2>2. \A j \in Notes : brief'[j].pc = "none" <=> brief[j].pc = "none"
    BY <1>0, <1>4 DEF Unregister, EndRun, Brief
  <2> QED
    BY <2>1, <2>2, Stutter
<1> QED
  BY <1>1, <1>2, <1>3, <1>4 DEF RunStep

\* What the settings, the calls and the notes do to slots is what a bounded pool
\* allows, for any number of them.
THEOREM SlotsRefinePool == Spec => ImplementsPool
<1>1. Init => Pool!PoolInit
  BY DEF Init, Pool!PoolInit, Holders, NoCall, NoBrief
<1>2. IndInv /\ [Next]_vars => [Pool!PoolNext]_(Pool!poolVars)
  <2> SUFFICES ASSUME IndInv, [Next]_vars PROVE [Pool!PoolNext]_(Pool!poolVars)
    OBVIOUS
  <2>1. CASE \E n \in 1..MaxCalls + 1 : SetMax(n)
    BY <2>1, Stutter DEF SetMax
  <2>2. CASE UNCHANGED vars
    BY <2>2, Stutter DEF vars
  <2> QED
    BY <2>1, <2>2, UserRefines, NoteRefines DEF Next
<1> QED
  BY <1>1, <1>2, Inductive, PTL DEF Spec, ImplementsPool, Pool!PoolSpec

\* llmActiveCalls is exact and never above the largest limit.
THEOREM SlotsAccountedAlways == Spec => []SlotsAccounted
<1>1. Accounted => SlotsAccounted
  BY DEF Accounted
<1> QED
  BY <1>1, SlotsRefinePool, PoolStart, PoolStep, PTL DEF ImplementsPool, Pool!PoolSpec

==============================================================================
