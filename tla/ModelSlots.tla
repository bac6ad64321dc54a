------------------------------ MODULE ModelSlots ------------------------------
(***************************************************************************)
(* The slots of the language model (settings.go), and who competes for     *)
(* them: the analyses and RCAs a user starts (acquireLLMSlotForUser), and  *)
(* the note the model writes on the most urgent problem of each cluster    *)
(* (brief.go), which a user's call may stop to get its slot.               *)
(*                                                                         *)
(* One action is one critical section.  note[c] is c.brief, guarded by its *)
(* mutex; a page request keeps that mutex while it asks for a slot, which  *)
(* reads the limit under one lock and the counter under another.           *)
(*                                                                         *)
(* Left out: prompts, evidence and texts, and durations: a delay is a step *)
(* that may come any time (Settle, Cool, GiveUp).                          *)
(***************************************************************************)
EXTENDS Integers, FiniteSets

CONSTANTS
    Clusters,  \* clusterState objects
    Users,     \* goroutines that call the model for a user
    Notes,     \* runs of runBrief that may exist at once
    Problems,  \* noteIDs: a problem's key and tier
    MaxCalls,  \* the largest limit setLLMMaxCalls accepts
    None       \* nil, or the empty noteID

ASSUME SlotsAssumption ==
    /\ MaxCalls \in Nat \ {0}
    /\ None \notin Notes /\ None \notin Problems /\ None \notin Clusters
    /\ Users \cap Notes = {}

VARIABLES
    max,     \* llmMaxCallsVal
    active,  \* llmActiveCalls
    user,    \* the user calls
    note,    \* c.brief, for each cluster
    page,    \* the page request that holds c.brief's mutex for a slot
    brief,   \* the runBrief goroutines
    stops    \* briefRuns.stops: cluster -> the run its stop function stops

vars == <<max, active, user, note, page, brief, stops>>

------------------------------------------------------------------------------
(* State *)

\* limit: the limit acquireLLMSlot has read.  waits: in the polling loop.
\* stop, of: the run, and its cluster, whose stop function preemptBrief took
\* out of the map.
User == [pc : {"idle", "try", "preempt", "stop", "poll", "hold"},
         limit : 0..MaxCalls, waits : BOOLEAN, stop : Notes \cup {None},
         of : Clusters \cup {None}]

NoCall == [pc |-> "idle", limit |-> 0, waits |-> FALSE, stop |-> None,
           of |-> None]

\* age: how long seenID has been on top, as far as briefSettle and
\* briefDebounce tell.  cool: retryAt is still to come.
Note == [status : {"idle", "waiting", "running", "ready", "error"},
         noteID : Problems \cup {None}, target : Problems \cup {None},
         runID : Problems \cup {None}, preempted : BOOLEAN,
         seenID : Problems \cup {None}, age : {"new", "settled", "debounced"},
         cool : BOOLEAN, force : BOOLEAN]

NoNote == [status |-> "idle", noteID |-> None, target |-> None, runID |-> None,
           preempted |-> FALSE, seenID |-> None, age |-> "new",
           cool |-> FALSE, force |-> FALSE]

\* pc: the deferred calls of runBrief run after the note is updated.
Brief == [pc : {"none", "stream", "unregister", "release"},
          cluster : Clusters \cup {None}, target : Problems \cup {None},
          cancelled : BOOLEAN]

NoBrief == [pc |-> "none", cluster |-> None, target |-> None, cancelled |-> FALSE]

Page == [top : Problems, limit : 0..MaxCalls]

TypeOK ==
    /\ max \in 1..MaxCalls
    /\ active \in Int
    /\ user \in [Users -> User]
    /\ note \in [Clusters -> Note]
    /\ page \in [Clusters -> Page \cup {None}]
    /\ brief \in [Notes -> Brief]
    /\ stops \in [Clusters -> Notes \cup {None}]

Init ==
    /\ max \in 1..MaxCalls
    /\ active = 0
    /\ user = [u \in Users |-> NoCall]
    /\ note = [c \in Clusters |-> NoNote]
    /\ page = [c \in Clusters |-> None]
    /\ brief = [k \in Notes |-> NoBrief]
    /\ stops = [c \in Clusters |-> None]

------------------------------------------------------------------------------
(* Settings *)

\* setLLMMaxCalls
SetMax(n) ==
    /\ max' = IF n < 1 THEN 1 ELSE IF n > MaxCalls THEN MaxCalls ELSE n
    /\ UNCHANGED <<active, user, note, page, brief, stops>>

------------------------------------------------------------------------------
(* A user's call: acquireLLMSlotForUser, the call itself, releaseLLMSlot *)

\* acquireLLMSlot reads the limit: the first try, or the next of the polls.
Call(u) ==
    /\ user[u].pc \in {"idle", "poll"}
    /\ user' = [user EXCEPT ![u] = [@ EXCEPT !.pc = "try", !.limit = max]]
    /\ UNCHANGED <<max, active, note, page, brief, stops>>

\* ... and takes a slot if fewer are in use.
Try(u) ==
    /\ user[u].pc = "try"
    /\ \/ /\ active < user[u].limit
          /\ active' = active + 1
          /\ user' = [user EXCEPT ![u] = [NoCall EXCEPT !.pc = "hold"]]
       \/ /\ active >= user[u].limit
          /\ user' = [user EXCEPT ![u] = [@ EXCEPT !.pc = IF user[u].waits THEN "poll" ELSE "preempt",
                                                !.limit = 0]]
          /\ UNCHANGED active
    /\ UNCHANGED <<max, note, page, brief, stops>>

\* preemptBrief takes the stop function of some running note; without one the
\* call is refused.
Preempt(u) ==
    /\ user[u].pc = "preempt"
    /\ \/ /\ \A c \in Clusters : stops[c] = None
          /\ user' = [user EXCEPT ![u] = NoCall]
          /\ UNCHANGED stops
       \/ \E c \in Clusters :
             /\ stops[c] # None
             /\ user' = [user EXCEPT ![u] = [@ EXCEPT !.pc = "stop", !.stop = stops[c],
                                                   !.of = c]]
             /\ stops' = [stops EXCEPT ![c] = None]
    /\ UNCHANGED <<max, active, note, page, brief>>

\* It calls it: the note of that run's cluster is preempted, and the run, if it
\* has not ended meanwhile, cancelled.
StopNote(u) ==
    LET k == user[u].stop
        c == user[u].of
    IN /\ user[u].pc = "stop"
       /\ page[c] = None
       /\ note' = [note EXCEPT ![c].preempted = TRUE]
       /\ brief' = [brief EXCEPT ![k].cancelled = (@ \/ brief[k].pc = "stream")]
       /\ user' = [user EXCEPT ![u] = [@ EXCEPT !.pc = "poll", !.waits = TRUE,
                                             !.stop = None, !.of = None]]
       /\ UNCHANGED <<max, active, page, stops>>

\* Mutant: every poll moves the deadline.
GiveUpNever(u) ==
    /\ user[u].pc = "poll" /\ ~user[u].waits
    /\ user' = [user EXCEPT ![u] = NoCall]
    /\ UNCHANGED <<max, active, note, page, brief, stops>>

\* Three seconds of polling are over.
GiveUp(u) ==
    /\ user[u].pc = "poll"
    /\ user' = [user EXCEPT ![u] = NoCall]
    /\ UNCHANGED <<max, active, note, page, brief, stops>>

\* The answer is there, or an error; the slot is released.
Finish(u) ==
    /\ user[u].pc = "hold"
    /\ user' = [user EXCEPT ![u] = NoCall]
    /\ active' = active - 1
    /\ UNCHANGED <<max, note, page, brief, stops>>

------------------------------------------------------------------------------
(* A cluster's note *)

\* regenerateBrief; the view that follows it is View.
Regenerate(c) ==
    /\ page[c] = None
    /\ note' = [note EXCEPT ![c].force = TRUE]
    /\ UNCHANGED <<max, active, user, page, brief, stops>>

\* The note is due: on demand, on first sight, or for a new top problem.
Due(n, top, inferred) ==
    \/ n.force
    \/ n.noteID = None /\ (inferred => n.age # "new")
    \/ top # n.noteID /\ n.age = "debounced"

\* Mutant: a note that is running may start again.
StartsAgain(n, top, inferred) ==
    /\ Due(n, top, inferred)
    /\ n.force \/ ~n.cool

\* maybeStartBrief asks for a slot.
Starts(n, top, inferred) ==
    /\ n.status # "running"
    /\ Due(n, top, inferred)
    /\ n.force \/ ~n.cool

\* maybeStartBrief, up to its request for a slot.
View(c, top, inferred) ==
    LET n == IF top = note[c].seenID THEN note[c]
             ELSE [note[c] EXCEPT !.seenID = top, !.age = "new"]
    IN /\ page[c] = None
       /\ note' = [note EXCEPT ![c] = n]
       /\ page' = [page EXCEPT ![c] = IF Starts(n, top, inferred)
                                      THEN [top |-> top, limit |-> max] ELSE None]
       /\ UNCHANGED <<max, active, user, brief, stops>>

\* Nothing refers to the run any more.
Free(k) == brief[k] = NoBrief /\ \A u \in Users : user[u].stop # k

\* The rest of maybeStartBrief: the note waits for a slot, or a run starts.
Take(c) ==
    /\ page[c] # None
    /\ page' = [page EXCEPT ![c] = None]
    /\ \/ /\ active >= page[c].limit
          /\ note' = [note EXCEPT ![c] = [@ EXCEPT !.status = "waiting", !.cool = TRUE]]
          /\ UNCHANGED <<active, brief, stops>>
       \/ /\ active < page[c].limit
          /\ active' = active + 1
          /\ note' = [note EXCEPT ![c] = [@ EXCEPT !.status = "running", !.force = FALSE,
                                                !.preempted = FALSE,
                                                !.runID = page[c].top]]
          /\ \E k \in Notes :
                /\ Free(k)
                /\ brief' = [brief EXCEPT ![k] = [pc |-> "stream", cluster |-> c,
                                                  target |-> page[c].top,
                                                  cancelled |-> FALSE]]
                /\ stops' = [stops EXCEPT ![c] = k]
    /\ UNCHANGED <<max, user>>

\* Mutant: the note is filed under the problem the page shows now.
FinishedSeen(n, k, ok) ==
    CASE n.preempted -> [n EXCEPT !.status = "waiting", !.cool = TRUE, !.force = TRUE]
      [] ~n.preempted /\ ok -> [n EXCEPT !.status = "ready", !.noteID = n.seenID,
                                         !.target = brief[k].target]
      [] OTHER -> [n EXCEPT !.status = "error", !.cool = TRUE]

\* What the model's answer makes of the note; a preempted run is to be resumed.
Finished(n, k, ok) ==
    CASE n.preempted -> [n EXCEPT !.status = "waiting", !.cool = TRUE, !.force = TRUE]
      [] ~n.preempted /\ ok -> [n EXCEPT !.status = "ready", !.noteID = n.runID,
                                         !.target = brief[k].target]
      [] OTHER -> [n EXCEPT !.status = "error", !.cool = TRUE]

\* Mutant: the stream does not notice that it is cancelled.
EndRunDeaf(k, ok) ==
    LET c == brief[k].cluster
    IN /\ brief[k].pc = "stream" /\ ~brief[k].cancelled
       /\ page[c] = None
       /\ note' = [note EXCEPT ![c] = Finished(note[c], k, ok)]
       /\ brief' = [brief EXCEPT ![k].pc = "unregister"]
       /\ UNCHANGED <<max, active, user, page, stops>>

\* runBrief: the answer came, failed or was empty (ok = FALSE).
EndRun(k, ok) ==
    LET c == brief[k].cluster
    IN /\ brief[k].pc = "stream"
       /\ page[c] = None
       /\ note' = [note EXCEPT ![c] = Finished(note[c], k, ok)]
       /\ brief' = [brief EXCEPT ![k].pc = "unregister"]
       /\ UNCHANGED <<max, active, user, page, stops>>

\* Mutant: the stop function stays in the map.
UnregisterNothing(k) ==
    /\ brief[k].pc = "unregister"
    /\ brief' = [brief EXCEPT ![k].pc = "release"]
    /\ UNCHANGED <<max, active, user, note, page, stops>>

\* Its deferred setBriefRun(c, nil): whatever the cluster has registered goes ...
Unregister(k) ==
    /\ brief[k].pc = "unregister"
    /\ stops' = [stops EXCEPT ![brief[k].cluster] = None]
    /\ brief' = [brief EXCEPT ![k].pc = "release"]
    /\ UNCHANGED <<max, active, user, note, page>>

\* Mutant: the slot is not given back.
ReleaseNothing(k) ==
    /\ brief[k].pc = "release"
    /\ brief' = [brief EXCEPT ![k] = NoBrief]
    /\ UNCHANGED <<max, active, user, note, page, stops>>

\* ... and its deferred releaseLLMSlot.
ReleaseSlot(k) ==
    /\ brief[k].pc = "release"
    /\ active' = active - 1
    /\ brief' = [brief EXCEPT ![k] = NoBrief]
    /\ UNCHANGED <<max, user, note, page, stops>>

\* Time passes for the top problem of a page, and for retryAt.
Settle(c) ==
    /\ note[c].seenID # None
    /\ \/ note[c].age = "new" /\ note' = [note EXCEPT ![c].age = "settled"]
       \/ note[c].age = "settled" /\ note' = [note EXCEPT ![c].age = "debounced"]
    /\ UNCHANGED <<max, active, user, page, brief, stops>>

Cool(c) ==
    /\ note[c].cool
    /\ note' = [note EXCEPT ![c].cool = FALSE]
    /\ UNCHANGED <<max, active, user, page, brief, stops>>

------------------------------------------------------------------------------

UserStep(u) ==
    \/ Call(u) \/ Try(u) \/ Preempt(u) \/ StopNote(u) \/ GiveUp(u) \/ Finish(u)

NoteStep(c) ==
    \/ Regenerate(c) \/ Take(c) \/ Settle(c) \/ Cool(c)
    \/ \E top \in Problems, inferred \in BOOLEAN : View(c, top, inferred)

RunStep(k) ==
    \/ \E ok \in BOOLEAN : EndRun(k, ok)
    \/ Unregister(k) \/ ReleaseSlot(k)

Next ==
    \/ \E n \in 1..MaxCalls + 1 : SetMax(n)
    \/ \E u \in Users : UserStep(u)
    \/ \E c \in Clusters : NoteStep(c)
    \/ \E k \in Notes : RunStep(k)

Spec == Init /\ [][Next]_vars

------------------------------------------------------------------------------
(* Properties *)

\* The goroutines that hold a slot.
Holders ==
    {u \in Users : user[u].pc = "hold"} \cup {k \in Notes : brief[k].pc # "none"}

Pool == INSTANCE SlotPool WITH Callers <- Users \cup Notes, held <- Holders

\* Every slot is acquired by a goroutine that holds none, below the largest
\* limit, and released by one that holds it, whatever order calls, notes, stops
\* and changes of the limit come in (acquireLLMSlot, releaseLLMSlot).
ImplementsPool == Pool!PoolSpec

\* llmActiveCalls is the number of goroutines that hold a slot, and never passes
\* the largest limit: no slot leaks when a note is stopped, preempted twice, or
\* replaced while its defers still run.
SlotsAccounted == active = Cardinality(Holders) /\ active <= MaxCalls

Streams(k, c) == brief[k].pc = "stream" /\ brief[k].cluster = c

\* A cluster's note shows "running" exactly while one run, and only one, is
\* streaming for it, and that run is about the problem the note says it is
\* (maybeStartBrief's status check against runBrief's last critical section).
OneRun ==
    \A c \in Clusters :
        /\ note[c].status = "running" <=> \E k \in Notes : Streams(k, c)
        /\ \A j, k \in Notes : Streams(j, c) /\ Streams(k, c) => j = k
        /\ \A k \in Notes : Streams(k, c) => brief[k].target = note[c].runID

\* The finished note is shown under the problem it was written about: noteID
\* comes from the shared state, target from the run's own copy (runBrief).
NoteMatches == \A c \in Clusters : note[c].noteID = note[c].target

\* A stop function that preemptBrief can find stops a run that still has its
\* slot, on the cluster it is registered for (setBriefRun, runBrief's defers).
RegisteredIsLive ==
    \A c \in Clusters :
        stops[c] # None => /\ brief[stops[c]].pc \in {"stream", "unregister"}
                           /\ brief[stops[c]].cluster = c

------------------------------------------------------------------------------
(* The inductive invariant the proofs in ModelSlotsProofs rest on *)

\* A run has a cluster and a problem while it exists; a call that took a stop
\* function knows whose it is; a page that asks for a slot keeps the note from
\* changing its status.
LinksOK ==
    /\ \A k \in Notes :
         brief[k].pc # "none" => brief[k].cluster \in Clusters /\ brief[k].target \in Problems
    /\ \A u \in Users :
         user[u].pc = "stop" => user[u].stop \in Notes /\ user[u].of \in Clusters
    /\ \A c \in Clusters : page[c] # None => note[c].status # "running"

IndInv == TypeOK /\ LinksOK /\ OneRun /\ NoteMatches /\ RegisteredIsLive

------------------------------------------------------------------------------
(* Liveness.  Go runs every goroutine that can run, gives a mutex to whoever *)
(* waits for it long enough, lets deadlines pass, and every call of the      *)
(* model has a timeout (getLLMTimeout).                                      *)

WeakFairness ==
    /\ \A u \in Users : /\ WF_vars(user[u].pc # "idle" /\ Call(u)) /\ WF_vars(Try(u))
                        /\ WF_vars(Preempt(u)) /\ WF_vars(Finish(u))
    /\ \A c \in Clusters : WF_vars(Take(c))
    /\ \A k \in Notes : WF_vars(Unregister(k)) /\ WF_vars(ReleaseSlot(k))

Ends(k) == \E ok \in BOOLEAN : EndRun(k, ok)

Fairness ==
    /\ WeakFairness
    /\ \A u \in Users : SF_vars(StopNote(u)) /\ SF_vars(GiveUp(u))
    /\ \A k \in Notes : SF_vars(Ends(k))

FairSpec == Spec /\ Fairness

\* A user's call for a slot is answered: a slot or a refusal.
CallResolves == \A u \in Users : user[u].pc # "idle" ~> user[u].pc \in {"idle", "hold"}

\* A note that runs ends, and its slot comes back (runBrief's defers).
SlotReturns == \A k \in Notes : brief[k].pc # "none" ~> brief[k].pc = "none"

==============================================================================
