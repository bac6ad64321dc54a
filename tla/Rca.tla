--------------------------------- MODULE Rca ---------------------------------
(***************************************************************************)
(* Root cause analyses: the handler that starts one (rca.go), the loop that  *)
(* asks a local model and runs the tools it wants, and a Claude Code session  *)
(* that calls the same tools through an MCP endpoint (claudecode.go, mcp.go). *)
(* What a prompt, a tool or an answer says is left out, and so is which tools *)
(* a model is offered: it may answer with any.  Slots are ModelSlots' matter: *)
(* here a call may be refused.                                                *)
(***************************************************************************)
EXTENDS Integers, Sequences, FiniteSets

CONSTANTS
    Objects,   \* what is analysed
    States,    \* RCAState values, each with the goroutine that fills it
    Requests,  \* MCP requests served at once
    MaxIter,   \* getRCAMaxIter
    Runaway,   \* mcpRunawayCalls
    MaxTools,  \* bound on the tool calls of one answer
    Trails,    \* steps of the evidence: logs that were read or not, linked objects
    NoState    \* nil

ASSUME RcaAssumption ==
    /\ IsFiniteSet(Requests) /\ MaxIter \in Nat /\ Runaway \in Nat /\ MaxTools \in Nat
    /\ Trails \subseteq Seq({"done", "error", "unavailable"})
    /\ NoState \notin States \cup Objects

VARIABLES
    rcaRunning,  \* the objects being analysed
    rcaCache,    \* object -> RCAState
    rca,         \* the RCAStates
    call         \* the MCP requests

rcaVars == <<rcaRunning, rcaCache, rca, call>>

------------------------------------------------------------------------------
(* State *)

\* initial: how many of the steps are Initial.  todo, step: the tool calls left of
\* the model's answer, and the step that runs.  calls, token, stopped: rcaToolRun's
\* counter, whether rcaToolRuns has it, and whether its context was cancelled.
State == [pc : {"free", "claimed", "gather", "ask", "model", "tools", "tool", "final",
                "slot", "claude", "over", "ended"},
          object : Objects \cup {NoState}, status : {"running", "done", "error"},
          iter : 0..MaxIter, steps : Seq({"running", "done", "error", "unavailable"}),
          initial : Nat, todo : 0..MaxTools, step : Nat,
          calls : Nat, token : BOOLEAN, stopped : BOOLEAN]

Free == [pc |-> "free", object |-> NoState, status |-> "running", iter |-> 0, steps |-> <<>>,
         initial |-> 0, todo |-> 0, step |-> 0, calls |-> 0, token |-> FALSE, stopped |-> FALSE]

\* run: the rcaToolRun found; n: its number; step: the step it runs.
Call == [pc : {"idle", "sent", "found", "counted", "exec"}, run : States \cup {NoState},
         n : Nat, step : Nat]

Idle == [pc |-> "idle", run |-> NoState, n |-> 0, step |-> 0]

RcaTypeOK ==
    /\ rcaRunning \subseteq Objects /\ rcaCache \in [Objects -> States \cup {NoState}]
    /\ rca \in [States -> State] /\ call \in [Requests -> Call]

RcaInit ==
    /\ rcaRunning = {} /\ rcaCache = [o \in Objects |-> NoState]
    /\ rca = [s \in States |-> Free] /\ call = [c \in Requests |-> Idle]

------------------------------------------------------------------------------
(* handleAPIRCAStart and the goroutine it starts *)

\* Mutant: whether one runs is not looked at.
StartAgain(o, s) ==
    /\ rca[s].pc = "free"
    /\ rcaRunning' = rcaRunning \cup {o}
    /\ rca' = [rca EXCEPT ![s] = [Free EXCEPT !.pc = "claimed", !.object = o]]
    /\ UNCHANGED <<rcaCache, call>>

\* LoadOrStore; with one running the request is answered and nothing changes.
Start(o, s) ==
    /\ rca[s].pc = "free" /\ o \notin rcaRunning
    /\ rcaRunning' = rcaRunning \cup {o}
    /\ rca' = [rca EXCEPT ![s] = [Free EXCEPT !.pc = "claimed", !.object = o]]
    /\ UNCHANGED <<rcaCache, call>>

\* The new state is stored; a poll before this was answered with the old one.
Begin(s) ==
    /\ rca[s].pc = "claimed"
    /\ rcaCache' = [rcaCache EXCEPT ![rca[s].object] = s]
    /\ rca' = [rca EXCEPT ![s].pc = "gather"]
    /\ UNCHANGED <<rcaRunning, call>>

\* The first prompt, then the backend as it is set at that moment.
Gather(s) ==
    /\ rca[s].pc = "gather"
    /\ \E trail \in Trails, backend \in {"ask", "slot"} :
         rca' = [rca EXCEPT ![s] = [@ EXCEPT !.pc = backend, !.steps = trail,
                                             !.initial = Len(trail)]]
    /\ UNCHANGED <<rcaRunning, rcaCache, call>>

\* The next iteration, or after the last one a conclusion without tools.
Ask(s) ==
    /\ rca[s].pc = "ask"
    /\ rca' = [rca EXCEPT ![s] = IF rca[s].iter < MaxIter
                                 THEN [@ EXCEPT !.pc = "model", !.iter = rca[s].iter + 1]
                                 ELSE [@ EXCEPT !.pc = "final"]]
    /\ UNCHANGED <<rcaRunning, rcaCache, call>>

\* The model wants tools.
Answer(s) ==
    /\ rca[s].pc = "model"
    /\ \E n \in 1..MaxTools : rca' = [rca EXCEPT ![s] = [@ EXCEPT !.pc = "tools", !.todo = n]]
    /\ UNCHANGED <<rcaRunning, rcaCache, call>>

\* It wants none, or says that it stops.
Conclude(s) ==
    /\ rca[s].pc \in {"model", "final"}
    /\ rca' = [rca EXCEPT ![s] = [@ EXCEPT !.pc = "over", !.status = "done"]]
    /\ UNCHANGED <<rcaRunning, rcaCache, call>>

\* fail: no slot, an overflow of the context, any other error or a timeout.
Fail(s) ==
    /\ rca[s].pc \in {"model", "final", "slot"}
    /\ rca' = [rca EXCEPT ![s] = [@ EXCEPT !.pc = "over", !.status = "error"]]
    /\ UNCHANGED <<rcaRunning, rcaCache, call>>

\* A tool call becomes a step; executeRCATool always has an answer.
ToolBegins(s) ==
    /\ rca[s].pc = "tools"
    /\ rca' = [rca EXCEPT ![s] = [@ EXCEPT !.pc = "tool", !.steps = Append(rca[s].steps, "running"),
                                           !.step = Len(rca[s].steps) + 1]]
    /\ UNCHANGED <<rcaRunning, rcaCache, call>>

ToolEnds(s) ==
    /\ rca[s].pc = "tool"
    /\ rca' = [rca EXCEPT ![s] = [@ EXCEPT !.pc = IF rca[s].todo = 1 THEN "ask" ELSE "tools",
                                           !.todo = rca[s].todo - 1,
                                           !.steps[rca[s].step] = "done"]]
    /\ UNCHANGED <<rcaRunning, rcaCache, call>>

------------------------------------------------------------------------------
(* runRCAClaude *)

\* The slot is there: the run's token is registered and claude started.
Session(s) ==
    /\ rca[s].pc = "slot"
    /\ rca' = [rca EXCEPT ![s] = [@ EXCEPT !.pc = "claude", !.token = TRUE]]
    /\ UNCHANGED <<rcaRunning, rcaCache, call>>

\* ccRun returns: an error, a timeout, a cancelled context; or an answer.
SessionEnds(s) ==
    /\ rca[s].pc = "claude"
    /\ \E status \in {"done", "error"} :
         /\ rca[s].stopped => status = "error"
         /\ rca' = [rca EXCEPT ![s] = [@ EXCEPT !.pc = "over", !.status = status]]
    /\ UNCHANGED <<rcaRunning, rcaCache, call>>

\* The deferred rcaToolRuns.Delete.
Unregister(s) ==
    /\ rca[s].pc = "over" /\ rca[s].token
    /\ rca' = [rca EXCEPT ![s].token = FALSE]
    /\ UNCHANGED <<rcaRunning, rcaCache, call>>

\* Mutant: the object is given back only after a result.
OverDone(s) ==
    /\ rca[s].pc = "over" /\ ~rca[s].token
    /\ rcaRunning' = IF rca[s].status = "done" THEN rcaRunning \ {rca[s].object} ELSE rcaRunning
    /\ rca' = [rca EXCEPT ![s].pc = "ended"]
    /\ UNCHANGED <<rcaCache, call>>

\* The deferred rcaRunning.Delete.
Over(s) ==
    /\ rca[s].pc = "over" /\ ~rca[s].token
    /\ rcaRunning' = rcaRunning \ {rca[s].object}
    /\ rca' = [rca EXCEPT ![s].pc = "ended"]
    /\ UNCHANGED <<rcaCache, call>>

\* Nobody refers to it any more; it may stand for another one.
Collect(s) ==
    /\ rca[s].pc = "ended"
    /\ \A o \in Objects : rcaCache[o] # s
    /\ \A c \in Requests : call[c].run # s
    /\ rca' = [rca EXCEPT ![s] = Free]
    /\ UNCHANGED <<rcaRunning, rcaCache, call>>

------------------------------------------------------------------------------
(* handleMCPRCA.  The methods that call no tool change nothing. *)

\* claude calls a tool, perhaps before it has the answer to the last one.  Once the
\* context is cancelled it is killed; what it has sent still arrives.
Send(c, s) ==
    /\ call[c].pc = "idle" /\ rca[s].pc = "claude" /\ ~rca[s].stopped
    /\ call' = [call EXCEPT ![c] = [Idle EXCEPT !.pc = "sent", !.run = s]]
    /\ UNCHANGED <<rcaRunning, rcaCache, rca>>

\* The token is looked up: the run, or "no such RCA run".
Lookup(c) ==
    /\ call[c].pc = "sent"
    /\ call' = [call EXCEPT ![c] = IF rca[call[c].run].token THEN [@ EXCEPT !.pc = "found"] ELSE Idle]
    /\ UNCHANGED <<rcaRunning, rcaCache, rca>>

\* The call is counted, under the run's lock.
Count(c) ==
    LET s == call[c].run
    IN /\ call[c].pc = "found"
       /\ rca' = [rca EXCEPT ![s].calls = @ + 1]
       /\ call' = [call EXCEPT ![c] = [@ EXCEPT !.pc = "counted", !.n = rca[s].calls + 1]]
       /\ UNCHANGED <<rcaRunning, rcaCache>>

\* Past its budget the model is told to answer; past that the session is stopped.
Told(c) ==
    /\ call[c].pc = "counted" /\ call[c].n > MaxIter
    /\ rca' = [rca EXCEPT ![call[c].run].stopped = @ \/ call[c].n > MaxIter + Runaway]
    /\ call' = [call EXCEPT ![c] = Idle]
    /\ UNCHANGED <<rcaRunning, rcaCache>>

\* Mutant: the step's place is taken from the call's number.
CallBeginsByNumber(c) ==
    LET s == call[c].run
    IN /\ call[c].pc = "counted" /\ call[c].n <= MaxIter
       /\ rca' = [rca EXCEPT ![s] = [@ EXCEPT !.iter = call[c].n,
                                              !.steps = Append(rca[s].steps, "running")]]
       /\ call' = [call EXCEPT ![c] = [@ EXCEPT !.pc = "exec", !.step = rca[s].initial + call[c].n]]
       /\ UNCHANGED <<rcaRunning, rcaCache>>

\* Mutant: the call's number is the step's place, also when an earlier call has taken it.
CallBeginsOver(c) ==
    LET s == call[c].run
        i == rca[s].initial + call[c].n
    IN /\ call[c].pc = "counted" /\ call[c].n <= MaxIter
       /\ rca' = [rca EXCEPT ![s] = [@ EXCEPT !.iter = call[c].n,
                    !.steps = IF i \in DOMAIN @ THEN [@ EXCEPT ![i] = "running"] ELSE Append(@, "running")]]
       /\ call' = [call EXCEPT ![c] = [@ EXCEPT !.pc = "exec", !.step = Len(rca'[s].steps)]]
       /\ UNCHANGED <<rcaRunning, rcaCache>>

\* The call becomes a step, whether or not the run is over; calls may do so in
\* another order than they were counted in.
CallBegins(c) ==
    LET s == call[c].run
    IN /\ call[c].pc = "counted" /\ call[c].n <= MaxIter
       /\ rca' = [rca EXCEPT ![s] = [@ EXCEPT !.iter = call[c].n,
                                              !.steps = Append(rca[s].steps, "running")]]
       /\ call' = [call EXCEPT ![c] = [@ EXCEPT !.pc = "exec", !.step = Len(rca[s].steps) + 1]]
       /\ UNCHANGED <<rcaRunning, rcaCache>>

CallEnds(c) ==
    /\ call[c].pc = "exec"
    /\ rca' = [rca EXCEPT ![call[c].run].steps[call[c].step] = "done"]
    /\ call' = [call EXCEPT ![c] = Idle]
    /\ UNCHANGED <<rcaRunning, rcaCache>>

------------------------------------------------------------------------------

Agent(s) ==
    \/ Begin(s) \/ Gather(s) \/ Ask(s) \/ Answer(s) \/ Conclude(s) \/ Fail(s)
    \/ ToolBegins(s) \/ ToolEnds(s) \/ Session(s) \/ SessionEnds(s) \/ Unregister(s) \/ Over(s)

Serve(c) == Lookup(c) \/ Count(c) \/ Told(c) \/ CallBegins(c) \/ CallEnds(c)

RcaNext ==
    \/ \E s \in States : Agent(s) \/ Collect(s) \/ \E o \in Objects : Start(o, s)
    \/ \E c \in Requests : Serve(c) \/ \E s \in States : Send(c, s)

\* Goroutines run, and everything they wait for answers or times out.
RcaFairness ==
    /\ \A s \in States : WF_rcaVars(Agent(s))
    /\ \A c \in Requests : WF_rcaVars(Serve(c))

RcaSpec == RcaInit /\ [][RcaNext]_rcaVars

------------------------------------------------------------------------------
(* Properties *)

Works(s) == rca[s].pc \notin {"free", "claimed", "ended"}

\* One goroutine at a time works on an object, and it fills the state that is polled
\* (rcaRunning, rcaCache).
OneAgent ==
    \A s \in States : Works(s) =>
        /\ rcaCache[rca[s].object] = s
        /\ \A t \in States \ {s} : Works(t) => rca[t].object # rca[s].object

Executing(s) == {c \in Requests : call[c].pc = "exec" /\ call[c].run = s}

\* Calls may overlap, overtake each other and outlive the run; still every step shown
\* as running is run by exactly one of them, and a session runs no more tools than
\* its budget allows (rcaToolRun.call).
TrailSound ==
    \A s \in States :
        LET running == {i \in DOMAIN rca[s].steps : rca[s].steps[i] = "running"}
            own     == IF rca[s].pc = "tool" THEN {rca[s].step} ELSE {}
        IN /\ running = own \cup {call[c].step : c \in Executing(s)}
           /\ \A c \in Executing(s) : /\ call[c].step \notin own
                                     /\ \A d \in Executing(s) \ {c} : call[c].step # call[d].step
           /\ rca[s].calls > 0 => Len(rca[s].steps) <= rca[s].initial + MaxIter

\* While the panel polls one analysis its trail only grows, a step that has ended stays
\* as it ended, and so does the analysis, although calls overtake each other and outlive
\* the run, and the object may be analysed again (handleAPIRCAStatus, rcaToolRun.call).
PollsAdvance ==
    [][\A o \in Objects :
         LET s == rcaCache[o]
         IN s # NoState /\ rcaCache'[o] = s =>
              /\ Len(rca[s].steps) <= Len(rca'[s].steps)
              /\ \A i \in DOMAIN rca[s].steps :
                   rca[s].steps[i] # "running" => rca'[s].steps[i] = rca[s].steps[i]
              /\ rca[s].status # "running" => rca'[s].status = rca[s].status]_rcaVars

\* An analysis that was started ends, and the object can be analysed again.
RunEnds == \A o \in Objects : o \in rcaRunning ~> o \notin rcaRunning

==============================================================================
