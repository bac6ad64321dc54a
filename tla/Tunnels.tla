------------------------------- MODULE Tunnels -------------------------------
(***************************************************************************)
(* The tunnels of KubeHealth (tunnels.go): saved definitions, the run      *)
(* behind each name, the operating-system processes those runs spawn, and  *)
(* everything that acts on them concurrently: HTTP requests (start, stop,  *)
(* create/edit/rename, delete, switch cluster), the goroutines that wait   *)
(* for a process and for its port, restart timers, and shutdown.           *)
(*                                                                         *)
(* A run is an object reached through a pointer: a rename or a delete      *)
(* removes it from the map tunnelRuns.m while goroutines, timers and       *)
(* requests in flight still hold it.  Every step below is one critical     *)
(* section of the code, so that steps of other actors fall in between      *)
(* exactly where the code releases its locks.                              *)
(*                                                                         *)
(* Left out: the output lines and error texts of a run, the restart        *)
(* counter (it only selects a delay), and durations.                       *)
(***************************************************************************)
EXTENDS Naturals

CONSTANTS
    Names,        \* tunnel names
    Definitions,  \* [port, cmd, contexts] records a user may save
    Ports,        \* local endpoints (host:port)
    Contexts,     \* kubeconfig contexts
    Runs,         \* tunnelRun objects that may be allocated
    Procs,        \* processes that may be spawned
    Clients,      \* HTTP requests served at the same time
    MaxGen,       \* bound on the starts of one run
    Faults,       \* operating-system failures that may happen
    Inputs,       \* what the world outside may do: requests, shutdown, ports
    NoPort,       \* endpoint of a definition in mode "none"
    None          \* a nil pointer, an empty name, an absent definition

ASSUME NoneAssumption ==
    /\ None \notin Names /\ None \notin Definitions /\ None \notin Contexts
    /\ None \notin Runs /\ None \notin Procs
    /\ NoPort \notin Ports
    /\ MaxGen \in Nat
    /\ Faults \subseteq {"start", "pipe", "disk"}
    /\ Inputs \subseteq {"start", "stop", "edit", "delete", "open", "exit", "outside"}

ASSUME DefinitionsAssumption ==
    \A d \in Definitions : /\ d.port \in Ports \cup {NoPort}
                           /\ d.contexts \in SUBSET Contexts
                           /\ d.contexts # {}

VARIABLES
    defs,     \* prefs.Tunnels: name -> definition or None
    runOf,    \* tunnelRuns.m: name -> run or None
    run,      \* the tunnelRun objects
    made,     \* the runs allocated so far
    proc,     \* the processes of the operating system
    timers,   \* pending time.AfterFunc restarts
    active,   \* the watched context (clusters.active)
    outside,  \* ports some program other than ours listens on
    req,      \* the request each client has in flight
    life,     \* the life of KubeHealth itself
    waiting   \* processes stopAllTunnels waits for

vars == <<defs, runOf, run, made, proc, timers, active, outside, req, life, waiting>>

------------------------------------------------------------------------------
(* State *)

RunStates == {"stopped", "starting", "running", "external", "exited", "failed"}

\* up: readyAt is set, the tunnel reached "running" since it was last spawned.
Run == [state : RunStates, cmd : Procs \cup {None}, keep : BOOLEAN,
        gen : Nat, up : BOOLEAN]

NewRun == [state |-> "stopped", cmd |-> None, keep |-> FALSE, gen |-> 0, up |-> FALSE]

\* phase: alive until the process ends, dead until its Wait goroutine has run
\* exited(), reaped after.  told: the signal terminate() has sent.  watch: its
\* watchReady goroutine is still polling.
Proc == [phase : {"none", "alive", "dead", "reaped"}, run : Runs \cup {None},
         gen : Nat, name : Names \cup {None}, def : Definitions \cup {None},
         listening : BOOLEAN, told : {"no", "term", "kill"}, watch : BOOLEAN]

NoProc == [phase |-> "none", run |-> None, gen |-> 0, name |-> None, def |-> None,
           listening |-> FALSE, told |-> "no", watch |-> FALSE]

Timer == [run : Runs, gen : Nat, name : Names, fired : BOOLEAN,
          def : Definitions \cup {None}]

Ops == {"start", "stop", "edit", "delete", "open"}

Steps == {"idle", "startDef", "startRun", "startLocked", "stopRun", "stopLocked",
          "save", "delete", "drop", "ready", "switch"}

\* name: the tunnel a request is about (the new name, in an edit); prev: the
\* name it is renamed from; start: start it after saving; run, got: what the
\* request has looked up so far.
Request == [pc : Steps, op : Ops, name : Names \cup {None}, prev : Names \cup {None},
            def : Definitions \cup {None}, start : BOOLEAN,
            ctx : Contexts \cup {None}, run : Runs \cup {None},
            got : Definitions \cup {None}]

Idle == [pc |-> "idle", op |-> "stop", name |-> None, prev |-> None, def |-> None,
         start |-> FALSE, ctx |-> None, run |-> None, got |-> None]

TypeOK ==
    /\ defs \in [Names -> Definitions \cup {None}]
    /\ runOf \in [Names -> Runs \cup {None}]
    /\ run \in [Runs -> Run]
    /\ made \subseteq Runs
    /\ proc \in [Procs -> Proc]
    /\ timers \subseteq Timer
    /\ active \in Contexts
    /\ outside \subseteq Ports
    /\ req \in [Clients -> Request]
    /\ life \in {"up", "stopping", "gone"}
    /\ waiting \subseteq Procs

\* No context and no endpoint is served by two of the saved tunnels.
UniqueUse ==
    \A m, n \in Names :
        m # n /\ defs[m] # None /\ defs[n] # None =>
            /\ defs[m].contexts \cap defs[n].contexts = {}
            /\ defs[m].port = defs[n].port => defs[m].port = NoPort

\* After main() has loaded prefs.json, which saveTunnel wrote, and initClusters
\* has picked the current context; starting that context's tunnel is an "open"
\* request like any other.
Init ==
    /\ defs \in [Names -> Definitions \cup {None}]
    /\ UniqueUse
    /\ runOf = [n \in Names |-> None]
    /\ run = [r \in Runs |-> NewRun]
    /\ made = {}
    /\ proc = [p \in Procs |-> NoProc]
    /\ timers = {}
    /\ active \in Contexts
    /\ outside = {}
    /\ req = [c \in Clients |-> Idle]
    /\ life = "up"
    /\ waiting = {}

------------------------------------------------------------------------------
(* Helpers *)

\* tunnelForContext
TunnelsFor(ctx) == {n \in Names : defs[n] # None /\ ctx \in defs[n].contexts}

\* tunnelInUse: the cluster KubeHealth watches goes through this tunnel.
InUse(n) == n \in TunnelsFor(active)

\* portOpen: something accepts connections on the endpoint.
PortOpen(port) ==
    \/ port \in outside
    \/ \E p \in Procs : /\ proc[p].phase = "alive"
                        /\ proc[p].listening
                        /\ proc[p].def.port = port

\* terminate: SIGTERM now; Kill below is what it does after its grace.
Told(p) == [p EXCEPT !.told = IF @ = "no" THEN "term" ELSE @]

\* The goroutine goes on to step pc of its request, or ends it.
Goto(c, pc) == req' = [req EXCEPT ![c].pc = pc]
Done(c) == req' = [req EXCEPT ![c] = Idle]

\* runFor: the run of a name, allocated on first use.
RunFor(n, r) ==
    IF runOf[n] # None
    THEN r = runOf[n] /\ UNCHANGED <<runOf, made>>
    ELSE /\ r \in Runs \ made
         /\ made' = made \cup {r}
         /\ runOf' = [runOf EXCEPT ![n] = r]

\* Mutant: the run does not keep the new process.
SpawnNoCmd(r, n, d) ==
    /\ run[r].gen < MaxGen
    /\ \E p \in Procs :
        /\ proc[p].phase = "none"
        /\ run' = [run EXCEPT ![r] = [@ EXCEPT !.state = "starting", !.keep = TRUE,
                                              !.gen = @ + 1, !.up = FALSE]]
        /\ proc' = [proc EXCEPT ![p] =
                      [NoProc EXCEPT !.phase = "alive", !.run = r, !.gen = run[r].gen + 1,
                                     !.name = n, !.def = d, !.watch = TRUE]]

\* spawnLocked when cmd.Start succeeds.
Spawn(r, n, d) ==
    /\ run[r].gen < MaxGen
    /\ \E p \in Procs :
        /\ proc[p].phase = "none"
        /\ run' = [run EXCEPT ![r] = [state |-> "starting", cmd |-> p, keep |-> TRUE,
                                      gen |-> @.gen + 1, up |-> FALSE]]
        /\ proc' = [proc EXCEPT ![p] =
                      [NoProc EXCEPT !.phase = "alive", !.run = r, !.gen = run[r].gen + 1,
                                     !.name = n, !.def = d, !.watch = TRUE]]

\* Mutant: a failed start leaves the state "starting" set before it.
SpawnFailsStarting(r) ==
    /\ "start" \in Faults
    /\ run[r].gen < MaxGen
    /\ run' = [run EXCEPT ![r] = [@ EXCEPT !.state = "starting", !.keep = TRUE,
                                          !.gen = @ + 1]]
    /\ UNCHANGED proc

\* spawnLocked when cmd.Start fails: cmd and readyAt keep their old values.
SpawnFails(r) ==
    /\ "start" \in Faults
    /\ run[r].gen < MaxGen
    /\ run' = [run EXCEPT ![r] = [state |-> "failed", cmd |-> @.cmd, keep |-> TRUE,
                                  gen |-> @.gen + 1, up |-> @.up]]
    /\ UNCHANGED proc

\* spawnLocked when os.Pipe fails: it returns before it touches the run.
PipeFails(r) ==
    /\ "pipe" \in Faults
    /\ run' = [run EXCEPT ![r].keep = TRUE]
    /\ UNCHANGED proc

------------------------------------------------------------------------------
(* Requests.  Guards of the HTTP layer that refuse a request without any   *)
(* effect (localRequest, validate, checkContexts) only bound the inputs.   *)

Arrive(c, q) ==
    /\ life # "gone"
    /\ q.op \in Inputs
    /\ req[c].pc = "idle"
    /\ req' = [req EXCEPT ![c] = q]
    /\ UNCHANGED <<defs, runOf, run, made, proc, timers, active, outside, life, waiting>>

RequestStart(c, n) ==
    Arrive(c, [Idle EXCEPT !.pc = "startDef", !.op = "start", !.name = n])

RequestStop(c, n) ==
    /\ defs[n] # None
    /\ Arrive(c, [Idle EXCEPT !.pc = "stopRun", !.op = "stop", !.name = n])

RequestDelete(c, n) ==
    Arrive(c, [Idle EXCEPT !.pc = "stopRun", !.op = "delete", !.name = n])

\* Create or edit: the old definition is looked up, and its tunnel stopped
\* first when the command or the endpoint changes.
RequestEdit(c, n, prev, d, start) ==
    LET changes == /\ prev # None
                   /\ defs[prev] # None
                   /\ defs[prev].cmd # d.cmd \/ defs[prev].port # d.port
    IN Arrive(c, [Idle EXCEPT !.pc = IF changes THEN "stopRun" ELSE "save",
                              !.op = "edit", !.name = n, !.prev = prev, !.def = d,
                              !.start = start])

\* handleAPIContext: the context's tunnel comes first, unless skip_tunnel.
RequestOpen(c, ctx, skip) ==
    \/ /\ skip \/ TunnelsFor(ctx) = {}
       /\ Arrive(c, [Idle EXCEPT !.pc = "switch", !.op = "open", !.ctx = ctx])
    \/ /\ ~skip
       /\ \E n \in TunnelsFor(ctx) :
            Arrive(c, [Idle EXCEPT !.pc = "startDef", !.op = "open", !.name = n, !.ctx = ctx])

\* startTunnel: the definition ...
StartDef(c) ==
    /\ life # "gone"
    /\ req[c].pc = "startDef"
    /\ IF defs[req[c].name] = None
       THEN Done(c)
       ELSE req' = [req EXCEPT ![c].pc = "startRun", ![c].got = defs[req[c].name]]
    /\ UNCHANGED <<defs, runOf, run, made, proc, timers, active, outside, life, waiting>>

\* ... then the run ...
StartRun(c) ==
    /\ life # "gone"
    /\ req[c].pc = "startRun"
    /\ \E r \in Runs : /\ RunFor(req[c].name, r)
                       /\ req' = [req EXCEPT ![c].pc = "startLocked", ![c].run = r]
    /\ UNCHANGED <<defs, run, proc, timers, active, outside, life, waiting>>

\* ... then, holding r.mu: it is up already, its port is open, or it is spawned.
StartLocked(c) ==
    LET r == req[c].run
        d == req[c].got
        up == run[r].state \in {"starting", "running", "external"}
        taken == d.port # NoPort /\ PortOpen(d.port)
        ok == IF req[c].op = "open" THEN Goto(c, "ready") ELSE Done(c)
    IN /\ life # "gone"
       /\ req[c].pc = "startLocked"
       /\ \/ /\ up
             /\ run' = [run EXCEPT ![r].keep = TRUE]
             /\ UNCHANGED proc
             /\ ok
          \/ /\ ~up /\ taken
             /\ run' = [run EXCEPT ![r].state = "external", ![r].keep = TRUE]
             /\ UNCHANGED proc
             /\ ok
          \/ /\ ~up /\ ~taken
             /\ \/ Spawn(r, req[c].name, d) /\ ok
                \/ (SpawnFails(r) \/ PipeFails(r)) /\ Done(c)
       /\ UNCHANGED <<defs, runOf, made, timers, active, outside, life, waiting>>

\* startContextTunnel's second half: switch only once the tunnel is usable.
Ready(c) ==
    /\ life # "gone"
    /\ req[c].pc = "ready"
    /\ \E r \in Runs :
        /\ RunFor(req[c].name, r)
        /\ IF run[r].state \in {"running", "external"} THEN Goto(c, "switch") ELSE Done(c)
    /\ UNCHANGED <<defs, run, proc, timers, active, outside, life, waiting>>

\* switchCluster; it keeps the old cluster when the new one cannot be loaded.
Switch(c) ==
    /\ life # "gone"
    /\ req[c].pc = "switch"
    /\ active' \in {active, req[c].ctx}
    /\ Done(c)
    /\ UNCHANGED <<defs, runOf, run, made, proc, timers, outside, life, waiting>>

\* stopTunnel: the run ...
StopRun(c) ==
    LET n == IF req[c].op = "edit" THEN req[c].prev ELSE req[c].name
    IN /\ life # "gone"
       /\ req[c].pc = "stopRun"
       /\ \E r \in Runs : /\ RunFor(n, r)
                          /\ req' = [req EXCEPT ![c].pc = "stopLocked", ![c].run = r]
       /\ UNCHANGED <<defs, run, proc, timers, active, outside, life, waiting>>

\* ... then, holding r.mu: stopped, and its process, if it has one, told to end.
StopLocked(c) ==
    LET r == req[c].run
        p == run[r].cmd
    IN /\ life # "gone"
       /\ req[c].pc = "stopLocked"
       /\ run' = [run EXCEPT ![r].state = "stopped", ![r].keep = FALSE]
       /\ IF run[r].state = "external" \/ p = None
          THEN UNCHANGED proc
          ELSE proc' = [proc EXCEPT ![p] = Told(@)]
       /\ CASE req[c].op = "edit" -> Goto(c, "save")
            [] req[c].op = "delete" -> Goto(c, "delete")
            [] OTHER -> Done(c)
       /\ UNCHANGED <<defs, runOf, made, timers, active, outside, life, waiting>>

\* The tunnel an edit replaces.
Previous(q) == IF q.prev = None THEN q.name ELSE q.prev

\* Mutant: only the name is checked.
RefusedByName(q) ==
    \E n \in Names \ {Previous(q)} : defs[n] # None /\ n = q.name

\* saveTunnel refuses an edit when another tunnel has the name, one of the
\* contexts or the endpoint.
Refused(q) ==
    \E n \in Names \ {Previous(q)} :
        /\ defs[n] # None
        /\ \/ n = q.name
           \/ defs[n].contexts \cap q.def.contexts # {}
           \/ q.def.port # NoPort /\ defs[n].port = q.def.port

\* saveTunnel.  The definitions in memory change even if writing them fails.
Save(c) ==
    LET q == req[c]
    IN /\ life # "gone"
       /\ q.pc = "save"
       /\ \/ /\ Refused(q)
             /\ Done(c)
             /\ UNCHANGED defs
          \/ /\ ~Refused(q)
             /\ defs' = [n \in Names |-> IF n = q.name THEN q.def
                                         ELSE IF n = Previous(q) THEN None ELSE defs[n]]
             /\ Goto(c, "drop") \/ ("disk" \in Faults /\ Done(c))
       /\ UNCHANGED <<runOf, run, made, proc, timers, active, outside, life, waiting>>

\* deleteTunnel
Delete(c) ==
    /\ life # "gone"
    /\ req[c].pc = "delete"
    /\ \/ /\ defs[req[c].name] = None
          /\ Done(c)
          /\ UNCHANGED defs
       \/ /\ defs[req[c].name] # None
          /\ defs' = [defs EXCEPT ![req[c].name] = None]
          /\ Goto(c, "drop") \/ ("disk" \in Faults /\ Done(c))
    /\ UNCHANGED <<runOf, run, made, proc, timers, active, outside, life, waiting>>

\* The run of a renamed or deleted tunnel leaves tunnelRuns.m.  (reloadClusters,
\* which follows, leaves the watched context's name as it is.)
Drop(c) ==
    LET q == req[c]
        gone == CASE q.op = "delete" -> {q.name}
                  [] q.prev # None /\ q.prev # q.name -> {q.prev}
                  [] OTHER -> {}
    IN /\ life # "gone"
       /\ q.pc = "drop"
       /\ runOf' = [n \in Names |-> IF n \in gone THEN None ELSE runOf[n]]
       /\ IF q.op = "edit" /\ q.start THEN Goto(c, "startDef") ELSE Done(c)
       /\ UNCHANGED <<defs, run, made, proc, timers, active, outside, life, waiting>>

------------------------------------------------------------------------------
(* The goroutines of a process, and the process itself *)

\* Its port (if any) opens; the operating system gives a port to one listener.
Listen(p) ==
    /\ proc[p].phase = "alive" /\ ~proc[p].listening
    /\ proc[p].def.port # NoPort
    /\ ~PortOpen(proc[p].def.port)
    /\ proc' = [proc EXCEPT ![p].listening = TRUE]
    /\ UNCHANGED <<defs, runOf, run, made, timers, active, outside, req, life, waiting>>

\* It ends: by itself, or because of a signal.
ProcEnds(p) ==
    /\ proc[p].phase = "alive"
    /\ proc' = [proc EXCEPT ![p].phase = "dead", ![p].listening = FALSE]
    /\ UNCHANGED <<defs, runOf, run, made, timers, active, outside, req, life, waiting>>

\* Mutant: the second signal is SIGTERM again.
KillWithTerm(p) ==
    /\ life # "gone"
    /\ proc[p].phase = "alive" /\ proc[p].told = "term"
    /\ UNCHANGED vars

\* terminate, once its grace is over and the process is still there.
Kill(p) ==
    /\ life # "gone"
    /\ proc[p].phase = "alive" /\ proc[p].told = "term"
    /\ proc' = [proc EXCEPT ![p].told = "kill"]
    /\ UNCHANGED <<defs, runOf, run, made, timers, active, outside, req, life, waiting>>

\* Mutant: the state of the run is not looked at.
WatchingAnyState(p) == run[proc[p].run].gen = proc[p].gen

\* watchReady still has to do with the run: no newer start, and still starting.
Watching(p) == /\ run[proc[p].run].gen = proc[p].gen
               /\ run[proc[p].run].state = "starting"

WatchReady(p) ==
    LET r == proc[p].run
        port == proc[p].def.port
    IN /\ life # "gone"
       /\ proc[p].watch
       /\ \/ /\ ~Watching(p)
             /\ UNCHANGED run
          \/ /\ Watching(p)
             /\ port = NoPort \/ PortOpen(port)
             /\ run' = [run EXCEPT ![r].state = "running", ![r].up = TRUE]
       /\ proc' = [proc EXCEPT ![p].watch = FALSE]
       /\ UNCHANGED <<defs, runOf, made, timers, active, outside, req, life, waiting>>

\* watchReady after tunnelReadyTimeout: failed, and what runs is told to end.
WatchTimeout(p) ==
    LET r == proc[p].run
        q == run[r].cmd
    IN /\ life # "gone"
       /\ proc[p].watch
       /\ Watching(p)
       /\ proc[p].def.port # NoPort
       /\ run' = [run EXCEPT ![r].state = "failed"]
       /\ proc' = [x \in Procs |->
                     LET w == IF x = p THEN [proc[x] EXCEPT !.watch = FALSE] ELSE proc[x]
                     IN IF x = q THEN Told(w) ELSE w]
       /\ UNCHANGED <<defs, runOf, made, timers, active, outside, req, life, waiting>>

\* exited: a process of an older start changes nothing; one that was stopped
\* ends quietly; one that was up and drops while in use gets a restart timer.
Exited(p) ==
    LET r == proc[p].run
        mine == run[r].gen = proc[p].gen
        quiet == run[r].state = "stopped"
        restart == mine /\ ~quiet /\ run[r].keep /\ run[r].up /\ InUse(proc[p].name)
    IN /\ life # "gone"
       /\ proc[p].phase = "dead"
       /\ proc' = [proc EXCEPT ![p].phase = "reaped"]
       /\ IF mine
          THEN run' = [run EXCEPT ![r].cmd = None,
                                  ![r].state = IF quiet \/ @ = "failed" THEN @ ELSE "exited"]
          ELSE UNCHANGED run
       /\ timers' = timers \cup
            IF restart
            THEN {[run |-> r, gen |-> proc[p].gen, name |-> proc[p].name,
                   fired |-> FALSE, def |-> None]}
            ELSE {}
       /\ UNCHANGED <<defs, runOf, made, active, outside, req, life, waiting>>

\* A restart timer fires: it looks the definition up ...
TimerFires(t) ==
    /\ life # "gone"
    /\ t \in timers /\ ~t.fired
    /\ timers' = (timers \ {t}) \cup {[t EXCEPT !.fired = TRUE, !.def = defs[t.name]]}
    /\ UNCHANGED <<defs, runOf, run, made, proc, active, outside, req, life, waiting>>

\* Mutant: the wrong state is expected.
StillDroppedFailed(t) ==
    /\ t.def # None
    /\ run[t.run].gen = t.gen
    /\ run[t.run].state = "failed"
    /\ run[t.run].keep
    /\ InUse(t.name)

\* Nothing has happened to the run since its process dropped.
StillDropped(t) ==
    /\ t.def # None
    /\ run[t.run].gen = t.gen
    /\ run[t.run].state = "exited"
    /\ run[t.run].keep
    /\ InUse(t.name)

\* ... and restarts the tunnel, holding r.mu.
TimerLocked(t) ==
    /\ life # "gone"
    /\ t \in timers /\ t.fired
    /\ timers' = timers \ {t}
    /\ \/ /\ ~StillDropped(t)
          /\ UNCHANGED <<run, proc>>
       \/ /\ StillDropped(t)
          /\ Spawn(t.run, t.name, t.def) \/ SpawnFails(t.run) \/ PipeFails(t.run)
    /\ UNCHANGED <<defs, runOf, made, active, outside, req, life, waiting>>

------------------------------------------------------------------------------
(* Shutdown, and the rest of the machine *)

\* stopAllTunnels: every run in the map that has a process is stopped.
StopAll ==
    LET mine == {r \in Runs : run[r].cmd # None /\ \E n \in Names : runOf[n] = r}
        ours == {run[r].cmd : r \in mine}
    IN /\ "exit" \in Inputs
       /\ life = "up"
       /\ life' = "stopping"
       /\ run' = [r \in Runs |-> IF r \in mine
                                 THEN [run[r] EXCEPT !.state = "stopped", !.keep = FALSE]
                                 ELSE run[r]]
       /\ proc' = [p \in Procs |-> IF p \in ours THEN Told(proc[p]) ELSE proc[p]]
       /\ waiting' = ours
       /\ UNCHANGED <<defs, runOf, made, timers, active, outside, req>>

\* wg.Wait: every terminate has returned, its process ended or killed.
Exit ==
    /\ life = "stopping"
    /\ \A p \in waiting : proc[p].phase # "alive" \/ proc[p].told = "kill"
    /\ life' = "gone"
    /\ UNCHANGED <<defs, runOf, run, made, proc, timers, active, outside, req, waiting>>

\* Some other program opens or closes one of the ports.
Outside(port) ==
    /\ "outside" \in Inputs
    /\ \/ ~PortOpen(port) /\ outside' = outside \cup {port}
       \/ port \in outside /\ outside' = outside \ {port}
    /\ UNCHANGED <<defs, runOf, run, made, proc, timers, active, req, life, waiting>>

------------------------------------------------------------------------------

NewRequest(c) ==
    \/ \E n \in Names : RequestStart(c, n) \/ RequestStop(c, n) \/ RequestDelete(c, n)
    \/ \E n \in Names, prev \in Names \cup {None}, d \in Definitions, start \in BOOLEAN :
           RequestEdit(c, n, prev, d, start)
    \/ \E ctx \in Contexts, skip \in BOOLEAN : RequestOpen(c, ctx, skip)

Serve(c) ==
    \/ StartDef(c) \/ StartRun(c) \/ StartLocked(c) \/ Ready(c) \/ Switch(c)
    \/ StopRun(c) \/ StopLocked(c) \/ Save(c) \/ Delete(c) \/ Drop(c)

\* Mutant: no timeout.
WatchForever(p) == WatchReady(p)

\* The watchReady goroutine.
Watch(p) == WatchReady(p) \/ WatchTimeout(p)

ProcStep(p) == Listen(p) \/ ProcEnds(p) \/ Kill(p) \/ Watch(p) \/ Exited(p)

Next ==
    \/ \E c \in Clients : NewRequest(c) \/ Serve(c)
    \/ \E p \in Procs : ProcStep(p)
    \/ \E t \in timers : TimerFires(t) \/ TimerLocked(t)
    \/ StopAll \/ Exit
    \/ \E port \in Ports : Outside(port)

Spec == Init /\ [][Next]_vars

------------------------------------------------------------------------------
(* Properties *)

\* A process nobody has told to end is the process of its run: it belongs to the
\* run's last start and the run shows it.  So no start, restart, timeout or late
\* exit (spawnLocked, watchReady, exited) ever overwrites the only reference
\* through which a live tunnel can be stopped.
NoProcessLost ==
    \A p \in Procs :
        proc[p].phase \in {"alive", "dead"} /\ proc[p].told = "no" =>
            /\ run[proc[p].run].cmd = p
            /\ run[proc[p].run].gen = proc[p].gen
            /\ run[proc[p].run].state \in {"starting", "running"}

\* A run that shows "starting" or "running" has a process of its own behind it,
\* of its last start, not told to end and whose exit it has not yet recorded:
\* the late exit or the late readiness of an older process (the gen checks in
\* exited and watchReady) never makes a run show what is not there.
RunningIsBacked ==
    \A r \in Runs :
        run[r].state \in {"starting", "running"} =>
            \E p \in Procs : /\ run[r].cmd = p
                             /\ proc[p].run = r /\ proc[p].gen = run[r].gen
                             /\ proc[p].phase \in {"alive", "dead"}
                             /\ proc[p].told = "no"

\* A stopped tunnel stays stopped until somebody asks to start it: neither a
\* restart timer armed before the stop, nor a readiness check, nor the exit of
\* its process brings it back (stopTunnel against exited and watchReady).
StoppedStaysStopped ==
    [][\A r \in Runs :
         run[r].state = "stopped" /\ run'[r].state # "stopped" =>
             \E c \in Clients : req[c].pc = "startLocked" /\ req[c].run = r]_vars

\* The processes of a run that nobody has told to end and whose exit it has not
\* recorded.
Owned(r) ==
    {p \in Procs : /\ proc[p].run = r /\ proc[p].told = "no"
                   /\ proc[p].phase \in {"alive", "dead"}}

\* The runs a request is about to start.
Asked == {r \in Runs : \E c \in Clients : req[c].pc = "startLocked" /\ req[c].run = r}

Life == INSTANCE TunnelLife WITH state <- [r \in Runs |-> run[r].state],
                                 owned <- [r \in Runs |-> Owned(r)], asked <- Asked

\* Whatever requests, timers, readiness checks, late exits, failing spawns and
\* shutdown do to each other (startTunnel, stopTunnel, spawnLocked, watchReady,
\* exited, stopAllTunnels), a tunnel lives as TunnelLife says: one process while it
\* shows "starting" or "running" and none otherwise, never a second one beside
\* it, and no way back from "stopped" or "failed" but a request.
ImplementsLife == Life!LifeSpec

\* tunnels.go, stopAllTunnels: it "stops every tunnel KubeHealth started; at exit".  Every
\* process that is alive when it looks has been told to end.
StopAllReaches ==
    [][life = "up" /\ life' = "stopping" =>
          \A p \in Procs : proc[p].phase = "alive" => proc'[p].told # "no"]_vars

------------------------------------------------------------------------------
(* The inductive invariant the proofs in TunnelsProofs rest on *)

\* What a request has looked up by the time it needs it.
RequestOK(q) ==
    /\ q.pc \in {"startDef", "startRun", "startLocked", "ready", "save", "delete"}
         => q.name \in Names
    /\ q.pc = "startLocked" => q.run \in Runs /\ q.got \in Definitions
    /\ q.pc = "startRun" => q.got \in Definitions
    /\ q.pc = "stopLocked" => q.run \in Runs
    /\ q.op = "edit" => q.name \in Names /\ q.def \in Definitions
    /\ q.pc \in {"stopRun", "stopLocked"} =>
         IF q.op = "edit" THEN q.prev \in Names ELSE q.name \in Names
    /\ q.pc \in {"ready", "switch"} \/ q.op = "open" => q.ctx \in Contexts

RequestsOK == \A c \in Clients : RequestOK(req[c])

\* A process knows its run, and the start of that run it belongs to; no two
\* processes belong to the same start.
StartsOK ==
    /\ \A p \in Procs :
         /\ proc[p].phase # "none" =>
                /\ proc[p].run \in Runs
                /\ proc[p].name \in Names
                /\ proc[p].def \in Definitions
                /\ proc[p].gen <= run[proc[p].run].gen
         /\ proc[p].watch => proc[p].phase # "none"
    /\ \A p, q \in Procs :
         /\ proc[p].phase # "none" /\ proc[q].phase # "none"
         /\ proc[p].run = proc[q].run /\ proc[p].gen = proc[q].gen
         => p = q

\* A run refers only to processes of its own.
CmdsOK ==
    \A r \in Runs :
        run[r].cmd # None => /\ proc[run[r].cmd].phase # "none"
                             /\ proc[run[r].cmd].run = r

\* The part about runs and processes alone.
RunsOK == StartsOK /\ CmdsOK /\ NoProcessLost /\ RunningIsBacked

IndInv == TypeOK /\ RequestsOK /\ RunsOK

------------------------------------------------------------------------------
(* Liveness.  Go's scheduler runs every goroutine and timer that can run,    *)
(* and the system ends a killed process.  Nothing makes a user send a        *)
(* request, a process end by itself or KubeHealth exit.                      *)

Fairness ==
    /\ \A c \in Clients : WF_vars(Serve(c))
    /\ \A p \in Procs : /\ WF_vars(Watch(p))
                         /\ WF_vars(Exited(p))
                         /\ WF_vars(Kill(p))
                         /\ WF_vars(proc[p].told = "kill" /\ ProcEnds(p))
    /\ WF_vars(\E t \in timers : TimerFires(t) \/ TimerLocked(t))

FairSpec == Spec /\ Fairness

\* A start always comes to an end (60 s timeout in watchReady): a run never
\* stays "starting" for good.
StartResolves ==
    \A r \in Runs : run[r].state = "starting" ~> run[r].state # "starting" \/ life = "gone"

\* The instance has no start left for the run.
Exhausted(r) == run[r].gen = MaxGen \/ \A p \in Procs : proc[p].phase # "none"

\* A tunnel that dropped with a restart due (exited, AfterFunc) does not stay
\* down while it is kept and its cluster watched.
DropIsRestarted ==
    \A r \in Runs, n \in Names :
        /\ run[r].state = "exited"
        /\ \E t \in timers : t.run = r /\ t.gen = run[r].gen /\ t.name = n
        ~> run[r].state # "exited" \/ ~run[r].keep \/ ~InUse(n) \/ life = "gone"
           \/ Exhausted(r)

\* A process told to end does end (terminate: SIGTERM, then SIGKILL).
ToldEnds ==
    \A p \in Procs :
        proc[p].told # "no" ~> proc[p].phase # "alive" \/ life = "gone"

==============================================================================
