---------------------------- MODULE TunnelsProofs ----------------------------
(***************************************************************************)
(* Proofs about Tunnels, for any number of tunnels, runs, processes and    *)
(* concurrent requests.                                                    *)
(***************************************************************************)
EXTENDS Tunnels, TLAPS

\* The types of the two variables RunsOK is about.
RunTypes == run \in [Runs -> Run] /\ proc \in [Procs -> Proc]

------------------------------------------------------------------------------
(* What each way of changing runs and processes preserves *)

\* The ways in which the steps update a run keep its type.
LEMMA RunUpdates ==
    ASSUME NEW x \in Run
    PROVE  /\ [x EXCEPT !.keep = TRUE] \in Run
           /\ [x EXCEPT !.state = "external", !.keep = TRUE] \in Run
           /\ [x EXCEPT !.state = "running", !.up = TRUE] \in Run
           /\ [x EXCEPT !.state = "failed"] \in Run
           /\ [x EXCEPT !.state = "stopped", !.keep = FALSE] \in Run
BY DEF Run, RunStates

\* So do the updates of a process.
LEMMA ProcUpdates ==
    ASSUME NEW x \in Proc
    PROVE  /\ [x EXCEPT !.watch = FALSE] \in Proc
           /\ [x EXCEPT !.listening = TRUE] \in Proc
           /\ [x EXCEPT !.phase = "dead", !.listening = FALSE] \in Proc
           /\ [x EXCEPT !.told = "kill"] \in Proc
BY DEF Proc

\* A step that leaves runs and processes alone (every lookup) preserves RunsOK.
LEMMA SameRuns ==
    ASSUME RunsOK, UNCHANGED <<run, proc>>
    PROVE  RunsOK'
BY DEF RunsOK, StartsOK, CmdsOK, NoProcessLost, RunningIsBacked

\* spawnLocked on a run that shows no process of its own: the new process gets
\* a start number no other process of the run has.
LEMMA SpawnRuns ==
    ASSUME RunTypes, RunsOK, NEW r \in Runs, NEW n \in Names, NEW d \in Definitions,
           run[r].state \notin {"starting", "running"}, Spawn(r, n, d)
    PROVE  RunTypes' /\ RunsOK'
<1> USE DEF RunTypes, Run, RunStates, Proc, NoProc
<1>1. PICK p \in Procs :
        /\ proc[p].phase = "none"
        /\ run' = [run EXCEPT ![r] = [state |-> "starting", cmd |-> p, keep |-> TRUE,
                                      gen |-> @.gen + 1, up |-> FALSE]]
        /\ proc' = [proc EXCEPT ![p] =
                      [NoProc EXCEPT !.phase = "alive", !.run = r, !.gen = run[r].gen + 1,
                                     !.name = n, !.def = d, !.watch = TRUE]]
  BY DEF Spawn
<1>2. RunTypes'
  <2>1. run[r].gen + 1 \in Nat
    OBVIOUS
  <2>2. run' \in [Runs -> Run]
    BY <1>1, <2>1
  <2>3. [NoProc EXCEPT !.phase = "alive", !.run = r, !.gen = run[r].gen + 1,
                       !.name = n, !.def = d, !.watch = TRUE] \in Proc
    BY <2>1
  <2>4. proc' \in [Procs -> Proc]
    BY <1>1, <2>3
  <2> QED
    BY <2>2, <2>4
<1>3. StartsOK'
  BY <1>1, <1>2 DEF RunsOK, StartsOK
<1>4. CmdsOK'
  BY <1>1, <1>2 DEF RunsOK, CmdsOK
<1>5. NoProcessLost'
  BY <1>1, <1>2 DEF RunsOK, NoProcessLost, StartsOK
<1>6. RunningIsBacked'
  BY <1>1, <1>2 DEF RunsOK, RunningIsBacked
<1> QED
  BY <1>2, <1>3, <1>4, <1>5, <1>6 DEF RunsOK

\* A spawn that fails leaves no process behind.
LEMMA SpawnFailsRuns ==
    ASSUME RunTypes, RunsOK, NEW r \in Runs,
           run[r].state \notin {"starting", "running"},
           SpawnFails(r) \/ PipeFails(r)
    PROVE  RunTypes' /\ RunsOK'
<1> USE DEF RunTypes, Run, RunStates, Proc
<1>1. RunTypes'
  <2>1. CASE SpawnFails(r)
    <3>1. run[r].gen + 1 \in Nat
      OBVIOUS
    <3> QED
      BY <2>1, <3>1 DEF SpawnFails
  <2>2. CASE PipeFails(r)
    <3>1. run' \in [Runs -> Run]
      <4> HIDE DEF Run, Proc
      <4> QED BY <2>2, RunUpdates DEF PipeFails
    <3>2. proc' \in [Procs -> Proc]
      BY <2>2 DEF PipeFails
    <3> QED
      BY <3>1, <3>2, SMTT(30)
  <2> QED
    BY <2>1, <2>2
<1>2. StartsOK'
  BY <1>1 DEF RunsOK, StartsOK, SpawnFails, PipeFails
<1>3. CmdsOK'
  BY <1>1 DEF RunsOK, CmdsOK, SpawnFails, PipeFails
<1>4. NoProcessLost'
  BY <1>1 DEF RunsOK, NoProcessLost, StartsOK, SpawnFails, PipeFails
<1>5. RunningIsBacked'
  BY <1>1 DEF RunsOK, RunningIsBacked, SpawnFails, PipeFails
<1> QED
  BY <1>1, <1>2, <1>3, <1>4, <1>5 DEF RunsOK

\* Signalling a process changes nothing else about it.
LEMMA ToldType ==
    ASSUME NEW x \in Proc
    PROVE  /\ Told(x) \in Proc
           /\ Told(x).told # "no"
           /\ Told(x).phase = x.phase /\ Told(x).run = x.run /\ Told(x).gen = x.gen
           /\ Told(x).name = x.name /\ Told(x).def = x.def /\ Told(x).watch = x.watch
BY DEF Told, Proc

\* watchReady, port open: the process is the run's current one.
LEMMA WatchReadyRuns ==
    ASSUME RunTypes, RunsOK, NEW p \in Procs, WatchReady(p)
    PROVE  RunTypes' /\ RunsOK'
<1> DEFINE r == proc[p].run
<1> USE DEF RunTypes, Run, RunStates, Proc
<1>0. r \in Runs /\ proc[p].phase # "none"
  BY DEF WatchReady, RunsOK, StartsOK
<1>1. proc' = [proc EXCEPT ![p].watch = FALSE]
  BY DEF WatchReady
<1>2. \/ run' = run
      \/ Watching(p) /\ run' = [run EXCEPT ![r].state = "running", ![r].up = TRUE]
  BY DEF WatchReady
<1>3. RunTypes'
  <2> HIDE DEF Run, Proc
  <2>1. proc' \in [Procs -> Proc]
    BY <1>1, ProcUpdates
  <2>2. run' \in [Runs -> Run]
    <3>1. CASE run' = run
      BY <3>1, SMTT(30)
    <3>2. CASE run' = [run EXCEPT ![r].state = "running", ![r].up = TRUE]
      BY <1>0, <3>2, RunUpdates
    <3> QED
      BY <1>2, <3>1, <3>2
  <2> QED
    BY <2>1, <2>2
<1>4. \A x \in Procs : /\ proc'[x].phase = proc[x].phase
                       /\ proc'[x].run = proc[x].run
                       /\ proc'[x].gen = proc[x].gen
                       /\ proc'[x].name = proc[x].name
                       /\ proc'[x].def = proc[x].def
                       /\ proc'[x].watch => proc[x].watch
                       /\ proc'[x].told = proc[x].told
  BY <1>1
<1>5. \A s \in Runs : /\ run'[s].cmd = run[s].cmd
                      /\ run'[s].gen = run[s].gen
                      /\ \/ run'[s].state = run[s].state
                         \/ run'[s].state = "running" /\ run[s].state = "starting"
  BY <1>0, <1>2 DEF Watching
<1> HIDE DEF Run, RunStates, Proc
<1>6. StartsOK'
  BY <1>3, <1>4, <1>5 DEF RunsOK, StartsOK
<1>7. CmdsOK'
  BY <1>3, <1>4, <1>5, NoneAssumption DEF RunsOK, CmdsOK, Run
<1>8. NoProcessLost'
  BY <1>3, <1>4, <1>5 DEF RunsOK, NoProcessLost, StartsOK
<1>9. RunningIsBacked'
  BY <1>3, <1>4, <1>5 DEF RunsOK, RunningIsBacked
<1> QED
  BY <1>3, <1>6, <1>7, <1>8, <1>9 DEF RunsOK

\* watchReady, timed out: what it tells to end is the process it watches.
LEMMA WatchTimeoutRuns ==
    ASSUME RunTypes, RunsOK, NEW p \in Procs, WatchTimeout(p)
    PROVE  RunTypes' /\ RunsOK'
<1> DEFINE r == proc[p].run
<1> USE DEF RunTypes, Run, RunStates, Proc
<1>0. r \in Runs /\ proc[p].phase # "none" /\ Watching(p) /\ run[r].cmd \in Procs
  BY DEF WatchTimeout, RunsOK, StartsOK, RunningIsBacked, Watching
<1>1. proc' = [x \in Procs |->
                 LET w == IF x = p THEN [proc[x] EXCEPT !.watch = FALSE] ELSE proc[x]
                 IN IF x = run[r].cmd THEN Told(w) ELSE w]
  BY DEF WatchTimeout
<1>2. run' = [run EXCEPT ![r].state = "failed"]
  BY DEF WatchTimeout
<1>3. \A x \in Procs : /\ proc'[x].phase = proc[x].phase
                       /\ proc'[x].run = proc[x].run
                       /\ proc'[x].gen = proc[x].gen
                       /\ proc'[x].name = proc[x].name
                       /\ proc'[x].def = proc[x].def
                       /\ proc'[x].watch => proc[x].watch
                       /\ x # run[r].cmd => proc'[x].told = proc[x].told
                       /\ x = run[r].cmd => proc'[x].told # "no"
  BY <1>1 DEF Told
<1>4. RunTypes'
  <2> HIDE DEF Run, Proc
  <2>1. proc' \in [Procs -> Proc]
    BY <1>1, ProcUpdates, ToldType, ZenonT(40)
  <2>2. run' \in [Runs -> Run]
    BY <1>0, <1>2, RunUpdates
  <2> QED
    BY <2>1, <2>2
<1>5. StartsOK'
  BY <1>0, <1>2, <1>3, <1>4 DEF RunsOK, StartsOK
<1>6. CmdsOK'
  BY <1>0, <1>2, <1>3, <1>4, NoneAssumption DEF RunsOK, CmdsOK
<1>7. NoProcessLost'
  BY <1>0, <1>2, <1>3, <1>4 DEF RunsOK, NoProcessLost, StartsOK
<1>8. RunningIsBacked'
  BY <1>0, <1>2, <1>3, <1>4 DEF RunsOK, RunningIsBacked, Watching, CmdsOK
<1> QED
  BY <1>4, <1>5, <1>6, <1>7, <1>8 DEF RunsOK

\* The parts of a process RunsOK looks at do not change.
SameProc(x) ==
    /\ proc'[x].phase = proc[x].phase
    /\ proc'[x].run = proc[x].run
    /\ proc'[x].gen = proc[x].gen
    /\ proc'[x].name = proc[x].name
    /\ proc'[x].def = proc[x].def
    /\ proc'[x].watch = proc[x].watch

\* startTunnel on a run that is up, or whose port somebody has open.
LEMMA NoSpawnRuns ==
    ASSUME RunTypes, RunsOK, NEW r \in Runs, proc' = proc,
           \/ run' = [run EXCEPT ![r].keep = TRUE]
           \/ /\ run[r].state \notin {"starting", "running"}
              /\ run' = [run EXCEPT ![r].state = "external", ![r].keep = TRUE]
    PROVE  RunTypes' /\ RunsOK'
<1>1. run' \in [Runs -> Run]
  <2>1. CASE run' = [run EXCEPT ![r].keep = TRUE]
    BY <2>1, RunUpdates DEF RunTypes
  <2>2. CASE run' = [run EXCEPT ![r].state = "external", ![r].keep = TRUE]
    BY <2>2, RunUpdates DEF RunTypes
  <2> QED
    BY <2>1, <2>2, SMTT(30)
<1>2. RunTypes'
  BY <1>1 DEF RunTypes
<1>3. \A s \in Runs : /\ run'[s].cmd = run[s].cmd
                      /\ run'[s].gen = run[s].gen
                      /\ \/ run'[s].state = run[s].state
                         \/ /\ run'[s].state = "external"
                            /\ run[s].state \notin {"starting", "running"}
  BY DEF RunTypes, Run, RunStates
<1>4. StartsOK'
  BY <1>3 DEF RunsOK, StartsOK, RunTypes
<1>5. CmdsOK'
  BY <1>3 DEF RunsOK, CmdsOK
<1>6. NoProcessLost'
  BY <1>3 DEF RunsOK, NoProcessLost, StartsOK
<1>7. RunningIsBacked'
  BY <1>3 DEF RunsOK, RunningIsBacked
<1> QED
  BY <1>2, <1>4, <1>5, <1>6, <1>7 DEF RunsOK

\* Stopping a set of runs (one in stopTunnel, all those in the map at exit), when
\* every process that one of them shows is told to end, and no other.
LEMMA StopRunsOK ==
    ASSUME RunTypes, RunsOK, NEW S \in SUBSET Runs, NEW P \in SUBSET Procs,
           \A s \in Runs : /\ run'[s].cmd = run[s].cmd
                           /\ run'[s].gen = run[s].gen
                           /\ s \in S => run'[s].state = "stopped"
                           /\ s \notin S => run'[s].state = run[s].state,
           \A x \in Procs : /\ SameProc(x)
                            /\ x \in P => proc'[x].told # "no"
                            /\ x \notin P => proc'[x].told = proc[x].told,
           \A r \in S : run[r].state \in {"starting", "running"} => run[r].cmd \in P,
           \A p \in P : \E r \in S : run[r].cmd = p
    PROVE  RunsOK'
<1>5. StartsOK'
  BY DEF RunsOK, StartsOK, SameProc
<1>6. CmdsOK'
  BY NoneAssumption DEF RunsOK, CmdsOK, SameProc, RunTypes, Run
<1>7. NoProcessLost'
  <2>1. SUFFICES ASSUME NEW x \in Procs, proc[x].phase \in {"alive", "dead"},
                        proc'[x].told = "no"
                 PROVE  /\ run'[proc[x].run].cmd = x
                        /\ run'[proc[x].run].gen = proc[x].gen
                        /\ run'[proc[x].run].state \in {"starting", "running"}
    BY DEF NoProcessLost, SameProc
  <2>2. x \notin P /\ proc[x].told = "no" /\ proc[x].run \in Runs
    BY <2>1 DEF RunsOK, StartsOK
  <2>3. /\ run[proc[x].run].cmd = x
        /\ run[proc[x].run].gen = proc[x].gen
        /\ run[proc[x].run].state \in {"starting", "running"}
    BY <2>1, <2>2 DEF RunsOK, NoProcessLost
  <2> QED
    BY <2>2, <2>3
<1>8. RunningIsBacked'
  <2>1. SUFFICES ASSUME NEW r \in Runs, run'[r].state \in {"starting", "running"}
                 PROVE  \E p \in Procs : /\ run'[r].cmd = p
                                         /\ proc'[p].run = r /\ proc'[p].gen = run'[r].gen
                                         /\ proc'[p].phase \in {"alive", "dead"}
                                         /\ proc'[p].told = "no"
    BY DEF RunningIsBacked
  <2>2. r \notin S /\ run[r].state = run'[r].state
    BY <2>1
  <2>3. PICK p \in Procs : /\ run[r].cmd = p
                           /\ proc[p].run = r /\ proc[p].gen = run[r].gen
                           /\ proc[p].phase \in {"alive", "dead"}
                           /\ proc[p].told = "no"
    BY <2>1, <2>2 DEF RunsOK, RunningIsBacked
  <2>4. p \notin P
    BY <2>2, <2>3, NoneAssumption DEF RunsOK, CmdsOK
  <2> QED
    BY <2>3, <2>4 DEF SameProc
<1> QED
  BY <1>5, <1>6, <1>7, <1>8 DEF RunsOK

LEMMA StopRuns ==
    ASSUME RunTypes, RunsOK, NEW S \in SUBSET Runs, NEW P \in SUBSET Procs,
           run' = [r \in Runs |-> IF r \in S
                                  THEN [run[r] EXCEPT !.state = "stopped", !.keep = FALSE]
                                  ELSE run[r]],
           proc' = [p \in Procs |-> IF p \in P THEN Told(proc[p]) ELSE proc[p]],
           \A r \in S : run[r].state \in {"starting", "running"} => run[r].cmd \in P,
           \A p \in P : \E r \in S : run[r].cmd = p
    PROVE  RunTypes' /\ RunsOK'
<1>0. \A r \in Runs : [run[r] EXCEPT !.state = "stopped", !.keep = FALSE] \in Run
  BY RunUpdates DEF RunTypes
<1>1. run' \in [Runs -> Run]
  BY <1>0 DEF RunTypes
<1>2. proc' \in [Procs -> Proc]
  BY ToldType DEF RunTypes
<1>3. \A s \in Runs : /\ run'[s].cmd = run[s].cmd
                      /\ run'[s].gen = run[s].gen
                      /\ s \in S => run'[s].state = "stopped"
                      /\ s \notin S => run'[s].state = run[s].state
  <2> SUFFICES ASSUME NEW s \in Runs
               PROVE  /\ run'[s].cmd = run[s].cmd
                      /\ run'[s].gen = run[s].gen
                      /\ s \in S => run'[s].state = "stopped"
                      /\ s \notin S => run'[s].state = run[s].state
    OBVIOUS
  <2>1. CASE s \in S
    <3>1. PICK x \in Run : x = run[s]
      BY DEF RunTypes
    <3>2. run'[s] = [x EXCEPT !.state = "stopped", !.keep = FALSE]
      BY <2>1, <3>1, Zenon
    <3>3. run'[s].cmd = x.cmd /\ run'[s].gen = x.gen /\ run'[s].state = "stopped"
      BY <3>2 DEF Run
    <3> QED BY <2>1, <3>1, <3>3, Zenon
  <2>2. CASE s \notin S
    <3>1. run'[s] = run[s]
      BY <2>2, Zenon
    <3> QED BY <2>2, <3>1, Zenon
  <2> QED BY <2>1, <2>2, Zenon
<1>4. \A x \in Procs : /\ SameProc(x)
                       /\ x \in P => proc'[x].told # "no"
                       /\ x \notin P => proc'[x].told = proc[x].told
  BY ToldType DEF RunTypes, SameProc
<1> QED
  BY <1>1, <1>2, <1>3, <1>4, StopRunsOK, ZenonT(40) DEF RunTypes

\* A process opens its port, ends, or is killed: nothing a run refers to changes.
LEMMA ProcOnlyRuns ==
    ASSUME RunTypes, RunsOK, NEW p \in Procs, Listen(p) \/ ProcEnds(p) \/ Kill(p)
    PROVE  RunTypes' /\ RunsOK'
<1>1. /\ run' = run
      /\ proc[p].phase = "alive"
      /\ \/ proc' = [proc EXCEPT ![p].listening = TRUE]
         \/ proc' = [proc EXCEPT ![p].phase = "dead", ![p].listening = FALSE]
         \/ proc[p].told = "term" /\ proc' = [proc EXCEPT ![p].told = "kill"]
  BY DEF Listen, ProcEnds, Kill
<1>2. proc' \in [Procs -> Proc]
  <2>1. CASE proc' = [proc EXCEPT ![p].listening = TRUE]
    BY <2>1, ProcUpdates DEF RunTypes
  <2>2. CASE proc' = [proc EXCEPT ![p].phase = "dead", ![p].listening = FALSE]
    BY <2>2, ProcUpdates DEF RunTypes
  <2>3. CASE proc' = [proc EXCEPT ![p].told = "kill"]
    BY <2>3, ProcUpdates DEF RunTypes
  <2> QED
    BY <1>1, <2>1, <2>2, <2>3
<1>3. \A x \in Procs :
        /\ proc'[x].phase = proc[x].phase \/ (proc[x].phase = "alive" /\ proc'[x].phase = "dead")
        /\ proc'[x].run = proc[x].run
        /\ proc'[x].gen = proc[x].gen
        /\ proc'[x].name = proc[x].name
        /\ proc'[x].def = proc[x].def
        /\ proc'[x].watch = proc[x].watch
        /\ proc'[x].told = "no" <=> proc[x].told = "no"
  BY <1>1 DEF RunTypes, Proc
<1>4. StartsOK'
  BY <1>1, <1>3 DEF RunsOK, StartsOK
<1>5. CmdsOK'
  BY <1>1, <1>3, NoneAssumption DEF RunsOK, CmdsOK, RunTypes, Run
<1>6. NoProcessLost'
  BY <1>1, <1>3 DEF RunsOK, NoProcessLost
<1>7. RunningIsBacked'
  BY <1>1, <1>3 DEF RunsOK, RunningIsBacked
<1> QED
  BY <1>1, <1>2, <1>4, <1>5, <1>6, <1>7 DEF RunsOK, RunTypes

\* exited: only the process of the run's last start may clear its cmd, and no
\* other process belongs to that start.
LEMMA ExitedRuns ==
    ASSUME RunTypes, RunsOK, NEW p \in Procs, Exited(p)
    PROVE  RunTypes' /\ RunsOK'
<1> DEFINE r == proc[p].run
           mine == run[r].gen = proc[p].gen
<1>1. /\ proc[p].phase = "dead"
      /\ proc' = [proc EXCEPT ![p].phase = "reaped"]
      /\ mine => run' = [run EXCEPT ![r].cmd = None,
                             ![r].state = IF run[r].state = "stopped" \/ @ = "failed"
                                          THEN @ ELSE "exited"]
      /\ ~mine => run' = run
  BY DEF Exited
<1>2. r \in Runs
  BY <1>1 DEF RunsOK, StartsOK
<1>3. proc' \in [Procs -> Proc]
  BY <1>1 DEF RunTypes, Proc
<1>4. run' \in [Runs -> Run]
  <2>1. CASE mine /\ (run[r].state = "stopped" \/ run[r].state = "failed")
    <3>1. run' = [run EXCEPT ![r].cmd = None]
      BY <1>1, <1>2, <2>1 DEF RunTypes, Run
    <3> QED
      BY <3>1, <1>2 DEF RunTypes, Run
  <2>2. CASE mine /\ ~(run[r].state = "stopped" \/ run[r].state = "failed")
    <3>1. run' = [run EXCEPT ![r].cmd = None, ![r].state = "exited"]
      BY <1>1, <1>2, <2>2 DEF RunTypes, Run
    <3> QED
      BY <3>1, <1>2 DEF RunTypes, Run, RunStates
  <2> QED
    BY <1>1, <2>1, <2>2 DEF RunTypes
<1>5. \A x \in Procs : /\ x # p => proc'[x] = proc[x]
                       /\ x = p => proc'[x].phase = "reaped"
                       /\ proc'[x].run = proc[x].run
                       /\ proc'[x].gen = proc[x].gen
                       /\ proc'[x].name = proc[x].name
                       /\ proc'[x].def = proc[x].def
                       /\ proc'[x].watch = proc[x].watch
                       /\ proc'[x].told = proc[x].told
  BY <1>1 DEF RunTypes, Proc
<1>6. \A s \in Runs : /\ s # r => run'[s] = run[s]
                      /\ run'[s].gen = run[s].gen
                      /\ run'[s].cmd = run[s].cmd \/ run'[s].cmd = None
                      /\ s = r /\ mine => run'[s].state \in {"stopped", "failed", "exited"}
                      /\ ~mine => run'[s] = run[s]
  BY <1>1, <1>2 DEF RunTypes, Run
<1> HIDE DEF r, mine
<1>7. StartsOK'
  BY <1>1, <1>2, <1>5, <1>6 DEF RunsOK, StartsOK
<1>8. CmdsOK'
  BY <1>1, <1>5, <1>6, NoneAssumption DEF RunsOK, CmdsOK, RunTypes, Run
<1>9. NoProcessLost'
  BY <1>1, <1>2, <1>5, <1>6 DEF RunsOK, NoProcessLost, StartsOK, r, mine
<1>10. RunningIsBacked'
  BY <1>1, <1>2, <1>5, <1>6 DEF RunsOK, RunningIsBacked, r, mine
<1> QED
  BY <1>3, <1>4, <1>7, <1>8, <1>9, <1>10 DEF RunsOK, RunTypes

------------------------------------------------------------------------------
(* Requests *)

\* A request in flight, by itself.
LEMMA RequestStep ==
    ASSUME NEW c \in Clients, NEW q, req \in [Clients -> Request], RequestsOK,
           q \in Request, RequestOK(q), req' = [req EXCEPT ![c] = q]
    PROVE  req' \in [Clients -> Request] /\ RequestsOK'
BY DEF RequestsOK

LEMMA IdleOK == Idle \in Request /\ RequestOK(Idle)
BY DEF Idle, Request, RequestOK, Steps, Ops

LEMMA DoneStep ==
    ASSUME NEW c \in Clients, req \in [Clients -> Request], RequestsOK, Done(c)
    PROVE  req' \in [Clients -> Request] /\ RequestsOK'
BY RequestStep, IdleOK DEF Done

LEMMA GotoStep ==
    ASSUME NEW c \in Clients, NEW pc \in Steps, req \in [Clients -> Request], RequestsOK,
           RequestOK([req[c] EXCEPT !.pc = pc]), Goto(c, pc)
    PROVE  req' \in [Clients -> Request] /\ RequestsOK'
<1> DEFINE q == [req[c] EXCEPT !.pc = pc]
<1>1. q \in Request
  BY DEF Request
<1>2. req' = [req EXCEPT ![c] = q]
  BY DEF Goto
<1> HIDE DEF q
<1> QED
  BY <1>1, <1>2, RequestStep DEF q

LEMMA ArriveStep ==
    ASSUME NEW c \in Clients, NEW q, IndInv, q \in Request, RequestOK(q), Arrive(c, q)
    PROVE  IndInv'
<1>1. req' \in [Clients -> Request] /\ RequestsOK'
  BY RequestStep DEF Arrive, IndInv, TypeOK
<1>2. RunsOK'
  BY SameRuns DEF Arrive, IndInv
<1> QED
  BY <1>1, <1>2 DEF Arrive, IndInv, TypeOK

LEMMA NewRequestStep ==
    ASSUME NEW c \in Clients, IndInv, NewRequest(c)
    PROVE  IndInv'
<1>1. CASE \E n \in Names : RequestStart(c, n)
  <2> PICK n \in Names : RequestStart(c, n)
    BY <1>1
  <2> DEFINE q == [Idle EXCEPT !.pc = "startDef", !.op = "start", !.name = n]
  <2>1. q \in Request /\ RequestOK(q)
    BY DEF Idle, Request, RequestOK, Steps, Ops
  <2> QED
    BY <2>1, ArriveStep DEF RequestStart
<1>2. CASE \E n \in Names : RequestStop(c, n)
  <2> PICK n \in Names : RequestStop(c, n)
    BY <1>2
  <2> DEFINE q == [Idle EXCEPT !.pc = "stopRun", !.op = "stop", !.name = n]
  <2>1. q \in Request /\ RequestOK(q)
    BY DEF Idle, Request, RequestOK, Steps, Ops
  <2> QED
    BY <2>1, ArriveStep DEF RequestStop
<1>3. CASE \E n \in Names : RequestDelete(c, n)
  <2> PICK n \in Names : RequestDelete(c, n)
    BY <1>3
  <2> DEFINE q == [Idle EXCEPT !.pc = "stopRun", !.op = "delete", !.name = n]
  <2>1. q \in Request /\ RequestOK(q)
    BY DEF Idle, Request, RequestOK, Steps, Ops
  <2> QED
    BY <2>1, ArriveStep DEF RequestDelete
<1>4. CASE \E n \in Names, prev \in Names \cup {None}, d \in Definitions, start \in BOOLEAN :
              RequestEdit(c, n, prev, d, start)
  <2> PICK n \in Names, prev \in Names \cup {None}, d \in Definitions, start \in BOOLEAN :
              RequestEdit(c, n, prev, d, start)
    BY <1>4
  <2> DEFINE changes == /\ prev # None
                        /\ defs[prev] # None
                        /\ defs[prev].cmd # d.cmd \/ defs[prev].port # d.port
             q == [Idle EXCEPT !.pc = IF changes THEN "stopRun" ELSE "save",
                               !.op = "edit", !.name = n, !.prev = prev, !.def = d,
                               !.start = start]
  <2>1. changes => prev \in Names
    OBVIOUS
  <2>2. Arrive(c, q)
    BY DEF RequestEdit
  <2> HIDE DEF changes
  <2>3. q \in Request
    BY DEF Idle, Request, Steps, Ops
  <2>4. RequestOK(q)
    BY <2>1 DEF Idle, RequestOK
  <2> QED
    BY <2>2, <2>3, <2>4, ArriveStep
<1>5. CASE \E ctx \in Contexts, skip \in BOOLEAN : RequestOpen(c, ctx, skip)
  <2> PICK ctx \in Contexts, skip \in BOOLEAN : RequestOpen(c, ctx, skip)
    BY <1>5
  <2>1. CASE Arrive(c, [Idle EXCEPT !.pc = "switch", !.op = "open", !.ctx = ctx])
    <3> DEFINE q == [Idle EXCEPT !.pc = "switch", !.op = "open", !.ctx = ctx]
    <3>1. q \in Request /\ RequestOK(q)
      BY DEF Idle, Request, RequestOK, Steps, Ops
    <3> QED
      BY <2>1, <3>1, ArriveStep
  <2>2. ASSUME NEW n \in Names,
               Arrive(c, [Idle EXCEPT !.pc = "startDef", !.op = "open", !.name = n, !.ctx = ctx])
        PROVE  IndInv'
    <3> DEFINE q == [Idle EXCEPT !.pc = "startDef", !.op = "open", !.name = n, !.ctx = ctx]
    <3>1. q \in Request /\ RequestOK(q)
      BY DEF Idle, Request, RequestOK, Steps, Ops
    <3> QED
      BY <2>2, <3>1, ArriveStep
  <2> QED
    BY <2>1, <2>2 DEF RequestOpen, TunnelsFor
<1> QED
  BY <1>1, <1>2, <1>3, <1>4, <1>5 DEF NewRequest

\* runFor hands out a run.
LEMMA RunForType ==
    ASSUME TypeOK, NEW n \in Names, NEW r \in Runs, RunFor(n, r)
    PROVE  runOf' \in [Names -> Runs \cup {None}] /\ made' \subseteq Runs
BY DEF RunFor, TypeOK

LEMMA StartStep ==
    ASSUME NEW c \in Clients, IndInv, StartDef(c) \/ StartRun(c) \/ Ready(c)
    PROVE  IndInv'
<1> USE DEF IndInv
<1>0. RunsOK' /\ RunTypes'
  BY SameRuns DEF StartDef, StartRun, Ready, TypeOK, RunTypes
<1>1. req[c] \in Request /\ RequestOK(req[c])
  BY DEF TypeOK, RequestsOK
<1>2. CASE StartDef(c)
  <2>1. req[c].name \in Names
    BY <1>1, <1>2 DEF StartDef, RequestOK
  <2>2. CASE defs[req[c].name] = None
    <3>1. req' \in [Clients -> Request] /\ RequestsOK'
      BY <1>2, <2>2, DoneStep DEF StartDef, TypeOK
    <3> QED
      BY <1>0, <1>2, <3>1 DEF StartDef, TypeOK, RunTypes
  <2>3. CASE defs[req[c].name] # None
    <3> DEFINE d == defs[req[c].name]
               q == [req[c] EXCEPT !.pc = "startRun", !.got = d]
    <3>1. d \in Definitions
      BY <2>1, <2>3 DEF TypeOK
    <3>2. req' = [req EXCEPT ![c] = q]
      BY <1>2, <2>3 DEF StartDef, TypeOK
    <3> HIDE DEF d
    <3>3. q \in Request
      BY <1>1, <3>1 DEF Request, Steps
    <3>4. RequestOK(q)
      BY <1>1, <2>1, <3>1 DEF RequestOK, Request
    <3>5. req' \in [Clients -> Request] /\ RequestsOK'
      BY <3>2, <3>3, <3>4, RequestStep DEF TypeOK
    <3> QED
      BY <1>0, <1>2, <3>5 DEF StartDef, TypeOK, RunTypes
  <2> QED
    BY <2>2, <2>3
<1>3. CASE StartRun(c)
  <2>1. req[c].name \in Names /\ req[c].got \in Definitions
    BY <1>1, <1>3 DEF StartRun, RequestOK
  <2>2. PICK r \in Runs : /\ RunFor(req[c].name, r)
                          /\ req' = [req EXCEPT ![c].pc = "startLocked", ![c].run = r]
    BY <1>3 DEF StartRun
  <2> DEFINE q == [req[c] EXCEPT !.pc = "startLocked", !.run = r]
  <2>3. req' = [req EXCEPT ![c] = q]
    BY <2>2 DEF TypeOK
  <2>4. q \in Request
    BY <1>1 DEF Request, Steps
  <2>5. RequestOK(q)
    BY <1>1, <2>1 DEF RequestOK, Request
  <2>6. req' \in [Clients -> Request] /\ RequestsOK'
    BY <2>3, <2>4, <2>5, RequestStep DEF TypeOK
  <2>7. runOf' \in [Names -> Runs \cup {None}] /\ made' \subseteq Runs
    BY <2>1, <2>2, RunForType
  <2> QED
    BY <1>0, <1>3, <2>6, <2>7 DEF StartRun, TypeOK, RunTypes
<1>4. CASE Ready(c)
  <2>1. req[c].name \in Names
    BY <1>1, <1>4 DEF Ready, RequestOK
  <2>2. PICK r \in Runs : /\ RunFor(req[c].name, r)
                          /\ Goto(c, "switch") \/ Done(c)
    BY <1>4 DEF Ready
  <2>3. RequestOK([req[c] EXCEPT !.pc = "switch"])
    BY <1>1, <1>4 DEF RequestOK, Request, Ready
  <2>4. req' \in [Clients -> Request] /\ RequestsOK'
    BY <2>2, <2>3, GotoStep, DoneStep DEF TypeOK, Steps
  <2>5. runOf' \in [Names -> Runs \cup {None}] /\ made' \subseteq Runs
    BY <2>1, <2>2, RunForType
  <2> QED
    BY <1>0, <1>4, <2>4, <2>5 DEF Ready, TypeOK, RunTypes
<1> QED
  BY <1>2, <1>3, <1>4

LEMMA StartLockedStep ==
    ASSUME NEW c \in Clients, IndInv, StartLocked(c)
    PROVE  IndInv'
<1> DEFINE r == req[c].run
           d == req[c].got
<1>1. req[c] \in Request /\ RequestOK(req[c]) /\ RunTypes /\ RunsOK /\ RequestsOK
      /\ req \in [Clients -> Request]
  BY DEF IndInv, TypeOK, RequestsOK, RunTypes
<1>2. r \in Runs /\ d \in Definitions /\ req[c].name \in Names
  BY <1>1 DEF StartLocked, RequestOK
<1>3. (req[c].op = "open" /\ Goto(c, "ready")) \/ Done(c)
  BY DEF StartLocked
<1>4. req' \in [Clients -> Request] /\ RequestsOK'
  <2>1. req[c].op = "open" => RequestOK([req[c] EXCEPT !.pc = "ready"])
    BY <1>1, <1>2 DEF RequestOK, Request
  <2> QED
    BY <1>1, <1>3, <2>1, GotoStep, DoneStep DEF Steps
<1>5. RunTypes' /\ RunsOK'
  <2>1. CASE proc' = proc /\ run' = [run EXCEPT ![r].keep = TRUE]
    BY <1>1, <1>2, <2>1, NoSpawnRuns
  <2>2. CASE /\ run[r].state \notin {"starting", "running"} /\ proc' = proc
             /\ run' = [run EXCEPT ![r].state = "external", ![r].keep = TRUE]
    BY <1>1, <1>2, <2>2, NoSpawnRuns
  <2>3. CASE /\ run[r].state \notin {"starting", "running"}
             /\ Spawn(r, req[c].name, d)
    BY <1>1, <1>2, <2>3, SpawnRuns
  <2>4. CASE /\ run[r].state \notin {"starting", "running"}
             /\ SpawnFails(r) \/ PipeFails(r)
    BY <1>1, <1>2, <2>4, SpawnFailsRuns
  <2> QED
    BY <2>1, <2>2, <2>3, <2>4 DEF StartLocked
<1> QED
  BY <1>4, <1>5 DEF StartLocked, IndInv, TypeOK, RunTypes

LEMMA StopStep ==
    ASSUME NEW c \in Clients, IndInv, StopRun(c) \/ StopLocked(c)
    PROVE  IndInv'
<1>1. req[c] \in Request /\ RequestOK(req[c]) /\ RunTypes /\ RunsOK /\ RequestsOK
      /\ req \in [Clients -> Request] /\ TypeOK
  BY DEF IndInv, TypeOK, RequestsOK, RunTypes
<1>2. CASE StopRun(c)
  <2> DEFINE n == IF req[c].op = "edit" THEN req[c].prev ELSE req[c].name
  <2>1. n \in Names
    BY <1>1, <1>2 DEF StopRun, RequestOK
  <2>2. PICK r \in Runs : /\ RunFor(n, r)
                          /\ req' = [req EXCEPT ![c].pc = "stopLocked", ![c].run = r]
    BY <1>2 DEF StopRun
  <2> DEFINE q == [req[c] EXCEPT !.pc = "stopLocked", !.run = r]
  <2>3. req' = [req EXCEPT ![c] = q]
    BY <1>1, <2>2
  <2>4. q \in Request
    BY <1>1 DEF Request, Steps
  <2>5. RequestOK(q)
    BY <1>1, <1>2 DEF RequestOK, Request, StopRun
  <2>6. req' \in [Clients -> Request] /\ RequestsOK'
    BY <1>1, <2>3, <2>4, <2>5, RequestStep
  <2>7. runOf' \in [Names -> Runs \cup {None}] /\ made' \subseteq Runs
    BY <1>1, <2>1, <2>2, RunForType
  <2>8. RunsOK'
    BY <1>1, <1>2, SameRuns DEF StopRun
  <2> QED
    BY <1>2, <2>6, <2>7, <2>8 DEF StopRun, TypeOK, IndInv
<1>3. CASE StopLocked(c)
  <2> DEFINE r == req[c].run
             p == run[r].cmd
             told == IF run[r].state = "external" \/ p = None THEN {} ELSE {p}
  <2>1. r \in Runs
    BY <1>1, <1>3 DEF StopLocked, RequestOK
  <2>2. p \in Procs \cup {None}
    BY <1>1, <2>1 DEF RunTypes, Run
  <2>3. run' = [s \in Runs |-> IF s \in {r}
                               THEN [run[s] EXCEPT !.state = "stopped", !.keep = FALSE]
                               ELSE run[s]]
    BY <1>1, <1>3, <2>1 DEF StopLocked, RunTypes
  <2>4. proc' = [x \in Procs |-> IF x \in told THEN Told(proc[x]) ELSE proc[x]]
    BY <1>1, <1>3, <2>2 DEF StopLocked, RunTypes
  <2>5. told \subseteq Procs
    BY <2>2
  <2>6. \A s \in {r} : run[s].state \in {"starting", "running"} => run[s].cmd \in told
    BY <1>1, <2>1, NoneAssumption DEF RunsOK, RunningIsBacked
  <2>7. \A x \in told : \E s \in {r} : run[s].cmd = x
    OBVIOUS
  <2>8. RunTypes' /\ RunsOK'
    <3> HIDE DEF told, r
    <3> QED BY <1>1, <2>1, <2>3, <2>4, <2>5, <2>6, <2>7, StopRuns
  <2>9. req' \in [Clients -> Request] /\ RequestsOK'
    <3>1. \/ req[c].op = "edit" /\ Goto(c, "save")
          \/ req[c].op = "delete" /\ Goto(c, "delete")
          \/ Done(c)
      BY <1>3 DEF StopLocked
    <3>2. req[c].op = "edit" => RequestOK([req[c] EXCEPT !.pc = "save"])
      BY <1>1 DEF RequestOK, Request
    <3>3. req[c].op = "delete" => RequestOK([req[c] EXCEPT !.pc = "delete"])
      BY <1>1, <1>3 DEF RequestOK, Request, StopLocked
    <3> QED
      BY <1>1, <3>1, <3>2, <3>3, GotoStep, DoneStep DEF Steps
  <2> QED
    BY <1>3, <2>8, <2>9 DEF StopLocked, TypeOK, IndInv, RunTypes
<1> QED
  BY <1>2, <1>3

LEMMA DefsStep ==
    ASSUME NEW c \in Clients, IndInv, Save(c) \/ Delete(c) \/ Drop(c) \/ Switch(c)
    PROVE  IndInv'
<1>1. req[c] \in Request /\ RequestOK(req[c]) /\ RunsOK /\ RequestsOK
      /\ req \in [Clients -> Request] /\ TypeOK
  BY DEF IndInv, TypeOK, RequestsOK
<1>2. RunsOK'
  BY <1>1, SameRuns DEF Save, Delete, Drop, Switch
<1>3. CASE Save(c)
  <2>1. req[c].name \in Names
    BY <1>1, <1>3 DEF Save, RequestOK
  <2>2. defs' \in [Names -> Definitions \cup {None}]
    BY <1>1, <1>3 DEF Save, TypeOK, Request
  <2>3. RequestOK([req[c] EXCEPT !.pc = "drop"])
    BY <1>1 DEF RequestOK, Request
  <2>4. Goto(c, "drop") \/ Done(c)
    BY <1>3 DEF Save
  <2>5. req' \in [Clients -> Request] /\ RequestsOK'
    BY <1>1, <2>3, <2>4, GotoStep, DoneStep DEF Steps
  <2> QED
    BY <1>1, <1>2, <1>3, <2>2, <2>5 DEF Save, TypeOK, IndInv
<1>4. CASE Delete(c)
  <2>1. req[c].name \in Names
    BY <1>1, <1>4 DEF Delete, RequestOK
  <2>2. defs' \in [Names -> Definitions \cup {None}]
    BY <1>1, <1>4, <2>1 DEF Delete, TypeOK
  <2>3. RequestOK([req[c] EXCEPT !.pc = "drop"])
    BY <1>1 DEF RequestOK, Request
  <2>4. Goto(c, "drop") \/ Done(c)
    BY <1>4 DEF Delete
  <2>5. req' \in [Clients -> Request] /\ RequestsOK'
    BY <1>1, <2>3, <2>4, GotoStep, DoneStep DEF Steps
  <2> QED
    BY <1>1, <1>2, <1>4, <2>2, <2>5 DEF Delete, TypeOK, IndInv
<1>5. CASE Drop(c)
  <2>1. runOf' \in [Names -> Runs \cup {None}]
    BY <1>1, <1>5 DEF Drop, TypeOK
  <2>2. req[c].op = "edit" => RequestOK([req[c] EXCEPT !.pc = "startDef"])
    BY <1>1 DEF RequestOK, Request
  <2>3. (req[c].op = "edit" /\ Goto(c, "startDef")) \/ Done(c)
    BY <1>5 DEF Drop
  <2>4. req' \in [Clients -> Request] /\ RequestsOK'
    BY <1>1, <2>2, <2>3, GotoStep, DoneStep DEF Steps
  <2> QED
    BY <1>1, <1>2, <1>5, <2>1, <2>4 DEF Drop, TypeOK, IndInv
<1>6. CASE Switch(c)
  <2>1. active' \in Contexts
    BY <1>1, <1>6 DEF Switch, RequestOK, TypeOK
  <2>2. req' \in [Clients -> Request] /\ RequestsOK'
    BY <1>1, <1>6, DoneStep DEF Switch
  <2> QED
    BY <1>1, <1>2, <1>6, <2>1, <2>2 DEF Switch, TypeOK, IndInv
<1> QED
  BY <1>3, <1>4, <1>5, <1>6

------------------------------------------------------------------------------
(* Processes, timers and shutdown *)

LEMMA ProcStepInd ==
    ASSUME NEW p \in Procs, IndInv, ProcStep(p)
    PROVE  IndInv'
<1>1. RunTypes /\ RunsOK /\ TypeOK /\ RequestsOK
  BY DEF IndInv, TypeOK, RunTypes
<1>2. RunTypes' /\ RunsOK'
  BY <1>1, ProcOnlyRuns, WatchReadyRuns, WatchTimeoutRuns, ExitedRuns DEF ProcStep, Watch
<1>3. timers' \subseteq Timer
  <2>1. CASE Exited(p)
    <3>1. /\ proc[p].run \in Runs
          /\ proc[p].name \in Names
          /\ proc[p].gen \in Nat
      BY <1>1, <2>1 DEF Exited, RunsOK, StartsOK, RunTypes, Proc
    <3>2. [run |-> proc[p].run, gen |-> proc[p].gen, name |-> proc[p].name,
           fired |-> FALSE, def |-> None] \in Timer
      BY <3>1 DEF Timer
    <3> QED
      BY <1>1, <2>1, <3>2 DEF Exited, TypeOK
  <2>2. CASE Listen(p) \/ ProcEnds(p) \/ Kill(p) \/ WatchReady(p) \/ WatchTimeout(p)
    BY <1>1, <2>2 DEF Listen, ProcEnds, Kill, WatchReady, WatchTimeout, TypeOK
  <2> QED
    BY <2>1, <2>2 DEF ProcStep, Watch
<1>4. UNCHANGED <<defs, runOf, made, active, outside, req, life, waiting>>
  BY DEF ProcStep, Watch, Listen, ProcEnds, Kill, WatchReady, WatchTimeout, Exited
<1> QED
  BY <1>1, <1>2, <1>3, <1>4 DEF IndInv, TypeOK, RunTypes, RequestsOK

LEMMA TimerStep ==
    ASSUME NEW t \in timers, IndInv, TimerFires(t) \/ TimerLocked(t)
    PROVE  IndInv'
<1>1. RunTypes /\ RunsOK /\ TypeOK /\ RequestsOK
  BY DEF IndInv, TypeOK, RunTypes
<1>2. t \in Timer
  BY <1>1 DEF TypeOK
<1>3. CASE TimerFires(t)
  <2>1. [t EXCEPT !.fired = TRUE, !.def = defs[t.name]] \in Timer
    <3>1. defs[t.name] \in Definitions \cup {None}
      BY <1>1, <1>2 DEF TypeOK, Timer
    <3> QED
      BY <1>2, <3>1 DEF Timer
  <2>2. timers' \subseteq Timer
    BY <1>1, <1>3, <2>1 DEF TimerFires, TypeOK
  <2>3. RunsOK'
    BY <1>1, <1>3, SameRuns DEF TimerFires
  <2> QED
    BY <1>1, <1>3, <2>2, <2>3 DEF TimerFires, IndInv, TypeOK, RequestsOK
<1>4. CASE TimerLocked(t)
  <2>1. timers' \subseteq Timer
    BY <1>1, <1>4 DEF TimerLocked, TypeOK
  <2>2. t.run \in Runs /\ t.name \in Names
    BY <1>2 DEF Timer
  <2>3. RunTypes' /\ RunsOK'
    <3>1. CASE UNCHANGED <<run, proc>>
      BY <1>1, <3>1, SameRuns DEF RunTypes
    <3>2. CASE StillDropped(t)
      <4>1. t.def \in Definitions /\ run[t.run].state \notin {"starting", "running"}
        BY <1>2, <3>2 DEF StillDropped, Timer
      <4> QED
        BY <1>1, <1>4, <2>2, <3>2, <4>1, SpawnRuns, SpawnFailsRuns DEF TimerLocked
    <3> QED
      BY <1>4, <3>1, <3>2 DEF TimerLocked
  <2> QED
    BY <1>1, <1>4, <2>1, <2>3 DEF TimerLocked, IndInv, TypeOK, RunTypes, RequestsOK
<1> QED
  BY <1>3, <1>4

LEMMA StopAllStep ==
    ASSUME IndInv, StopAll
    PROVE  IndInv'
<1>1. RunTypes /\ RunsOK /\ TypeOK /\ RequestsOK
  BY DEF IndInv, TypeOK, RunTypes
<1> DEFINE mine == {r \in Runs : run[r].cmd # None /\ \E n \in Names : runOf[n] = r}
           ours == {run[r].cmd : r \in mine}
<1>2. ours \subseteq Procs
  BY <1>1 DEF RunTypes, Run
<1>3. /\ run' = [r \in Runs |-> IF r \in mine
                                THEN [run[r] EXCEPT !.state = "stopped", !.keep = FALSE]
                                ELSE run[r]]
      /\ proc' = [p \in Procs |-> IF p \in ours THEN Told(proc[p]) ELSE proc[p]]
      /\ waiting' = ours
      /\ life' = "stopping"
      /\ UNCHANGED <<defs, runOf, made, timers, active, outside, req>>
  BY DEF StopAll
<1>4. /\ mine \subseteq Runs
      /\ \A r \in mine : run[r].cmd \in ours
      /\ \A p \in ours : \E r \in mine : run[r].cmd = p
  OBVIOUS
<1> HIDE DEF mine, ours
<1>5. RunTypes' /\ RunsOK'
  BY <1>1, <1>2, <1>3, <1>4, StopRuns
<1> QED
  BY <1>1, <1>2, <1>3, <1>5 DEF IndInv, TypeOK, RunTypes, RequestsOK

------------------------------------------------------------------------------
(* The theorems *)

LEMMA InitInd == Init => IndInv
<1> SUFFICES ASSUME Init PROVE IndInv
  OBVIOUS
<1>1. TypeOK
  BY IdleOK DEF Init, TypeOK, Run, NewRun, RunStates, Proc, NoProc
<1>2. RequestsOK
  BY IdleOK DEF Init, RequestsOK
<1>3. RunsOK
  BY DEF Init, RunsOK, StartsOK, CmdsOK, NoProcessLost, RunningIsBacked, NewRun, NoProc
<1> QED
  BY <1>1, <1>2, <1>3 DEF IndInv

LEMMA NextInd == IndInv /\ [Next]_vars => IndInv'
<1> SUFFICES ASSUME IndInv, [Next]_vars PROVE IndInv'
  OBVIOUS
<1>1. ASSUME NEW c \in Clients, NewRequest(c) PROVE IndInv'
  BY <1>1, NewRequestStep
<1>2. ASSUME NEW c \in Clients, Serve(c) PROVE IndInv'
  BY <1>2, StartStep, StartLockedStep, StopStep, DefsStep DEF Serve
<1>3. ASSUME NEW p \in Procs, ProcStep(p) PROVE IndInv'
  BY <1>3, ProcStepInd
<1>4. ASSUME NEW t \in timers, TimerFires(t) \/ TimerLocked(t) PROVE IndInv'
  BY <1>4, TimerStep
<1>5. CASE StopAll
  BY <1>5, StopAllStep
<1>6. CASE Exit
  BY <1>6, SameRuns DEF Exit, IndInv, TypeOK, RequestsOK
<1>7. ASSUME NEW port \in Ports, Outside(port) PROVE IndInv'
  BY <1>7, SameRuns DEF Outside, IndInv, TypeOK, RequestsOK
<1>8. CASE UNCHANGED vars
  BY <1>8, SameRuns DEF vars, IndInv, TypeOK, RequestsOK
<1> QED
  BY <1>1, <1>2, <1>3, <1>4, <1>5, <1>6, <1>7, <1>8 DEF Next

\* The inductive invariant holds in every state of every instance.
THEOREM Inductive == Spec => []IndInv
BY InitInd, NextInd, PTL DEF Spec

\* Every variable of the tunnel manager keeps its type.
THEOREM TypeCorrect == Spec => []TypeOK
<1>1. IndInv => TypeOK
  BY DEF IndInv
<1> QED
  BY <1>1, Inductive, PTL

\* No live process is lost while nobody told it to end: whatever requests, exits,
\* timeouts and restart timers do to a run, in any order, its last process stays
\* reachable through the run (spawnLocked, exited, watchReady, stopTunnel).
THEOREM NeverLost == Spec => []NoProcessLost
<1>1. IndInv => NoProcessLost
  BY DEF IndInv, RunsOK
<1> QED
  BY <1>1, Inductive, PTL

\* What a run shows as starting or running is there: its own process, of its
\* last start, not stopped and not yet recorded as ended.
THEOREM AlwaysBacked == Spec => []RunningIsBacked
<1>1. IndInv => RunningIsBacked
  BY DEF IndInv, RunsOK
<1> QED
  BY <1>1, Inductive, PTL

\* The arrival of a request changes nothing but the request.
LEMMA NewRequestFrame ==
    ASSUME NEW c \in Clients, NewRequest(c)
    PROVE  defs' = defs /\ run' = run
<1>1. ASSUME NEW n \in Names, RequestStart(c, n) \/ RequestStop(c, n) \/ RequestDelete(c, n)
      PROVE  defs' = defs /\ run' = run
  BY <1>1 DEF RequestStart, RequestStop, RequestDelete, Arrive
<1>2. ASSUME NEW n \in Names, NEW prev \in Names \cup {None}, NEW d \in Definitions,
             NEW start \in BOOLEAN, RequestEdit(c, n, prev, d, start)
      PROVE  defs' = defs /\ run' = run
  BY <1>2 DEF RequestEdit, Arrive
<1>3. ASSUME NEW ctx \in Contexts, NEW skip \in BOOLEAN, RequestOpen(c, ctx, skip)
      PROVE  defs' = defs /\ run' = run
  BY <1>3 DEF RequestOpen, Arrive
<1> QED
  BY <1>1, <1>2, <1>3 DEF NewRequest

\* saveTunnel keeps every context and every endpoint with one tunnel, also
\* across renames, deletes and writes that fail.
THEOREM UniqueUseHolds == Spec => []UniqueUse
<1>1. Init => UniqueUse
  BY DEF Init
<1>2. IndInv /\ UniqueUse /\ [Next]_vars => UniqueUse'
  <2> SUFFICES ASSUME IndInv, UniqueUse, [Next]_vars PROVE UniqueUse'
    OBVIOUS
  <2>1. ASSUME NEW c \in Clients, Save(c) PROVE UniqueUse'
    <3> DEFINE q == req[c]
               previous == IF q.prev = None THEN q.name ELSE q.prev
    <3>1. CASE UNCHANGED defs
      BY <3>1 DEF UniqueUse
    <3>2. CASE /\ \A n \in Names \ {previous} :
                     defs[n] # None =>
                        /\ n # q.name
                        /\ defs[n].contexts \cap q.def.contexts = {}
                        /\ q.def.port # NoPort => defs[n].port # q.def.port
               /\ defs' = [n \in Names |-> IF n = q.name THEN q.def
                                           ELSE IF n = previous THEN None ELSE defs[n]]
      <4> SUFFICES ASSUME NEW m \in Names, NEW n \in Names,
                          m # n, defs'[m] # None, defs'[n] # None
                   PROVE  /\ defs'[m].contexts \cap defs'[n].contexts = {}
                          /\ defs'[m].port = defs'[n].port => defs'[m].port = NoPort
        BY DEF UniqueUse
      <4>1. CASE m # q.name /\ n # q.name
        BY <3>2, <4>1 DEF UniqueUse
      <4>2. CASE m = q.name
        BY <3>2, <4>2
      <4>3. CASE n = q.name
        BY <3>2, <4>3
      <4> QED
        BY <4>1, <4>2, <4>3
    <3> QED
      BY <2>1, <3>1, <3>2 DEF Save, Refused, Previous
  <2>2. ASSUME NEW c \in Clients, Delete(c) PROVE UniqueUse'
    BY <2>2 DEF Delete, UniqueUse, IndInv, TypeOK
  <2>3. CASE UNCHANGED defs
    BY <2>3 DEF UniqueUse
  <2>4. \/ \E c \in Clients : Save(c) \/ Delete(c)
        \/ UNCHANGED defs
    <3>1. ASSUME NEW c \in Clients, Serve(c)
          PROVE  Save(c) \/ Delete(c) \/ defs' = defs
      BY <3>1 DEF Serve, StartDef, StartRun, StartLocked, Ready, Switch, StopRun,
                  StopLocked, Drop
    <3>2. ASSUME NEW p \in Procs, ProcStep(p) PROVE defs' = defs
      BY <3>2 DEF ProcStep, Listen, ProcEnds, Kill, Watch, WatchReady, WatchTimeout, Exited
    <3>3. ASSUME NEW t \in timers, TimerFires(t) \/ TimerLocked(t) PROVE defs' = defs
      BY <3>3 DEF TimerFires, TimerLocked
    <3>4. ASSUME StopAll \/ Exit \/ \E port \in Ports : Outside(port) PROVE defs' = defs
      BY <3>4 DEF StopAll, Exit, Outside
    <3>5. ASSUME UNCHANGED vars PROVE defs' = defs
      BY <3>5 DEF vars
    <3> QED
      BY <3>1, <3>2, <3>3, <3>4, <3>5, NewRequestFrame, SMTT(30) DEF Next
  <2> QED
    BY <2>1, <2>2, <2>3, <2>4
<1> QED
  BY <1>1, <1>2, Inductive, PTL DEF Spec

\* The steps that change a run at all.
LEMMA RunSteps ==
    ASSUME Next
    PROVE  \/ UNCHANGED run
           \/ \E c \in Clients : StartLocked(c) \/ StopLocked(c)
           \/ \E p \in Procs : Watch(p) \/ Exited(p)
           \/ \E t \in timers : TimerLocked(t)
           \/ StopAll
<1>1. ASSUME NEW c \in Clients, Serve(c)
      PROVE  StartLocked(c) \/ StopLocked(c) \/ run' = run
  BY <1>1 DEF Serve, StartDef, StartRun, Ready, Switch, StopRun, Save, Delete, Drop
<1>2. ASSUME NEW p \in Procs, ProcStep(p)
      PROVE  Watch(p) \/ Exited(p) \/ run' = run
  BY <1>2 DEF ProcStep, Listen, ProcEnds, Kill
<1>3. ASSUME NEW t \in timers, TimerFires(t) PROVE run' = run
  BY <1>3 DEF TimerFires
<1>4. ASSUME Exit \/ \E port \in Ports : Outside(port) PROVE run' = run
  BY <1>4 DEF Exit, Outside
<1> QED
  BY <1>1, <1>2, <1>3, <1>4, NewRequestFrame DEF Next

\* Only a start request brings a stopped tunnel back, whatever timers, readiness
\* checks and exits of its processes are still under way.
THEOREM StopIsFinal == Spec => StoppedStaysStopped
<1> DEFINE Step == \A r \in Runs :
                     run[r].state = "stopped" /\ run'[r].state # "stopped" =>
                       \E c \in Clients : req[c].pc = "startLocked" /\ req[c].run = r
<1>1. IndInv /\ [Next]_vars => [Step]_vars
  <2> SUFFICES ASSUME IndInv, Next PROVE Step
    OBVIOUS
  <2>0. run \in [Runs -> Run] /\ RunsOK
    BY DEF IndInv, TypeOK
  <2>1. CASE UNCHANGED run
    BY <2>1
  <2>2. ASSUME NEW c \in Clients, StartLocked(c) PROVE Step
    <3>1. \A s \in Runs : s # req[c].run => run'[s] = run[s]
      BY <2>0, <2>2 DEF StartLocked, Spawn, SpawnFails, PipeFails
    <3>2. req[c].pc = "startLocked"
      BY <2>2 DEF StartLocked
    <3> QED
      BY <3>1, <3>2
  <2>3. ASSUME NEW c \in Clients, StopLocked(c) PROVE Step
    BY <2>0, <2>3 DEF StopLocked, Run
  <2>4. ASSUME NEW p \in Procs, WatchReady(p) PROVE Step
    BY <2>0, <2>4 DEF WatchReady, Watching, Run
  <2>5. ASSUME NEW p \in Procs, WatchTimeout(p) PROVE Step
    BY <2>0, <2>5 DEF WatchTimeout, Watching, Run
  <2>6. ASSUME NEW p \in Procs, Exited(p) PROVE Step
    BY <2>0, <2>6 DEF Exited, Run
  <2>7. ASSUME NEW t \in timers, TimerLocked(t) PROVE Step
    BY <2>0, <2>7 DEF TimerLocked, StillDropped, Spawn, SpawnFails, PipeFails, Run
  <2>8. CASE StopAll
    BY <2>0, <2>8 DEF StopAll, Run
  <2> HIDE DEF Step
  <2> QED
    BY <2>1, <2>2, <2>3, <2>4, <2>5, <2>6, <2>7, <2>8, RunSteps DEF Watch
<1> QED
  BY <1>1, Inductive, PTL DEF Spec, StoppedStaysStopped

------------------------------------------------------------------------------
(* Tunnels implements TunnelLife.  The invariant makes the processes a run owns *)
(* a function of what the run shows, before a step and after it.                *)

Shown == [r \in Runs |-> run[r].state]
Has == [r \in Runs |-> Owned(r)]
Up(x) == x.state \in {"starting", "running"}

\* A run owns the process it refers to while it is up, and none otherwise.
LEMMA OwnedIs ==
    ASSUME RunsOK, NEW r \in Runs
    PROVE  Owned(r) = IF Up(run[r]) THEN {run[r].cmd} ELSE {}
<1>1. ASSUME NEW p \in Owned(r) PROVE Up(run[r]) /\ p = run[r].cmd
  BY <1>1 DEF Owned, RunsOK, NoProcessLost, Up
<1>2. ASSUME Up(run[r]) PROVE run[r].cmd \in Owned(r)
  BY <1>2 DEF Owned, RunsOK, RunningIsBacked, Up
<1> QED BY <1>1, <1>2

\* The same after a step.
LEMMA OwnedNext ==
    ASSUME RunsOK', NEW r \in Runs
    PROVE  Owned(r)' = IF Up(run'[r]) THEN {run'[r].cmd} ELSE {}
<1>1. ASSUME NEW p \in Owned(r)' PROVE Up(run'[r]) /\ p = run'[r].cmd
  BY <1>1 DEF Owned, RunsOK, NoProcessLost, Up
<1>2. ASSUME Up(run'[r]) PROVE run'[r].cmd \in Owned(r)'
  BY <1>2 DEF Owned, RunsOK, RunningIsBacked, Up
<1> QED BY <1>1, <1>2

\* Steps that change neither what runs show nor their processes.
LEMMA LifeSame ==
    ASSUME RunsOK, RunsOK', \A r \in Runs : run'[r].state = run[r].state /\ run'[r].cmd = run[r].cmd
    PROVE  Shown' = Shown /\ Has' = Has
<1>1. Shown' = Shown
  BY DEF Shown
<1>2. ASSUME NEW r \in Runs PROVE Owned(r)' = Owned(r)
  <2>1. Owned(r) = IF Up(run[r]) THEN {run[r].cmd} ELSE {}
    BY OwnedIs
  <2>2. Owned(r)' = IF Up(run'[r]) THEN {run'[r].cmd} ELSE {}
    BY OwnedNext
  <2> QED BY <2>1, <2>2 DEF Up
<1> QED BY <1>1, <1>2 DEF Has

\* Steps that change one run.
LEMMA LifeOne ==
    ASSUME RunsOK, RunsOK', NEW r \in Runs, \A s \in Runs \ {r} : run'[s] = run[s]
    PROVE  /\ Shown' = [Shown EXCEPT ![r] = run'[r].state]
           /\ Has' = [Has EXCEPT ![r] = IF Up(run'[r]) THEN {run'[r].cmd} ELSE {}]
<1>1. Shown' = [Shown EXCEPT ![r] = run'[r].state]
  BY DEF Shown
<1>2. ASSUME NEW s \in Runs PROVE Owned(s)' = IF Up(run'[s]) THEN {run'[s].cmd} ELSE {}
  BY OwnedNext
<1>3. ASSUME NEW s \in Runs \ {r} PROVE Owned(s)' = Owned(s)
  BY <1>2, <1>3, OwnedIs DEF Up
<1> QED BY <1>1, <1>2, <1>3 DEF Has

\* Startable in terms of runs.
LEMMA LifeStartable ==
    ASSUME RunsOK, NEW r \in Runs,
           run[r].state = "exited" \/ (run[r].state \in {"stopped", "failed"} /\ r \in Asked)
    PROVE  Life!Startable(r)
<1>1. Owned(r) = {}
  BY OwnedIs DEF Up
<1> QED BY <1>1 DEF Life!Startable

\* spawnLocked of a run that may be started, or that stays as it is.
LEMMA LifeSpawns ==
    ASSUME RunTypes, RunsOK, RunsOK', NEW r \in Runs, NEW n, NEW d,
           run[r].state = "exited" \/ (run[r].state \in {"stopped", "failed"} /\ r \in Asked),
           Spawn(r, n, d) \/ SpawnFails(r) \/ PipeFails(r)
    PROVE  Life!Live(r) \/ (Shown' = Shown /\ Has' = Has)
<1>1. Life!Startable(r) /\ Has[r] = {}
  <2>1. Owned(r) = {}
    BY OwnedIs DEF Up
  <2> QED BY <2>1, LifeStartable DEF Has
<1>2. CASE Spawn(r, n, d)
  <2>1. PICK p \in Procs : /\ proc[p].phase = "none"
                           /\ run'[r].state = "starting" /\ run'[r].cmd = p
                           /\ \A s \in Runs \ {r} : run'[s] = run[s]
    BY <1>2 DEF Spawn, RunTypes
  <2>2. /\ Shown' = [Shown EXCEPT ![r] = "starting"]
        /\ Has' = [Has EXCEPT ![r] = {p}]
    BY <2>1, LifeOne DEF Up
  <2>3. \A s \in Runs : p \notin Owned(s)
    BY <2>1 DEF Owned
  <2>4. Life!Start(r)
    BY <1>1, <2>2, <2>3, Zenon DEF Life!Start, Life!Shows, Shown, Has
  <2> QED BY <2>4 DEF Life!Live
<1>3. CASE SpawnFails(r)
  <2>1. run'[r].state = "failed" /\ \A s \in Runs \ {r} : run'[s] = run[s]
    BY <1>3 DEF SpawnFails, RunTypes
  <2>2. Shown' = [Shown EXCEPT ![r] = "failed"] /\ Has' = Has
    BY <1>1, <2>1, LifeOne DEF Up, Has
  <2>3. Life!StartFails(r)
    BY <1>1, <2>2 DEF Life!StartFails, Life!Shows, Shown, Has
  <2> QED BY <2>3 DEF Life!Live
<1>4. CASE PipeFails(r)
  <2>1. \A s \in Runs : run'[s].state = run[s].state /\ run'[s].cmd = run[s].cmd
    BY <1>4 DEF PipeFails, RunTypes, Run
  <2> QED BY <2>1, LifeSame
<1> QED BY <1>2, <1>3, <1>4

\* startTunnel, holding r.mu.
LEMMA LifeStartLocked ==
    ASSUME IndInv, IndInv', NEW c \in Clients, StartLocked(c)
    PROVE  (\E r \in Runs : Life!Live(r)) \/ (Shown' = Shown /\ Has' = Has)
<1>1. RunTypes /\ RunsOK /\ RunsOK'
  BY DEF IndInv, TypeOK, RunTypes
<1>2. PICK r \in Runs : r = req[c].run /\ r \in Asked
  BY DEF IndInv, RequestsOK, RequestOK, StartLocked, Asked
<1>3. CASE run[r].state \in {"starting", "running", "external"} /\ run' = [run EXCEPT ![r].keep = TRUE]
  <2>1. \A s \in Runs : run'[s].state = run[s].state /\ run'[s].cmd = run[s].cmd
    BY <1>1, <1>2, <1>3 DEF RunTypes, Run
  <2> QED BY <1>1, <2>1, LifeSame
<1>4. ASSUME run[r].state \notin {"starting", "running", "external"}
      PROVE  run[r].state = "exited" \/ (run[r].state \in {"stopped", "failed"} /\ r \in Asked)
  <2>1. run[r].state \in RunStates
    BY <1>1, <1>2 DEF RunTypes, Run
  <2> QED BY <1>2, <1>4, <2>1 DEF RunStates
<1>5. CASE /\ run[r].state \notin {"starting", "running", "external"}
           /\ run' = [run EXCEPT ![r].state = "external", ![r].keep = TRUE]
  <2>1. run'[r].state = "external" /\ \A s \in Runs \ {r} : run'[s] = run[s]
    BY <1>1, <1>2, <1>5 DEF RunTypes, Run
  <2>2. Life!Startable(r) /\ Has[r] = {}
    <3>1. Owned(r) = {}
      BY <1>1, <1>2, <1>5, OwnedIs DEF Up
    <3> QED BY <3>1, <1>1, <1>2, <1>4, <1>5, LifeStartable DEF Has
  <2>3. Shown' = [Shown EXCEPT ![r] = "external"] /\ Has' = Has
    BY <1>1, <1>2, <2>1, <2>2, LifeOne DEF Up, Has
  <2>4. Life!Adopt(r)
    BY <1>2, <2>2, <2>3 DEF Life!Adopt, Life!Shows, Shown, Has
  <2> QED BY <1>2, <2>4 DEF Life!Live
<1>6. CASE /\ run[r].state \notin {"starting", "running", "external"}
           /\ Spawn(r, req[c].name, req[c].got) \/ SpawnFails(r) \/ PipeFails(r)
  <2>1. PICK n, d : n = req[c].name /\ d = req[c].got
    OBVIOUS
  <2>2. Spawn(r, n, d) \/ SpawnFails(r) \/ PipeFails(r)
    BY <1>6, <2>1
  <2>3. Life!Live(r) \/ (Shown' = Shown /\ Has' = Has)
    BY <1>1, <1>4, <1>6, <2>2, LifeSpawns
  <2> QED BY <2>3
<1> QED BY <1>2, <1>3, <1>5, <1>6, Zenon DEF StartLocked

\* A restart timer, holding r.mu.
LEMMA LifeTimerLocked ==
    ASSUME IndInv, IndInv', NEW t \in timers, TimerLocked(t)
    PROVE  (\E r \in Runs : Life!Live(r)) \/ (Shown' = Shown /\ Has' = Has)
<1>1. RunTypes /\ RunsOK /\ RunsOK' /\ t.run \in Runs
  BY DEF IndInv, TypeOK, RunTypes, Timer
<1>2. CASE UNCHANGED run
  BY <1>1, <1>2, LifeSame
<1>3. CASE StillDropped(t) /\ (Spawn(t.run, t.name, t.def) \/ SpawnFails(t.run) \/ PipeFails(t.run))
  <2>1. run[t.run].state = "exited"
    BY <1>3 DEF StillDropped
  <2>2. Life!Live(t.run) \/ (Shown' = Shown /\ Has' = Has)
    BY <1>1, <1>3, <2>1, LifeSpawns
  <2> QED BY <1>1, <2>2
<1> QED BY <1>2, <1>3, Zenon DEF TimerLocked

\* What a step of one run that is up neither before nor after it changes.
LEMMA LifeDown ==
    ASSUME RunsOK, RunsOK', NEW r \in Runs, \A s \in Runs \ {r} : run'[s] = run[s],
           ~Up(run[r]), ~Up(run'[r])
    PROVE  Shown' = [Shown EXCEPT ![r] = run'[r].state] /\ Has' = Has
<1>1. Has[r] = {}
  BY OwnedIs DEF Has
<1>2. /\ Shown' = [Shown EXCEPT ![r] = run'[r].state]
      /\ Has' = [Has EXCEPT ![r] = {}]
  BY LifeOne
<1> QED BY <1>1, <1>2 DEF Has

\* stopTunnel, holding r.mu.
LEMMA LifeStopLocked ==
    ASSUME IndInv, IndInv', NEW c \in Clients, StopLocked(c)
    PROVE  \E S \in SUBSET Runs : Life!Stop(S)
<1>1. run \in [Runs -> Run] /\ RunsOK /\ RunsOK'
  BY DEF IndInv, TypeOK
<1>2. PICK r \in Runs : r = req[c].run
  BY DEF IndInv, RequestsOK, RequestOK, StopLocked
<1>3. run'[r].state = "stopped" /\ \A s \in Runs \ {r} : run'[s] = run[s]
  BY <1>1, <1>2 DEF StopLocked, Run
<1>4. /\ Shown' = [Shown EXCEPT ![r] = "stopped"]
      /\ Has' = [Has EXCEPT ![r] = {}]
  BY <1>1, <1>2, <1>3, LifeOne DEF Up
<1>5. Life!Stop({r})
  BY <1>4 DEF Life!Stop, Shown, Has
<1> QED BY <1>2, <1>5

\* stopAllTunnels: a run it passes over has no process.
LEMMA LifeStopAll ==
    ASSUME IndInv, IndInv', StopAll
    PROVE  \E S \in SUBSET Runs : Life!Stop(S)
<1>0. PICK S \in SUBSET Runs :
        S = {r \in Runs : run[r].cmd # None /\ \E n \in Names : runOf[n] = r}
  OBVIOUS
<1>1. run \in [Runs -> Run] /\ RunsOK /\ RunsOK'
  BY DEF IndInv, TypeOK
<1>2. \A r \in Runs : IF r \in S THEN run'[r].state = "stopped" ELSE run'[r] = run[r]
  BY <1>0, <1>1 DEF StopAll, Run
<1>3. Shown' = [r \in Runs |-> IF r \in S THEN "stopped" ELSE Shown[r]]
  BY <1>2 DEF Shown
<1>4. ASSUME NEW r \in Runs PROVE Owned(r)' = IF r \in S THEN {} ELSE Owned(r)
  <2>1. Owned(r) = IF Up(run[r]) THEN {run[r].cmd} ELSE {}
    BY <1>1, OwnedIs
  <2>2. Owned(r)' = IF Up(run'[r]) THEN {run'[r].cmd} ELSE {}
    BY <1>1, OwnedNext
  <2> QED BY <1>2, <2>1, <2>2 DEF Up
<1>5. Has' = [r \in Runs |-> IF r \in S THEN {} ELSE Has[r]]
  BY <1>4 DEF Has
<1>6. Life!Stop(S)
  BY <1>3, <1>5 DEF Life!Stop, Shown, Has
<1> QED BY <1>6

\* watchReady: the port is open in time, or not.
LEMMA LifeWatch ==
    ASSUME IndInv, IndInv', NEW p \in Procs, Watch(p)
    PROVE  (\E r \in Runs : Life!Live(r)) \/ (Shown' = Shown /\ Has' = Has)
<1>1. run \in [Runs -> Run] /\ RunsOK /\ RunsOK'
  BY DEF IndInv, TypeOK
<1>2. PICK r \in Runs : r = proc[p].run
  BY <1>1 DEF Watch, WatchReady, WatchTimeout, RunsOK, StartsOK
<1>3. CASE UNCHANGED run
  BY <1>1, <1>3, LifeSame
<1>4. ASSUME Watching(p) PROVE Shown[r] = "starting" /\ Has[r] = {run[r].cmd}
  <2>1. Owned(r) = {run[r].cmd}
    BY <1>1, <1>2, <1>4, OwnedIs DEF Watching, Up
  <2> QED BY <1>2, <1>4, <2>1 DEF Watching, Shown, Has
<1>5. CASE Watching(p) /\ run' = [run EXCEPT ![r].state = "running", ![r].up = TRUE]
  <2>1. /\ run'[r].state = "running" /\ run'[r].cmd = run[r].cmd
        /\ \A s \in Runs \ {r} : run'[s] = run[s]
    BY <1>1, <1>2, <1>5 DEF Run
  <2>2. Shown' = [Shown EXCEPT ![r] = "running"] /\ Has' = [Has EXCEPT ![r] = {run[r].cmd}]
    BY <1>1, <1>2, <2>1, LifeOne DEF Up
  <2>3. Has' = Has
    BY <1>4, <1>5, <2>2 DEF Has
  <2>4. Life!Ready(r)
    BY <1>4, <1>5, <2>2, <2>3 DEF Life!Ready, Life!Shows, Shown, Has
  <2> QED BY <1>2, <2>4 DEF Life!Live
<1>6. CASE Watching(p) /\ run' = [run EXCEPT ![r].state = "failed"]
  <2>1. run'[r].state = "failed" /\ \A s \in Runs \ {r} : run'[s] = run[s]
    BY <1>1, <1>2, <1>6 DEF Run
  <2>2. Shown' = [Shown EXCEPT ![r] = "failed"] /\ Has' = [Has EXCEPT ![r] = {}]
    BY <1>1, <1>2, <2>1, LifeOne DEF Up
  <2>3. Life!GiveUp(r)
    BY <1>4, <1>6, <2>2 DEF Life!GiveUp, Life!Shows, Shown, Has
  <2> QED BY <1>2, <2>3 DEF Life!Live
<1> QED BY <1>2, <1>3, <1>5, <1>6, Zenon DEF Watch, WatchReady, WatchTimeout

\* exited: of a run that is up, or that took its own stopped process for another
\* program, or that has nothing to do with the process any more.
LEMMA LifeExited ==
    ASSUME IndInv, IndInv', NEW p \in Procs, Exited(p)
    PROVE  (\E r \in Runs : Life!Live(r)) \/ (Shown' = Shown /\ Has' = Has)
<1>1. run \in [Runs -> Run] /\ RunsOK /\ RunsOK'
  BY DEF IndInv, TypeOK
<1>2. PICK r \in Runs : r = proc[p].run
  BY <1>1 DEF Exited, RunsOK, StartsOK
<1>3. CASE UNCHANGED run
  BY <1>1, <1>3, LifeSame
<1>4. CASE ~UNCHANGED run
  <2>1. /\ \A s \in Runs \ {r} : run'[s] = run[s]
        /\ run'[r].state = IF run[r].state \in {"stopped", "failed"} THEN run[r].state ELSE "exited"
    BY <1>1, <1>2, <1>4 DEF Exited, Run
  <2>2. ~Up(run'[r])
    BY <2>1 DEF Up
  <2>3. CASE Up(run[r])
    <3>1. Shown[r] \in {"starting", "running"} /\ Has[r] = {run[r].cmd}
      <4>1. Owned(r) = {run[r].cmd}
        BY <1>1, <1>2, <2>3, OwnedIs
      <4> QED BY <1>2, <2>3, <4>1 DEF Up, Shown, Has
    <3>2. Shown' = [Shown EXCEPT ![r] = "exited"] /\ Has' = [Has EXCEPT ![r] = {}]
      BY <1>1, <1>2, <2>1, <2>2, <2>3, LifeOne DEF Up
    <3>3. Life!Drop(r)
      BY <3>1, <3>2 DEF Life!Drop, Life!Shows, Shown, Has
    <3> QED BY <1>2, <3>3 DEF Life!Live
  <2>4. CASE ~Up(run[r])
    <3>1. Shown' = [Shown EXCEPT ![r] = run'[r].state] /\ Has' = Has
      BY <1>1, <1>2, <2>1, <2>2, <2>4, LifeDown
    <3>2. CASE run[r].state = "external"
      <4>1. Shown[r] = "external" /\ run'[r].state = "exited"
        BY <1>2, <2>1, <3>2 DEF Shown
      <4>2. Life!Lose(r)
        BY <3>1, <4>1 DEF Life!Lose, Life!Shows, Shown, Has
      <4> QED BY <1>2, <4>2 DEF Life!Live
    <3>3. CASE run[r].state # "external"
      <4>1. run[r].state \in {"stopped", "failed", "exited"}
        BY <1>1, <1>2, <2>4, <3>3 DEF Run, RunStates, Up
      <4>2. run'[r].state = Shown[r]
        BY <1>2, <2>1, <4>1 DEF Shown
      <4> QED BY <3>1, <4>2 DEF Shown
    <3> QED BY <3>2, <3>3
  <2> QED BY <2>3, <2>4
<1> QED BY <1>3, <1>4

\* Requests, timers, readiness checks, late exits, failing spawns and shutdown
\* (startTunnel, stopTunnel, spawnLocked, watchReady, exited, stopAllTunnels)
\* never make a tunnel do what TunnelLife does not allow.
THEOREM LifeImplemented == Spec => ImplementsLife
<1>1. Init => Life!LifeInit
  <2> SUFFICES ASSUME Init PROVE Life!LifeInit
    OBVIOUS
  <2>1. \A r \in Runs : run[r].state = "stopped"
    BY DEF Init, NewRun
  <2>2. \A r \in Runs : Owned(r) = {}
    BY DEF Init, Owned, NoProc
  <2>3. Asked = {}
    BY DEF Init, Asked, Idle
  <2> QED BY <2>1, <2>2, <2>3 DEF Life!LifeInit
<1>2. IndInv /\ IndInv' /\ [Next]_vars => [Life!LifeNext]_(Life!lifeVars)
  <2> SUFFICES ASSUME IndInv, IndInv', [Next]_vars PROVE Life!LifeNext
    OBVIOUS
  <2>1. \/ \E r \in Runs : Life!Live(r)
        \/ \E S \in SUBSET Runs : Life!Stop(S)
        \/ Shown' = Shown /\ Has' = Has
    <3>1. CASE UNCHANGED run
      BY <3>1, LifeSame DEF IndInv
    <3>2. CASE Next
      BY <3>1, <3>2, RunSteps, LifeStartLocked, LifeStopLocked, LifeWatch, LifeExited,
         LifeTimerLocked, LifeStopAll
    <3> QED BY <3>1, <3>2 DEF vars
  <2>2. Asked' \subseteq Runs
    BY DEF Asked
  <2> QED BY <2>1, <2>2, Zenon DEF Life!LifeNext, Shown, Has
<1> QED
  BY <1>1, <1>2, NextInd, Inductive, PTL DEF Spec, ImplementsLife, Life!LifeSpec

==============================================================================
