------------------------------- MODULE Embedded -------------------------------
(***************************************************************************)
(* The bundled llama-server (embedded_on.go): main starts it, a change of   *)
(* its context size restarts it, the shutdown hook stops it.  embServer's   *)
(* lock is held only to read or to set its fields; no lock is held over a   *)
(* restart.  Extracting the bundle is left out: it comes before all of this.*)
(***************************************************************************)
EXTENDS Integers

CONSTANTS
    Servers,    \* processes that may be started
    Restarts,   \* requests that may change the context size at once
    Sizes,      \* context sizes a request asks for
    MinSize, MaxSize,  \* setEmbeddedCtxSize's limits
    Nobody      \* nil

ASSUME EmbAssumption ==
    /\ MinSize \in Nat /\ MaxSize \in Nat /\ MinSize <= MaxSize /\ Sizes \subseteq Nat
    /\ Nobody \notin Servers /\ "main" \notin Restarts /\ "hook" \notin Restarts

VARIABLES
    server,  \* the processes
    emb,     \* embServer, and the setting embCtxSizeVal
    starter, \* main's start, the restarts and the hook: who runs what
    phase,   \* how far main is, and whether KubeHealth has ended
    ending,  \* runShutdown has begun
    overlapped \* history: a restart was asked for while another was under way

embVars == <<server, emb, starter, phase, ending, overlapped>>

------------------------------------------------------------------------------
(* State *)

\* A process holds the port only while it serves; told: it was sent SIGTERM, and
\* its context is cancelled, which kills it.
Server == [pc : {"none", "loading", "serving", "dead"}, size : MinSize..MaxSize, told : BOOLEAN]

NoServer == [pc |-> "none", size |-> MinSize, told |-> FALSE]

Callers == Restarts \cup {"main", "hook"}

\* srv: the process a caller starts, or waits for in cmd.Wait.
Starter == [pc : {"idle", "stop", "wait", "spawn", "ready", "store"}, srv : Servers \cup {Nobody}]

Resting == [pc |-> "idle", srv |-> Nobody]

EmbTypeOK ==
    /\ server \in [Servers -> Server]
    /\ emb \in [cmd : Servers \cup {Nobody}, size : MinSize..MaxSize,
                running : BOOLEAN, setting : MinSize..MaxSize]
    /\ starter \in [Callers -> Starter]
    /\ phase \in {"start", "init", "serve", "exited"} /\ ending \in BOOLEAN /\ overlapped \in BOOLEAN

\* main is about to call spawnLlamaServer.
EmbInit ==
    /\ server = [s \in Servers |-> NoServer]
    /\ emb = [cmd |-> Nobody, size |-> MinSize, running |-> FALSE, setting |-> MinSize]
    /\ starter = [c \in Callers |-> IF c = "main" THEN [Resting EXCEPT !.pc = "spawn"] ELSE Resting]
    /\ phase = "start" /\ ending = FALSE /\ overlapped = FALSE

Alive(s) == server[s].pc \in {"loading", "serving"}

Answers == \E s \in Servers : server[s].pc = "serving"

------------------------------------------------------------------------------
(* Restarts *)

\* restartEmbedded: setEmbeddedCtxSize.  The requests of two pages, and those served
\* while the hooks run, wait for nobody.
Restart(c, n) ==
    /\ phase = "serve" /\ starter[c] = Resting
    /\ emb' = [emb EXCEPT !.setting = IF n < MinSize THEN MinSize
                                      ELSE IF n > MaxSize THEN MaxSize ELSE n]
    /\ starter' = [starter EXCEPT ![c].pc = "stop"]
    /\ overlapped' = (overlapped \/ \E d \in Restarts : starter[d] # Resting)
    /\ UNCHANGED <<server, phase, ending>>

\* What follows stopLlamaServer.
After(c) == IF c = "hook" THEN "idle" ELSE "spawn"

\* Mutant: embServer is read but not emptied.
StopServerLeft(c) ==
    /\ phase # "exited" /\ starter[c].pc = "stop"
    /\ starter' = [starter EXCEPT ![c] = [pc |-> IF emb.cmd = Nobody THEN After(c) ELSE "wait",
                                    srv |-> emb.cmd]]
    /\ server' = [s \in Servers |-> IF s = emb.cmd THEN [server[s] EXCEPT !.told = TRUE] ELSE server[s]]
    /\ UNCHANGED <<emb, phase, ending, overlapped>>

\* stopLlamaServer takes the server out of embServer and tells it to end.
StopServer(c) ==
    /\ phase # "exited" /\ starter[c].pc = "stop"
    /\ emb' = [emb EXCEPT !.cmd = Nobody, !.running = FALSE]
    /\ starter' = [starter EXCEPT ![c] = [pc |-> IF emb.cmd = Nobody THEN After(c) ELSE "wait",
                                    srv |-> emb.cmd]]
    /\ server' = [s \in Servers |-> IF s = emb.cmd THEN [server[s] EXCEPT !.told = TRUE] ELSE server[s]]
    /\ UNCHANGED <<phase, ending, overlapped>>

\* Its cmd.Wait.
Wait(c) ==
    /\ phase # "exited" /\ starter[c].pc = "wait" /\ server[starter[c].srv].pc = "dead"
    /\ starter' = [starter EXCEPT ![c] = [Resting EXCEPT !.pc = After(c)]]
    /\ UNCHANGED <<server, emb, phase, ending, overlapped>>

\* spawnLlamaServer, up to the first look at the port.
Spawn(c) ==
    /\ phase # "exited" /\ starter[c].pc = "spawn"
    /\ \E s \in Servers :
         /\ server[s].pc = "none"
         /\ server' = [server EXCEPT ![s] = [pc |-> "loading", size |-> emb.setting, told |-> FALSE]]
         /\ starter' = [starter EXCEPT ![c] = [pc |-> "ready", srv |-> s]]
    /\ UNCHANGED <<emb, phase, ending, overlapped>>

\* ... whose process does not start.
SpawnFails(c) ==
    /\ phase # "exited" /\ starter[c].pc = "spawn"
    /\ starter' = [starter EXCEPT ![c] = Resting]
    /\ phase' = IF c = "main" THEN "exited" ELSE phase
    /\ UNCHANGED <<server, emb, ending, overlapped>>

\* waitForReady: something answers on the port.
WaitForReady(c) ==
    /\ phase # "exited" /\ starter[c].pc = "ready" /\ Answers
    /\ starter' = [starter EXCEPT ![c].pc = "store"]
    /\ UNCHANGED <<server, emb, phase, ending, overlapped>>

\* Mutant: the process that was too slow is left alone.
NotReadyLeft(c) ==
    /\ phase # "exited" /\ starter[c].pc = "ready"
    /\ starter' = [starter EXCEPT ![c] = Resting]
    /\ phase' = IF c = "main" THEN "exited" ELSE phase
    /\ UNCHANGED <<server, emb, ending, overlapped>>

\* ... or sixty seconds are over; main gives up with log.Fatalf.
NotReady(c) ==
    /\ phase # "exited" /\ starter[c].pc = "ready"
    /\ server' = [server EXCEPT ![starter[c].srv].told = TRUE]
    /\ starter' = [starter EXCEPT ![c] = Resting]
    /\ phase' = IF c = "main" THEN "exited" ELSE phase
    /\ UNCHANGED <<emb, ending, overlapped>>

\* Mutant: the size asked for, rather than the one the server was started with.
StoreSetting(c) ==
    /\ phase # "exited" /\ starter[c].pc = "store"
    /\ emb' = [emb EXCEPT !.cmd = starter[c].srv, !.running = TRUE]
    /\ starter' = [starter EXCEPT ![c] = Resting]
    /\ phase' = IF c = "main" /\ ~ending THEN "init" ELSE phase
    /\ UNCHANGED <<server, ending, overlapped>>

\* spawnLlamaServer keeps the server; after the first one main registers the hook,
\* or waits for its lock until the exit.
StoreServer(c) ==
    /\ phase # "exited" /\ starter[c].pc = "store"
    /\ emb' = [emb EXCEPT !.cmd = starter[c].srv, !.running = TRUE,
                          !.size = server[starter[c].srv].size]
    /\ starter' = [starter EXCEPT ![c] = Resting]
    /\ phase' = IF c = "main" /\ ~ending THEN "init" ELSE phase
    /\ UNCHANGED <<server, ending, overlapped>>

------------------------------------------------------------------------------
(* The end of KubeHealth *)

\* initClusters succeeds ...
Initialised ==
    /\ phase = "init"
    /\ phase' = "serve"
    /\ UNCHANGED <<server, emb, starter, ending, overlapped>>

\* ... or fails: log.Fatalf, without the hooks.
Fatal ==
    /\ phase = "init"
    /\ phase' = "exited"
    /\ UNCHANGED <<server, emb, starter, ending, overlapped>>

\* A signal, or http.ListenAndServe returns: runShutdown, with the hook if there is
\* one, ...
Shutdown ==
    /\ phase # "exited" /\ ~ending
    /\ ending' = TRUE
    /\ starter' = IF phase = "start" THEN starter ELSE [starter EXCEPT !["hook"].pc = "stop"]
    /\ UNCHANGED <<server, emb, phase, overlapped>>

\* ... and os.Exit.
Exit ==
    /\ phase # "exited" /\ ending /\ starter["hook"] = Resting
    /\ phase' = "exited"
    /\ UNCHANGED <<server, emb, starter, ending, overlapped>>

------------------------------------------------------------------------------
(* llama-server *)

\* It loads its model and listens, unless the port is taken ...
Listen(s) ==
    /\ server[s].pc = "loading" /\ ~server[s].told
    /\ server' = [server EXCEPT ![s].pc = IF Answers THEN "dead" ELSE "serving"]
    /\ UNCHANGED <<emb, starter, phase, ending, overlapped>>

\* ... it crashes, or ends because it was told to.
Dies(s) ==
    /\ Alive(s)
    /\ server' = [server EXCEPT ![s].pc = "dead"]
    /\ UNCHANGED <<emb, starter, phase, ending, overlapped>>

\* A process nobody refers to any more may stand for the next one.
Reuse(s) ==
    /\ server[s].pc = "dead" /\ emb.cmd # s /\ \A c \in Callers : starter[c].srv # s
    /\ server' = [server EXCEPT ![s] = NoServer]
    /\ UNCHANGED <<emb, starter, phase, ending, overlapped>>

------------------------------------------------------------------------------

CallStep(c) ==
    \/ StopServer(c) \/ Wait(c) \/ Spawn(c) \/ SpawnFails(c)
    \/ WaitForReady(c) \/ NotReady(c) \/ StoreServer(c)

EmbNext ==
    \/ \E c \in Restarts, n \in Sizes : Restart(c, n)
    \/ \E c \in Callers : CallStep(c)
    \/ \E s \in Servers : Listen(s) \/ Dies(s) \/ Reuse(s)
    \/ Initialised \/ Fatal \/ Shutdown \/ Exit

EmbSpec == EmbInit /\ [][EmbNext]_embVars

------------------------------------------------------------------------------
(* Properties *)

\* The caller is starting s.
Starts(c, s) == starter[c].srv = s /\ starter[c].pc \in {"ready", "store"}

\* However the restarts, main and the hook interleave, a server is in one pair of hands: two
\* callers never start, or wait for, the same process, and none of them has the one in
\* embServer, which was not told to end (stopLlamaServer, spawnLlamaServer).
OneOwner ==
    /\ \A c, d \in Callers : starter[c].srv = starter[d].srv /\ starter[c].srv # Nobody => c = d
    /\ emb.cmd # Nobody => ~server[emb.cmd].told /\ \A c \in Callers : starter[c].srv # emb.cmd

\* A running KubeHealth whose restarts did not overlap lost no server: one that was not
\* told to end is the one embServer stops next, or is being started, although the hook may
\* overtake a restart (stopLlamaServer, spawnLlamaServer).
ServerKept ==
    phase # "exited" /\ ~overlapped =>
        \A s \in Servers :
            Alive(s) /\ ~server[s].told => emb.cmd = s \/ \E c \in Callers : Starts(c, s)

\* embeddedRuntime exposes the live runtime state: while nothing changes it, the size the
\* settings show is that of the server that answers.
LiveSize ==
    \A s \in Servers :
        /\ phase = "serve" /\ server[s].pc = "serving" /\ ~server[s].told /\ emb.running
        /\ \A c \in Callers : starter[c] = Resting
        => emb.cmd = s /\ emb.size = server[s].size

\* As long as restarts did not overlap, the settings show the context size of the server
\* that answers (embeddedRuntime).
SizeShown == ~overlapped => LiveSize

\* main.go: "What KubeHealth starts (tunnels, the embedded llama-server) stops with it":
\* whichever way it ends, every llama-server was told to end.
ServerStops ==
    [][phase # "exited" /\ phase' = "exited" =>
          \A s \in Servers : Alive(s) => server'[s].told]_embVars

==============================================================================
