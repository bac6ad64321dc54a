--------------------------- MODULE EmbeddedProofs ---------------------------
(* Proofs about Embedded, for any number of processes and requests, any sizes   *)
(* and any interleaving of main, the restarts and the shutdown hook: a server is *)
(* in one pair of hands, and none is lost as long as restarts did not overlap.   *)
EXTENDS Embedded, TLAPS

Starters == Restarts \cup {"main"}

\* main starts one server and is done when the clusters are; restarts come after that.
Roles ==
    /\ starter["main"].pc \notin {"stop", "wait"}
    /\ starter["hook"].pc \notin {"spawn", "ready", "store"}
    /\ ~ending => starter["hook"].pc = "idle"
    /\ phase = "start" => \A c \in Restarts : starter[c].pc = "idle"
    /\ phase \in {"init", "serve"} => starter["main"].pc = "idle"

\* As long as restarts did not overlap there is one at a time, ...
OneAtOnce ==
    ~overlapped => \A a, b \in Restarts : starter[a].pc # "idle" /\ starter[b].pc # "idle" => a = b

\* ... and who has stopped the last server, or has not started one yet, finds embServer empty.
Emptied ==
    ~overlapped =>
        \A c \in Starters : starter[c].pc \in {"wait", "spawn", "ready", "store"} => emb.cmd = Nobody

\* A process that is started, waited for or kept is there, and its size known.
Referred ==
    /\ \A c \in Callers : starter[c].pc \in {"wait", "ready", "store"} =>
         starter[c].srv \in Servers /\ server[starter[c].srv].pc # "none"
    /\ emb.cmd # Nobody => server[emb.cmd].pc # "none" /\ emb.size = server[emb.cmd].size

\* A process that was not told to end yet is the one a caller starts.
Told == \A c \in Callers : starter[c].pc \in {"ready", "store"} => ~server[starter[c].srv].told

\* Who holds no process is between two steps that need none.
Holds == \A c \in Callers : starter[c].srv # Nobody <=> starter[c].pc \in {"wait", "ready", "store"}

EmbInv ==
    /\ EmbTypeOK /\ Roles /\ Referred /\ Holds /\ Told /\ OneOwner
    /\ OneAtOnce /\ Emptied /\ ServerKept

------------------------------------------------------------------------------
(* Types *)

LEMMA EmbConstants ==
    /\ MinSize \in Nat /\ MaxSize \in Nat /\ MinSize <= MaxSize /\ Sizes \subseteq Nat
    /\ MinSize \in MinSize..MaxSize /\ MaxSize \in MinSize..MaxSize
    /\ Nobody \notin Servers /\ "main" \notin Restarts /\ "hook" \notin Restarts
    /\ "main" \in Callers /\ "hook" \in Callers /\ Restarts \subseteq Callers /\ Starters \subseteq Callers
    /\ Callers = Starters \cup {"hook"} /\ "hook" \notin Starters
  BY EmbAssumption DEF Callers, Starters

LEMMA RecordTypes ==
    /\ NoServer \in Server /\ Resting \in Starter
    /\ \A p \in Server : /\ [p EXCEPT !.told = TRUE] \in Server
                         /\ [p EXCEPT !.pc = "dead"] \in Server /\ [p EXCEPT !.pc = "serving"] \in Server
    /\ \A n \in MinSize..MaxSize : [pc |-> "loading", size |-> n, told |-> FALSE] \in Server
    /\ \A q \in Starter : /\ [q EXCEPT !.pc = "stop"] \in Starter /\ [q EXCEPT !.pc = "store"] \in Starter
    /\ [Resting EXCEPT !.pc = "spawn"] \in Starter /\ [Resting EXCEPT !.pc = "idle"] \in Starter
    /\ \A s \in Servers \cup {Nobody}, pc \in {"idle", "wait", "spawn", "ready"} : [pc |-> pc, srv |-> s] \in Starter
  BY EmbConstants DEF NoServer, Resting, Server, Starter

\* What a caller does.
LEMMA CallerTypes ==
    ASSUME EmbTypeOK, Referred, NEW c \in Callers, CallStep(c) \/ \E n \in Sizes : Restart(c, n)
    PROVE  EmbTypeOK'
<1> USE EmbConstants, RecordTypes DEF EmbTypeOK
<1>1. ASSUME NEW n \in Sizes, Restart(c, n) PROVE EmbTypeOK'
  <2> DEFINE m == IF n < MinSize THEN MinSize ELSE IF n > MaxSize THEN MaxSize ELSE n
  <2>1. m \in MinSize..MaxSize
    OBVIOUS
  <2>2. emb' = [emb EXCEPT !.setting = m] /\ starter' = [starter EXCEPT ![c].pc = "stop"]
    BY <1>1 DEF Restart
  <2> HIDE DEF m
  <2>3. starter' \in [Callers -> Starter]
    BY <2>2
  <2> QED BY <1>1, <2>1, <2>2, <2>3 DEF Restart
<1>2. CASE StopServer(c)
  BY <1>2 DEF StopServer, After
<1>3. CASE Wait(c)
  BY <1>3 DEF Wait, After
<1>4. CASE Spawn(c)
  <2>1. PICK s \in Servers :
          /\ server' = [server EXCEPT ![s] = [pc |-> "loading", size |-> emb.setting, told |-> FALSE]]
          /\ starter' = [starter EXCEPT ![c] = [pc |-> "ready", srv |-> s]]
    BY <1>4 DEF Spawn
  <2>2. emb.setting \in MinSize..MaxSize /\ s \in Servers \cup {Nobody} /\ "ready" \in {"idle", "wait", "spawn", "ready"}
    OBVIOUS
  <2>3. server' \in [Servers -> Server]
    BY <2>1, <2>2
  <2>4. starter' \in [Callers -> Starter]
    BY <2>1, <2>2
  <2> QED BY <1>4, <2>3, <2>4 DEF Spawn
<1>5. CASE SpawnFails(c)
  BY <1>5 DEF SpawnFails
<1>6. CASE WaitForReady(c)
  BY <1>6 DEF WaitForReady
<1>7. CASE NotReady(c)
  BY <1>7 DEF NotReady, Referred
<1>8. CASE StoreServer(c)
  BY <1>8 DEF StoreServer, Referred, Server
<1> QED BY <1>1, <1>2, <1>3, <1>4, <1>5, <1>6, <1>7, <1>8 DEF CallStep

------------------------------------------------------------------------------
(* The callers *)

LEMMA CallerRoles ==
    ASSUME EmbInv, NEW c \in Callers, CallStep(c) \/ (c \in Restarts /\ \E n \in Sizes : Restart(c, n))
    PROVE  Roles'
<1> USE EmbConstants DEF EmbInv, EmbTypeOK, Roles
<1>1. ASSUME c \in Restarts, NEW n \in Sizes, Restart(c, n) PROVE Roles'
  BY <1>1 DEF Restart, Resting
<1>2. CASE StopServer(c)
  BY <1>2 DEF StopServer, After
<1>3. CASE Wait(c)
  BY <1>3 DEF Wait, Resting, After
<1>4. CASE Spawn(c)
  BY <1>4 DEF Spawn
<1>5. CASE SpawnFails(c)
  BY <1>5 DEF SpawnFails, Resting
<1>6. CASE WaitForReady(c)
  BY <1>6 DEF WaitForReady
<1>7. CASE NotReady(c)
  BY <1>7 DEF NotReady, Resting
<1>8. CASE StoreServer(c)
  BY <1>8 DEF StoreServer, Resting
<1> QED BY <1>1, <1>2, <1>3, <1>4, <1>5, <1>6, <1>7, <1>8 DEF CallStep

LEMMA CallerReferred ==
    ASSUME EmbInv, NEW c \in Callers, CallStep(c) \/ (c \in Restarts /\ \E n \in Sizes : Restart(c, n))
    PROVE  Referred'
<1> USE EmbConstants DEF EmbInv, EmbTypeOK, Referred
<1>1. ASSUME c \in Restarts, NEW n \in Sizes, Restart(c, n) PROVE Referred'
  BY <1>1 DEF Restart, Resting
<1>2. CASE StopServer(c)
  BY <1>2 DEF StopServer, After
<1>3. CASE Wait(c)
  BY <1>3 DEF Wait, Resting, After
<1>4. CASE Spawn(c)
  BY <1>4 DEF Spawn
<1>5. CASE SpawnFails(c)
  BY <1>5 DEF SpawnFails, Resting
<1>6. CASE WaitForReady(c)
  BY <1>6 DEF WaitForReady
<1>7. CASE NotReady(c)
  BY <1>7 DEF NotReady, Resting
<1>8. CASE StoreServer(c)
  BY <1>8 DEF StoreServer, Resting
<1> QED BY <1>1, <1>2, <1>3, <1>4, <1>5, <1>6, <1>7, <1>8 DEF CallStep

LEMMA CallerHolds ==
    ASSUME EmbInv, NEW c \in Callers, CallStep(c) \/ (c \in Restarts /\ \E n \in Sizes : Restart(c, n))
    PROVE  Holds' /\ Told'
<1> USE EmbConstants DEF EmbInv, EmbTypeOK, Referred, Holds, Told, OneOwner, Server, Starter
<1>1. ASSUME c \in Restarts, NEW n \in Sizes, Restart(c, n) PROVE Holds' /\ Told'
  BY <1>1 DEF Restart, Resting
<1>2. CASE StopServer(c)
  BY <1>2 DEF StopServer, After
<1>3. CASE Wait(c)
  BY <1>3 DEF Wait, Resting, After
<1>4. CASE Spawn(c)
  BY <1>4 DEF Spawn
<1>5. CASE SpawnFails(c)
  BY <1>5 DEF SpawnFails, Resting
<1>6. CASE WaitForReady(c)
  BY <1>6 DEF WaitForReady
<1>7. CASE NotReady(c)
  BY <1>7 DEF NotReady, Resting
<1>8. CASE StoreServer(c)
  BY <1>8 DEF StoreServer, Resting
<1> QED BY <1>1, <1>2, <1>3, <1>4, <1>5, <1>6, <1>7, <1>8 DEF CallStep

LEMMA CallerOwns ==
    ASSUME EmbInv, NEW c \in Callers, CallStep(c) \/ (c \in Restarts /\ \E n \in Sizes : Restart(c, n))
    PROVE  OneOwner'
<1> USE EmbConstants DEF EmbInv, EmbTypeOK, Referred, Holds, Told, OneOwner
<1>1. ASSUME c \in Restarts, NEW n \in Sizes, Restart(c, n) PROVE OneOwner'
  BY <1>1 DEF Restart, Resting
<1>2. CASE StopServer(c)
  BY <1>2 DEF StopServer, After
<1>3. CASE Wait(c)
  BY <1>3 DEF Wait, Resting, After
<1>4. CASE Spawn(c)
  BY <1>4 DEF Spawn
<1>5. CASE SpawnFails(c)
  BY <1>5 DEF SpawnFails, Resting
<1>6. CASE WaitForReady(c)
  BY <1>6 DEF WaitForReady
<1>7. CASE NotReady(c)
  BY <1>7 DEF NotReady, Resting
<1>8. CASE StoreServer(c)
  BY <1>8 DEF StoreServer, Resting
<1> QED BY <1>1, <1>2, <1>3, <1>4, <1>5, <1>6, <1>7, <1>8 DEF CallStep

LEMMA CallerAlone ==
    ASSUME EmbInv, NEW c \in Callers, CallStep(c) \/ (c \in Restarts /\ \E n \in Sizes : Restart(c, n))
    PROVE  OneAtOnce' /\ Emptied'
<1> USE EmbConstants DEF EmbInv, EmbTypeOK, Roles, OneAtOnce, Emptied, Starters, Starter
<1>1. ASSUME c \in Restarts, NEW n \in Sizes, Restart(c, n) PROVE OneAtOnce' /\ Emptied'
  <2>1. ~overlapped' => ~overlapped /\ \A d \in Restarts : starter[d].pc = "idle"
    <3>1. overlapped' = (overlapped \/ \E d \in Restarts : starter[d] # Resting)
      BY ONLY <1>1 DEF Restart
    <3>2. Resting.pc = "idle"
      BY DEF Resting
    <3> QED BY ONLY <3>1, <3>2, Zenon
  <2>2. \A d \in Callers \ {c} : starter'[d] = starter[d]
    BY <1>1 DEF Restart
  <2>3. starter'[c].pc = "stop" /\ emb'.cmd = emb.cmd
    BY <1>1 DEF Restart
  <2> QED BY <2>1, <2>2, <2>3
<1>2. CASE StopServer(c)
  BY <1>2 DEF StopServer, After
<1>3. CASE Wait(c)
  BY <1>3 DEF Wait, Resting, After
<1>4. CASE Spawn(c)
  BY <1>4 DEF Spawn
<1>5. CASE SpawnFails(c)
  BY <1>5 DEF SpawnFails, Resting
<1>6. CASE WaitForReady(c)
  BY <1>6 DEF WaitForReady
<1>7. CASE NotReady(c)
  BY <1>7 DEF NotReady, Resting
<1>8. CASE StoreServer(c)
  BY <1>8 DEF StoreServer, Resting
<1> QED BY <1>1, <1>2, <1>3, <1>4, <1>5, <1>6, <1>7, <1>8 DEF CallStep

LEMMA CallerKeeps ==
    ASSUME EmbInv, NEW c \in Callers, CallStep(c) \/ (c \in Restarts /\ \E n \in Sizes : Restart(c, n))
    PROVE  ServerKept'
<1> USE EmbConstants DEF EmbInv, EmbTypeOK, ServerKept, Starts, Alive
<1>1. ASSUME c \in Restarts, NEW n \in Sizes, Restart(c, n) PROVE ServerKept'
  BY <1>1 DEF Restart, Resting
<1>2. CASE StopServer(c)
  BY <1>2 DEF StopServer, After
<1>3. CASE Wait(c)
  BY <1>3 DEF Wait, Resting, After
<1>4. CASE Spawn(c)
  BY <1>4 DEF Spawn
<1>5. CASE SpawnFails(c)
  BY <1>5 DEF SpawnFails, Resting
<1>6. CASE WaitForReady(c)
  BY <1>6 DEF WaitForReady
<1>7. CASE NotReady(c)
  BY <1>7 DEF NotReady, Resting
<1>8. CASE StoreServer(c)
  <2>1. ~overlapped => emb.cmd = Nobody
    BY <1>8 DEF StoreServer, Roles, Emptied, Starters
  <2>2. /\ emb'.cmd = starter[c].srv /\ server' = server /\ overlapped' = overlapped /\ phase # "exited"
        /\ \A d \in Callers \ {c} : starter'[d] = starter[d]
    BY <1>8 DEF StoreServer
  <2> QED BY <2>1, <2>2
<1> QED BY <1>1, <1>2, <1>3, <1>4, <1>5, <1>6, <1>7, <1>8 DEF CallStep

------------------------------------------------------------------------------
(* Everything else *)

LEMMA ServerStep ==
    ASSUME EmbInv, NEW s \in Servers, Listen(s) \/ Dies(s) \/ Reuse(s)
    PROVE  EmbInv'
<1> USE EmbConstants DEF EmbInv
<1>1. UNCHANGED <<emb, starter, phase, ending, overlapped>>
  BY DEF Listen, Dies, Reuse
<1>2. EmbTypeOK'
  <2>1. CASE Listen(s)
    <3>1. PICK p \in Server : server' = [server EXCEPT ![s] = p]
      <4>1. server[s] \in Server
        BY DEF EmbTypeOK
      <4>2. CASE Answers
        BY <2>1, <4>1, <4>2, RecordTypes DEF Listen
      <4>3. CASE ~Answers
        BY <2>1, <4>1, <4>3, RecordTypes DEF Listen
      <4> QED BY <4>2, <4>3
    <3> QED BY <1>1, <3>1 DEF EmbTypeOK
  <2>2. CASE Dies(s)
    BY <1>1, <2>2, RecordTypes DEF EmbTypeOK, Dies
  <2>3. CASE Reuse(s)
    BY <1>1, <2>3, RecordTypes DEF EmbTypeOK, Reuse
  <2> QED BY <2>1, <2>2, <2>3
<1>3. Roles' /\ Holds' /\ OneAtOnce' /\ Emptied'
  BY <1>1 DEF Roles, Holds, OneAtOnce, Emptied
<1>4. /\ \A t \in Servers \ {s} : server'[t] = server[t]
      /\ server'[s].told = server[s].told \/ server'[s].pc = "none"
      /\ (server'[s].pc \in {"serving", "dead"} /\ server'[s].size = server[s].size) \/ server'[s].pc = "none"
      /\ server'[s].pc = "none" => emb.cmd # s /\ \A c \in Callers : starter[c].srv # s
      /\ server'[s].pc = "serving" => Alive(s)
  BY DEF EmbTypeOK, Server, Listen, Dies, Reuse, NoServer, Alive
<1>5. Referred'
  BY <1>1, <1>4 DEF Referred, EmbTypeOK
<1>6. Told'
  BY <1>1, <1>4 DEF Told, Referred
<1>7. OneOwner'
  BY <1>1, <1>4 DEF OneOwner, EmbTypeOK
<1>8. ServerKept'
  BY <1>1, <1>4 DEF ServerKept, Starts, Alive
<1> QED BY <1>2, <1>3, <1>5, <1>6, <1>7, <1>8

LEMMA MainStep ==
    ASSUME EmbInv, Initialised \/ Fatal \/ Shutdown \/ Exit
    PROVE  EmbInv'
<1> USE EmbConstants DEF EmbInv
<1>1. CASE Initialised \/ Fatal \/ Exit
  <2>1. /\ UNCHANGED <<server, emb, starter, ending, overlapped>> /\ phase' \in {"serve", "exited"}
        /\ phase' = "serve" => phase = "init"
    BY <1>1 DEF Initialised, Fatal, Exit
  <2>2. EmbTypeOK' /\ Roles' /\ Referred' /\ Holds' /\ Told'
    BY <2>1 DEF EmbTypeOK, Roles, Referred, Holds, Told
  <2>3. OneOwner' /\ OneAtOnce' /\ Emptied'
    BY <2>1 DEF OneOwner, OneAtOnce, Emptied
  <2>4. ServerKept'
    BY <2>1 DEF ServerKept, Starts, Alive
  <2> QED BY <2>2, <2>3, <2>4
<1>2. CASE Shutdown
  <2>1. /\ UNCHANGED <<server, emb, phase, overlapped>> /\ ending' = TRUE /\ starter' \in [Callers -> Starter]
        /\ \A c \in Starters : starter'[c] = starter[c]
        /\ starter'["hook"] = starter["hook"] \/ starter'["hook"] = [starter["hook"] EXCEPT !.pc = "stop"]
    BY <1>2, RecordTypes DEF Shutdown, EmbTypeOK
  <2>2. /\ starter["hook"].pc = "idle" /\ starter["hook"].srv = Nobody
        /\ starter'["hook"].srv = Nobody /\ starter'["hook"].pc \in {"idle", "stop"}
    BY <1>2, <2>1 DEF Shutdown, Roles, Holds, EmbTypeOK, Starter
  <2>3. EmbTypeOK'
    BY <2>1 DEF EmbTypeOK
  <2>4. Roles' /\ OneAtOnce' /\ Emptied'
    BY <2>1, <2>2 DEF Roles, OneAtOnce, Emptied, Starters
  <2>5. Referred' /\ Holds' /\ Told'
    BY <2>1, <2>2 DEF Referred, Holds, Told
  <2>6. OneOwner'
    BY <2>1, <2>2 DEF OneOwner
  <2>7. starter["hook"].pc \notin {"ready", "store"}
    BY DEF Roles
  <2>8. ServerKept'
    BY <2>1, <2>2, <2>7 DEF ServerKept, Starts, Alive
  <2> QED BY <2>3, <2>4, <2>5, <2>6, <2>8
<1> QED BY <1>1, <1>2

LEMMA EmbInitially == EmbInit => EmbInv
<1> SUFFICES ASSUME EmbInit PROVE EmbInv
  OBVIOUS
<1>1. \A c \in Callers : starter[c].srv = Nobody
                         /\ starter[c].pc = IF c = "main" THEN "spawn" ELSE "idle"
  BY DEF EmbInit, Resting
<1>2. \A s \in Servers : server[s] = NoServer
  BY DEF EmbInit
<1>3. EmbTypeOK
  BY EmbConstants, RecordTypes DEF EmbInit, EmbTypeOK
<1>4. Roles
  <2>1. starter["main"].pc = "spawn" /\ starter["hook"].pc = "idle" /\ phase = "start"
    BY <1>1, EmbConstants DEF EmbInit
  <2>2. \A c \in Restarts : starter[c].pc = "idle"
    BY <1>1, EmbConstants
  <2> QED BY <2>1, <2>2 DEF Roles
<1>5. OneAtOnce /\ Emptied
  BY <1>1, EmbConstants DEF EmbInit, OneAtOnce, Emptied
<1>6. Referred /\ Holds /\ Told /\ OneOwner
  BY <1>1 DEF EmbInit, Referred, Holds, Told, OneOwner
<1>7. ServerKept
  BY <1>2 DEF ServerKept, Alive, NoServer
<1> QED BY <1>3, <1>4, <1>5, <1>6, <1>7 DEF EmbInv

LEMMA EmbStep == EmbInv /\ [EmbNext]_embVars => EmbInv'
<1> SUFFICES ASSUME EmbInv, [EmbNext]_embVars PROVE EmbInv'
  OBVIOUS
<1>1. ASSUME NEW c \in Callers, CallStep(c) \/ (c \in Restarts /\ \E n \in Sizes : Restart(c, n))
      PROVE  EmbInv'
  <2>1. EmbTypeOK'
    BY <1>1, CallerTypes DEF EmbInv
  <2> QED BY <1>1, <2>1, CallerRoles, CallerReferred, CallerHolds, CallerOwns, CallerAlone, CallerKeeps
          DEF EmbInv
<1>2. CASE UNCHANGED embVars
  <2>1. EmbTypeOK' /\ Roles' /\ Referred' /\ Holds' /\ Told'
    BY <1>2 DEF EmbInv, EmbTypeOK, Roles, Referred, Holds, Told, embVars
  <2>2. OneOwner' /\ OneAtOnce' /\ Emptied' /\ ServerKept'
    BY <1>2 DEF EmbInv, OneOwner, OneAtOnce, Emptied, ServerKept, Starts, Alive, embVars
  <2> QED BY <2>1, <2>2 DEF EmbInv
<1> QED BY <1>1, <1>2, ServerStep, MainStep, EmbConstants DEF EmbNext

THEOREM EmbInvariant == EmbSpec => []EmbInv
  BY EmbInitially, EmbStep, PTL DEF EmbSpec

\* However restarts, main and the hook interleave, no two of them start or wait for the same
\* process, and embServer holds none that is told to end or in the hands of a caller.
THEOREM EmbOneOwner == EmbSpec => []OneOwner
<1>1. EmbInv => OneOwner
  BY DEF EmbInv
<1> QED BY <1>1, EmbInvariant, PTL

\* As long as restarts did not overlap, a llama-server that was not told to end is, until
\* KubeHealth ends, the one embServer stops next, or is being started.
THEOREM EmbServerKept == EmbSpec => []ServerKept
<1>1. EmbInv => ServerKept
  BY DEF EmbInv
<1> QED BY <1>1, EmbInvariant, PTL

\* As long as restarts did not overlap, the settings show the context size of the server that
\* answers, while nothing changes it.
THEOREM EmbSizeShown == EmbSpec => []SizeShown
<1>1. EmbInv => SizeShown
  <2> SUFFICES ASSUME EmbInv, ~overlapped, phase = "serve",
                      NEW s \in Servers, server[s].pc = "serving", ~server[s].told,
                      \A c \in Callers : starter[c] = Resting
               PROVE  emb.cmd = s /\ emb.size = server[s].size
    BY DEF SizeShown, LiveSize
  <2>1. emb.cmd = s
    BY DEF EmbInv, ServerKept, Alive, Starts, Resting
  <2> QED BY <2>1, EmbConstants DEF EmbInv, Referred
<1> QED BY <1>1, EmbInvariant, PTL
====
