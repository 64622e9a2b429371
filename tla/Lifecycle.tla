---- MODULE Lifecycle ----
(***************************************************************************)
(* The lifecycle of the managed services one host owns.                    *)
(*                                                                         *)
(* Several bridgeboard processes and threads (actors) run the commands up, *)
(* down, restart, startup and one supervise pass at the same time: CLI     *)
(* calls, commands that arrive over ssh, dashboard requests and the tray's *)
(* lifecycle worker.  They share, with no lock, the state file, one        *)
(* pid_file per service and the host's process table.  Every command loads *)
(* the whole state file first and writes it back last.                     *)
(*                                                                         *)
(* Each service has a port of its own (see validate_no_port_conflicts), so *)
(* a port is named by its service.  A pid the host frees is handed out     *)
(* again.  The three observations behind a status (pid_file, kill -0,      *)
(* listeners) are one step; every other read and write is a step.          *)
(***************************************************************************)
EXTENDS ManagedStatus, Naturals, FiniteSets

CONSTANTS
  Service,      \* ids of the managed services, in the registry's order
  Actor,        \* the processes and threads that run commands
  Pid,          \* process ids of the host
  NoService, NoActor,
  Allowed,      \* [Actor -> SUBSET Command]: the commands each actor runs
  LongLived,    \* actors whose process outlives its commands (tray, dashboard)
  UnixHost,     \* TRUE: kill is SIGTERM and an unreaped child is a zombie
  OnFailure,    \* services with lifecycle.restart = on_failure
  Autostart,    \* services with lifecycle.startup = autostart
  HealthUrl,    \* services with a health_url
  Tunnelled,    \* services that have tunnels to open or stop
  SlowStart,    \* services that may miss their startup deadline
  Faults,       \* kinds of fault of the run
  MaxFaults     \* how many faults, of all kinds, a behaviour has

Command == {"up", "down", "restart", "supervise", "startup"}
FaultKind == {"crash", "fork", "foreign", "wedge", "abort", "spawn"}

ASSUME LifecycleAssumption ==
  /\ Service \subseteq Nat
  /\ NoPid \notin Pid
  /\ NoService \notin Service
  /\ NoActor \notin Actor
  /\ Allowed \in [Actor -> SUBSET Command]
  /\ LongLived \subseteq Actor
  /\ UnixHost \in BOOLEAN
  /\ OnFailure \subseteq Service
  /\ Autostart \subseteq Service
  /\ HealthUrl \subseteq Service
  /\ Tunnelled \subseteq Service
  /\ SlowStart \subseteq Service
  /\ Faults \subseteq FaultKind
  /\ MaxFaults \in Nat
  /\ UnixHost \/ "fork" \notin Faults     \* taskkill /T kills the tree, not modelled

VARIABLES
  proc,      \* the process table
  pidFile,   \* content of each service's pid_file
  disk,      \* desired state of each service in the state file
  snap,      \* each actor's copy of the state file
  pc,        \* where each actor is in its command
  cmd,       \* the command it runs
  cur,       \* the service it works on
  todo,      \* services a startup or supervise pass still has to visit
  target,    \* the pid it spawned, adopted, observed or is about to signal
  cand,      \* pids stop_service still has to signal
  samples,   \* stable samples verify_managed_service_stable has taken
  faults,    \* faults so far
  listened,  \* history: pids that ever listened on the service's port
  verified   \* history: services that ever passed the stability check

osVars    == <<proc, listened>>
localVars == <<pc, cmd, cur, todo, target, cand, samples>>
vars == <<osVars, localVars, pidFile, disk, snap, faults, verified>>

Desired == {"none", "running", "stopped"}
Stage == {"idle", "next", "decide", "spawn", "wait", "record", "verify", "health",
          "tunnels", "stop", "candidates", "check", "signal", "reload",
          "save", "done", "failed"}
Process == [state     : {"free", "up", "zombie"},
            service   : Service \cup {NoService},   \* who launched it for what
            port      : Service \cup {NoService},   \* the service port it listens on
            signalled : BOOLEAN,
            parent    : Actor \cup {NoActor}]

Free == [state |-> "free", service |-> NoService, port |-> NoService,
         signalled |-> FALSE, parent |-> NoActor]

----
(* The host. *)

\* `kill -0` succeeds for a running process and for a zombie.
PidAlive(p) == proc[p].state # "free"

PidsListening(s) == {p \in Pid : proc[p].state = "up" /\ proc[p].port = s}

FileAlive(s) == pidFile[s] # NoPid /\ PidAlive(pidFile[s])
StatusOf(s)  == ManagedServiceStatus(pidFile[s], FileAlive(s), PidsListening(s))

\* A process that ends stays in the table while its parent, who never waits
\* for it, is running; a child of a process that ended is reaped by init.
Ended(p) == IF UnixHost /\ proc[p].parent # NoActor
              THEN [proc[p] EXCEPT !.state = "zombie", !.port = NoService]
              ELSE Free

\* The table once the process of actor a has ended.
Orphaned(a) ==
  [p \in Pid |-> IF proc[p].parent # a THEN proc[p]
                 ELSE IF proc[p].state = "zombie" THEN Free
                 ELSE [proc[p] EXCEPT !.parent = NoActor]]

\* kill_pid of a process that is in the table.
KillPid(p) ==
  IF proc[p].state = "zombie" THEN proc
  ELSE IF UnixHost THEN [proc EXCEPT ![p].signalled = TRUE]
  ELSE [proc EXCEPT ![p] = Free]

Fault(kind) ==
  /\ kind \in Faults
  /\ faults < MaxFaults
  /\ faults' = faults + 1

OsUnchanged  == UNCHANGED osVars
DataUnchanged == UNCHANGED <<pidFile, disk, snap, faults, verified>>
Goto(a, stage) == pc' = [pc EXCEPT ![a] = stage]
At(a, stage) == pc[a] = stage

\* The state file's contents before it exists, and an idle actor's copy.
NoState == [s \in Service |-> "none"]

Init ==
  /\ proc = [p \in Pid |-> Free]
  /\ pidFile = [s \in Service |-> NoPid]
  /\ disk = NoState
  /\ snap = [a \in Actor |-> NoState]
  /\ pc = [a \in Actor |-> "idle"]
  /\ cmd = [a \in Actor |-> "none"]
  /\ cur = [a \in Actor |-> NoService]
  /\ todo = [a \in Actor |-> {}]
  /\ target = [a \in Actor |-> NoPid]
  /\ cand = [a \in Actor |-> {}]
  /\ samples = [a \in Actor |-> 0]
  /\ faults = 0
  /\ listened = [s \in Service |-> {}]
  /\ verified = {}

----
(* Commands: load, work, save. *)

\* up and down of one service: Registry::load, State::load.
BeginService(a, c, s) ==
  /\ At(a, "idle")
  /\ c \in Allowed[a] \cap {"up", "down", "restart"}
  /\ cmd' = [cmd EXCEPT ![a] = c]
  /\ cur' = [cur EXCEPT ![a] = s]
  /\ snap' = [snap EXCEPT ![a] = disk]
  /\ Goto(a, IF c = "up" THEN "decide" ELSE "stop")
  /\ UNCHANGED <<osVars, todo, target, cand, samples, pidFile, disk, faults, verified>>

\* startup and supervise_once: the services are visited in the registry's order.
BeginPass(a, c) ==
  /\ At(a, "idle")
  /\ c \in Allowed[a] \cap {"startup", "supervise"}
  /\ cmd' = [cmd EXCEPT ![a] = c]
  /\ todo' = [todo EXCEPT ![a] = IF c = "startup" THEN Autostart ELSE OnFailure]
  /\ snap' = [snap EXCEPT ![a] = disk]
  /\ Goto(a, "next")
  /\ UNCHANGED <<osVars, cur, target, cand, samples, pidFile, disk, faults, verified>>

\* Faulty variant: the pass restarts whatever is not alive.
SkipsOnlyAlive(a, s) == cmd[a] = "supervise" /\ StatusOf(s) = "running"

\* The pass leaves a service alone unless its desired state, as loaded, is
\* running and it is not alive now.
Skipped(a, s) ==
  cmd[a] = "supervise" /\ (snap[a][s] # "running" \/ StatusOf(s) = "running")

NextService(a) ==
  /\ At(a, "next")
  /\ \/ todo[a] = {} /\ Goto(a, "save") /\ UNCHANGED <<cur, todo>>
     \/ \E s \in todo[a] :
          /\ \A t \in todo[a] : s <= t
          /\ todo' = [todo EXCEPT ![a] = @ \ {s}]
          /\ IF Skipped(a, s)
               THEN UNCHANGED <<pc, cur>>
               ELSE Goto(a, "decide") /\ cur' = [cur EXCEPT ![a] = s]
  /\ OsUnchanged /\ DataUnchanged
  /\ UNCHANGED <<cmd, target, cand, samples>>

\* The command's last act; restart's down is followed by an up of its own.
Save(a) ==
  /\ At(a, "save")
  /\ disk' = snap[a]
  /\ Goto(a, IF cmd[a] = "restart" THEN "reload" ELSE "done")
  /\ UNCHANGED <<osVars, cmd, cur, todo, target, cand, samples, pidFile, snap, faults,
                 verified>>

Reload(a) ==
  /\ At(a, "reload")
  /\ cmd' = [cmd EXCEPT ![a] = "up"]
  /\ snap' = [snap EXCEPT ![a] = disk]
  /\ Goto(a, "decide")
  /\ UNCHANGED <<osVars, cur, todo, target, cand, samples, pidFile, disk, faults, verified>>

\* What an actor knows ends with its command.
Forget(a) ==
  /\ Goto(a, "idle")
  /\ cmd' = [cmd EXCEPT ![a] = "none"]
  /\ cur' = [cur EXCEPT ![a] = NoService]
  /\ snap' = [snap EXCEPT ![a] = NoState]
  /\ todo' = [todo EXCEPT ![a] = {}]
  /\ target' = [target EXCEPT ![a] = NoPid]
  /\ cand' = [cand EXCEPT ![a] = {}]
  /\ samples' = [samples EXCEPT ![a] = 0]
  /\ UNCHANGED <<listened, pidFile, disk, verified>>

\* A command that succeeded, or that failed at a `?` with nothing saved, returns.
EndCommand(a) ==
  /\ pc[a] \in {"done", "failed"}
  /\ Forget(a)
  /\ proc' = IF a \in LongLived THEN proc ELSE Orphaned(a)
  /\ UNCHANGED faults

\* The actor's process is killed in the middle of a command.
Abort(a) ==
  /\ pc[a] \notin {"idle", "done", "failed"}
  /\ Fault("abort")
  /\ Forget(a)
  /\ proc' = Orphaned(a)

----
(* start_owned_service *)

Decide(a) ==
  LET s == cur[a]
      decision == StartDecision(pidFile[s], FileAlive(s), PidsListening(s))
  IN /\ At(a, "decide")
     /\ Goto(a, CASE decision = "adopt"  -> "verify"
                  [] decision = "spawn"  -> "spawn"
                  [] decision = "refuse" -> "failed")
     /\ target' = [target EXCEPT ![a] = IF decision = "adopt" THEN pidFile[s] ELSE @]
     /\ OsUnchanged /\ DataUnchanged
     /\ UNCHANGED <<cmd, cur, todo, cand, samples>>

Spawn(a, p) ==
  /\ At(a, "spawn")
  /\ proc[p].state = "free"
  /\ proc' = [proc EXCEPT ![p] = [Free EXCEPT !.state = "up", !.service = cur[a],
                                              !.parent = a]]
  /\ target' = [target EXCEPT ![a] = p]
  /\ Goto(a, "wait")
  /\ UNCHANGED <<listened, cmd, cur, todo, cand, samples>> /\ DataUnchanged

SpawnFails(a) ==
  /\ At(a, "spawn")
  /\ Goto(a, "failed")
  /\ \/ Fault("spawn")
     \/ (\A p \in Pid : proc[p].state # "free") /\ UNCHANGED faults
  /\ OsUnchanged
  /\ UNCHANGED <<cmd, cur, todo, target, cand, samples, pidFile, disk, snap, verified>>

\* Faulty variant: the wait returns the child it was given.
WaitKeepsChild(a) ==
  LET L == PidsListening(cur[a]) IN
  /\ At(a, "wait")
  /\ \/ Sole(L) /\ Goto(a, "record")
     \/ (Several(L) \/ (L = {} /\ ~PidAlive(target[a]))) /\ Goto(a, "failed")
  /\ OsUnchanged /\ DataUnchanged
  /\ UNCHANGED <<cmd, cur, todo, target, cand, samples>>

\* wait_for_managed_listener: one poll that ends the wait before the deadline.
Wait(a) ==
  LET L == PidsListening(cur[a]) IN
  /\ At(a, "wait")
  /\ \/ /\ Sole(L)
        /\ target' = [target EXCEPT ![a] = CHOOSE p \in L : TRUE]
        /\ Goto(a, "record")
     \/ /\ Several(L) \/ (L = {} /\ ~PidAlive(target[a]))
        /\ Goto(a, "failed")
        /\ UNCHANGED target
  /\ OsUnchanged /\ DataUnchanged
  /\ UNCHANGED <<cmd, cur, todo, cand, samples>>

\* Faulty variant: no deadline, it polls again.
WaitForEver(a) == At(a, "wait") /\ PidsListening(cur[a]) = {} /\ UNCHANGED vars

\* The deadline passes with nobody listening.  A service that is not SlowStart
\* misses it only when no process is left that could still bind its port.
WaitTimesOut(a) ==
  LET s == cur[a] IN
  /\ At(a, "wait")
  /\ PidsListening(s) = {}
  /\ PidAlive(target[a])
  /\ \/ s \in SlowStart
     \/ \A p \in Pid : ~(proc[p].state = "up" /\ proc[p].service = s /\ ~proc[p].signalled)
  /\ Goto(a, "failed")
  /\ OsUnchanged /\ DataUnchanged
  /\ UNCHANGED <<cmd, cur, todo, target, cand, samples>>

Record(a) ==
  /\ At(a, "record")
  /\ pidFile' = [pidFile EXCEPT ![cur[a]] = target[a]]
  /\ Goto(a, "verify")
  /\ OsUnchanged
  /\ UNCHANGED <<cmd, cur, todo, target, cand, samples, disk, snap, faults, verified>>

\* verify_managed_service_stable: StableAt samples in a row must report the pid
\* running; an unstable one ends the command, the last stable one sets desired.
StableAt == 3
Stable(a) == StatusOf(cur[a]) = "running" /\ pidFile[cur[a]] = target[a]

Sample(a, ok, last) ==
  LET s == cur[a] IN
  /\ At(a, "verify")
  /\ samples' = [samples EXCEPT ![a] = IF ok /\ ~last THEN @ + 1 ELSE 0]
  /\ Goto(a, IF ~ok THEN "failed" ELSE IF last THEN "health" ELSE "verify")
  /\ snap' = IF ok /\ last THEN [snap EXCEPT ![a][s] = "running"] ELSE snap
  /\ verified' = IF Stable(a) /\ last THEN verified \cup {s} ELSE verified
  /\ OsUnchanged
  /\ UNCHANGED <<cmd, cur, todo, target, cand, pidFile, disk, faults>>

\* Faulty variants: one sample too many; a last sample that is not looked at.
VerifyOnceMore(a)    == Sample(a, Stable(a), samples[a] = StableAt)
VerifyIgnoresLast(a) == LET last == samples[a] + 1 = StableAt
                        IN Sample(a, Stable(a) \/ last, last)

Verify(a) == Sample(a, Stable(a), samples[a] + 1 = StableAt)

\* A health check that succeeds makes the sole listener the recorded pid.
Health(a) ==
  LET s == cur[a]
      L == PidsListening(s)
  IN /\ At(a, "health")
     /\ Goto(a, IF cmd[a] = "up" THEN "tunnels" ELSE "next")
     /\ \/ UNCHANGED pidFile
        \/ /\ s \in HealthUrl
           /\ Sole(L)
           /\ pidFile' = [pidFile EXCEPT ![s] = CHOOSE p \in L : TRUE]
     /\ OsUnchanged
     /\ UNCHANGED <<cmd, cur, todo, target, cand, samples, disk, snap, faults, verified>>

\* up opens the reverse tunnels after the service runs; one that fails ends the
\* command.  startup and supervise_once open none.
OpenTunnels(a) ==
  /\ At(a, "tunnels")
  /\ \/ Goto(a, "save")
     \/ cur[a] \in Tunnelled /\ Goto(a, "failed")
  /\ OsUnchanged /\ DataUnchanged
  /\ UNCHANGED <<cmd, cur, todo, target, cand, samples>>

----
(* down: stop_tunnels_for, then stop_service *)

StopTunnels(a) ==
  /\ At(a, "stop")
  /\ \/ Goto(a, "candidates")
     \/ cur[a] \in Tunnelled /\ Goto(a, "failed")
  /\ OsUnchanged /\ DataUnchanged
  /\ UNCHANGED <<cmd, cur, todo, target, cand, samples>>

CollectCandidates(a) ==
  /\ At(a, "candidates")
  /\ cand' = [cand EXCEPT ![a] = StopCandidates(pidFile[cur[a]], PidsListening(cur[a]))]
  /\ Goto(a, "check")
  /\ OsUnchanged /\ DataUnchanged
  /\ UNCHANGED <<cmd, cur, todo, target, samples>>

\* The loop over the candidates: pid_alive, then kill_pid.
CheckCandidate(a, p) ==
  /\ At(a, "check")
  /\ p \in cand[a]
  /\ cand' = [cand EXCEPT ![a] = @ \ {p}]
  /\ IF PidAlive(p)
       THEN target' = [target EXCEPT ![a] = p] /\ Goto(a, "signal")
       ELSE UNCHANGED <<target, pc>>
  /\ OsUnchanged /\ DataUnchanged
  /\ UNCHANGED <<cmd, cur, todo, samples>>

\* Faulty variant: it looks again who is there until nobody is.
SignalAgain(a) ==
  LET p == target[a] IN
  /\ At(a, "signal")
  /\ IF PidAlive(p)
       THEN proc' = KillPid(p) /\ Goto(a, "candidates")
       ELSE UNCHANGED proc /\ Goto(a, "failed")
  /\ UNCHANGED listened /\ DataUnchanged
  /\ UNCHANGED <<cmd, cur, todo, target, cand, samples>>

\* kill fails on a pid that has gone since, and the whole command with it.
Signal(a) ==
  LET p == target[a] IN
  /\ At(a, "signal")
  /\ IF PidAlive(p)
       THEN proc' = KillPid(p) /\ Goto(a, "check")
       ELSE UNCHANGED proc /\ Goto(a, "failed")
  /\ UNCHANGED listened /\ DataUnchanged
  /\ UNCHANGED <<cmd, cur, todo, target, cand, samples>>

\* The pid_file is removed and the desired state becomes stopped.
Forgotten(a) ==
  /\ At(a, "check")
  /\ pidFile' = [pidFile EXCEPT ![cur[a]] = NoPid]
  /\ snap' = [snap EXCEPT ![a][cur[a]] = "stopped"]
  /\ Goto(a, "save")
  /\ OsUnchanged
  /\ UNCHANGED <<cmd, cur, todo, target, cand, samples, disk, faults, verified>>

\* Faulty variant: the record goes while candidates are left.
UnrecordEarly(a) == Forgotten(a)

Unrecord(a) == cand[a] = {} /\ Forgotten(a)

----
(* The host's side: service processes and everything else that runs there. *)

HostStep == UNCHANGED <<localVars, pidFile, disk, snap, verified>>

\* A service process gets to listen, unless it was told to end; the port takes
\* one process.
Bind(p) ==
  LET s == proc[p].service IN
  /\ proc[p].state = "up" /\ s \in Service
  /\ proc[p].port = NoService /\ ~proc[p].signalled
  /\ PidsListening(s) = {}
  /\ proc' = [proc EXCEPT ![p].port = s]
  /\ listened' = [listened EXCEPT ![s] = @ \cup {p}]
  /\ HostStep /\ UNCHANGED faults

\* It ends because it was signalled, or because its port is taken.
MustEnd(p) ==
  \/ proc[p].signalled
  \/ /\ proc[p].service \in Service
     /\ proc[p].port = NoService
     /\ PidsListening(proc[p].service) # {}

End(p) ==
  /\ proc[p].state = "up" /\ MustEnd(p)
  /\ proc' = [proc EXCEPT ![p] = Ended(p)]
  /\ HostStep /\ UNCHANGED <<listened, faults>>

Crash(p) ==
  /\ proc[p].state = "up" /\ ~MustEnd(p)
  /\ Fault("crash")
  /\ proc' = [proc EXCEPT ![p] = Ended(p)]
  /\ HostStep /\ UNCHANGED listened

\* A live process stops listening; it may come back.
Wedge(p) ==
  /\ proc[p].state = "up" /\ proc[p].port # NoService
  /\ Fault("wedge")
  /\ proc' = [proc EXCEPT ![p].port = NoService]
  /\ HostStep /\ UNCHANGED listened

\* A launcher starts the real server, or a server a worker that shares its socket.
Fork(p, q) ==
  /\ proc[p].state = "up" /\ proc[p].service \in Service
  /\ proc[q].state = "free"
  /\ Fault("fork")
  /\ proc' = [proc EXCEPT ![q] = [proc[p] EXCEPT !.parent = NoActor]]
  /\ listened' = IF proc[p].port \in Service
                   THEN [listened EXCEPT ![proc[p].port] = @ \cup {q}]
                   ELSE listened
  /\ HostStep

\* A process bridgeboard did not start takes a pid and a service's free port.
Foreign(p, s) ==
  /\ proc[p].state = "free"
  /\ PidsListening(s) = {}
  /\ Fault("foreign")
  /\ proc' = [proc EXCEPT ![p] = [Free EXCEPT !.state = "up", !.port = s]]
  /\ listened' = [listened EXCEPT ![s] = @ \cup {p}]
  /\ HostStep

----
CommandStep(a) ==
  \/ NextService(a) \/ Save(a) \/ Reload(a) \/ EndCommand(a)
  \/ Decide(a) \/ (\E p \in Pid : Spawn(a, p)) \/ SpawnFails(a)
  \/ Wait(a) \/ WaitTimesOut(a) \/ Record(a) \/ Verify(a) \/ Health(a)
  \/ OpenTunnels(a)
  \/ StopTunnels(a) \/ CollectCandidates(a) \/ (\E p \in Pid : CheckCandidate(a, p))
  \/ Signal(a) \/ Unrecord(a)

Begin(a) ==
  \/ \E c \in Command, s \in Service : BeginService(a, c, s)
  \/ \E c \in Command : BeginPass(a, c)

Host(p) ==
  \/ Bind(p) \/ End(p) \/ Crash(p) \/ Wedge(p)
  \/ \E q \in Pid : Fork(p, q)
  \/ \E s \in Service : Foreign(p, s)

Next ==
  \/ \E a \in Actor : Begin(a) \/ CommandStep(a) \/ Abort(a)
  \/ \E p \in Pid : Host(p)

Spec == Init /\ [][Next]_vars

\* A command, once begun, is run to its end; supervise passes come round for
\* ever, as the worker's and `bridgeboard supervise`'s loops do; the host lets a
\* service process bind its port and end when it must.
Fairness ==
  /\ \A a \in Actor : WF_vars(CommandStep(a))
  /\ \A a \in Actor : SF_vars(BeginPass(a, "supervise"))
  /\ \A p \in Pid : WF_vars(Bind(p)) /\ WF_vars(End(p))

FairSpec == Spec /\ Fairness

----
(* Properties of every run. *)

TypeOK ==
  /\ proc \in [Pid -> Process]
  /\ pidFile \in [Service -> Pid \cup {NoPid}]
  /\ disk \in [Service -> Desired]
  /\ snap \in [Actor -> [Service -> Desired]]
  /\ pc \in [Actor -> Stage]
  /\ cmd \in [Actor -> Command \cup {"none"}]
  /\ cur \in [Actor -> Service \cup {NoService}]
  /\ todo \in [Actor -> SUBSET Service]
  /\ target \in [Actor -> Pid \cup {NoPid}]
  /\ cand \in [Actor -> SUBSET Pid]
  /\ samples \in [Actor -> 0 .. StableAt - 1]
  /\ faults \in 0 .. MaxFaults
  /\ listened \in [Service -> SUBSET Pid]
  /\ verified \subseteq Service

\* A pid_file never names a process that was only launched: however commands
\* overlap, the pid in it has listened on the service's port.  (start_service
\* records what wait_for_managed_listener saw, not the child it spawned.)
PidFileNamesListener ==
  \A s \in Service : pidFile[s] # NoPid => pidFile[s] \in listened[s]

\* The state file asks for a service to be kept running only if some command
\* once saw it stable; a lost update can bring the request back, never make it up.
DesiredRunningWasVerified ==
  \A s \in Service : disk[s] = "running" => s \in verified

\* Steps from a stage to the end of a command: visits for the services a pass still has
\* to look at, kills for the processes a stop still has to end.
StepsFrom(stage, c, taken, visits, kills) ==
  CASE stage = "idle"       -> 0
    [] stage \in {"done", "failed"} -> 1
    [] stage = "save"       -> (IF c = "restart" THEN 13 ELSE 2) + visits
    [] stage \in {"tunnels", "next"} -> 3 + visits
    [] stage = "health"     -> 4 + visits
    [] stage = "verify"     -> 4 + StableAt - taken + visits
    [] stage = "record"     -> 8 + visits
    [] stage = "wait"       -> 9 + visits
    [] stage = "spawn"      -> 10 + visits
    [] stage = "decide"     -> 11 + visits
    [] stage = "reload"     -> 12 + visits
    [] stage = "check"      -> 14 + visits + kills
    [] stage = "signal"     -> 15 + visits + kills
    [] stage = "candidates" -> 15 + visits + 2 * Cardinality(Pid)
    [] stage = "stop"       -> 16 + visits + 2 * Cardinality(Pid)

\* At most so many are left of a's command: nine for a service, two for a process.
StepsLeft(a) ==
  StepsFrom(pc[a], cmd[a], samples[a], 9 * Cardinality(todo[a]), 2 * Cardinality(cand[a]))

\* No command goes round in circles: every step it takes brings it nearer to its end, and
\* neither other commands nor the host ever set it back.
CommandsAdvance ==
  [][\A a \in Actor :
       /\ CommandStep(a) => StepsLeft(a)' < StepsLeft(a)
       /\ pc[a] # "idle" => StepsLeft(a)' <= StepsLeft(a)]_vars

----
(* Properties of commands that do not overlap. *)

\* A process launched for s, not told to stop and not barred from its port.
Instance(p, s) == proc[p].state = "up" /\ proc[p].service = s /\ ~MustEnd(p)

\* Two up commands, a restart, a supervise pass never leave two processes of
\* one service: start_service spawns only when nothing runs or listens.
OneInstance ==
  \A s \in Service, p, q \in Pid : Instance(p, s) /\ Instance(q, s) => p = q

\* Between commands the pid_file names the process that serves: what status
\* reports and what down signals is the service itself.
ListenerIsRecorded ==
  (\A a \in Actor : pc[a] = "idle") =>
    \A s \in Service : \A p \in PidsListening(s) : Instance(p, s) => pidFile[s] = p

\* A down that reports success has told every process of the service to end.
DownStops ==
  \A a \in Actor, p \in Pid :
    pc[a] = "done" /\ cmd[a] = "down" => ~Instance(p, cur[a])

\* supervise launches a service only while the state file asks for it.
SuperviseHeedsDesired ==
  \A a \in Actor : pc[a] = "spawn" /\ cmd[a] = "supervise" => disk[cur[a]] = "running"

\* However commands overlap, a supervise pass that saves never turns a recorded
\* stop back into a request to run.
SuperviseNeverResurrects ==
  [][\A a \in Actor, s \in Service :
       At(a, "save") /\ cmd[a] = "supervise" /\ Save(a) /\ disk[s] = "stopped"
         => disk'[s] = "stopped"]_vars

----
(* Liveness. *)

\* No command waits for ever: not for a listener, not for another command.
EveryCommandEnds == \A a \in Actor : pc[a] # "idle" ~> pc[a] = "idle"

Serving(s) == StatusOf(s) = "running"

\* Once faults have stopped, an on_failure service whose desired state is running
\* is brought back, unless somebody takes the request back first.
SuperviseRecovers ==
  \A s \in OnFailure : disk[s] = "running" ~> Serving(s) \/ disk[s] # "running"
====
