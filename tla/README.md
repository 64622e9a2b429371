# A verification project for bridgeboard

bridgeboard keeps a registry of the local services of a few machines, starts and
stops the ones it manages, opens ssh tunnels to them and shows all of them on a
dashboard.  There is no daemon that owns the state: every command line call,
every command that arrives over ssh, every dashboard request and the tray's
worker thread load the same files, act on the host and write the files back.
That is what this project is about.

Paths below are relative to the repository.

## Inventory

| Component | State | Operations | Hard part | What makes it correct |
|---|---|---|---|---|
| Managed lifecycle (`src/core.rs`, `src/process.rs`) | pid_file per service, `desired` in the state file, the process table, ports | `up`, `down`, `restart`, `startup`, `supervise_once`, with `start_service`, `wait_for_managed_listener`, `verify_managed_service_stable`, `reconcile_managed_listener_pid`, `stop_service` | commands overlap with no lock; every `?` leaves the host changed and the state unsaved; a kill is not awaited; pids are reused; zombies look alive | one recorded process per service; a pid_file names a listener; supervise starts only what is wanted, and does start it; commands end |
| State and registry file (`src/state.rs`, `src/registry.rs`) | `state.json`, `registry.json`, their `.tmp` | `load`, `save` | all processes share the temporary name; crash between truncate and rename | a load returns the last save, whole |
| Export cache (`src/dashboard.rs`) | snapshot, `refreshing`, `last_refresh` behind a mutex; `dashboard-cache.json` | `refresh_if_needed`, `exports`, `load`, `port_rows` | background thread against requests; peers that time out; restart in a file write | the page never waits for a peer and never goes back; refreshes go on |
| Dashboard server and page (`src/dashboard.rs`) | the connection being served; in the page `currentRows`, `loadingPorts`, `busyKey`, the token | `serve`, `handle_request`, `run_action`; `loadPorts`, `runActionForRow`, `runActionThenOpenForRow` | one connection at a time, read without a timeout; answers, clicks and restarts in any order; the page outlives the server | every call ends; no mark outlives its call; the page catches up |
| Tunnels (`src/process.rs`, `src/core.rs`) | `tunnels` in the state file, ssh processes | `start_tunnel_spec`, `stop_tunnels_for`, `stop_tunnels_for_peer`, reuse of a reverse forward | pids are trusted; a listener of anybody counts; a command that ends early saves nothing | no tunnel is forgotten; a down leaves none and spares other owners' |
| Delegation (`src/core.rs`) | none of its own | `up`, `down`, `restart`, `open`, their `remote_*` and `*_target` forms, `find_peer_service` | hosts run commands for each other, with timeouts; the answer may be lost when the work is done | success tells the truth; every command ends |
| Port ledger (`src/registry.rs`, `src/main.rs`, `src/config.rs`) | registry, service YAML files, peers' exports | `register`, `handoff`, `unregister`, `rename`, `validate_no_port_conflicts` | check-then-save on several files and machines | no two services of one owner share a port |
| Peer commands (`src/peer.rs`) | child processes, pipes | `run_bridgeboard_command`, `fetch_peer_exports`, encoding | timeout kills the local ssh only | a call ends; its arguments arrive unchanged |
| External services, scheduled tasks | the host's | shell commands, `schtasks` | none of it is visible to the program | - |
| Status and rows, health, configuration, CLI, tray, UI, packaging | - | pure input and output around the above | - | - |

Components interact through files (state, registry, pid_files, the cache file),
through the process table and ports, and through ssh commands; inside the tray's
process also through threads.  `PROJECT.json` lists the hazards, each with the
line where it bites.

## Modules

| Module | Models |
|---|---|
| `ManagedStatus` | the three decisions taken from the same three observations (pid_file, `kill -0`, listeners): the status, whether to start, whom to stop |
| `Lifecycle` | the managed lifecycle on one host: actors that run commands step by step, the host around them |
| `AtomicFile` | what callers of `load` and `save` rely on (abstract) |
| `StateFile` | `load` and `save` with inodes, the shared temporary file and crashes; implements `AtomicFile` until two saves overlap |
| `ExportCache` | the dashboard's snapshot, its refresh thread and its file |
| `Dashboard` | the serial server and the page, composed with `ExportCache`, which it implements |
| `Tunnels` | ssh processes, the ports they listen on and the records that name them |
| `Delegation` | the commands about one service that may be another host's, on `Tunnels` |
| `Ports` | the rule of the port ledger (abstract) |
| `PortLedger` | register, handoff, unregister and rename against registries, YAML files and peers |
| `PortScan` | the pass that looks for conflicts and the one that makes the rows, as operators |
| `LedgerScan` | these passes over what `PortLedger`'s commands gather, against `Ports` |
| `LifecycleProofs`, `StateFileProofs`, `PortScanProofs` (the passes), `PortLedgerProofs` (the commands, and the passes over what they gather), `ExportCacheProofs`, `DashboardProofs`, `DelegationProofs`, `SuccessProofs` (of `Delegation`, what success means) | theorems |
| `MCLifecycle`, `MCStateFile`, `MCPortLedger`, `MCDelegation` | instances for TLC |

An operator whose comment begins with "Faulty variant" stands just before the
definition it varies.  It is a plausible bug: with it in the definition's place
the property that `PROJECT.json` pairs it with fails.

### Lifecycle

| Variable | Code |
|---|---|
| `proc` | the operating system's process table: who launched a process for which service, the port it listens on, whether it was told to end, its parent |
| `pidFile` | the `pid_file` of each service (absent and unparsable are one case, as in `read_pid_file`) |
| `disk`, `snap` | `services[id].desired` in the state file, and in the copy a command loaded |
| `pc`, `cmd`, `cur`, `todo`, `target`, `cand`, `samples` | the locals of a command: its place, service, services still to visit, pid, stop candidates, stable samples |
| `faults` | the bound on faults of a behaviour |
| `listened`, `verified` | history, for the properties only |

The order of a start is the code's: `Decide`, `Spawn`, `Wait` (polls until a
sole listener, several listeners, a dead child or the deadline), `Record`
(pid_file), three `Verify` samples, of which the last sets `desired`, `Health`
(may rewrite the pid_file with the sole listener), `OpenTunnels`, `Save`.  A stop
is `StopTunnels`, `CollectCandidates`, then for each candidate `CheckCandidate`
(`pid_alive`) and `Signal` (`kill`, which fails if the process has gone in
between), `Unrecord`, `Save`.  Every error path goes to `failed`, from which the
command returns with nothing saved.  `restart` is a `down` and, after a second
load, an `up`; `supervise` and `startup` visit services in the registry's order.

Host steps: a service process binds its port, ends because it was told to or
because its port is taken, crashes, stops listening (`Wedge`), forks (a launcher
and its server, or workers sharing a socket); another program takes a pid and a
port (`Foreign`).  A child that ended stays a zombie for as long as the process
that launched it runs, because nothing waits for the handle `start_service`
drops; actors in `LongLived` are the ones whose process outlives a command.

Abstractions: each service has a port of its own; the three observations behind
one status are one step; the registry and configurations do not change; of a
state entry only `desired` is kept, for no decision reads the rest; `Save` is
atomic (`StateFile` is about that); `kill` on Windows ends the process at once,
and the tree it ends is not modelled, so the two are never combined with `Fork`.
A process that was signalled binds no port any more.

### StateFile

A file is an inode, so that a rename or a truncation happens under the clients
that have it open.  Its content is a function from cell to the value whose part
was written there; a write past the end leaves a hole.  A client is a command:
it loads, and if it is in `Saver` it may save.  `overlapped` is history: a save
began while another was under way.  A text that is not exactly one saved value
counts as unparsable; two states whose mixture happens to parse would be worse.

### ExportCache

`Start`, `FetchLocal`, `Answer` (one peer's answer, failure or timeout),
`Publish` (under the mutex) and `Written` (the file write, mutex still held) are
the refresh thread; `RefreshIfNeeded` and `Rows` are a request, whose two lock
acquisitions are two steps.  A machine's export is a version number, so that
"older" means something.  `Thread` offers more threads than single flight uses,
for otherwise a second refresh could not be seen.

### Dashboard

| Variable | Code |
|---|---|
| `inbox`, `serving` | connections the listener has not accepted, and the one `handle_request` is about; `Silent` is a connection on which nothing is sent |
| `call`, `answer` | where each of the page's requests is, and the rows it was answered |
| `loading`, `shown`, `busy` | `loadingPorts`, `currentRows`, `busyKey` |
| `act` | what each button's promise waits for: its own answer, then the load after it |
| `outdated` | the page holds the POST token of a server that has ended |

`TakeLoad` and `AnswerLoad` are the two halves of `port_rows` around the cache's two
lock acquisitions; `RefuseLoad` and `FailLoad` are its two errors, a state file and a
registry that do not load.  `TakeAction` checks the token, `EndAction` is
`run_action`'s end, whatever it changed here or on a peer.  While one connection is
served nothing else is accepted, so a long action or a silent connection holds every
other call.  `ServerRestart` composes the cache's `Restart` with the loss of every
connection; the page goes on with the old token until it is loaded anew (`Reload`).
In the page, `Acted` is the end of `runActionForRow`'s POST: the rows are loaded after
a success unless a load is under way, and then nobody loads them for it.
`ThenOpen` is the end of `runActionThenOpenForRow`, after its load (`LoadedThenOpen`) or
without one: it opens the service and clears the `busyKey` that the open has just set.
`opens` marks the actions that are such an open.

Left out: `runDirectOpen`, a call after which nothing is loaded, agent prompts, and what
is drawn.
`MaxTrouble` bounds restarts and silent connections together.

### Tunnels and Delegation

A tunnel is the ssh process that carries it, and is named by its ends, since two with
the same ends cannot both bind; a recorded pid is a tunnel, the service, or `Dead`.
That a pid is given out again is left out here (`Lifecycle` has it).

| Variable | Code |
|---|---|
| `unix`, `record`, `modes` | the operating system of each machine, the owner in each registry, the service's `tunnel_modes`; fixed in a behaviour |
| `running`, `ssh` | whether the service runs on each machine, and the tunnels it carries |
| `saved` | `tunnels` in each machine's state file |
| `cmd` | commands under way: host, form, what they have loaded, who waits for them, and the steps they still have to take |
| `tidy`, and `clean` in `cmd` | history, for the properties only |

A command is a list of steps, which `Plan` makes of its form (plain, remote, target)
and verb: for instance `up` of another host's service is load, call, tunnel, save, and
`remote-up` call, load, tunnel, save.  A step is `Load`, `Start`, `OpenReverse` (one
peer after another), `OpenLocal`, `Probe`, `Stop` (one record after another), `Halt`,
`Save` or `Ask`; a step that fails makes the list `failed`, and what the copy held is
lost.  `Ask` starts a command on the owner's host, whose plan may ask again; the caller
waits, and its `TimeOut` leaves the other one running, as killing ssh does.

`Route` is `find_peer_service`, `peer_service_owner` and the target forms' choice.
`Open` is `start_tunnel_spec`: a recorded pid that lives is reused; on Unix a port that
is taken makes ssh fail; on Windows whoever listens is taken for the new tunnel.
`Settings` are five distributions of the service: two other machines each own one of
that id (with local tunnels, and with both modes); this machine records another's, with
reverse tunnels; this machine, on Windows, owns one and another does too; a peer's
record names the owner.

Faults: an answer is lost (`LoseAnswer`), a step fails or the command is killed
(`Break`), ssh is up but its pid is not found in time (`Leak`), a tunnel or service ends
by itself (`Die`), a peer that would have been asked first does not answer, or a second
command is given while one is under way.

### PortLedger

| Variable | Code |
|---|---|
| `registry` | `registry.json` of each machine: id to the path of its YAML file |
| `files` | the YAML files; of a configuration its id, owner and port |
| `pc`, `op`, `path`, `cfg`, `entries`, `services`, `asked` | a command's locals: its place, the file it is about, a configuration and a registry it holds, the exports it has collected, the peers it has heard of |

`register` is `Register`, `Load`, `Insert` (reads the file again, as
`Registry::register` does), `Export` (fails if any registered file is gone),
`AskPeer` for each peer, `Validate`, `Save`.  `handoff` writes its file first
(`Handoff`, `Write`) and goes on from `Load`.  `unregister` loads, removes and
saves, and `--delete-config` then deletes the file (`DeleteFile`).  `rename` holds the
configuration between `Rename` and `RenameFile`.  Files of `Project` are written
by hand before the first command; afterwards only commands change files.  A
peer's answer is taken when it exports, not when the command looks at it.  Saves
are atomic here (`StateFile` is about that; the YAML's `.yaml.tmp` is shared the
same way).

`Companies` are the sets of commands that run in one behaviour, `Overlap` those of
which several may be under way, so that one run has both registrars that interleave
and one command at a time with handoffs.

`PortScan`'s `Scan` and `Row` are the bodies of the loops of
`validate_no_port_conflicts` and of the rows.  `LedgerScan` folds them over every order
of what a command has gathered, entries listed twice included.  They agree on what is
the same service by separate code.

## Runs

| Run | Instance | Shows |
|---|---|---|
| `serial` | 1 actor, 2 services, 3 pids, crash and wedge, 2 faults, 620 thousand states | `OneInstance`, `ListenerIsRecorded`, `DownStops`, `SuperviseHeedsDesired`: commands one after another keep exactly one, recorded, process; `CommandsAdvance` |
| `overlap` | 2 actors, 1 service, 2 pids, all six faults, 1 fault, 2.1 million states | `PidFileNamesListener`, `DesiredRunningWasVerified`: what is recorded is founded, however commands interleave |
| `live` | 1 actor, commands are processes, 2 crashes | `EveryCommandEnds`, `SuperviseRecovers` |
| `resident` | the same inside one resident Unix process | `SuperviseRecovers` fails (finding 1) |
| `resurrect` | a supervisor against up and down, on Windows, no fault | `SuperviseNeverResurrects` fails (finding 2) |
| `state_file` | 2 savers, 1 reader, a short and a long value, 1 crash | `LoadsParse`, `AtomicUntilOverlap`, `TornStaysTorn` |
| `dashboard` | 1 peer that may never answer, 1 button, 2 loads, one registry that changes once, 1 restart or silent connection, 380 thousand states | `RestartKeepsSnapshot`, `ExportsNeverOlder`, `ShownNeverOlder`, `MarksAreTrue`: nothing goes back and no mark outlives its call; `CallsEnd`, `PageCatchesUp` |
| `cache_peers` | no change, no restart | `PeersStay` fails (finding 3) |
| `ledger` | 2 machines, 3 files of which two want one port; two overlapping registrars, or 1 command at a time with handoffs; 1 kill or missing answer, 345 thousand states | `RegistrarsKeepPorts`, `SuccessMeansNoConflict`, `LedgerLoads`, `EntryNamesItsService`, and, over every list that is gathered, `ScanIsRule`, `OneRowPerPort` |
| `ledger_rehandoff` | 1 actor, all commands | `OwnerLocalPorts` fails (finding 4) |
| `delegation` | 3 machines, 5 settings, every form and verb, 1 fault or one overlapping command, 379 thousand states | `TunnelsAccounted`, `UpIsUp`, `DownIsDown`, `UnixTargetSparesOthers`, `EveryCommandEnds`, `CommandsAdvance` |
| `tunnel_windows` | the machine of the commands runs Windows, no fault | `TargetSparesOthers` fails (finding 5) |

Why the bounds are enough.  A hazard of `Lifecycle` is between two commands about
one service, so two actors and one service meet it; two pids allow a process and
its rival, three a stale pid that comes back to the other service.  One fault
under overlap and two in sequence let a fault meet every stage and its own
aftermath.  `StateFile` needs two savers to overlap, a reader that holds an
unlinked inode, and values of different length, or a short text over a long one
would leave no tail.  `ExportCache` needs two threads and two versions for an
older export to arrive later, and `Dashboard` a restart or a silent connection at
every point of a click and its load; one changed registry, the peer's or this machine's,
is enough for the page to lag behind.

`PortLedger` needs two services that want one port and a third that does not, so
that an entry can be lost without a conflict, and a second machine with a service of
the same owner; repeated listings of these are the lists around a conflict.  `ledger`
ends when no file is left for a command to work on, so it does not check deadlock.

`Delegation` needs a host, an owner and a third machine that is another owner or the one
that answers first; four slots hold a command, what it asks for, what that asks for in
turn, and a command beside them.

`serial` checks the properties that overlap breaks: two `up` commands at once do
launch two processes, of which the port decides the winner.  Every `Lifecycle` run
but `resurrect` is of a Unix host, the harder one: a kill takes its time there and zombies
exist.

Fairness.  `Lifecycle!FairSpec`: a command that has begun goes on (its waits are
sleeps and polls with deadlines); a supervise pass comes round for ever (strong
fairness, since the same actor may be busy with another command whenever it would
be due; the loops of `cmd_supervise` and the tray's worker are unconditional); a
service process binds its port if it can and ends when it must.  Crashes, forks
and all other faults have no fairness.  In `live` a service that is not in
`SlowStart` misses its deadline only when nothing is left that could bind.  The
CLI's loop ends at the first failed pass (`src/main.rs:677`); that a next pass
comes is the tray's worker, or whoever restarts the CLI.
`Dashboard!DashFairSpec` assumes that the server and the page's promises go on and that
a file write with the mutex in hand ends; nothing of the refresh threads.  `CallsEnd`
assumes besides that silent connections are closed in the end (`Polite`): nothing in
the server would close one.  `PageCatchesUp` assumes also that a refresh thread runs to
its end (`ThreadsRun`), which rests on the timeout of every ssh call, that somebody
comes back to the page and is not refused every time (`Attended`), and that from some
time on whoever is asked answers (`Heard`).
`Delegation!FairSpec` assumes that while commands are under way one of them goes on; the
waits are polls with deadlines.
On Unix the timeout of an ssh call also waits for the pipes to close
(`src/peer.rs:302-319`), so a descendant of ssh that keeps them open would break
the assumption.

## Findings

1. *A crashed service is never restarted by the process that started it* (`resident`).
   A child nobody waits for stays a zombie, `kill -0` accepts it, the status is
   `no-listener`, and `start_service` refuses for ever.  README.md:147 and 296
   promise a supervisor that restarts it.
2. *supervise can undo a down* (`resurrect`).  Commands write back the whole state
   they loaded; a stop recorded during a supervise pass is lost and the service is
   started again, against README.md:147.
3. *A peer that times out disappears* (`cache_peers`).  Only a refresh that brings
   back nothing at all keeps the old snapshot, against CHANGELOG.md:53-54.
4. *A refused handoff changes the ledger* (`ledger_rehandoff`).  The file is written
   before the ports are validated; for a registered id the registry names that
   file, so the ledger holds the conflict, against README.md:12, and refuses every
   later registration on that machine until the service is handed off again.
5. *A tunnel that could not be opened kills a stranger* (`tunnel_windows`).  On Windows
   whoever listens on the port is recorded as the tunnel's pid
   (`src/process.rs:1014-1016`, 844-852, 806-816), and a later down of that owner kills
   it (`src/process.rs:1111-1118`): this machine's own service, or the tunnel to another
   owner, against BLUEPRINT.md:209.

`TornStaysTorn` holds and is bad news of another kind: once two overlapping saves
have left a state file that does not parse, every later command fails at its
load, so nothing but a person repairs it.  No document says otherwise.

Some observations have no run of their own.  `rename` writes back the configuration it
loaded, so a handoff in between loses the port it recorded (finding 2 in another
file).  And `live` has one service because with two the pid of a crashed one may go
to the other: `start_service` then finds its pid_file's process alive and not
listening, and refuses, as in finding 1.  An owner known by hearsay (a peer's record names a third
host) is asked through the peer, so that success is about the third host.  `open` of an
`on_demand` service starts it on its owner (`src/core.rs:790-793`).  A `down` on an owner
also stops this host's tunnels to other owners of the id.  Two hosts whose records name
each other send a command back and forth until the timeouts end it; a host that
lists itself as its peer asks itself.  A fallback port (24700-24899, or port + 400) may be
the port of a registered service that is not running.  This machine's own rows may go
back once, from the registry as it is to the first snapshot of it.  In the native UI a
refresh that was pending when an action was started is dropped after it
(`src/bin/bridgeboard-ui.rs:61-145`).

## Proofs

All theorems are for any constants that satisfy the named assumptions of their modules
(`LifecycleAssumption`, `StateFileAssumption`, `LedgerAssumption`,
`ExportCacheAssumption`, `DashboardAssumption`, `TunnelsAssumption`, `PidAssumption`,
`DelegationAssumption`), which say what sets the constants come from and that model
values such as `NoCommand` are none of the things they stand beside.  Each module has a
`TypeCorrect` of its own (`DashTypeCorrect`), which the others rest on.

### Lifecycle, whatever overlaps

- `TypeCorrect`: `TypeOK` alone is not inductive: an action that writes
  `pidFile[cur[a]]` needs a service there.  `TypeInv` adds `WorksOnService` (a command
  about a service has one, also across `restart`'s save) and `RestartStops` (a restart is
  in its down half, so it never leaves a stage with a service for one without).
- `PidFileCorrect`: `Spec => []PidFileNamesListener`.  `HeardInv` adds that
  whoever listens has been heard (`ListenersHeard`) and that a command about to
  write a pid_file holds a pid that was heard (`RecordsHeard`).  Ports only close
  when processes end (`PortsOnlyClose`).
- `DesiredCorrect`: `Spec => []DesiredRunningWasVerified`.  `CopiesVerified` says
  the same of the copy each command holds: lost updates bring back old requests,
  never new ones.
- `AdvanceCorrect`: `CommandsAdvance`, for finitely many services and pids.  `StepsLeft`
  counts what is left of a command: a step of its own lowers it, whatever the step finds,
  and nobody else raises it, so a command takes at most 16 + 9|Service| + 2|Pid| steps
  (`StepsBounded`).  The loops that could turn for ever are the stability check, the
  supervise pass and the kills of a stop: the pass takes a service off its list each time,
  and the candidates of a stop are chosen once.
- `StartAgreesWithStatus`: `start_service` and `managed_service_status`, which
  decide separately, agree.

### Lifecycle, commands that take turns

These theorems assume of the behaviour, not of the constants, that no two commands are
under way at once (`[]OneAtATime`): any number of actors, services and pids.

- `HeedsCorrect`: `SuperviseHeedsDesired`, under every kind of fault.  `PassInv` says that
  a supervise pass carries the state file unaltered from its load to its save, though
  `verify_managed_service_stable` writes to the copy: it writes what is there.
- `NeverResurrectsCorrect`: `SuperviseNeverResurrects`, under every kind of fault and from
  the same `PassInv`.  The run `resurrect` violates it, with two actors; so the overlap is
  the cause of finding 2, and no fault of a process is.
- `InstanceCorrect`, `RecordedCorrect`, `DownCorrect`: `OneInstance`,
  `ListenerIsRecorded` and `DownStops`.  They need `Sparing`: crashes, lost ports and
  failed launches, but no other program on the port, no launcher's child, no child that
  `start_service` gave up at its deadline or was killed before it recorded.  The code
  cannot keep these properties under those, for it knows a process by its pid_file or its
  port only.  `SerialInv` says that a service has at most one process that holds its
  port or may still bind it (`OnePresent`), so that who listens after a launch can only
  be the child; that whoever was not told to stop is named by the pid_file, or is about to
  be by the command that launched it (`AllRecorded`); and what a command relies on at
  each stage (`Relies`): nobody is there when it spawns, its candidates hold everybody
  when it stops.  Every step but `Spawn` leaves fewer processes that could serve.

### StateFile

- `LoadsParseCorrect` and `AtomicCorrect`: until two saves overlap, every load
  parses, and every step of `StateFile` is a step of `AtomicFile` or a stutter.
  The load of the abstract file is the `Open`, the save is the `Rename`; `FileInv`
  says that a file is immutable from its rename on: the one inode being written
  is `tmp`, and neither the file nor anybody's open file is `tmp`.
- `TornStaysTornCorrect`: once no client holds anything else to save, a file that does
  not parse stays.  A client reads only what it has opened, so it gets no further.

### PortLedger

- `LedgerCorrect`: `Spec => []RegistrarsKeepPorts`, which is `OwnerLocalPorts` where no
  command is a handoff; finding 4 is the reason for the condition.  A registry does not
  say which ports it claims: its files do, and they are deleted and written back.
  `LedgerInv` measures registries by `Project` instead: what a registry could claim if
  every file were back (`Claimed`) is free of conflict on disk (`DiskFine`) and in every
  command about to save (`CommandFine`), and has been collected whole before it is
  judged, because `Export` refuses a registry with a file gone.  That no command alters a
  file but by deleting it or writing it back is `Kept`.
- `EntriesCorrect`: `EntryNamesItsService`, however commands overlap and are killed, if
  ids have file stems of their own (`OwnStems`).  `safe_file_stem` maps some different ids
  to one stem, and for those the property is false.  `StemInv`: a file is about one id for
  good, and whatever names it, in a registry or in a command, is about that id.
- `LoadsCorrect`, `SuccessCorrect`: `LedgerLoads` and `SuccessMeansNoConflict`, which
  speak of commands that take turns (`Serial`), under `OwnStems` too.  `SerialInv` adds
  that a registry's files are there between any two steps, also in the copy a command
  holds (`MemoryLoads`), although a handoff writes and `--delete-config` deletes them at
  other moments than the registry is saved, and that what is saved has been compared with
  all it heard (`MemoryJudged`).

### PortScan and LedgerScan

- `PassIsRule`, `RowsAreServices`: for every list, `validate_no_port_conflicts` refuses
  exactly when two services break the rule of `Ports`, and the rows are one of each service.
  A pass is a `FoldLeft`, so this takes induction along the list, and first that the
  recursion by which the community modules define a fold has a solution (`ScansExist`,
  `RowPicksExist`).  The library's induction theorems take an operator; `Induction` takes a
  set in its place, and rests on `LeastNumber`, which follows from `WFMin` and
  `NatLessThanWellFounded`.  The invariants of the loops are `Scanned` (until a conflict has
  been found, `seen` is what the pass has come by, and the map holds the one id of each
  owner and port) and `Picked`.  The map keeps the first id of a port only; that this loses
  no conflict is the point: all later ids of the port have been compared with the first.
- `ScanCorrect`, `RowsCorrect`: `Spec => []ScanIsRule` and `Spec => []OneRowPerPort`.
  `LedgerScan` lists what a command has gathered in every order, and a set has such lists
  only if it is finite, which the types do not say where ids are without number.
  `FiniteInv`: the entries of a registry, those a command holds and the services it has
  gathered are finite, for each step adds one entry or one machine's export at most.
  `SeqsList` is the pigeon-hole: a list of as many different services as there are holds
  them all.

### ExportCache and Dashboard

- `SnapshotCorrect`, `NeverOlderCorrect`: `RestartKeepsSnapshot` and `ExportsNeverOlder`
  of `ExportCache`.  `CacheInv` adds single flight (`SingleFlight`: a thread that fetches
  implies the flag, and is the only one), the lock (`WriterHolds`), that what is being
  written is what is in memory (`WritesSnapshot`), that nothing is newer than its
  registry (`NothingAhead`), and the fact all this is for: what has been fetched so far
  is no older than the snapshot it will replace (`FetchedIsNewer`).
- `CacheRefined`: `DashSpec => Spec`.  Whatever the server and the page do to the cache
  is a step of `ExportCache` or a stutter, so its theorems hold of the composition
  (`DashSnapshotCorrect`, `DashNeverOlderCorrect`).
- `DashTypeCorrect`, `MarksCorrect`: `PageInv` adds that a call in the queue or being
  served has been sent and stands there once (`Queued`), or the server's answer could
  bring back a call the page has consumed, that at most one load is under way
  (`OneLoad`), and that an action which waits for a load has no call of its own (`Marks`).
- `ShownNeverOlderCorrect`: `ShownInv` says of the rows shown, and of an answer on its
  way, that everything that may become the next snapshot - memory, file, what a thread
  has fetched, the registries - says nothing older (`Behind`).  A restart may lose the
  snapshot but cannot bring back an older one, because the file is the one in memory.

### Delegation

- `TypeCorrect`: that a command has loaded, and not yet saved, whenever a step works on
  the copy has to be read off its plan.  `Orderly` plans are those in which it does, at
  every position (`Holds`); every plan the code makes is one, and taking its first step,
  or turning a call into a wait, leaves one.  `Fit` ties a command's copy (`hand`) to
  where it is in its plan, `WaitInv` a command that was asked to the one that waits for it.
- `AccountCorrect`: `TunnelsAccounted`, for any number of machines, peers and commands.
  `AccountInv`: on a machine where no change was lost at most one command has a copy of the
  records, the copy accounts for every ssh process, and so does the file unless the copy
  was changed.  `RecordsInv` (a recorded tunnel is there, and it is the one of its key on
  Unix, and wherever it is a reverse tunnel) keeps a start from recording one tunnel over
  another.
- `SparesCorrect`: `UnixTargetSparesOthers`, an action property.  That a record goes from
  a command's copy is the doing of that command's `Stop` alone (`StepElsewhere`,
  `FaultElsewhere`), and `RecordsInv` makes the process it ends the one the key names;
  without it the property is finding 5.
- `AdvanceCorrect`: `CommandsAdvance`, for finitely many machines.  A command gets shorter
  plans, or plans as long with less to do at their first step (`Further`: the call itself,
  peers to open a tunnel to, records to take out).  Elsewhere a process may end, which
  leaves its record in every copy, or a caller may give up; neither changes a plan
  (`Stays`).  The answer to the call a command waits for is a step of that command too
  (`AnsweredFurther`).  The theorem is about every single command, and
  does not bound how many ask each other in turn: two hosts whose records name each other
  do so until the timeouts end it.
- `UpCorrect`, `DownCorrect`: `UpIsUp` and `DownIsDown`.  `CalmInv`: either every command
  under way was disturbed, or none was (`Calm`), and then only one of them can move, the
  others wait or have failed, and whoever is waited for runs what was asked, on the owner.
  The argument follows the plans backwards: `Shaped` says that in what is left of a plan
  only saving follows the step that completes the command (`Last`), and that this step
  comes after the ones it depends on (`Before`); `Truthful` that what those steps bring
  about holds when the last one is next (`Prepared`), and what the command promises when
  that one is done (`Achieved`).  `PlanWays` shows that every plan has this shape when it
  is made, `WayOnward` and `WayWait` that it keeps it.  `Prepared` of a command that waits
  is `Achieved` of the one it asked: that is where the two machines meet, in `ReturnCalm`.
  On the way up `RecordsInv` makes the recorded tunnel the one that was meant; on the way
  down `AccountInv` makes "nothing left in the copy" mean "no tunnel left".  The
  hypothesis `OwnersKnown`: whom the machine of a command takes for the owner is the owner
  in its own registry, and has that machine for a peer if it is to open reverse tunnels to
  it.  The code does not enforce it, for registries are written by hand; where they
  disagree (1 takes 2 for the owner, 2 takes 3) 2 asks 3 in turn, `up` on 1 succeeds, and
  `UpIsUp` fails, since 2 does not run the service.  `MCDelegation` assumes it, so that TLC
  finds it true of every setting of the runs.

### Model-checked only

Liveness: `EveryCommandEnds` (of `Lifecycle` and of `Delegation`), `SuperviseRecovers`,
`CallsEnd` and `PageCatchesUp`.  Their proofs would need `ENABLED` of the actions that
fairness is stated for, which the provers do not handle.  What the two `EveryCommandEnds`
rest on besides fairness, that a command which goes on comes to its end, is
`CommandsAdvance`, and proved; that a command under way can always go on stays with TLC.
Every type invariant, safety invariant and action property that a passing run checks is
the conclusion of a theorem.

## Not modelled

- External services and scheduled tasks run commands whose effect the program does not
  know.
- Configuration, paths and the command line are parsing, validation and printing; they
  are fixed while commands run, or dispatch to what is modelled.
- Encoding of arguments for ssh and PowerShell, and the pipe readers behind a timeout.
- In `Delegation`: several services at once (a command is about one), a rename sent to
  the owner, which changes nothing here, hosts that are their own peers, and records
  that name each other.
- In `Dashboard`: what the page draws, agent prompts, and the direct opening of a URL.
- Trays, the native UI and packaging keep no state that a command depends on; the tray's
  worker is an actor of `Lifecycle`.

## Plan

1. The encoding of peer commands as a round trip over the few characters the shells
   treat alike or apart.
2. `Delegation` composed with `Lifecycle`, in place of a service that just runs.
