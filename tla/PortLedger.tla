---- MODULE PortLedger ----
(***************************************************************************)
(* The port ledger: on every machine a registry, which names the YAML file *)
(* of each service, and those files, which hold the ports.  register and   *)
(* handoff load the registry, add an entry, compare the ports with those   *)
(* of the peers and write the registry back; unregister and rename change  *)
(* one of the two.  Nothing locks either.                                  *)
(***************************************************************************)
EXTENDS Naturals, FiniteSets, Ports

CONSTANTS
  Machine, Id, Port,
  Path,         \* YAML files of a machine
  HandoffPath,  \* the file in which handoff puts an id
  Project,      \* the YAML files written by hand, per machine
  Peers,        \* the peers each machine asks
  Actor, Home,  \* commands, and the machine each runs on
  Allowed,      \* what each actor may run
  Companies,    \* the actors that run commands in one behaviour
  Overlap,      \* the companies whose commands overlap
  NoFile, NoPath,
  MaxFaults

Config  == [id : Id, owner : Machine, port : Port]
Op      == {"register", "handoff", "unregister", "delete", "rename"}

ASSUME LedgerAssumption ==
  /\ NoFile \notin Config /\ NoPath \notin Path
  /\ HandoffPath \in [Id -> Path]
  /\ Project \in [Machine -> [Path -> Config \cup {NoFile}]]
  /\ Peers \in [Machine -> SUBSET Machine]
  /\ Home \in [Actor -> Machine]
  /\ Allowed \in [Actor -> SUBSET Op]
  /\ MaxFaults \in Nat

ASSUME CompanyAssumption ==
  Companies \subseteq SUBSET Actor /\ Overlap \subseteq Companies

VARIABLES
  registry,  \* registry.json: the file each registered id names
  files,     \* the YAML files
  pc, op,
  path,      \* the file the command is about
  cfg,       \* a configuration it holds in memory
  entries,   \* its copy of the registry
  services,  \* the services it will validate
  asked,     \* the peers it has an answer, or none, from
  faults,
  company    \* of this behaviour

localVars == <<pc, op, path, cfg, entries, services, asked>>
vars == <<registry, files, localVars, faults, company>>

Stage == {"idle", "write", "load", "insert", "export", "peers", "save", "remove", "rename",
          "done", "failed"}

NoEntries == [i \in Id |-> NoPath]

Init ==
  /\ registry = [m \in Machine |-> NoEntries]
  /\ files = Project
  /\ pc = [a \in Actor |-> "idle"]
  /\ op = [a \in Actor |-> "none"]
  /\ path = [a \in Actor |-> NoPath]
  /\ cfg = [a \in Actor |-> NoFile]
  /\ entries = [a \in Actor |-> NoEntries]
  /\ services = [a \in Actor |-> {}]
  /\ asked = [a \in Actor |-> {}]
  /\ faults = 0
  /\ company \in Companies

----
(* Ports. *)

\* The files a registry names on machine m, and what they say.
Named(reg) == {reg[i] : i \in Id} \ {NoPath}
Listed(m, reg) == {files[m][p] : p \in Named(reg)}
Exportable(m, reg) == NoFile \notin Listed(m, reg)

----
(* Commands. *)

Goto(a, stage) == pc' = [pc EXCEPT ![a] = stage]
At(a, stage) == pc[a] = stage
Free(a) ==
  /\ At(a, "idle") /\ a \in company
  /\ company \in Overlap \/ \A b \in Actor : pc[b] = "idle"

\* A command o about file p starts with c and e in memory.
Begin(a, o, p, c, e, stage) ==
  /\ Free(a) /\ o \in Allowed[a]
  /\ op' = [op EXCEPT ![a] = o]
  /\ path' = [path EXCEPT ![a] = p]
  /\ cfg' = [cfg EXCEPT ![a] = c]
  /\ entries' = [entries EXCEPT ![a] = e]
  /\ Goto(a, stage)
  /\ UNCHANGED <<registry, files, services, asked, faults>>

\* register looks at the file before anything else.
Register(a, p) ==
  /\ files[Home[a]][p] # NoFile
  /\ Begin(a, "register", p, NoFile, NoEntries, "load")

\* Faulty variant: all ids share one file stem.
HandoffOneStem(a, c) ==
  Begin(a, "handoff", CHOOSE p \in Path : TRUE, c, NoEntries, "write")

Handoff(a, c) == Begin(a, "handoff", HandoffPath[c.id], c, NoEntries, "write")

\* unregister, with or without --delete-config: load and remove.
Unregister(a, o, i) ==
  LET reg == registry[Home[a]] IN
  /\ o \in {"unregister", "delete"}
  /\ reg[i] # NoPath
  /\ Begin(a, o, reg[i], NoFile, [reg EXCEPT ![i] = NoPath], "save")

\* rename of a service this machine owns, or whose owner is no peer of it.
Rename(a, i) ==
  LET m == Home[a]
      p == registry[m][i]
  IN /\ p # NoPath /\ files[m][p] # NoFile
     /\ files[m][p].owner = m \/ files[m][p].owner \notin Peers[m]
     /\ Begin(a, "rename", p, files[m][p], NoEntries, "rename")

\* A write of the file the command is about, and what comes after it.
WriteFile(a, c, stage) ==
  /\ files' = [files EXCEPT ![Home[a]][path[a]] = c]
  /\ Goto(a, stage)
  /\ UNCHANGED <<registry, op, path, cfg, entries, services, asked, faults>>

\* handoff writes its file first; rename writes back the one it loaded.
Write(a) == At(a, "write") /\ WriteFile(a, cfg[a], "load")
RenameFile(a) == At(a, "rename") /\ WriteFile(a, cfg[a], "done")
DeleteFile(a) == At(a, "remove") /\ WriteFile(a, NoFile, "done")

Load(a) ==
  /\ At(a, "load")
  /\ entries' = [entries EXCEPT ![a] = registry[Home[a]]]
  /\ Goto(a, "insert")
  /\ UNCHANGED <<registry, files, op, path, cfg, services, asked, faults>>

\* Registry::register: under the id the file has by now.
Insert(a) ==
  LET c == files[Home[a]][path[a]] IN
  /\ At(a, "insert")
  /\ IF c = NoFile
       THEN Goto(a, "failed") /\ UNCHANGED entries
       ELSE Goto(a, "export") /\ entries' = [entries EXCEPT ![a][c.id] = path[a]]
  /\ UNCHANGED <<registry, files, op, path, cfg, services, asked, faults>>

ExportOf(a, reg) ==
  /\ At(a, "export")
  /\ IF Exportable(Home[a], reg)
       THEN Goto(a, "peers") /\ services' = [services EXCEPT ![a] = Listed(Home[a], reg)]
       ELSE Goto(a, "failed") /\ UNCHANGED services
  /\ UNCHANGED <<registry, files, op, path, cfg, entries, asked, faults>>

\* Faulty variant: the registry is validated as it was.
ExportOld(a) == ExportOf(a, registry[Home[a]])

\* Faulty variant: a file that is gone does not end the command.
ExportMissing(a) ==
  /\ At(a, "export")
  /\ Goto(a, "peers")
  /\ services' = [services EXCEPT ![a] = Listed(Home[a], entries[a])]
  /\ UNCHANGED <<registry, files, op, path, cfg, entries, asked, faults>>

\* The registry with the new entry; one file that is gone ends the command.
Export(a) == ExportOf(a, entries[a])

Fault == faults < MaxFaults /\ faults' = faults + 1

\* A peer answers with its own registry, or not: unreachable, unable to export
\* it, or not asked because of --skip-peers.  It is then left out.
AskPeer(a, q) ==
  /\ At(a, "peers")
  /\ q \in Peers[Home[a]] \ asked[a]
  /\ asked' = [asked EXCEPT ![a] = @ \cup {q}]
  /\ \/ /\ Exportable(q, registry[q])
        /\ services' = [services EXCEPT ![a] = @ \cup Listed(q, registry[q])]
        /\ UNCHANGED faults
     \/ ~Exportable(q, registry[q]) /\ UNCHANGED <<services, faults>>
     \/ Fault /\ UNCHANGED services
  /\ UNCHANGED <<registry, files, pc, op, path, cfg, entries>>

Judge(a) ==
  /\ At(a, "peers")
  /\ Goto(a, IF Conflicting(services[a]) THEN "failed" ELSE "save")
  /\ UNCHANGED <<registry, files, op, path, cfg, entries, services, asked, faults>>

\* Faulty variant: the peers are not waited for.
ValidateEarly(a) == Judge(a)

Validate(a) == asked[a] = Peers[Home[a]] /\ Judge(a)

\* Faulty variant: the file is deleted first.
SaveLast(a) ==
  \/ /\ At(a, "save") /\ op[a] = "delete" /\ files[Home[a]][path[a]] # NoFile
     /\ WriteFile(a, NoFile, "save")
  \/ /\ At(a, "save") /\ (op[a] = "delete" => files[Home[a]][path[a]] = NoFile)
     /\ registry' = [registry EXCEPT ![Home[a]] = entries[a]]
     /\ Goto(a, "done")
     /\ UNCHANGED <<files, op, path, cfg, entries, services, asked, faults>>

Save(a) ==
  /\ At(a, "save")
  /\ registry' = [registry EXCEPT ![Home[a]] = entries[a]]
  /\ Goto(a, IF op[a] = "delete" THEN "remove" ELSE "done")
  /\ UNCHANGED <<files, op, path, cfg, entries, services, asked, faults>>

Forget(a) ==
  /\ Goto(a, "idle")
  /\ op' = [op EXCEPT ![a] = "none"]
  /\ path' = [path EXCEPT ![a] = NoPath]
  /\ cfg' = [cfg EXCEPT ![a] = NoFile]
  /\ entries' = [entries EXCEPT ![a] = NoEntries]
  /\ services' = [services EXCEPT ![a] = {}]
  /\ asked' = [asked EXCEPT ![a] = {}]
  /\ UNCHANGED <<registry, files>>

Finish(a) == pc[a] \in {"done", "failed"} /\ Forget(a) /\ UNCHANGED faults

\* The command is killed.
Abort(a) == pc[a] \notin {"idle", "done", "failed"} /\ Forget(a) /\ Fault

----
Step(a) ==
  \/ \E p \in Path : Register(a, p)
  \/ \E c \in Config : Handoff(a, c)
  \/ \E o \in Op, i \in Id : Unregister(a, o, i)
  \/ \E i \in Id : Rename(a, i)
  \/ Write(a) \/ RenameFile(a) \/ DeleteFile(a)
  \/ Load(a) \/ Insert(a) \/ Export(a)
  \/ (\E q \in Machine : AskPeer(a, q)) \/ Validate(a) \/ Save(a)
  \/ Finish(a) \/ Abort(a)

Next == (\E a \in Actor : Step(a)) /\ UNCHANGED company

Spec == Init /\ [][Next]_vars

----
TypeOK ==
  /\ registry \in [Machine -> [Id -> Path \cup {NoPath}]]
  /\ files \in [Machine -> [Path -> Config \cup {NoFile}]]
  /\ pc \in [Actor -> Stage]
  /\ op \in [Actor -> Op \cup {"none"}]
  /\ path \in [Actor -> Path \cup {NoPath}]
  /\ cfg \in [Actor -> Config \cup {NoFile}]
  /\ entries \in [Actor -> [Id -> Path \cup {NoPath}]]
  /\ services \in [Actor -> SUBSET Config]
  /\ asked \in [Actor -> SUBSET Machine]
  /\ faults \in 0 .. MaxFaults

Ledger(m) == Listed(m, registry[m]) \ {NoFile}

\* One owner never assigns a port to two services of one registry (README.md:12).
OwnerLocalPorts == \A m \in Machine : ~Conflicting(Ledger(m))

NoHandoffs == \A a \in company : "handoff" \notin Allowed[a]

\* So it is where no command is a handoff: register and unregister may overlap, lose each
\* other's entries and be killed, yet what they write has been validated.
RegistrarsKeepPorts == NoHandoffs => OwnerLocalPorts

Serial == company \notin Overlap

\* Of commands that do not overlap, a register or handoff that reports success leaves no
\* conflict, not on its machine and, if every peer it asks has answered, on none of them;
\* even after a handoff that was refused has left one (validate_registry_ports is run
\* before the save).
SuccessMeansNoConflict ==
  Serial => \A a \in Actor :
    LET m == Home[a]
        heard == {m} \cup IF faults = 0 THEN Peers[m] ELSE {}
    IN pc[a] = "done" /\ op[a] \in {"register", "handoff"}
         => ~Conflicting(UNION {Ledger(q) : q \in heard})

\* Commands that do not overlap, killed anywhere, never leave an entry whose file
\* is gone; every load of the registry's configurations would fail on it.
LedgerLoads == Serial => \A m \in Machine : Exportable(m, registry[m])

\* An entry's file, while there is one, is about the entry's id, where ids have file
\* stems of their own: a command about one service never acts on another's record,
\* whatever the registry lost to commands that overlap.
EntryNamesItsService ==
  \A m \in Machine, i \in Id :
    LET p == registry[m][i] IN
    p # NoPath /\ files[m][p] # NoFile => files[m][p].id = i
====
