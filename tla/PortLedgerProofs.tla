---- MODULE PortLedgerProofs ----
(***************************************************************************)
(* Proofs about PortLedger, for any machines, services, files and number   *)
(* of commands that overlap, lose each other's entries and are killed.     *)
(***************************************************************************)
EXTENDS LedgerScan, PortScanProofs

USE LedgerAssumption

LEMMA NamedPaths ==
  ASSUME NEW reg \in [Id -> Path \cup {NoPath}]
  PROVE  Named(reg) \subseteq Path
BY DEF Named

LEMMA ListedType ==
  ASSUME TypeOK, NEW m \in Machine, NEW reg \in [Id -> Path \cup {NoPath}],
         Exportable(m, reg)
  PROVE  Listed(m, reg) \in SUBSET Config
<1>1. files[m] \in [Path -> Config \cup {NoFile}]
  BY DEF TypeOK
<1>2. Named(reg) \subseteq Path
  BY NamedPaths
<1>3. \A p \in Named(reg) : files[m][p] \in Config \cup {NoFile}
  BY <1>1, <1>2
<1> QED
  BY <1>3 DEF Listed, Exportable

\* What the start of a command keeps typed.
LEMMA BeginType ==
  ASSUME TypeOK, NEW a \in Actor, NEW o, NEW p \in Path, NEW c \in Config \cup {NoFile},
         NEW e \in [Id -> Path \cup {NoPath}], NEW stage \in Stage,
         Begin(a, o, p, c, e, stage)
  PROVE  TypeOK'
<1>1. o \in Op
  BY DEF Begin
<1> QED
  BY <1>1 DEF Begin, TypeOK, Goto

LEMMA WriteFileType ==
  ASSUME TypeOK, NEW a \in Actor, NEW c \in Config \cup {NoFile}, NEW stage \in Stage,
         WriteFile(a, c, stage)
  PROVE  TypeOK'
<1>1. [files[Home[a]] EXCEPT ![path[a]] = c] \in [Path -> Config \cup {NoFile}]
  BY DEF TypeOK
<1>2. files' = [files EXCEPT ![Home[a]] = [files[Home[a]] EXCEPT ![path[a]] = c]]
  BY DEF WriteFile
<1>3. files' \in [Machine -> [Path -> Config \cup {NoFile}]]
  BY <1>1, <1>2 DEF TypeOK
<1>4. pc' \in [Actor -> Stage]
  BY DEF WriteFile, Goto, TypeOK
<1> QED
  BY <1>3, <1>4 DEF WriteFile, TypeOK

LEMMA ForgetType ==
  ASSUME TypeOK, NEW a \in Actor, Forget(a), faults' \in 0 .. MaxFaults
  PROVE  TypeOK'
BY DEF TypeOK, Forget, Goto, NoEntries, Stage

LEMMA StepType ==
  ASSUME TypeOK, NEW a \in Actor, Step(a)
  PROVE  TypeOK'
<1> USE DEF At, Goto, Stage
<1>a. Home[a] \in Machine /\ NoEntries \in [Id -> Path \cup {NoPath}]
  BY DEF NoEntries
<1>1. ASSUME NEW p \in Path, Register(a, p) PROVE TypeOK'
  BY <1>1, <1>a, BeginType DEF Register
<1>2. ASSUME NEW c \in Config, Handoff(a, c) PROVE TypeOK'
  <2>1. HandoffPath[c.id] \in Path
    BY DEF Config
  <2> QED
    BY <1>2, <1>a, <2>1, BeginType DEF Handoff
<1>3. ASSUME NEW o \in Op, NEW i \in Id, Unregister(a, o, i) PROVE TypeOK'
  <2> DEFINE reg == registry[Home[a]]
  <2>1. reg[i] \in Path /\ [reg EXCEPT ![i] = NoPath] \in [Id -> Path \cup {NoPath}]
    BY <1>3, <1>a DEF Unregister, TypeOK
  <2>2. Begin(a, o, reg[i], NoFile, [reg EXCEPT ![i] = NoPath], "save")
    BY <1>3 DEF Unregister
  <2> HIDE DEF reg
  <2> QED
    BY <2>1, <2>2, BeginType
<1>4. ASSUME NEW i \in Id, Rename(a, i) PROVE TypeOK'
  <2> DEFINE p == registry[Home[a]][i]
  <2>1. p \in Path
    BY <1>4, <1>a DEF Rename, TypeOK
  <2>2. files[Home[a]][p] \in Config \cup {NoFile}
    BY <1>a, <2>1 DEF TypeOK
  <2>3. Begin(a, "rename", p, files[Home[a]][p], NoEntries, "rename")
    BY <1>4 DEF Rename
  <2> HIDE DEF p
  <2> QED
    BY <1>a, <2>1, <2>2, <2>3, BeginType
<1>5. ASSUME Write(a) \/ RenameFile(a) PROVE TypeOK'
  <2>1. cfg[a] \in Config \cup {NoFile}
    BY DEF TypeOK
  <2> QED
    BY <1>5, <2>1, WriteFileType DEF Write, RenameFile
<1>6. CASE DeleteFile(a)
  BY <1>6, WriteFileType DEF DeleteFile
<1>7. CASE Load(a)
  <2>1. pc' = [pc EXCEPT ![a] = "insert"] /\ entries' = [entries EXCEPT ![a] = registry[Home[a]]]
    BY <1>7 DEF Load
  <2>2. entries' \in [Actor -> [Id -> Path \cup {NoPath}]] /\ pc' \in [Actor -> Stage]
    BY <1>a, <2>1 DEF TypeOK
  <2> QED
    BY <1>7, <2>2 DEF Load, TypeOK
<1>8. CASE Insert(a)
  <2> DEFINE c == files[Home[a]][path[a]]
  <2>1. \/ pc' = [pc EXCEPT ![a] = "failed"]
        \/ pc' = [pc EXCEPT ![a] = "export"]
    BY <1>8 DEF Insert
  <2>2. pc' \in [Actor -> Stage]
    BY <2>1 DEF TypeOK
  <2>3. entries[a] \in [Id -> Path \cup {NoPath}] /\ path[a] \in Path \cup {NoPath}
    BY DEF TypeOK
  <2>4. [entries[a] EXCEPT ![c.id] = path[a]] \in [Id -> Path \cup {NoPath}]
    BY <2>3
  <2>5. \/ entries' = entries
        \/ entries' = [entries EXCEPT ![a] = [entries[a] EXCEPT ![c.id] = path[a]]]
    BY <1>8 DEF Insert
  <2>6. entries' \in [Actor -> [Id -> Path \cup {NoPath}]]
    <3>1. \A e \in [Id -> Path \cup {NoPath}] :
            [entries EXCEPT ![a] = e] \in [Actor -> [Id -> Path \cup {NoPath}]]
      BY DEF TypeOK
    <3>2. CASE entries' = entries
      BY <3>2 DEF TypeOK
    <3>3. CASE entries' = [entries EXCEPT ![a] = [entries[a] EXCEPT ![c.id] = path[a]]]
      BY <2>4, <3>1, <3>3, Zenon
    <3> QED
      BY <2>5, <3>2, <3>3
  <2>7. UNCHANGED <<registry, files, op, path, cfg, services, asked, faults>>
    BY <1>8 DEF Insert
  <2> QED
    BY <2>2, <2>6, <2>7 DEF TypeOK
<1>9. CASE Export(a)
  <2>1. \/ pc' = [pc EXCEPT ![a] = "failed"]
        \/ pc' = [pc EXCEPT ![a] = "peers"]
    BY <1>9 DEF Export, ExportOf
  <2>2. pc' \in [Actor -> Stage]
    BY <2>1 DEF TypeOK
  <2>3. entries[a] \in [Id -> Path \cup {NoPath}]
    BY DEF TypeOK
  <2>4. \/ services' = services
        \/ /\ Exportable(Home[a], entries[a])
           /\ services' = [services EXCEPT ![a] = Listed(Home[a], entries[a])]
    BY <1>9 DEF Export, ExportOf
  <2>5. services' \in [Actor -> SUBSET Config]
    <3>1. Exportable(Home[a], entries[a]) => Listed(Home[a], entries[a]) \in SUBSET Config
      BY <1>a, <2>3, ListedType
    <3>2. services \in [Actor -> SUBSET Config]
      BY DEF TypeOK
    <3> QED
      BY <2>4, <3>1, <3>2
  <2>6. UNCHANGED <<registry, files, op, path, cfg, entries, asked, faults>>
    BY <1>9 DEF Export, ExportOf
  <2> QED
    BY <2>2, <2>5, <2>6 DEF TypeOK
<1>10. ASSUME NEW q \in Machine, AskPeer(a, q) PROVE TypeOK'
  <2>1. registry[q] \in [Id -> Path \cup {NoPath}]
    BY DEF TypeOK
  <2>2. \/ services' = services
        \/ /\ Exportable(q, registry[q])
           /\ services' = [services EXCEPT ![a] = services[a] \cup Listed(q, registry[q])]
    BY <1>10 DEF AskPeer
  <2>3. services' \in [Actor -> SUBSET Config]
    <3>1. Exportable(q, registry[q]) => Listed(q, registry[q]) \in SUBSET Config
      BY <2>1, ListedType
    <3>2. services \in [Actor -> SUBSET Config]
      BY DEF TypeOK
    <3> QED
      BY <2>2, <3>1, <3>2
  <2>4. asked' = [asked EXCEPT ![a] = asked[a] \cup {q}]
    BY <1>10 DEF AskPeer
  <2>5. asked' \in [Actor -> SUBSET Machine]
    BY <2>4 DEF TypeOK
  <2>6. \/ faults' = faults
        \/ faults < MaxFaults /\ faults' = faults + 1
    BY <1>10 DEF AskPeer, Fault
  <2>7. faults' \in 0 .. MaxFaults
    BY <2>6 DEF TypeOK
  <2>8. UNCHANGED <<registry, files, pc, op, path, cfg, entries>>
    BY <1>10 DEF AskPeer
  <2> QED
    BY <2>3, <2>5, <2>7, <2>8 DEF TypeOK
<1>11. CASE Validate(a)
  <2>1. \/ pc' = [pc EXCEPT ![a] = "failed"]
        \/ pc' = [pc EXCEPT ![a] = "save"]
    BY <1>11 DEF Validate, Judge
  <2>2. pc' \in [Actor -> Stage]
    BY <2>1 DEF TypeOK
  <2>3. UNCHANGED <<registry, files, op, path, cfg, entries, services, asked, faults>>
    BY <1>11 DEF Validate, Judge
  <2> QED
    BY <2>2, <2>3 DEF TypeOK
<1>12. CASE Save(a)
  <2>1. /\ registry' = [registry EXCEPT ![Home[a]] = entries[a]]
        /\ UNCHANGED <<files, op, path, cfg, entries, services, asked, faults>>
    BY <1>12 DEF Save
  <2>2. \/ pc' = [pc EXCEPT ![a] = "remove"]
        \/ pc' = [pc EXCEPT ![a] = "done"]
    BY <1>12 DEF Save
  <2>3. pc' \in [Actor -> Stage]
    BY <2>2 DEF TypeOK
  <2>4. registry' \in [Machine -> [Id -> Path \cup {NoPath}]]
    BY <1>a, <2>1 DEF TypeOK
  <2> QED
    BY <2>1, <2>3, <2>4 DEF TypeOK
<1>13. CASE Finish(a)
  BY <1>13, ForgetType DEF Finish, TypeOK
<1>14. CASE Abort(a)
  <2>1. faults' \in 0 .. MaxFaults
    BY <1>14 DEF Abort, Fault, TypeOK
  <2> QED
    BY <1>14, <2>1, ForgetType DEF Abort
<1> QED
  BY <1>1, <1>2, <1>3, <1>4, <1>5, <1>6, <1>7, <1>8, <1>9, <1>10, <1>11, <1>12, <1>13,
     <1>14 DEF Step

\* Every variable keeps its type, whatever commands run.
THEOREM TypeCorrect == Spec => []TypeOK
<1>1. Init => TypeOK
  BY DEF Init, TypeOK, NoEntries, Stage
<1>2. TypeOK /\ [Next]_vars => TypeOK'
  <2> SUFFICES ASSUME TypeOK, [Next]_vars PROVE TypeOK'
    OBVIOUS
  <2>1. CASE UNCHANGED vars
    BY <2>1 DEF vars, localVars, TypeOK
  <2> QED
    BY <2>1, StepType DEF Next
<1> QED
  BY <1>1, <1>2, PTL DEF Spec

----
(***************************************************************************)
(* RegistrarsKeepPorts: where no command is a handoff.  A registry alone does  *)
(* not say which ports it claims, its files do, and they come and go.  The *)
(* invariant measures every registry, on disk or in a command's memory, by *)
(* the files the projects were given, which no command but handoff alters. *)
(***************************************************************************)
Claimed(m, reg) == {Project[m][p] : p \in Named(reg)} \ {NoFile}

Kept == \A m \in Machine, p \in Path : files[m][p] \in {Project[m][p], NoFile}

DiskFine == \A m \in Machine : ~Conflicting(Claimed(m, registry[m]))

CommandFine(a) ==
  /\ pc[a] # "write"
  /\ pc[a] = "rename" => cfg[a] = Project[Home[a]][path[a]]
  /\ pc[a] = "peers" => Claimed(Home[a], entries[a]) \subseteq services[a]
  /\ pc[a] = "save" => ~Conflicting(Claimed(Home[a], entries[a]))

LedgerInv == TypeOK /\ Kept /\ DiskFine /\ \A a \in Actor : CommandFine(a)

LEMMA ConflictGrows ==
  ASSUME NEW S, NEW T, S \subseteq T, Conflicting(S)
  PROVE  Conflicting(T)
BY DEF Conflicting

\* Without the entry of one service a registry claims less.
LEMMA ClaimShrinks ==
  ASSUME NEW m \in Machine, NEW reg \in [Id -> Path \cup {NoPath}], NEW i \in Id
  PROVE  Claimed(m, [reg EXCEPT ![i] = NoPath]) \subseteq Claimed(m, reg)
<1>1. Named([reg EXCEPT ![i] = NoPath]) \subseteq Named(reg)
  BY DEF Named
<1> QED
  BY <1>1 DEF Claimed

\* What the files say is among what the registry claims, and all of it when no
\* file is gone.
LEMMA ListedIsClaimed ==
  ASSUME TypeOK, Kept, NEW m \in Machine, NEW reg \in [Id -> Path \cup {NoPath}]
  PROVE  /\ Listed(m, reg) \ {NoFile} \subseteq Claimed(m, reg)
         /\ Exportable(m, reg) => Claimed(m, reg) \subseteq Listed(m, reg)
<1>1. \A p \in Named(reg) : files[m][p] \in {Project[m][p], NoFile}
  BY NamedPaths DEF Kept
<1> QED
  BY <1>1 DEF Listed, Claimed, Exportable

\* A step of one command leaves the memory of the others alone.
LEMMA OthersKeep ==
  ASSUME TypeOK, NEW a \in Actor, NEW b \in Actor, a # b, Step(a)
  PROVE  UNCHANGED <<pc[b], cfg[b], path[b], entries[b], services[b], asked[b]>>
<1> USE DEF Goto, TypeOK
<1>1. ASSUME NEW o, NEW p, NEW c, NEW e, NEW stage, Begin(a, o, p, c, e, stage)
      PROVE  UNCHANGED <<pc[b], cfg[b], path[b], entries[b], services[b], asked[b]>>
  BY <1>1 DEF Begin
<1>2. ASSUME NEW c, NEW stage, WriteFile(a, c, stage)
      PROVE  UNCHANGED <<pc[b], cfg[b], path[b], entries[b], services[b], asked[b]>>
  BY <1>2 DEF WriteFile
<1>3. ASSUME Forget(a)
      PROVE  UNCHANGED <<pc[b], cfg[b], path[b], entries[b], services[b], asked[b]>>
  BY <1>3 DEF Forget
<1>4. CASE (\E p \in Path : Register(a, p)) \/ (\E c \in Config : Handoff(a, c))
  BY <1>1, <1>4 DEF Register, Handoff
<1>5. ASSUME NEW o \in Op, NEW i \in Id, Unregister(a, o, i)
      PROVE  UNCHANGED <<pc[b], cfg[b], path[b], entries[b], services[b], asked[b]>>
  BY <1>1, <1>5 DEF Unregister
<1>6. ASSUME NEW i \in Id, Rename(a, i)
      PROVE  UNCHANGED <<pc[b], cfg[b], path[b], entries[b], services[b], asked[b]>>
  BY <1>1, <1>6 DEF Rename
<1>7. CASE Write(a) \/ RenameFile(a) \/ DeleteFile(a)
  BY <1>2, <1>7 DEF Write, RenameFile, DeleteFile
<1>8. CASE Load(a) \/ Insert(a)
  BY <1>8 DEF Load, Insert
<1>9. CASE Export(a) \/ \E q \in Machine : AskPeer(a, q)
  BY <1>9 DEF Export, ExportOf, AskPeer
<1>10. CASE Validate(a) \/ Save(a)
  BY <1>10 DEF Validate, Judge, Save
<1>11. CASE Finish(a) \/ Abort(a)
  BY <1>3, <1>11 DEF Finish, Abort
<1> QED
  BY <1>4, <1>5, <1>6, <1>7, <1>8, <1>9, <1>10, <1>11 DEF Step

LEMMA OthersFine ==
  ASSUME TypeOK, NEW a \in Actor, NEW b \in Actor, a # b, Step(a), CommandFine(b)
  PROVE  CommandFine(b)'
<1>1. /\ pc'[b] = pc[b] /\ cfg'[b] = cfg[b] /\ path'[b] = path[b]
      /\ entries'[b] = entries[b] /\ services'[b] = services[b]
  BY OthersKeep
<1>2. Claimed(Home[b], entries[b])' = Claimed(Home[b], entries[b])
  BY <1>1 DEF Claimed, Named
<1> QED
  BY <1>1, <1>2 DEF CommandFine

\* Nothing is asked of a command outside four stages.
LEMMA PlainStage ==
  ASSUME NEW a \in Actor, pc'[a] \notin {"write", "rename", "peers", "save"}
  PROVE  CommandFine(a)'
BY DEF CommandFine

\* The files: rename writes back what it found there, delete takes it away.
LEMMA KeptStep ==
  ASSUME LedgerInv, NEW a \in Actor, Step(a)
  PROVE  Kept'
<1> USE DEF LedgerInv
<1>1. ASSUME NEW c, NEW stage, WriteFile(a, c, stage),
             c \in {Project[Home[a]][path[a]], NoFile}
      PROVE  Kept'
  BY <1>1 DEF WriteFile, Kept, TypeOK
<1>2. CASE files' = files
  BY <1>2 DEF Kept
<1>3. ~Write(a)
  BY DEF Write, At, CommandFine
<1>4. CASE RenameFile(a)
  BY <1>1, <1>4 DEF RenameFile, At, CommandFine
<1>5. CASE DeleteFile(a)
  BY <1>1, <1>5 DEF DeleteFile
<1>6. Write(a) \/ RenameFile(a) \/ DeleteFile(a) \/ files' = files
  BY DEF Step, Register, Handoff, Unregister, Rename, Begin, Load, Insert, Export,
         ExportOf, AskPeer, Validate, Judge, Save, Finish, Abort, Forget
<1> QED
  BY <1>2, <1>3, <1>4, <1>5, <1>6

\* The registries: what a command saves has been found free of conflict.
LEMMA DiskStep ==
  ASSUME LedgerInv, NEW a \in Actor, Step(a)
  PROVE  DiskFine'
<1> USE DEF LedgerInv
<1>1. CASE registry' = registry
  BY <1>1 DEF DiskFine, Claimed, Named
<1>2. CASE Save(a)
  <2>1. registry' = [registry EXCEPT ![Home[a]] = entries[a]]
    BY <1>2 DEF Save
  <2>2. ~Conflicting(Claimed(Home[a], entries[a]))
    BY <1>2 DEF Save, At, CommandFine
  <2>3. ASSUME NEW m \in Machine PROVE ~Conflicting(Claimed(m, registry'[m]))
    <3>1. registry'[m] = registry[m] \/ (m = Home[a] /\ registry'[m] = entries[a])
      BY <2>1 DEF TypeOK
    <3> QED
      BY <2>2, <3>1 DEF DiskFine
  <2> QED
    BY <2>3 DEF DiskFine, Claimed, Named
<1>3. Save(a) \/ registry' = registry
  BY DEF Step, Register, Handoff, Unregister, Rename, Begin, Write, RenameFile, DeleteFile,
         WriteFile, Load, Insert, Export, ExportOf, AskPeer, Validate, Judge, Finish,
         Abort, Forget
<1> QED
  BY <1>1, <1>2, <1>3

\* The command that takes the step.
LEMMA CommandStep ==
  ASSUME NoHandoffs, LedgerInv, NEW a \in Actor, Step(a)
  PROVE  CommandFine(a)'
<1> USE DEF LedgerInv
<1>a. /\ Home[a] \in Machine
      /\ registry[Home[a]] \in [Id -> Path \cup {NoPath}]
      /\ entries[a] \in [Id -> Path \cup {NoPath}]
  BY DEF TypeOK
<1>1. ASSUME NEW p \in Path, Register(a, p) PROVE CommandFine(a)'
  <2>1. pc'[a] = "load"
    BY <1>1 DEF Register, Begin, Goto, TypeOK
  <2> QED
    BY <2>1, PlainStage
<1>2. ASSUME NEW c \in Config, Handoff(a, c) PROVE FALSE
  BY <1>2 DEF Handoff, Begin, Free, NoHandoffs
<1>3. ASSUME NEW o \in Op, NEW i \in Id, Unregister(a, o, i) PROVE CommandFine(a)'
  <2> DEFINE reg == registry[Home[a]]
             less == [reg EXCEPT ![i] = NoPath]
  <2>1. pc'[a] = "save" /\ entries'[a] = less
    BY <1>3 DEF Unregister, Begin, Goto, TypeOK
  <2>2. Claimed(Home[a], less) \subseteq Claimed(Home[a], reg)
    BY <1>a, ClaimShrinks
  <2>3. ~Conflicting(Claimed(Home[a], reg))
    BY <1>a DEF DiskFine
  <2>4. ~Conflicting(Claimed(Home[a], less))
    BY <2>2, <2>3, ConflictGrows
  <2>5. Claimed(Home[a], entries[a])' = Claimed(Home[a], less)
    BY <2>1 DEF Claimed, Named
  <2> QED
    BY <2>1, <2>4, <2>5 DEF CommandFine
<1>4. ASSUME NEW i \in Id, Rename(a, i) PROVE CommandFine(a)'
  <2> DEFINE p == registry[Home[a]][i]
  <2>1. p \in Path /\ files[Home[a]][p] # NoFile
    BY <1>4, <1>a DEF Rename
  <2>2. files[Home[a]][p] = Project[Home[a]][p]
    BY <1>a, <2>1 DEF Kept
  <2>3. pc'[a] = "rename" /\ path'[a] = p /\ cfg'[a] = files[Home[a]][p]
    BY <1>4 DEF Rename, Begin, Goto, TypeOK
  <2> QED
    BY <2>2, <2>3 DEF CommandFine
<1>5. CASE Write(a)
  BY <1>5 DEF Write, At, CommandFine
<1>6. CASE RenameFile(a) \/ DeleteFile(a)
  <2>1. pc'[a] = "done"
    BY <1>6 DEF RenameFile, DeleteFile, WriteFile, Goto, TypeOK
  <2> QED
    BY <2>1, PlainStage
<1>7. CASE Load(a)
  <2>1. pc'[a] = "insert"
    BY <1>7 DEF Load, Goto, TypeOK
  <2> QED
    BY <2>1, PlainStage
<1>8. CASE Insert(a)
  <2>1. pc'[a] \in {"failed", "export"}
    BY <1>8 DEF Insert, Goto, TypeOK
  <2> QED
    BY <2>1, PlainStage
<1>9. CASE Export(a)
  <2>1. CASE Exportable(Home[a], entries[a])
    <3>1. /\ pc'[a] = "peers" /\ entries' = entries
          /\ services'[a] = Listed(Home[a], entries[a])
      BY <1>9, <2>1 DEF Export, ExportOf, Goto, TypeOK
    <3>2. Claimed(Home[a], entries[a]) \subseteq services'[a]
      BY <1>a, <2>1, <3>1, ListedIsClaimed
    <3>3. Claimed(Home[a], entries[a])' = Claimed(Home[a], entries[a])
      BY <3>1 DEF Claimed, Named
    <3> QED
      BY <3>1, <3>2, <3>3 DEF CommandFine
  <2>2. CASE ~Exportable(Home[a], entries[a])
    <3>1. pc'[a] = "failed"
      BY <1>9, <2>2 DEF Export, ExportOf, Goto, TypeOK
    <3> QED
      BY <3>1, PlainStage
  <2> QED
    BY <2>1, <2>2
<1>10. ASSUME NEW q \in Machine, AskPeer(a, q) PROVE CommandFine(a)'
  <2>1. pc[a] = "peers" /\ pc' = pc /\ entries' = entries
    BY <1>10 DEF AskPeer, At
  <2>2. services[a] \subseteq services'[a]
    BY <1>10 DEF AskPeer, TypeOK
  <2>3. Claimed(Home[a], entries[a])' = Claimed(Home[a], entries[a])
    BY <2>1 DEF Claimed, Named
  <2> QED
    BY <2>1, <2>2, <2>3 DEF CommandFine
<1>11. CASE Validate(a)
  <2>1. /\ pc[a] = "peers" /\ entries' = entries
        /\ pc'[a] = IF Conflicting(services[a]) THEN "failed" ELSE "save"
    BY <1>11 DEF Validate, Judge, At, Goto, TypeOK
  <2>2. CASE Conflicting(services[a])
    BY <2>1, <2>2, PlainStage
  <2>3. CASE ~Conflicting(services[a])
    <3>1. ~Conflicting(Claimed(Home[a], entries[a]))
      BY <2>1, <2>3, ConflictGrows DEF CommandFine
    <3>2. Claimed(Home[a], entries[a])' = Claimed(Home[a], entries[a])
      BY <2>1 DEF Claimed, Named
    <3> QED
      BY <2>1, <2>3, <3>1, <3>2 DEF CommandFine
  <2> QED
    BY <2>2, <2>3
<1>12. CASE Save(a)
  <2>1. pc'[a] \in {"remove", "done"}
    BY <1>12 DEF Save, Goto, TypeOK
  <2> QED
    BY <2>1, PlainStage
<1>13. CASE Finish(a) \/ Abort(a)
  <2>1. pc'[a] = "idle"
    BY <1>13 DEF Finish, Abort, Forget, Goto, TypeOK
  <2> QED
    BY <2>1, PlainStage
<1> QED
  BY <1>1, <1>2, <1>3, <1>4, <1>5, <1>6, <1>7, <1>8, <1>9, <1>10, <1>11, <1>12, <1>13
  DEF Step

\* Whoever registers, unregisters, deletes and renames at the same time, whatever
\* peers answer and wherever commands are killed: no registry ever gives a port of
\* one owner to two services.
THEOREM LedgerCorrect == Spec => []RegistrarsKeepPorts
<1> DEFINE Inv == NoHandoffs => LedgerInv
<1>1. Init => Inv
  <2> SUFFICES ASSUME Init PROVE LedgerInv
    OBVIOUS
  <2>1. TypeOK
    BY DEF Init, TypeOK, NoEntries, Stage
  <2>2. Kept
    BY DEF Init, Kept
  <2>3. \A m \in Machine : Claimed(m, registry[m]) = {}
    BY DEF Init, Claimed, Named, NoEntries
  <2>4. DiskFine
    BY <2>3 DEF DiskFine, Conflicting
  <2>5. \A a \in Actor : pc[a] = "idle"
    BY DEF Init
  <2> QED
    BY <2>1, <2>2, <2>4, <2>5 DEF LedgerInv, CommandFine
<1>2. Inv /\ [Next]_vars => Inv'
  <2> SUFFICES ASSUME Inv, [Next]_vars, NoHandoffs' PROVE LedgerInv'
    OBVIOUS
  <2>a. company' = company
    BY DEF Next, vars
  <2>b. NoHandoffs /\ LedgerInv
    BY <2>a DEF NoHandoffs
  <2>1. CASE UNCHANGED vars
    <3>1. /\ UNCHANGED <<registry, files, faults>>
          /\ UNCHANGED <<pc, op, path, cfg, entries, services, asked>>
      BY <2>1 DEF vars, localVars
    <3>2. TypeOK'
      BY <2>b, <3>1 DEF TypeOK, LedgerInv
    <3>3. Kept' /\ DiskFine'
      BY <2>b, <3>1 DEF LedgerInv, Kept, DiskFine, Claimed, Named
    <3>4. ASSUME NEW a \in Actor PROVE CommandFine(a)'
      <4>1. Claimed(Home[a], entries[a])' = Claimed(Home[a], entries[a])
        BY <3>1 DEF Claimed, Named
      <4> QED
        BY <2>b, <3>1, <4>1 DEF LedgerInv, CommandFine
    <3> QED
      BY <3>2, <3>3, <3>4 DEF LedgerInv
  <2>2. ASSUME NEW a \in Actor, Step(a) PROVE LedgerInv'
    <3>1. TypeOK'
      BY <2>2, <2>b, StepType DEF LedgerInv
    <3>2. Kept' /\ DiskFine'
      BY <2>2, <2>b, KeptStep, DiskStep
    <3>3. ASSUME NEW b \in Actor PROVE CommandFine(b)'
      BY <2>2, <2>b, CommandStep, OthersFine DEF LedgerInv
    <3> QED
      BY <3>1, <3>2, <3>3 DEF LedgerInv
  <2> QED
    BY <2>1, <2>2 DEF Next
<1>3. Inv => RegistrarsKeepPorts
  <2> SUFFICES ASSUME LedgerInv, NEW m \in Machine PROVE ~Conflicting(Ledger(m))
    BY DEF RegistrarsKeepPorts, OwnerLocalPorts
  <2>1. Ledger(m) \subseteq Claimed(m, registry[m])
    BY ListedIsClaimed DEF Ledger, LedgerInv, TypeOK
  <2> QED
    BY <2>1, ConflictGrows DEF LedgerInv, DiskFine
<1> QED
  BY <1>1, <1>2, <1>3, PTL DEF Spec

----
(***************************************************************************)
(* EntryNamesItsService, whatever overlaps.  A file is about one id for    *)
(* good: the one whose handoffs go there, or the one its project wrote;    *)
(* what names the file, or is to be written to it, is about that id too.   *)
(***************************************************************************)
IsOf(m, p, i) ==
  HandoffPath[i] = p \/ (Project[m][p] # NoFile /\ Project[m][p].id = i)

\* Ids have file stems of their own (safe_file_stem alters some ids).
OwnStems ==
  \A m \in Machine, p \in Path, i, j \in Id : IsOf(m, p, i) /\ IsOf(m, p, j) => i = j

NamesTheirs(m, reg) == \A i \in Id : reg[i] # NoPath => IsOf(m, reg[i], i)

FilesTheirs ==
  \A m \in Machine, p \in Path : files[m][p] # NoFile => IsOf(m, p, files[m][p].id)

CommandTheirs(a) ==
  /\ NamesTheirs(Home[a], entries[a])
  /\ pc[a] # "idle" => path[a] # NoPath
  /\ cfg[a] # NoFile => IsOf(Home[a], path[a], cfg[a].id)

StemInv ==
  /\ TypeOK /\ FilesTheirs
  /\ \A m \in Machine : NamesTheirs(m, registry[m])
  /\ \A a \in Actor : CommandTheirs(a)

LEMMA FilesTheirsStep ==
  ASSUME StemInv, NEW a \in Actor, Step(a)
  PROVE  FilesTheirs'
<1> USE DEF StemInv
<1>1. ASSUME NEW c, NEW stage, WriteFile(a, c, stage), c # NoFile => c = cfg[a]
      PROVE  FilesTheirs'
  <2>1. c # NoFile => IsOf(Home[a], path[a], c.id)
    BY <1>1 DEF CommandTheirs
  <2>2. files' = [files EXCEPT ![Home[a]] = [files[Home[a]] EXCEPT ![path[a]] = c]]
    BY <1>1 DEF WriteFile
  <2>3. ASSUME NEW m \in Machine, NEW p \in Path
        PROVE  \/ files'[m][p] = files[m][p]
               \/ m = Home[a] /\ p = path[a] /\ files'[m][p] = c
    BY <2>2 DEF TypeOK
  <2>4. ASSUME NEW m \in Machine, NEW p \in Path, files'[m][p] # NoFile
        PROVE  IsOf(m, p, files'[m][p].id)
    BY <2>1, <2>3, <2>4 DEF FilesTheirs
  <2> QED
    BY <2>4 DEF FilesTheirs, IsOf
<1>2. CASE files' = files
  BY <1>2 DEF FilesTheirs, IsOf
<1>3. CASE Write(a) \/ RenameFile(a) \/ DeleteFile(a)
  BY <1>1, <1>3 DEF Write, RenameFile, DeleteFile
<1>4. Write(a) \/ RenameFile(a) \/ DeleteFile(a) \/ files' = files
  BY DEF Step, Register, Handoff, Unregister, Rename, Begin, Load, Insert, Export,
         ExportOf, AskPeer, Validate, Judge, Save, Finish, Abort, Forget
<1> QED
  BY <1>2, <1>3, <1>4

LEMMA RegistryTheirsStep ==
  ASSUME StemInv, NEW a \in Actor, Step(a), NEW m \in Machine
  PROVE  NamesTheirs(m, registry[m])'
<1> USE DEF StemInv
<1>1. CASE registry' = registry
  BY <1>1 DEF NamesTheirs, IsOf
<1>2. CASE Save(a)
  <2>1. registry'[m] = registry[m] \/ (m = Home[a] /\ registry'[m] = entries[a])
    BY <1>2 DEF Save, TypeOK
  <2>2. NamesTheirs(m, registry'[m])
    BY <2>1 DEF CommandTheirs
  <2> QED
    BY <2>2 DEF NamesTheirs, IsOf
<1>3. Save(a) \/ registry' = registry
  BY DEF Step, Register, Handoff, Unregister, Rename, Begin, Write, RenameFile, DeleteFile,
         WriteFile, Load, Insert, Export, ExportOf, AskPeer, Validate, Judge, Finish,
         Abort, Forget
<1> QED
  BY <1>1, <1>2, <1>3

\* A command starts with what is about one service.
LEMMA BeginTheirs ==
  ASSUME TypeOK, NEW a \in Actor, NEW o, NEW p \in Path, NEW c, NEW e, NEW stage,
         Begin(a, o, p, c, e, stage), NamesTheirs(Home[a], e),
         c # NoFile => IsOf(Home[a], p, c.id)
  PROVE  CommandTheirs(a)'
<1>1. path'[a] = p /\ cfg'[a] = c /\ entries'[a] = e
  BY DEF Begin, TypeOK
<1> QED
  BY <1>1 DEF CommandTheirs, NamesTheirs, IsOf

\* A step that alters none of the three.
LEMMA HeldTheirs ==
  ASSUME NEW a \in Actor, CommandTheirs(a), pc[a] # "idle",
         UNCHANGED <<path, cfg, entries>>
  PROVE  CommandTheirs(a)'
BY DEF CommandTheirs, NamesTheirs, IsOf

LEMMA CommandTheirsStep ==
  ASSUME StemInv, NEW a \in Actor, Step(a)
  PROVE  CommandTheirs(a)'
<1> USE DEF StemInv
<1>a. /\ Home[a] \in Machine
      /\ registry[Home[a]] \in [Id -> Path \cup {NoPath}]
      /\ entries[a] \in [Id -> Path \cup {NoPath}]
  BY DEF TypeOK
<1>b. NamesTheirs(Home[a], NoEntries)
  BY DEF NamesTheirs, NoEntries
<1>1. ASSUME NEW p \in Path, Register(a, p) PROVE CommandTheirs(a)'
  BY <1>1, <1>b, BeginTheirs DEF Register
<1>2. ASSUME NEW c \in Config, Handoff(a, c) PROVE CommandTheirs(a)'
  <2>1. HandoffPath[c.id] \in Path /\ IsOf(Home[a], HandoffPath[c.id], c.id)
    BY DEF Config, IsOf
  <2> QED
    BY <1>2, <1>b, <2>1, BeginTheirs DEF Handoff
<1>3. ASSUME NEW o \in Op, NEW i \in Id, Unregister(a, o, i) PROVE CommandTheirs(a)'
  <2> DEFINE reg == registry[Home[a]]
             less == [reg EXCEPT ![i] = NoPath]
  <2>1. reg[i] \in Path /\ NamesTheirs(Home[a], reg)
    BY <1>3, <1>a DEF Unregister
  <2>2. NamesTheirs(Home[a], less)
    BY <1>a, <2>1 DEF NamesTheirs
  <2>3. Begin(a, o, reg[i], NoFile, less, "save")
    BY <1>3 DEF Unregister
  <2> HIDE DEF reg, less
  <2> QED
    BY <2>1, <2>2, <2>3, BeginTheirs
<1>4. ASSUME NEW i \in Id, Rename(a, i) PROVE CommandTheirs(a)'
  <2> DEFINE p == registry[Home[a]][i]
  <2>1. p \in Path
    BY <1>4, <1>a DEF Rename
  <2>2. files[Home[a]][p] # NoFile => IsOf(Home[a], p, files[Home[a]][p].id)
    BY <1>a, <2>1 DEF FilesTheirs
  <2>3. Begin(a, "rename", p, files[Home[a]][p], NoEntries, "rename")
    BY <1>4 DEF Rename
  <2> HIDE DEF p
  <2> QED
    BY <1>b, <2>1, <2>2, <2>3, BeginTheirs
<1>5. CASE Write(a) \/ RenameFile(a) \/ DeleteFile(a)
  BY <1>5, HeldTheirs DEF Write, RenameFile, DeleteFile, WriteFile, At
<1>6. CASE Load(a)
  <2>1. /\ path' = path /\ cfg' = cfg /\ entries'[a] = registry[Home[a]]
        /\ pc[a] # "idle"
    BY <1>6 DEF Load, At, TypeOK
  <2>2. NamesTheirs(Home[a], registry[Home[a]])
    BY <1>a
  <2> QED
    BY <2>1, <2>2 DEF CommandTheirs, NamesTheirs, IsOf
<1>7. CASE Insert(a)
  <2> DEFINE c == files[Home[a]][path[a]]
  <2>1. CASE c = NoFile
    BY <1>7, <2>1, HeldTheirs DEF Insert, At
  <2>2. CASE c # NoFile
    <3>1. path[a] \in Path
      BY <1>7 DEF Insert, At, CommandTheirs, TypeOK
    <3>2. IsOf(Home[a], path[a], c.id)
      BY <1>a, <2>2, <3>1 DEF FilesTheirs
    <3>3. /\ path' = path /\ cfg' = cfg /\ pc[a] # "idle"
          /\ entries'[a] = [entries[a] EXCEPT ![c.id] = path[a]]
      BY <1>7, <2>2 DEF Insert, At, TypeOK
    <3>4. NamesTheirs(Home[a], entries[a])
      BY DEF CommandTheirs
    <3> HIDE DEF c
    <3>5. NamesTheirs(Home[a], entries'[a])
      BY <1>a, <3>2, <3>3, <3>4 DEF NamesTheirs
    <3> QED
      BY <3>3, <3>5 DEF CommandTheirs, NamesTheirs, IsOf
  <2> QED
    BY <2>1, <2>2
<1>8. CASE Export(a) \/ (\E q \in Machine : AskPeer(a, q)) \/ Validate(a) \/ Save(a)
  BY <1>8, HeldTheirs DEF Export, ExportOf, AskPeer, Validate, Judge, Save, At
<1>9. CASE Finish(a) \/ Abort(a)
  <2>1. pc'[a] = "idle" /\ cfg'[a] = NoFile /\ entries'[a] = NoEntries
    BY <1>9 DEF Finish, Abort, Forget, Goto, TypeOK
  <2> QED
    BY <1>b, <2>1 DEF CommandTheirs, NamesTheirs, IsOf
<1> QED
  BY <1>1, <1>2, <1>3, <1>4, <1>5, <1>6, <1>7, <1>8, <1>9 DEF Step

LEMMA StemInvariance == Spec => []StemInv
<1>1. Init => StemInv
  <2> SUFFICES ASSUME Init PROVE StemInv
    OBVIOUS
  <2>1. TypeOK
    BY DEF Init, TypeOK, NoEntries, Stage
  <2>2. FilesTheirs
    BY DEF Init, FilesTheirs, IsOf
  <2>3. \A m \in Machine : NamesTheirs(m, registry[m])
    BY DEF Init, NamesTheirs, NoEntries
  <2>4. \A a \in Actor : CommandTheirs(a)
    BY DEF Init, CommandTheirs, NamesTheirs, NoEntries
  <2> QED
    BY <2>1, <2>2, <2>3, <2>4 DEF StemInv
<1>2. StemInv /\ [Next]_vars => StemInv'
  <2> SUFFICES ASSUME StemInv, [Next]_vars PROVE StemInv'
    OBVIOUS
  <2>1. CASE UNCHANGED vars
    <3>1. /\ UNCHANGED <<registry, files, faults>>
          /\ UNCHANGED <<pc, op, path, cfg, entries, services, asked>>
      BY <2>1 DEF vars, localVars
    <3>2. TypeOK'
      BY <3>1 DEF TypeOK, StemInv
    <3> QED
      BY <3>1, <3>2 DEF StemInv, FilesTheirs, CommandTheirs, NamesTheirs, IsOf
  <2>2. ASSUME NEW a \in Actor, Step(a) PROVE StemInv'
    <3>1. TypeOK'
      BY <2>2, StepType DEF StemInv
    <3>2. FilesTheirs' /\ \A m \in Machine : NamesTheirs(m, registry[m])'
      BY <2>2, FilesTheirsStep, RegistryTheirsStep
    <3>3. ASSUME NEW b \in Actor, b # a PROVE CommandTheirs(b)'
      <4>1. UNCHANGED <<pc[b], cfg[b], path[b], entries[b]>>
        BY <2>2, <3>3, OthersKeep DEF StemInv
      <4>2. CommandTheirs(b)
        BY DEF StemInv
      <4> QED
        BY <4>1, <4>2 DEF CommandTheirs, NamesTheirs, IsOf
    <3>4. CommandTheirs(a)'
      BY <2>2, CommandTheirsStep
    <3> QED
      BY <3>1, <3>2, <3>3, <3>4 DEF StemInv
  <2> QED
    BY <2>1, <2>2 DEF Next
<1> QED
  BY <1>1, <1>2, PTL DEF Spec

\* Where ids have file stems of their own, no registry ever leads from one service to
\* the record of another, whatever overlaps, gets lost or is killed.
THEOREM EntriesCorrect == OwnStems => (Spec => []EntryNamesItsService)
<1>1. StemInv => (OwnStems => EntryNamesItsService)
  <2> SUFFICES ASSUME StemInv, OwnStems, NEW m \in Machine, NEW i \in Id,
                      registry[m][i] # NoPath, files[m][registry[m][i]] # NoFile
               PROVE  files[m][registry[m][i]].id = i
    BY DEF EntryNamesItsService
  <2> DEFINE p == registry[m][i]
  <2>1. p \in Path /\ IsOf(m, p, i)
    BY DEF StemInv, TypeOK, NamesTheirs
  <2>2. files[m][p] \in Config
    BY <2>1 DEF StemInv, TypeOK
  <2>3. IsOf(m, p, files[m][p].id) /\ files[m][p].id \in Id
    BY <2>1, <2>2 DEF StemInv, FilesTheirs, Config
  <2> QED
    BY <2>1, <2>3 DEF OwnStems
<1>2. SUFFICES ASSUME OwnStems PROVE Spec => []EntryNamesItsService
  OBVIOUS
<1>3. StemInv => EntryNamesItsService
  BY <1>1, <1>2
<1> QED
  BY <1>3, StemInvariance, PTL

----
(***************************************************************************)
(* LedgerLoads and SuccessMeansNoConflict, of commands that do not overlap.*)
(* Only one of them is ever under way, so that what it has read is still   *)
(* true when it writes: what it has loaded loads, what it was told by the  *)
(* peers is what they say.                                                 *)
(***************************************************************************)
Alone == \A a, b \in Actor : pc[a] # "idle" /\ pc[b] # "idle" => a = b

\* What a command has to compare once the peers in S have answered.
Heard(a, S) ==
  Listed(Home[a], entries[a])
    \cup (IF faults = 0 THEN UNION {Listed(q, registry[q]) : q \in S} ELSE {})

Registers(a) == op[a] \in {"register", "handoff"}

\* The stages of a register or handoff, and what each command brings to its own.
StageFits(a) ==
  /\ pc[a] \in {"idle", "write", "load", "insert", "export"} => asked[a] = {}
  /\ pc[a] \in {"write", "load", "insert", "export", "peers"} => Registers(a)
  /\ pc[a] \in {"write", "rename"} => cfg[a] # NoFile
  /\ pc[a] = "rename" => op[a] = "rename"
  /\ pc[a] = "remove" => op[a] = "delete"

\* The registry a command holds can be loaded, also after the file it deletes is gone.
MemoryLoads(a) ==
  /\ pc[a] \in {"insert", "export", "peers", "save"} => Exportable(Home[a], entries[a])
  /\ pc[a] = "save" /\ op[a] = "delete" => path[a] \notin Named(entries[a])
  /\ pc[a] = "remove" => path[a] \notin Named(registry[Home[a]])

\* What it will save has been compared with the peers.
MemoryJudged(a) ==
  /\ pc[a] = "peers" => Heard(a, asked[a]) \subseteq services[a]
  /\ pc[a] = "save" /\ Registers(a) => ~Conflicting(Heard(a, Peers[Home[a]]))

NoConflictLeft(a) ==
  LET heard == {Home[a]} \cup IF faults = 0 THEN Peers[Home[a]] ELSE {} IN
  pc[a] = "done" /\ Registers(a) => ~Conflicting(UNION {Ledger(q) : q \in heard})

CommandSerial(a) ==
  StageFits(a) /\ MemoryLoads(a) /\ MemoryJudged(a) /\ NoConflictLeft(a)

SerialInv ==
  /\ StemInv /\ Alone
  /\ \A m \in Machine : Exportable(m, registry[m])
  /\ \A a \in Actor : CommandSerial(a)

LEMMA IdleSerial ==
  ASSUME NEW a \in Actor, pc'[a] = "idle", asked'[a] = {}
  PROVE  CommandSerial(a)'
BY DEF CommandSerial, StageFits, MemoryLoads, MemoryJudged, NoConflictLeft

\* Another command waits until this one has ended.
LEMMA OthersIdle ==
  ASSUME SerialInv, Serial, NEW a \in Actor, Step(a), NEW b \in Actor, b # a
  PROVE  pc[b] = "idle" /\ pc'[b] = "idle" /\ asked'[b] = {}
<1>1. pc[b] = "idle"
  <2>1. CASE pc[a] = "idle"
    <3>1. \E o, p, c, e, stage : Begin(a, o, p, c, e, stage)
      BY <2>1 DEF Step, Register, Handoff, Unregister, Rename, Write, RenameFile, DeleteFile,
         Load, Insert, Export, ExportOf, AskPeer, Validate, Judge, Save, Finish, Abort, At
    <3>2. Free(a)
      BY <3>1 DEF Begin
    <3> QED
      BY <3>2 DEF Free, Serial
  <2>2. CASE pc[a] # "idle"
    BY <2>2 DEF SerialInv, Alone
  <2> QED
    BY <2>1, <2>2
<1>2. pc'[b] = pc[b] /\ asked'[b] = asked[b]
  BY OthersKeep DEF SerialInv, StemInv
<1> QED
  BY <1>1, <1>2 DEF SerialInv, CommandSerial, StageFits

LEMMA AloneStep ==
  ASSUME SerialInv, Serial, NEW a \in Actor, Step(a)
  PROVE  Alone'
<1>1. \A b \in Actor : b # a => pc'[b] = "idle"
  BY OthersIdle
<1> QED
  BY <1>1 DEF Alone

LEMMA FewerNames ==
  ASSUME NEW reg \in [Id -> Path \cup {NoPath}], NEW i \in Id
  PROVE  /\ Named([reg EXCEPT ![i] = NoPath]) \subseteq Named(reg)
         /\ \A p \in Path : Named([reg EXCEPT ![i] = p]) \subseteq Named(reg) \cup {p}
BY DEF Named

\* A registry loads if it names nothing but files that are there.
LEMMA ExportableMeans ==
  ASSUME NEW m, NEW reg
  PROVE  Exportable(m, reg) <=> \A p \in Named(reg) : files[m][p] # NoFile
BY DEF Exportable, Listed

\* Where ids have stems of their own, two entries never name one file.
LEMMA EntriesApart ==
  ASSUME OwnStems, NEW m \in Machine, NEW reg \in [Id -> Path \cup {NoPath}],
         NamesTheirs(m, reg), NEW i \in Id, reg[i] # NoPath
  PROVE  reg[i] \notin Named([reg EXCEPT ![i] = NoPath])
<1>1. ASSUME NEW j \in Id, j # i, reg[j] = reg[i] PROVE FALSE
  <2>1. IsOf(m, reg[i], i) /\ IsOf(m, reg[i], j) /\ reg[i] \in Path
    BY <1>1 DEF NamesTheirs
  <2> QED
    BY <1>1, <2>1 DEF OwnStems
<1> QED
  BY <1>1 DEF Named

\* The registries load after any step.
LEMMA LoadsStep ==
  ASSUME SerialInv, Serial, NEW a \in Actor, Step(a), NEW m \in Machine
  PROVE  Exportable(m, registry[m])'
<1> USE DEF SerialInv, StemInv, CommandSerial
<1>a. \A p \in Named(registry[m]) : p \in Path /\ files[m][p] # NoFile
  <2>1. registry[m] \in [Id -> Path \cup {NoPath}]
    BY DEF TypeOK
  <2> QED
    BY <2>1, NamedPaths, ExportableMeans
<1>b. SUFFICES \A p \in Named(registry'[m]) : files'[m][p] # NoFile
  BY DEF Exportable, Listed, Named
<1>1. CASE files' = files /\ registry' = registry
  BY <1>1, <1>a
<1>2. ASSUME NEW c, NEW stage, WriteFile(a, c, stage),
             c = NoFile => path[a] \notin Named(registry[Home[a]])
      PROVE  \A p \in Named(registry'[m]) : files'[m][p] # NoFile
  <2>1. files' = [files EXCEPT ![Home[a]] = [files[Home[a]] EXCEPT ![path[a]] = c]]
    BY <1>2 DEF WriteFile
  <2>2. registry' = registry
    BY <1>2 DEF WriteFile
  <2>3. ASSUME NEW p \in Path
        PROVE  \/ files'[m][p] = files[m][p]
               \/ m = Home[a] /\ p = path[a] /\ files'[m][p] = c
    BY <2>1 DEF TypeOK
  <2> QED
    BY <1>a, <1>2, <2>2, <2>3
<1>3. CASE Write(a)
  BY <1>2, <1>3 DEF Write, At, StageFits
<1>4. CASE RenameFile(a)
  BY <1>2, <1>4 DEF RenameFile, At, StageFits
<1>5. CASE DeleteFile(a)
  BY <1>2, <1>5 DEF DeleteFile, At, MemoryLoads
<1>6. CASE Save(a)
  <2>1. registry'[m] = registry[m] \/ (m = Home[a] /\ registry'[m] = entries[a])
    BY <1>6 DEF Save, TypeOK
  <2>2. \A p \in Named(entries[a]) : files[Home[a]][p] # NoFile
    BY <1>6, ExportableMeans DEF Save, At, MemoryLoads
  <2>3. files' = files
    BY <1>6 DEF Save
  <2> QED
    BY <1>a, <2>1, <2>2, <2>3
<1>7. \/ Write(a) \/ RenameFile(a) \/ DeleteFile(a) \/ Save(a)
      \/ files' = files /\ registry' = registry
  BY DEF Step, Register, Handoff, Unregister, Rename, Begin, Load, Insert, Export,
         ExportOf, AskPeer, Validate, Judge, Finish, Abort, Forget
<1> QED
  BY <1>1, <1>3, <1>4, <1>5, <1>6, <1>7

LEMMA StageFitsStep ==
  ASSUME SerialInv, NEW a \in Actor, Step(a)
  PROVE  StageFits(a)'
<1> USE DEF SerialInv, StemInv, CommandSerial, StageFits, Registers
<1>1. ASSUME NEW o, NEW p, NEW c, NEW e, NEW stage, Begin(a, o, p, c, e, stage),
             stage \in {"write", "load"} => o \in {"register", "handoff"},
             stage \in {"write", "rename"} => c # NoFile,
             stage = "rename" => o = "rename",
             stage \in {"write", "load", "save", "rename"}
      PROVE  StageFits(a)'
  <2>1. /\ pc'[a] = stage /\ op'[a] = o /\ cfg'[a] = c
        /\ pc[a] = "idle" /\ asked' = asked
    BY <1>1 DEF Begin, Free, At, Goto, TypeOK
  <2> QED
    BY <1>1, <2>1
<1>2. CASE \E p \in Path : Register(a, p)
  BY <1>1, <1>2 DEF Register
<1>3. CASE \E c \in Config : Handoff(a, c)
  BY <1>1, <1>3 DEF Handoff, LedgerAssumption
<1>4. ASSUME NEW o \in Op, NEW i \in Id, Unregister(a, o, i) PROVE StageFits(a)'
  BY <1>1, <1>4 DEF Unregister
<1>5. ASSUME NEW i \in Id, Rename(a, i) PROVE StageFits(a)'
  BY <1>1, <1>5 DEF Rename
<1>6. CASE Write(a) \/ RenameFile(a) \/ DeleteFile(a)
  BY <1>6 DEF Write, RenameFile, DeleteFile, WriteFile, At, Goto, TypeOK
<1>7. CASE Load(a) \/ Insert(a) \/ Export(a)
  BY <1>7 DEF Load, Insert, Export, ExportOf, At, Goto, TypeOK
<1>8. CASE \E q \in Machine : AskPeer(a, q)
  BY <1>8 DEF AskPeer, At
<1>9. CASE Validate(a) \/ Save(a)
  BY <1>9 DEF Validate, Judge, Save, At, Goto, TypeOK
<1>10. CASE Finish(a) \/ Abort(a)
  BY <1>10 DEF Finish, Abort, Forget, Goto, TypeOK
<1> QED
  BY <1>2, <1>3, <1>4, <1>5, <1>6, <1>7, <1>8, <1>9, <1>10 DEF Step

\* A step after which a command holds nothing that it will save.
LEMMA HoldsNothing ==
  ASSUME NEW a \in Actor, pc'[a] \notin {"insert", "export", "peers", "save", "remove"}
  PROVE  MemoryLoads(a)' /\ MemoryJudged(a)'
BY DEF MemoryLoads, MemoryJudged

LEMMA MemoryLoadsStep ==
  ASSUME OwnStems, SerialInv, NEW a \in Actor, Step(a)
  PROVE  MemoryLoads(a)'
<1> USE DEF SerialInv, StemInv, CommandSerial
<1>a. /\ Home[a] \in Machine
      /\ registry[Home[a]] \in [Id -> Path \cup {NoPath}]
      /\ entries[a] \in [Id -> Path \cup {NoPath}]
  BY DEF TypeOK
\* ... with entries that load.
<1>b. ASSUME NEW reg, Exportable(Home[a], reg), entries'[a] = reg, files' = files,
             pc'[a] # "remove",
             pc'[a] = "save" /\ op'[a] = "delete" => path'[a] \notin Named(reg)
      PROVE  MemoryLoads(a)'
  <2>1. Exportable(Home[a], entries[a])' /\ Named(entries[a])' = Named(reg)
    BY <1>b DEF Exportable, Listed, Named
  <2> QED
    BY <1>b, <2>1 DEF MemoryLoads
<1>1. ASSUME NEW o, NEW p, NEW c, NEW e, NEW stage \in {"write", "load", "rename"},
             Begin(a, o, p, c, e, stage)
      PROVE  MemoryLoads(a)'
  <2>1. pc'[a] = stage
    BY <1>1 DEF Begin, Goto, TypeOK
  <2> QED
    BY <2>1, HoldsNothing
<1>2. CASE \E p \in Path : Register(a, p)
  BY <1>1, <1>2 DEF Register
<1>3. CASE \E c \in Config : Handoff(a, c)
  BY <1>1, <1>3 DEF Handoff
<1>4. CASE \E i \in Id : Rename(a, i)
  BY <1>1, <1>4 DEF Rename
<1>5. ASSUME NEW o \in Op, NEW i \in Id, Unregister(a, o, i) PROVE MemoryLoads(a)'
  <2> DEFINE reg == registry[Home[a]]
             less == [reg EXCEPT ![i] = NoPath]
  <2>1. reg[i] # NoPath /\ NamesTheirs(Home[a], reg) /\ Exportable(Home[a], reg)
    BY <1>5, <1>a DEF Unregister
  <2>2. /\ pc'[a] = "save" /\ entries'[a] = less /\ path'[a] = reg[i] /\ files' = files
    BY <1>5 DEF Unregister, Begin, Goto, TypeOK
  <2> HIDE DEF reg
  <2>3. reg[i] \notin Named(less)
    BY <1>a, <2>1, EntriesApart DEF reg
  <2>4. Exportable(Home[a], less)
    BY <1>a, <2>1, FewerNames, ExportableMeans DEF reg
  <2> HIDE DEF less
  <2> QED
    BY <1>b, <2>2, <2>3, <2>4
<1>6. CASE Write(a) \/ RenameFile(a) \/ DeleteFile(a)
  <2>1. pc'[a] \in {"load", "done"}
    BY <1>6 DEF Write, RenameFile, DeleteFile, WriteFile, Goto, TypeOK
  <2> QED
    BY <2>1, HoldsNothing
<1>7. CASE Load(a)
  <2>1. pc'[a] = "insert" /\ entries'[a] = registry[Home[a]] /\ files' = files
    BY <1>7 DEF Load, Goto, TypeOK
  <2> QED
    BY <1>a, <1>b, <2>1
<1>8. CASE Insert(a)
  <2> DEFINE c == files[Home[a]][path[a]]
             more == [entries[a] EXCEPT ![c.id] = path[a]]
  <2>1. CASE c = NoFile
    <3>1. pc'[a] = "failed"
      BY <1>8, <2>1 DEF Insert, Goto, TypeOK
    <3> QED
      BY <3>1, HoldsNothing
  <2>2. CASE c # NoFile
    <3>1. path[a] \in Path
      BY <1>8 DEF Insert, At, CommandTheirs, TypeOK
    <3>2. c.id \in Id
      BY <1>a, <2>2, <3>1 DEF TypeOK, Config
    <3>3. pc'[a] = "export" /\ entries'[a] = more /\ files' = files
      BY <1>8, <2>2 DEF Insert, Goto, TypeOK
    <3>4. Exportable(Home[a], entries[a])
      BY <1>8 DEF Insert, At, MemoryLoads
    <3>5. Named(more) \subseteq Named(entries[a]) \cup {path[a]}
      <4> HIDE DEF c
      <4> QED
        BY <1>a, <3>1, <3>2, FewerNames
    <3>6. Exportable(Home[a], more)
      <4> HIDE DEF more
      <4> QED
        BY <2>2, <3>4, <3>5, ExportableMeans
    <3> HIDE DEF more
    <3> QED
      BY <1>b, <3>3, <3>6
  <2> QED
    BY <2>1, <2>2
<1>9. CASE Export(a) \/ (\E q \in Machine : AskPeer(a, q)) \/ Validate(a)
  <2>1. /\ pc[a] \in {"export", "peers"}
        /\ pc'[a] \in {"peers", "failed", "save"}
        /\ entries' = entries /\ files' = files /\ op' = op
    BY <1>9 DEF Export, ExportOf, AskPeer, Validate, Judge, At, Goto, TypeOK
  <2>2. Exportable(Home[a], entries[a]) /\ op'[a] # "delete"
    BY <2>1 DEF MemoryLoads, StageFits, Registers
  <2> QED
    BY <1>b, <2>1, <2>2
<1>10. CASE Save(a)
  <2>1. /\ pc[a] = "save" /\ path' = path
        /\ pc'[a] = IF op[a] = "delete" THEN "remove" ELSE "done"
        /\ registry'[Home[a]] = entries[a]
    BY <1>10 DEF Save, At, Goto, TypeOK
  <2>2. op[a] = "delete" => path[a] \notin Named(entries[a])
    BY <2>1 DEF MemoryLoads
  <2> QED
    BY <2>1, <2>2 DEF MemoryLoads, Named
<1>11. CASE Finish(a) \/ Abort(a)
  <2>1. pc'[a] = "idle"
    BY <1>11 DEF Finish, Abort, Forget, Goto, TypeOK
  <2> QED
    BY <2>1, HoldsNothing
<1> QED
  BY <1>2, <1>3, <1>4, <1>5, <1>6, <1>7, <1>8, <1>9, <1>10, <1>11 DEF Step

\* What a command has heard is the same while the files and the registries are.
LEMMA HeardKept ==
  ASSUME NEW a \in Actor, UNCHANGED <<files, registry, entries, faults>>, NEW S
  PROVE  Heard(a, S)' = Heard(a, S)
BY DEF Heard, Listed, Named

LEMMA MemoryJudgedStep ==
  ASSUME SerialInv, NEW a \in Actor, Step(a)
  PROVE  MemoryJudged(a)'
<1> USE DEF SerialInv, StemInv, CommandSerial
<1>a. Home[a] \in Machine /\ Peers[Home[a]] \subseteq Machine
  OBVIOUS
<1>1. ASSUME pc'[a] \notin {"peers", "save"} PROVE MemoryJudged(a)'
  BY <1>1 DEF MemoryJudged
<1>2. ASSUME NEW o, NEW p, NEW c, NEW e, NEW stage, Begin(a, o, p, c, e, stage)
      PROVE  pc'[a] = stage /\ op'[a] = o
  BY <1>2 DEF Begin, Goto, TypeOK
<1>3. CASE (\E p \in Path : Register(a, p)) \/ (\E c \in Config : Handoff(a, c))
            \/ (\E i \in Id : Rename(a, i))
  <2>1. CASE \E p \in Path : Register(a, p)
    BY <1>1, <1>2, <2>1 DEF Register
  <2>2. CASE \E c \in Config : Handoff(a, c)
    BY <1>1, <1>2, <2>2 DEF Handoff
  <2>3. ASSUME NEW i \in Id, Rename(a, i) PROVE pc'[a] = "rename"
    BY <1>2, <2>3 DEF Rename
  <2> QED
    BY <1>1, <1>3, <2>1, <2>2, <2>3
<1>4. ASSUME NEW o \in Op, NEW i \in Id, Unregister(a, o, i) PROVE MemoryJudged(a)'
  <2>1. pc'[a] = "save" /\ op'[a] \in {"unregister", "delete"}
    BY <1>2, <1>4 DEF Unregister
  <2> QED
    BY <2>1 DEF MemoryJudged, Registers
<1>6. CASE Write(a) \/ RenameFile(a) \/ DeleteFile(a) \/ Load(a) \/ Insert(a) \/ Save(a)
  <2>1. pc'[a] \in {"load", "done", "insert", "export", "failed", "remove"}
    BY <1>6 DEF Write, RenameFile, DeleteFile, WriteFile, Load, Insert, Save, Goto, TypeOK
  <2> QED
    BY <1>1, <2>1
<1>7. CASE Export(a)
  <2>1. CASE ~Exportable(Home[a], entries[a])
    <3>1. pc'[a] = "failed"
      BY <1>7, <2>1 DEF Export, ExportOf, Goto, TypeOK
    <3> QED
      BY <1>1, <3>1
  <2>2. CASE Exportable(Home[a], entries[a])
    <3>1. /\ pc'[a] = "peers" /\ asked' = asked /\ asked[a] = {}
          /\ services'[a] = Listed(Home[a], entries[a])
          /\ UNCHANGED <<files, registry, entries, faults>>
      BY <1>7, <2>2 DEF Export, ExportOf, At, Goto, TypeOK, StageFits
    <3>2. Heard(a, {}) = Listed(Home[a], entries[a])
      BY DEF Heard
    <3>3. Heard(a, asked[a])' = Heard(a, {})
      BY <3>1 DEF Heard, Listed, Named
    <3> QED
      BY <3>1, <3>2, <3>3 DEF MemoryJudged
  <2> QED
    BY <2>1, <2>2
<1>8. ASSUME NEW q \in Machine, AskPeer(a, q) PROVE MemoryJudged(a)'
  <2>1. /\ pc[a] = "peers" /\ pc' = pc
        /\ asked'[a] = asked[a] \cup {q}
        /\ services[a] \subseteq services'[a]
        /\ UNCHANGED <<files, registry, entries>>
    BY <1>8 DEF AskPeer, At, TypeOK
  <2>2. Heard(a, asked[a]) \subseteq services[a]
    BY <2>1 DEF MemoryJudged
  <2>3. faults' = 0 => faults = 0 /\ Listed(q, registry[q]) \subseteq services'[a]
    <3>1. Exportable(q, registry[q])
      OBVIOUS
    <3>2. faults' = 0 => ~Fault /\ faults \in Nat
      BY DEF Fault, TypeOK
    <3> QED
      BY <1>8, <3>1, <3>2 DEF AskPeer, TypeOK
  <2>4. Heard(a, asked[a])' \subseteq Heard(a, asked[a])
             \cup (IF faults' = 0 THEN Listed(q, registry[q]) ELSE {})
    <3>1. /\ Listed(Home[a], entries[a])' = Listed(Home[a], entries[a])
          /\ \A r \in Machine : Listed(r, registry[r])' = Listed(r, registry[r])
      BY <2>1 DEF Listed, Named
    <3>2. asked[a] \subseteq Machine
      BY DEF TypeOK
    <3> QED
      BY <2>1, <2>3, <3>1, <3>2 DEF Heard
  <2>5. Heard(a, asked[a])' \subseteq services'[a]
    BY <2>1, <2>2, <2>3, <2>4
  <2> QED
    BY <2>1, <2>5 DEF MemoryJudged
<1>9. CASE Validate(a)
  <2>1. /\ pc[a] = "peers" /\ asked[a] = Peers[Home[a]]
        /\ pc'[a] = IF Conflicting(services[a]) THEN "failed" ELSE "save"
        /\ UNCHANGED <<files, registry, entries, faults, op>>
    BY <1>9 DEF Validate, Judge, At, Goto, TypeOK
  <2>2. CASE Conflicting(services[a])
    BY <1>1, <2>1, <2>2
  <2>3. CASE ~Conflicting(services[a])
    <3>1. ~Conflicting(Heard(a, Peers[Home[a]]))
      BY <2>1, <2>3, ConflictGrows DEF MemoryJudged
    <3>2. Heard(a, Peers[Home[a]])' = Heard(a, Peers[Home[a]])
      BY <2>1, HeardKept
    <3> QED
      BY <2>1, <2>3, <3>1, <3>2 DEF MemoryJudged
  <2> QED
    BY <2>2, <2>3
<1>10. CASE Finish(a) \/ Abort(a)
  <2>1. pc'[a] = "idle"
    BY <1>10 DEF Finish, Abort, Forget, Goto, TypeOK
  <2> QED
    BY <1>1, <2>1
<1> QED
  BY <1>3, <1>4, <1>6, <1>7, <1>8, <1>9, <1>10 DEF Step

\* A register or handoff is done when it has saved what it judged.
LEMMA NoConflictLeftStep ==
  ASSUME SerialInv, NEW a \in Actor, Step(a)
  PROVE  NoConflictLeft(a)'
<1> USE DEF SerialInv, StemInv, CommandSerial
<1> SUFFICES ASSUME pc'[a] = "done", Registers(a)' PROVE NoConflictLeft(a)'
  BY DEF NoConflictLeft
<1>1. pc[a] # "done"
  BY DEF Step, Register, Handoff, Unregister, Rename, Begin, Free, Write, RenameFile,
         DeleteFile, WriteFile, Load, Insert, Export, ExportOf, AskPeer, Validate, Judge, Save,
         Finish, Abort, Forget, At, Goto, TypeOK
<1>2. RenameFile(a) \/ DeleteFile(a) \/ Save(a)
  BY <1>1 DEF Step, Register, Handoff, Unregister, Rename, Begin, Write,
         WriteFile, Load, Insert, Export, ExportOf, AskPeer, Validate, Judge,
         Finish, Abort, Forget, At, Goto, TypeOK
<1>3. ~RenameFile(a) /\ ~DeleteFile(a)
  BY DEF RenameFile, DeleteFile, WriteFile, At, StageFits, Registers
<1>4. /\ pc[a] = "save" /\ Registers(a)
      /\ registry' = [registry EXCEPT ![Home[a]] = entries[a]]
      /\ files' = files /\ faults' = faults
  BY <1>2, <1>3 DEF Save, At, Registers
<1>5. ~Conflicting(Heard(a, Peers[Home[a]]))
  BY <1>4 DEF MemoryJudged
<1> DEFINE heard == {Home[a]} \cup IF faults = 0 THEN Peers[Home[a]] ELSE {}
<1>6. ASSUME NEW q \in heard PROVE Ledger(q)' \subseteq Heard(a, Peers[Home[a]])
  <2>1. q \in Machine
    BY <1>6
  <2>2. \/ q = Home[a] /\ registry'[q] = entries[a]
        \/ q # Home[a] /\ registry'[q] = registry[q]
    BY <1>4, <2>1 DEF TypeOK
  <2>3. \/ Ledger(q)' \subseteq Listed(Home[a], entries[a])
        \/ q # Home[a] /\ Ledger(q)' \subseteq Listed(q, registry[q])
    BY <1>4, <2>2 DEF Ledger, Listed, Named
  <2> QED
    BY <1>6, <2>3 DEF Heard
<1>7. ~Conflicting(UNION {Ledger(q)' : q \in heard})
  BY <1>5, <1>6, ConflictGrows
<1> QED
  BY <1>4, <1>7 DEF NoConflictLeft

LEMMA SerialStep ==
  ASSUME OwnStems, Serial, SerialInv, StemInv', NEW a \in Actor, Step(a)
  PROVE  SerialInv'
<1>1. Alone' /\ \A m \in Machine : Exportable(m, registry[m])'
  BY AloneStep, LoadsStep
<1>2. CommandSerial(a)'
  BY StageFitsStep, MemoryLoadsStep, MemoryJudgedStep, NoConflictLeftStep DEF CommandSerial
<1>3. \A b \in Actor : b # a => CommandSerial(b)'
  BY OthersIdle, IdleSerial
<1> QED
  BY <1>1, <1>2, <1>3 DEF SerialInv

LEMMA SerialInvariance == OwnStems => (Spec => [](Serial => SerialInv))
<1> SUFFICES ASSUME OwnStems PROVE Spec => [](Serial => SerialInv)
  OBVIOUS
<1>1. Init /\ StemInv => SerialInv
  <2> SUFFICES ASSUME Init, StemInv PROVE SerialInv
    OBVIOUS
  <2>1. \A a \in Actor : pc[a] = "idle" /\ asked[a] = {}
    BY DEF Init
  <2>2. \A m \in Machine : Exportable(m, registry[m])
    BY DEF Init, Exportable, Listed, Named, NoEntries
  <2>3. \A a \in Actor : CommandSerial(a)
    BY <2>1 DEF CommandSerial, StageFits, MemoryLoads, MemoryJudged, NoConflictLeft
  <2> QED
    BY <2>1, <2>2, <2>3 DEF SerialInv, Alone
<1>2. StemInv' /\ (Serial => SerialInv) /\ [Next]_vars => (Serial => SerialInv)'
  <2> SUFFICES ASSUME StemInv', Serial => SerialInv, [Next]_vars, Serial' PROVE SerialInv'
    OBVIOUS
  <2>1. Serial /\ SerialInv
    BY DEF Serial, Next, vars
  <2>2. CASE UNCHANGED vars
    <3>1. /\ UNCHANGED <<registry, files, faults>>
          /\ UNCHANGED <<pc, op, path, cfg, entries, services, asked>>
      BY <2>2 DEF vars, localVars
    <3>2. Alone' /\ \A m \in Machine : Exportable(m, registry[m])'
      BY <2>1, <3>1 DEF SerialInv, Alone, Exportable, Listed, Named
    <3>3. ASSUME NEW a \in Actor PROVE CommandSerial(a)'
      <4>1. CommandSerial(a)
        BY <2>1 DEF SerialInv
      <4>2. StageFits(a)' /\ MemoryLoads(a)'
        BY <3>1, <4>1 DEF CommandSerial, StageFits, MemoryLoads, Registers, Exportable,
           Listed, Named
      <4>3. MemoryJudged(a)'
        BY <3>1, <4>1, HeardKept DEF CommandSerial, MemoryJudged, Registers
      <4>4. NoConflictLeft(a)'
        BY <3>1, <4>1 DEF CommandSerial, NoConflictLeft, Registers, Ledger, Listed, Named
      <4> QED
        BY <4>2, <4>3, <4>4 DEF CommandSerial
    <3> QED
      BY <3>2, <3>3 DEF SerialInv
  <2>3. ASSUME NEW a \in Actor, Step(a) PROVE SerialInv'
    BY <2>1, <2>3, SerialStep
  <2> QED
    BY <2>2, <2>3 DEF Next
<1> QED
  BY <1>1, <1>2, StemInvariance, PTL DEF Spec

\* Where ids have file stems of their own and commands do not overlap, every registry
\* can be loaded whenever a command is killed: delete takes the entry before the file.
THEOREM LoadsCorrect == OwnStems => (Spec => []LedgerLoads)
<1>1. (Serial => SerialInv) => LedgerLoads
  BY DEF SerialInv, LedgerLoads
<1> QED
  BY <1>1, SerialInvariance, PTL

\* ... and a register or handoff that reports success leaves no conflict on its machine,
\* nor with the peers if all of them have answered.
THEOREM SuccessCorrect == OwnStems => (Spec => []SuccessMeansNoConflict)
<1>1. (Serial => SerialInv) => SuccessMeansNoConflict
  BY DEF SerialInv, CommandSerial, NoConflictLeft, Registers, SuccessMeansNoConflict
<1> QED
  BY <1>1, SerialInvariance, PTL
----
(* The passes over what commands gather. *)

Entered(reg) == {i \in Id : reg[i] # NoPath}

\* Registries and what commands gather from them are finite, whatever the number of ids.
FiniteInv ==
  /\ TypeOK
  /\ \A m \in Machine : IsFiniteSet(Entered(registry[m]))
  /\ \A a \in Actor : IsFiniteSet(Entered(entries[a])) /\ IsFiniteSet(services[a])

LEMMA EnteredBy ==
  ASSUME NEW reg \in [Id -> Path \cup {NoPath}], IsFiniteSet(Entered(reg)), NEW i \in Id, NEW p
  PROVE  IsFiniteSet(Entered([reg EXCEPT ![i] = p]))
<1>1. IsFiniteSet(Entered(reg) \cup {i})
  BY FS_AddElement
<1>2. Entered([reg EXCEPT ![i] = p]) \in SUBSET (Entered(reg) \cup {i})
  BY DEF Entered
<1> QED
  BY <1>1, <1>2, FS_Subset

LEMMA NothingEntered == IsFiniteSet(Entered(NoEntries))
<1>1. Entered(NoEntries) = {}
  BY DEF Entered, NoEntries
<1> QED
  BY <1>1, FS_EmptySet

LEMMA ListedFinite ==
  ASSUME NEW m, NEW reg \in [Id -> Path \cup {NoPath}], IsFiniteSet(Entered(reg))
  PROVE  IsFiniteSet(Listed(m, reg))
<1> DEFINE f == [i \in Entered(reg) |-> files[m][reg[i]]]
<1>1. Named(reg) = {reg[i] : i \in Entered(reg)}
  BY DEF Named, Entered
<1>2. Listed(m, reg) = {f[i] : i \in Entered(reg)}
  BY <1>1 DEF Listed
<1>3. f \in Surjection(Entered(reg), Listed(m, reg))
  <2>1. DOMAIN f = Entered(reg) /\ f = [i \in Entered(reg) |-> f[i]]
    OBVIOUS
  <2> HIDE DEF f
  <2> QED
    BY <1>2, <2>1 DEF Surjection
<1> HIDE DEF f
<1> QED
  BY <1>3, FS_Surjection

LEMMA FiniteStep ==
  ASSUME FiniteInv, NEW a \in Actor, Step(a)
  PROVE  FiniteInv'
<1> USE DEF FiniteInv, Goto
<1>1. TypeOK'
  BY StepType
<1>2. /\ registry \in [Machine -> [Id -> Path \cup {NoPath}]]
      /\ entries \in [Actor -> [Id -> Path \cup {NoPath}]]
      /\ services \in [Actor -> SUBSET Config]
      /\ Home[a] \in Machine
  BY DEF TypeOK
<1>3. ASSUME NEW p \in Path, Register(a, p) PROVE FiniteInv'
  BY <1>1, <1>2, <1>3, NothingEntered DEF Register, Begin
<1>4. ASSUME NEW c \in Config, Handoff(a, c) PROVE FiniteInv'
  BY <1>1, <1>2, <1>4, NothingEntered DEF Handoff, Begin
<1>5. ASSUME NEW o \in Op, NEW i \in Id, Unregister(a, o, i) PROVE FiniteInv'
  <2>1. IsFiniteSet(Entered([registry[Home[a]] EXCEPT ![i] = NoPath]))
    BY <1>2, EnteredBy
  <2> QED
    BY <1>1, <1>2, <1>5, <2>1 DEF Unregister, Begin
<1>6. ASSUME NEW i \in Id, Rename(a, i) PROVE FiniteInv'
  BY <1>1, <1>2, <1>6, NothingEntered DEF Rename, Begin
<1>7. CASE Write(a) \/ RenameFile(a) \/ DeleteFile(a)
  BY <1>1, <1>7 DEF Write, RenameFile, DeleteFile, WriteFile
<1>8. CASE Load(a)
  BY <1>1, <1>2, <1>8 DEF Load
<1>9. CASE Insert(a)
  <2> DEFINE i == files[Home[a]][path[a]].id
             new == [entries[a] EXCEPT ![i] = path[a]]
  <2>1. UNCHANGED <<registry, services>>
    BY <1>9 DEF Insert
  <2>2. entries' = entries \/ entries' = [entries EXCEPT ![a] = new]
    BY <1>2, <1>9 DEF Insert
  <2>3. IsFiniteSet(Entered(new))
    <3>1. CASE i \in Id
      BY <1>2, <3>1, EnteredBy
    <3>2. CASE i \notin Id
      <4>1. new = entries[a]
        BY <1>2, <3>2
      <4> QED
        BY <4>1
    <3> QED
      BY <3>1, <3>2
  <2> HIDE DEF new
  <2> QED
    BY <1>1, <1>2, <2>1, <2>2, <2>3
<1>10. CASE Export(a)
  <2>1. IsFiniteSet(Listed(Home[a], entries[a]))
    BY <1>2, ListedFinite
  <2>2. /\ UNCHANGED <<registry, entries>>
        /\ services' = services \/ services' = [services EXCEPT ![a] = Listed(Home[a], entries[a])]
    BY <1>10 DEF Export, ExportOf
  <2> QED
    BY <1>1, <1>2, <2>1, <2>2
<1>11. ASSUME NEW q \in Machine, AskPeer(a, q) PROVE FiniteInv'
  <2>1. IsFiniteSet(Listed(q, registry[q]))
    BY <1>2, ListedFinite
  <2>2. IsFiniteSet(services[a] \cup Listed(q, registry[q]))
    BY <2>1, FS_Union
  <2>3. /\ UNCHANGED <<registry, entries>>
        /\ \/ services' = services
           \/ services' = [services EXCEPT ![a] = services[a] \cup Listed(q, registry[q])]
    BY <1>2, <1>11 DEF AskPeer
  <2> QED
    BY <1>1, <1>2, <2>2, <2>3
<1>12. CASE Validate(a)
  BY <1>1, <1>12 DEF Validate, Judge
<1>13. CASE Save(a)
  BY <1>1, <1>2, <1>13 DEF Save
<1>14. CASE Finish(a) \/ Abort(a)
  BY <1>1, <1>2, <1>14, NothingEntered, FS_EmptySet DEF Finish, Abort, Forget
<1> QED
  BY <1>3, <1>4, <1>5, <1>6, <1>7, <1>8, <1>9, <1>10, <1>11, <1>12, <1>13, <1>14 DEF Step

LEMMA GatheredFinite == Spec => []FiniteInv
<1>1. Init => FiniteInv
  <2> SUFFICES ASSUME Init PROVE FiniteInv
    OBVIOUS
  <2>1. TypeOK
    BY DEF Init, TypeOK, NoEntries, Stage
  <2> QED
    BY <2>1, NothingEntered, FS_EmptySet DEF Init, FiniteInv
<1>2. FiniteInv /\ [Next]_vars => FiniteInv'
  <2> SUFFICES ASSUME FiniteInv, [Next]_vars PROVE FiniteInv'
    OBVIOUS
  <2>1. CASE UNCHANGED vars
    BY <2>1 DEF vars, localVars, FiniteInv, TypeOK
  <2> QED
    BY <2>1, FiniteStep DEF Next
<1> QED
  BY <1>1, <1>2, PTL DEF Spec

LEMMA GatheredLists ==
  ASSUME FiniteInv, NEW S \in Gathered, NEW list \in Listings(S)
  PROVE  S \in SUBSET Config /\ list \in Seq(S) /\ Items(list) = S
<1>1. PICK a \in Actor : S = services[a]
  BY DEF Gathered
<1>2. S \in SUBSET Config /\ IsFiniteSet(S)
  BY <1>1 DEF FiniteInv, TypeOK
<1> QED
  BY <1>2, ListingsList

\* validate_no_port_conflicts refuses what a command has gathered exactly when it breaks
\* the rule of the ledger, in whatever order the exports list it and however often.
THEOREM ScanCorrect == Spec => []ScanIsRule
<1>1. FiniteInv => ScanIsRule
  BY GatheredLists, PassIsRule DEF ScanIsRule
<1> QED
  BY <1>1, GatheredFinite, PTL

\* The rows the page shows of an accepted list: every service has one, and no owner has
\* two for one port.
THEOREM RowsCorrect == Spec => []OneRowPerPort
<1>1. FiniteInv => OneRowPerPort
  <2> SUFFICES ASSUME FiniteInv, NEW S \in Gathered, NEW list \in Listings(S), ~Refused(list)
               PROVE  LET rows == PickRows(list)
                      IN /\ {rows[i] : i \in DOMAIN rows} = S
                         /\ \A i, j \in DOMAIN rows : Key(rows[i]) = Key(rows[j]) => i = j
    BY DEF OneRowPerPort
  <2> DEFINE rows == PickRows(list)
  <2>1. S \in SUBSET Config /\ list \in Seq(S) /\ Items(list) = S
    BY GatheredLists
  <2>2. Picked(rows, S, S) /\ ~Conflicting(S)
    BY <2>1, PassIsRule, RowsAreServices
  <2> HIDE DEF rows
  <2>3. Items(rows) = S /\ IsInjective(rows)
    BY <2>2 DEF Picked
  <2>4. ASSUME NEW i \in DOMAIN rows, NEW j \in DOMAIN rows, Key(rows[i]) = Key(rows[j])
        PROVE  i = j
    <3>1. rows[i] \in S /\ rows[j] \in S
      BY <2>3 DEF Items
    <3>2. rows[i].owner = rows[j].owner /\ rows[i].port = rows[j].port
      BY <2>4, KeyEqual
    <3>3. rows[i].id = rows[j].id
      BY <2>2, <3>1, <3>2 DEF Conflicting
    <3>4. rows[i] \in Config /\ rows[j] \in Config
      BY <2>1, <3>1
    <3>5. rows[i] = rows[j]
      BY <3>2, <3>3, <3>4 DEF Config
    <3> QED
      BY <2>3, <3>5 DEF IsInjective
  <2> QED
    BY <2>3, <2>4 DEF Items, rows
<1> QED
  BY <1>1, GatheredFinite, PTL
====
