---- MODULE StateFile ----
(***************************************************************************)
(* State::load and State::save, and Registry's pair, which is the same     *)
(* code: a save writes <file>.json.tmp, a name all clients share, and      *)
(* renames it over the file; no lock is held.  A client is one command: it *)
(* loads the file and then, if it changes something, saves it.             *)
(*                                                                         *)
(* A file is an inode: it is renamed or truncated under the clients that   *)
(* have it open.  What it holds is a function from 1 .. n: cell i belongs  *)
(* to the value whose i-th part was written there last.                    *)
(***************************************************************************)
EXTENDS Naturals, FiniteSets

CONSTANTS
  Client,      \* commands that use the file
  Saver,       \* those that save it
  Value,       \* the states a file can hold
  Default,     \* the one a load returns while there is no file
  Size,        \* [Value -> Nat \ {0}]: the parts of its text
  Inode, None,
  Hole,        \* what lies between a file's end and a write beyond it
  MaxFaults    \* bound on the crashes and failed writes of a behaviour

ASSUME StateFileAssumption ==
  /\ Saver \subseteq Client
  /\ Default \in Value
  /\ Size \in [Value -> Nat \ {0}]
  /\ None \notin Inode /\ None \notin Value
  /\ Hole \notin Value
  /\ MaxFaults \in Nat

VARIABLES
  path,       \* the inode of the file, None before the first save
  tmp,        \* the inode of the temporary file
  cells,      \* contents of the inodes
  pc, fd,     \* where each client is and the inode it has open
  value,      \* what it loaded or is about to save
  pos,        \* parts of it written
  faults,
  overlapped  \* history: a save began while another one was under way

fileVars == <<path, tmp, cells>>
vars == <<fileVars, pc, fd, value, pos, faults, overlapped>>

Text(v)  == [i \in 1 .. Size[v] |-> v]
Parses(i) == \E v \in Value : cells[i] = Text(v)
Parsed(i) == IF Parses(i) THEN CHOOSE v \in Value : cells[i] = Text(v) ELSE None

\* Part k of v is written at its place.
Put(file, k, v) ==
  [i \in (1 .. k) \cup DOMAIN file |->
     IF i = k THEN v ELSE IF i \in DOMAIN file THEN file[i] ELSE Hole]

Saving(c) == pc[c] = "write"

Init ==
  /\ path = None /\ tmp = None
  /\ cells = [i \in Inode |-> <<>>]
  /\ pc = [c \in Client |-> "idle"]
  /\ fd = [c \in Client |-> None]
  /\ value = [c \in Client |-> Default]
  /\ pos = [c \in Client |-> 0]
  /\ faults = 0
  /\ overlapped = FALSE

----
\* load: the default when there is no file, else open it ...
Open(c) ==
  /\ pc[c] = "idle"
  /\ IF path = None
       THEN pc' = [pc EXCEPT ![c] = "loaded"] /\ value' = [value EXCEPT ![c] = Default]
            /\ UNCHANGED fd
       ELSE pc' = [pc EXCEPT ![c] = "read"] /\ fd' = [fd EXCEPT ![c] = path]
            /\ UNCHANGED value
  /\ UNCHANGED <<fileVars, pos, faults, overlapped>>

\* Faulty variant: a file that does not parse counts as missing.
ReadOrDefault(c) ==
  /\ pc[c] = "read"
  /\ pc' = [pc EXCEPT ![c] = "loaded"]
  /\ value' = [value EXCEPT ![c] = IF Parses(fd[c]) THEN Parsed(fd[c]) ELSE Default]
  /\ fd' = [fd EXCEPT ![c] = None]
  /\ UNCHANGED <<fileVars, pos, faults, overlapped>>

\* ... read and parse it; a command whose load fails ends there.
Read(c) ==
  /\ pc[c] = "read"
  /\ IF Parses(fd[c])
       THEN pc' = [pc EXCEPT ![c] = "loaded"]
            /\ value' = [value EXCEPT ![c] = Parsed(fd[c])]
       ELSE pc' = [pc EXCEPT ![c] = "unparsable"] /\ UNCHANGED value
  /\ fd' = [fd EXCEPT ![c] = None]
  /\ UNCHANGED <<fileVars, pos, faults, overlapped>>

IsFree(i) == i # path /\ i # tmp /\ \A c \in Client : fd[c] # i

\* Faulty variant: what a killed client left is written over, not truncated.
CreateKeepsOld(c, v, i) ==
  /\ pc[c] = "loaded" /\ c \in Saver
  /\ IF tmp = None THEN IsFree(i) ELSE i = tmp
  /\ tmp' = i
  /\ cells' = IF tmp = None THEN [cells EXCEPT ![i] = <<>>] ELSE cells
  /\ pc' = [pc EXCEPT ![c] = "write"]
  /\ fd' = [fd EXCEPT ![c] = i]
  /\ value' = [value EXCEPT ![c] = v]
  /\ pos' = [pos EXCEPT ![c] = 0]
  /\ overlapped' = (overlapped \/ \E d \in Client \ {c} : Saving(d))
  /\ UNCHANGED <<path, faults>>

\* save: fs::write creates the temporary file, or truncates the one that is there,
Create(c, v, i) ==
  /\ pc[c] = "loaded" /\ c \in Saver
  /\ IF tmp = None THEN IsFree(i) ELSE i = tmp
  /\ tmp' = i
  /\ cells' = [cells EXCEPT ![i] = <<>>]
  /\ pc' = [pc EXCEPT ![c] = "write"]
  /\ fd' = [fd EXCEPT ![c] = i]
  /\ value' = [value EXCEPT ![c] = v]
  /\ pos' = [pos EXCEPT ![c] = 0]
  /\ overlapped' = (overlapped \/ \E d \in Client \ {c} : Saving(d))
  /\ UNCHANGED <<path, faults>>

\* Faulty variant: one part too many.
WriteBeyond(c) ==
  /\ Saving(c) /\ pos[c] <= Size[value[c]]
  /\ pos' = [pos EXCEPT ![c] = @ + 1]
  /\ cells' = [cells EXCEPT ![fd[c]] = Put(@, pos[c] + 1, value[c])]
  /\ UNCHANGED <<path, tmp, pc, fd, value, faults, overlapped>>

\* writes it part by part,
Write(c) ==
  /\ Saving(c) /\ pos[c] < Size[value[c]]
  /\ pos' = [pos EXCEPT ![c] = @ + 1]
  /\ cells' = [cells EXCEPT ![fd[c]] = Put(@, pos[c] + 1, value[c])]
  /\ UNCHANGED <<path, tmp, pc, fd, value, faults, overlapped>>

\* Faulty variant: the last part is not waited for.
RenameEarly(c) ==
  /\ Saving(c) /\ pos[c] + 1 >= Size[value[c]]
  /\ fd' = [fd EXCEPT ![c] = None]
  /\ IF tmp = None
       THEN pc' = [pc EXCEPT ![c] = "failed"] /\ UNCHANGED <<path, tmp>>
       ELSE pc' = [pc EXCEPT ![c] = "saved"] /\ path' = tmp /\ tmp' = None
  /\ pos' = [pos EXCEPT ![c] = 0]
  /\ UNCHANGED <<cells, value, faults, overlapped>>

\* and renames whatever bears the temporary name by now; nothing may.
Rename(c) ==
  /\ Saving(c) /\ pos[c] = Size[value[c]]
  /\ fd' = [fd EXCEPT ![c] = None]
  /\ IF tmp = None
       THEN pc' = [pc EXCEPT ![c] = "failed"] /\ UNCHANGED <<path, tmp>>
       ELSE pc' = [pc EXCEPT ![c] = "saved"] /\ path' = tmp /\ tmp' = None
  /\ pos' = [pos EXCEPT ![c] = 0]
  /\ UNCHANGED <<cells, value, faults, overlapped>>

Finish(c) ==
  /\ pc[c] \in {"loaded", "unparsable", "saved", "failed"}
  /\ pc' = [pc EXCEPT ![c] = "idle"]
  /\ value' = [value EXCEPT ![c] = Default]
  /\ UNCHANGED <<fileVars, fd, pos, faults, overlapped>>

\* The client is killed, or (at a write, for want of space) its command ends.
Crash(c) ==
  /\ pc[c] \in {"read", "loaded", "write"}
  /\ faults < MaxFaults /\ faults' = faults + 1
  /\ pc' = [pc EXCEPT ![c] = "idle"]
  /\ fd' = [fd EXCEPT ![c] = None]
  /\ value' = [value EXCEPT ![c] = Default]
  /\ pos' = [pos EXCEPT ![c] = 0]
  /\ UNCHANGED <<fileVars, overlapped>>

Step(c) ==
  \/ Open(c) \/ Read(c) \/ Finish(c)
  \/ \E v \in Value, i \in Inode : Create(c, v, i)
  \/ Write(c) \/ Rename(c) \/ Crash(c)

Next == \E c \in Client : Step(c)

Spec == Init /\ [][Next]_vars

----
Stage == {"idle", "read", "loaded", "unparsable", "write", "saved", "failed"}



TypeOK ==
  /\ path \in Inode \cup {None} /\ tmp \in Inode \cup {None}
  /\ DOMAIN cells = Inode
  /\ pc \in [Client -> Stage]
  /\ fd \in [Client -> Inode \cup {None}]
  /\ value \in [Client -> Value]
  /\ \A c \in Client : pos[c] \in 0 .. Size[value[c]]
  /\ faults \in 0 .. MaxFaults
  /\ overlapped \in BOOLEAN

\* What a client in the midst of a load will get, and what it got.
Result(c) ==
  CASE pc[c] = "read"   -> Parsed(fd[c])
    [] pc[c] = "loaded" -> value[c]
    [] OTHER            -> None

Atomic == INSTANCE AtomicFile WITH
  content <- IF path = None THEN Default ELSE Parsed(path),
  result  <- [c \in Client |-> Result(c)]

\* As long as no two saves overlap, loads and saves are those of an atomic file,
\* wherever clients are killed: the temporary file a killed one leaves is harmless.
AtomicUntilOverlap ==
  Atomic!Init /\ [][~overlapped' => Atomic!Next]_(Atomic!vars)

\* ... and every load finds a file that parses.
LoadsParse == ~overlapped => \A c \in Client : pc[c] # "unparsable"

\* Nobody is left who loaded, or is about to load, anything but a torn file.
Dead ==
  /\ path # None /\ ~Parses(path)
  /\ \A c \in Client : /\ pc[c] \notin {"loaded", "write"}
                       /\ pc[c] = "read" => ~Parses(fd[c])

\* A file that overlapping saves left unparsable is there to stay: no command gets
\* past its load to save a good one.
TornStaysTorn == [][Dead => Dead']_vars
====
