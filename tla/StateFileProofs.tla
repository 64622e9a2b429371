---- MODULE StateFileProofs ----
(***************************************************************************)
(* Proofs about StateFile, for any number of clients, values and parts: as *)
(* long as saves do not overlap it implements AtomicFile.                  *)
(***************************************************************************)
EXTENDS StateFile, TLAPS

USE StateFileAssumption

\* Types of everything but the contents.
Types ==
  /\ path \in Inode \cup {None} /\ tmp \in Inode \cup {None}
  /\ cells = [i \in Inode |-> cells[i]]
  /\ pc \in [Client -> Stage]
  /\ fd \in [Client -> Inode \cup {None}]
  /\ value \in [Client -> Value]
  /\ pos \in [Client -> Nat]
  /\ overlapped \in BOOLEAN

\* The one save under way has written a beginning of its value to tmp.
SaveWrites ==
  \A c \in Client : Saving(c) =>
    /\ tmp \in Inode /\ fd[c] = tmp
    /\ pos[c] \in 0 .. Size[value[c]]
    /\ cells[tmp] = [i \in 1 .. pos[c] |-> value[c]]

SavesAlone == \A c, d \in Client : Saving(c) /\ Saving(d) => c = d

\* What is or was the file is complete, and is not the file that is being written.
FileWhole == path # None => path # tmp /\ Parses(path)

ReadersWhole ==
  \A c \in Client : pc[c] = "read" => fd[c] \in Inode /\ fd[c] # tmp /\ Parses(fd[c])

NoneUnparsable == \A c \in Client : pc[c] # "unparsable"

Whole == SaveWrites /\ SavesAlone /\ FileWhole /\ ReadersWhole /\ NoneUnparsable

FileInv == Types /\ (~overlapped => Whole)

LEMMA ParsedValue ==
  ASSUME NEW i, Parses(i)
  PROVE  Parsed(i) \in Value /\ cells[i] = Text(Parsed(i))
BY DEF Parses, Parsed

LEMMA TextUnique ==
  ASSUME NEW v \in Value, NEW w \in Value, Text(v) = Text(w)
  PROVE  v = w
<1>1. Text(v)[1] = v /\ Text(w)[1] = w
  BY DEF Text
<1> QED
  BY <1>1

LEMMA PartsInOrder ==
  ASSUME NEW v, NEW n \in Nat
  PROVE  Put([i \in 1 .. n |-> v], n + 1, v) = [i \in 1 .. n + 1 |-> v]
BY DEF Put

LEMMA InitFileInv == Init => FileInv
<1> SUFFICES ASSUME Init PROVE FileInv
  OBVIOUS
<1>1. Types
  BY DEF Init, Types, Stage
<1>2. \A c \in Client : pc[c] = "idle"
  BY DEF Init
<1>3. Whole
  BY <1>2 DEF Init, Whole, SaveWrites, SavesAlone, FileWhole, ReadersWhole, NoneUnparsable,
     Saving
<1> QED
  BY <1>1, <1>3 DEF FileInv

LEMMA NextTypes ==
  ASSUME Types, NEW c \in Client, Step(c)
  PROVE  Types'
<1> USE DEF Types, fileVars, Stage
<1>1. CASE Open(c)
  BY <1>1 DEF Open
<1>2. CASE Read(c)
  <2>1. Parses(fd[c]) => Parsed(fd[c]) \in Value
    BY ParsedValue
  <2>2. value' \in [Client -> Value]
    BY <1>2, <2>1 DEF Read
  <2>3. pc' \in [Client -> Stage]
    BY <1>2 DEF Read
  <2> QED
    BY <1>2, <2>2, <2>3 DEF Read
<1>3. CASE Finish(c)
  BY <1>3 DEF Finish
<1>4. ASSUME NEW v \in Value, NEW i \in Inode, Create(c, v, i) PROVE Types'
  BY <1>4 DEF Create
<1>5. CASE Write(c)
  BY <1>5 DEF Write
<1>6. CASE Rename(c)
  BY <1>6 DEF Rename
<1>7. CASE Crash(c)
  BY <1>7 DEF Crash
<1> QED
  BY <1>1, <1>2, <1>3, <1>4, <1>5, <1>6, <1>7 DEF Step

LEMMA StepWhole ==
  ASSUME Types, Types', ~overlapped, Whole, NEW c \in Client, Step(c), ~overlapped'
  PROVE  Whole'
<1> USE DEF Whole, SaveWrites, SavesAlone, FileWhole, ReadersWhole, NoneUnparsable, Saving,
        Types, fileVars
<1> DEFINE SameFiles == cells' = cells /\ path' = path /\ tmp' = tmp
<1>a. SameFiles => \A i : Parses(i)' <=> Parses(i)
  BY DEF Parses
<1>1. CASE Open(c)
  <2>1. /\ SameFiles /\ pos' = pos
        /\ pc'[c] \in {"loaded", "read"}
        /\ pc'[c] = "read" => path \in Inode /\ fd'[c] = path
    BY <1>1 DEF Open
  <2>2. \A d \in Client : d # c => pc'[d] = pc[d] /\ fd'[d] = fd[d] /\ value'[d] = value[d]
    BY <1>1 DEF Open
  <2>3. \A d \in Client : Saving(d)' => Saving(d) /\ d # c
    BY <2>1, <2>2
  <2>4. SaveWrites' /\ SavesAlone' /\ NoneUnparsable'
    BY <2>1, <2>2, <2>3
  <2>5. FileWhole' /\ ReadersWhole'
    BY <2>1, <2>2, <1>a
  <2> QED
    BY <2>4, <2>5
<1>2. CASE Read(c)
  <2>1. pc' = [pc EXCEPT ![c] = "loaded"] /\ SameFiles /\ pos' = pos
    BY <1>2 DEF Read
  <2>2. \A d \in Client : d # c => fd'[d] = fd[d] /\ value'[d] = value[d]
    BY <1>2 DEF Read
  <2> QED
    BY <2>1, <2>2, <1>a
<1>3. CASE Finish(c)
  BY <1>3, <1>a DEF Finish
<1>4. ASSUME NEW v \in Value, NEW i \in Inode, Create(c, v, i) PROVE Whole'
  <2>1. \A d \in Client : pc[d] # "write"
    BY <1>4 DEF Create
  <2>2. \A j \in Inode : j # i => cells'[j] = cells[j]
    BY <1>4 DEF Create
  <2>3. i # path /\ \A d \in Client : pc[d] = "read" => fd[d] # i
    BY <1>4 DEF Create, IsFree
  <2>4. SaveWrites' /\ SavesAlone' /\ NoneUnparsable'
    BY <1>4, <2>1 DEF Create
  <2>5. FileWhole' /\ ReadersWhole'
    BY <1>4, <2>2, <2>3 DEF Create, Parses
  <2> QED
    BY <2>4, <2>5
<1>5. CASE Write(c)
  <2>1. /\ tmp \in Inode /\ fd[c] = tmp /\ pos[c] \in Nat
        /\ cells[tmp] = [i \in 1 .. pos[c] |-> value[c]]
        /\ Size[value[c]] \in Nat
    BY <1>5 DEF Write
  <2>2. cells'[tmp] = [i \in 1 .. pos[c] + 1 |-> value[c]]
    BY <1>5, <2>1, PartsInOrder DEF Write
  <2>3. \A j \in Inode : j # tmp => cells'[j] = cells[j]
    BY <1>5, <2>1 DEF Write
  <2>4. SaveWrites'
    <3>1. \A d \in Client : pc'[d] = "write" => d = c
      BY <1>5 DEF Write
    <3>2. /\ tmp' = tmp /\ fd' = fd /\ value' = value
          /\ pos'[c] = pos[c] + 1 /\ pos'[c] \in 0 .. Size[value[c]]
      BY <1>5, <2>1 DEF Write
    <3> QED
      BY <2>1, <2>2, <3>1, <3>2
  <2>5. FileWhole' /\ ReadersWhole'
    BY <1>5, <2>3 DEF Write, Parses
  <2> QED
    BY <1>5, <2>4, <2>5 DEF Write
<1>6. CASE Rename(c)
  <2>1. /\ tmp \in Inode /\ path' = tmp /\ tmp' = None
        /\ pc' = [pc EXCEPT ![c] = "saved"]
    BY <1>6 DEF Rename
  <2>2. cells[tmp] = Text(value[c])
    BY <1>6 DEF Rename, Text
  <2>3. FileWhole'
    BY <1>6, <2>1, <2>2 DEF Rename, Parses
  <2>4. ReadersWhole'
    BY <1>6, <2>1 DEF Rename, Parses
  <2>5. SaveWrites' /\ SavesAlone' /\ NoneUnparsable'
    BY <1>6, <2>1 DEF Rename
  <2> QED
    BY <2>3, <2>4, <2>5
<1>7. CASE Crash(c)
  BY <1>7 DEF Crash, Parses
<1> QED
  BY <1>1, <1>2, <1>3, <1>4, <1>5, <1>6, <1>7 DEF Step

LEMMA OverlapStays ==
  ASSUME Types, NEW c \in Client, Step(c), overlapped
  PROVE  overlapped'
BY DEF Types, Step, Open, Read, Finish, Create, Write, Rename, Crash

LEMMA NextFileInv == FileInv /\ [Next]_vars => FileInv'
<1> SUFFICES ASSUME FileInv, [Next]_vars PROVE FileInv'
  OBVIOUS
<1>1. ASSUME NEW c \in Client, Step(c) PROVE FileInv'
  BY <1>1, NextTypes, StepWhole, OverlapStays DEF FileInv
<1>2. CASE UNCHANGED vars
  BY <1>2 DEF vars, fileVars, FileInv, Types, Whole, SaveWrites, SavesAlone, FileWhole,
     ReadersWhole, NoneUnparsable, Saving, Parses
<1> QED
  BY <1>1, <1>2 DEF Next

LEMMA FileInvariance == Spec => []FileInv
BY InitFileInv, NextFileInv, PTL DEF Spec

\* Until two saves overlap, wherever clients are killed, no load fails: every
\* command finds a state file that parses.
THEOREM LoadsParseCorrect == Spec => []LoadsParse
<1>1. FileInv => LoadsParse
  BY DEF FileInv, Whole, NoneUnparsable, LoadsParse
<1> QED
  BY <1>1, FileInvariance, PTL

----
(* Types, and what overlapping saves leave behind. *)

\* Only a client that writes has parts of its value written.
Written ==
  \A c \in Client : /\ pos[c] \in 0 .. Size[value[c]]
                    /\ pc[c] # "write" => pos[c] = 0

TypeInv == Types /\ Written /\ faults \in 0 .. MaxFaults

LEMMA StepWritten ==
  ASSUME TypeInv, NEW c \in Client, Step(c)
  PROVE  Written'
<1> USE DEF TypeInv, Types
<1>a. \A v \in Value : 0 \in 0 .. Size[v]
  OBVIOUS
<1>1. ASSUME UNCHANGED pos, pc[c] # "write", value'[c] \in Value,
             \A d \in Client : d # c => pc'[d] = pc[d] /\ value'[d] = value[d]
      PROVE  Written'
  <2>1. \A d \in Client : pos[d] \in 0 .. Size[value[d]]
    BY DEF Written
  <2>2. pos[c] = 0
    BY <1>1 DEF Written
  <2>3. pos'[c] \in 0 .. Size[value'[c]]
    BY <1>a, <1>1, <2>2
  <2> QED
    BY <1>1, <2>1, <2>2, <2>3 DEF Written
<1>2. ASSUME pos' = [pos EXCEPT ![c] = 0], value'[c] \in Value,
             \A d \in Client : d # c => pc'[d] = pc[d] /\ value'[d] = value[d]
      PROVE  Written'
  <2>1. pos'[c] = 0 /\ \A d \in Client : d # c => pos'[d] = pos[d]
    BY <1>2
  <2>2. pos'[c] \in 0 .. Size[value'[c]]
    BY <1>a, <1>2, <2>1
  <2> QED
    BY <1>2, <2>1, <2>2 DEF Written
<1>3. \A d \in Client : value[d] \in Value
  OBVIOUS
<1>4. CASE Open(c)
  BY <1>1, <1>3, <1>4 DEF Open
<1>5. CASE Read(c)
  <2>a. Parses(fd[c]) => Parsed(fd[c]) \in Value
    BY ParsedValue
  <2>b. value'[c] = value[c] \/ (Parses(fd[c]) /\ value'[c] = Parsed(fd[c]))
    BY <1>5 DEF Read
  <2>1. value'[c] \in Value
    BY <1>3, <2>a, <2>b
  <2> QED
    BY <1>1, <1>5, <2>1 DEF Read
<1>6. CASE Finish(c)
  BY <1>1, <1>6 DEF Finish
<1>7. ASSUME NEW v \in Value, NEW i \in Inode, Create(c, v, i) PROVE Written'
  BY <1>2, <1>7 DEF Create
<1>8. CASE Write(c)
  <2>1. pos'[c] = pos[c] + 1 /\ pos[c] < Size[value[c]] /\ Size[value[c]] \in Nat
    BY <1>3, <1>8 DEF Write
  <2>2. pos'[c] \in 0 .. Size[value'[c]]
    BY <1>8, <2>1 DEF Write
  <2>3. \A d \in Client : d # c => pos'[d] = pos[d]
    BY <1>8 DEF Write
  <2>4. pc' = pc /\ value' = value /\ pc[c] = "write"
    BY <1>8 DEF Write, Saving
  <2> QED
    BY <2>2, <2>3, <2>4 DEF Written
<1>9. CASE Rename(c)
  BY <1>2, <1>3, <1>9 DEF Rename
<1>10. CASE Crash(c)
  BY <1>2, <1>10 DEF Crash
<1> QED
  BY <1>4, <1>5, <1>6, <1>7, <1>8, <1>9, <1>10 DEF Step

LEMMA TypeInvariance == Spec => []TypeInv
<1>1. Init => TypeInv
  <2> SUFFICES ASSUME Init PROVE TypeInv
    OBVIOUS
  <2>1. Types
    BY InitFileInv DEF FileInv
  <2> QED
    BY <2>1 DEF Init, TypeInv, Written
<1>2. TypeInv /\ [Next]_vars => TypeInv'
  <2> SUFFICES ASSUME TypeInv, [Next]_vars PROVE TypeInv'
    OBVIOUS
  <2>1. ASSUME NEW c \in Client, Step(c) PROVE TypeInv'
    <3>1. faults' \in 0 .. MaxFaults
      BY <2>1 DEF TypeInv, Step, Open, Read, Finish, Create, Write, Rename, Crash
    <3>2. Types' /\ Written'
      BY <2>1, NextTypes, StepWritten DEF TypeInv
    <3> QED
      BY <3>1, <3>2 DEF TypeInv
  <2>2. CASE UNCHANGED vars
    BY <2>2 DEF vars, fileVars, TypeInv, Types, Written
  <2> QED
    BY <2>1, <2>2 DEF Next
<1> QED
  BY <1>1, <1>2, PTL DEF Spec

\* Every variable keeps its type however saves overlap and clients are killed; no
\* client writes more parts than its value has.
THEOREM TypeCorrect == Spec => []TypeOK
<1>1. TypeInv => TypeOK
  BY DEF TypeInv, Types, Written, TypeOK
<1> QED
  BY <1>1, TypeInvariance, PTL

\* A file that overlapping saves left torn is not repaired by any command: each ends
\* at its load, whoever else is killed.
THEOREM TornStaysTornCorrect == Spec => TornStaysTorn
<1>1. TypeInv /\ [Next]_vars => [Dead => Dead']_vars
  <2> SUFFICES ASSUME TypeInv, Dead, NEW c \in Client, Step(c) PROVE Dead'
    BY DEF Next
  <2> USE DEF TypeInv, Types, Dead, fileVars
  <2>1. pc[c] \notin {"loaded", "write"}
    OBVIOUS
  <2>2. Open(c) \/ Read(c) \/ Finish(c) \/ Crash(c)
    BY <2>1 DEF Step, Create, Write, Rename, Saving
  <2>3. path' = path /\ cells' = cells
    BY <2>2 DEF Open, Read, Finish, Crash
  <2>4. \A i : Parses(i)' <=> Parses(i)
    BY <2>3 DEF Parses
  <2>5. \A d \in Client : d # c => pc'[d] = pc[d] /\ fd'[d] = fd[d]
    BY <2>2 DEF Open, Read, Finish, Crash
  <2>6. pc'[c] \notin {"loaded", "write"} /\ (pc'[c] = "read" => fd'[c] = path)
    BY <2>2 DEF Open, Read, Finish, Crash
  <2> QED
    BY <2>3, <2>4, <2>5, <2>6
<1> QED
  BY <1>1, TypeInvariance, PTL DEF Spec, TornStaysTorn

----
(* The refinement. *)

Content == IF path = None THEN Default ELSE Parsed(path)
Results == [c \in Client |-> Result(c)]

\* A step that writes into no complete file parses them as before.
LEMMA SameParse ==
  ASSUME NEW i, cells'[i] = cells[i]
  PROVE  Parsed(i)' = Parsed(i)
BY DEF Parsed, Parses

\* A client alone changes what it holds.
LEMMA ResultsUpdate ==
  ASSUME NEW c \in Client, NEW r, Result(c)' = r,
         \A d \in Client : d # c => Result(d)' = Result(d)
  PROVE  Results' = [Results EXCEPT ![c] = r]
BY DEF Results

LEMMA StepRefines ==
  ASSUME Types, Types', Whole, Whole', NEW c \in Client, Step(c)
  PROVE  [Atomic!Next]_(Atomic!vars)
<1> USE DEF Types
<1>1. SUFFICES \/ Results[c] = None /\ Results' = [Results EXCEPT ![c] = Content]
                  /\ Content' = Content
               \/ Results' = [Results EXCEPT ![c] = None] /\ Content' = Content
               \/ Content' \in Value /\ Results' = Results
               \/ Results' = Results /\ Content' = Content
  BY DEF Atomic!Next, Atomic!Load, Atomic!Drop, Atomic!Save, Atomic!vars, Content, Results
<1> DEFINE Others == \A d \in Client : d # c => pc'[d] = pc[d] /\ fd'[d] = fd[d] /\ value'[d] = value[d]
<1>2. CASE Open(c)
  <2>1. cells' = cells /\ path' = path /\ Others
    BY <1>2 DEF Open, fileVars
  <2>2. \A i : Parsed(i)' = Parsed(i)
    BY <2>1, SameParse
  <2>3. Result(c) = None /\ Result(c)' = Content
    BY <1>2, <2>1, <2>2 DEF Open, Result, Content
  <2>4. \A d \in Client : d # c => Result(d)' = Result(d)
    BY <2>1, <2>2 DEF Result
  <2>5. Content' = Content
    BY <2>1, <2>2 DEF Content
  <2>6. Results' = [Results EXCEPT ![c] = Content]
    BY <2>3, <2>4, ResultsUpdate
  <2> QED
    BY <2>3, <2>5, <2>6 DEF Results
<1>3. CASE Read(c)
  <2>1. cells' = cells /\ path' = path /\ Others
    BY <1>3 DEF Read, fileVars
  <2>2. \A i : Parsed(i)' = Parsed(i)
    BY <2>1, SameParse
  <2>3. Parses(fd[c])
    BY <1>3 DEF Read, Whole, ReadersWhole
  <2>4. Result(c)' = Result(c)
    BY <1>3, <2>2, <2>3 DEF Read, Result
  <2>5. \A d \in Client : Result(d)' = Result(d)
    BY <2>1, <2>2, <2>4 DEF Result
  <2>6. Content' = Content /\ Results' = Results
    BY <2>1, <2>2, <2>5 DEF Content, Results
  <2> QED
    BY <2>6
<1>4. CASE Finish(c)
  <2>1. cells' = cells /\ path' = path /\ Others /\ pc'[c] = "idle"
    BY <1>4 DEF Finish, fileVars
  <2>2. \A i : Parsed(i)' = Parsed(i)
    BY <2>1, SameParse
  <2>3. Content' = Content /\ Result(c)' = None
    BY <2>1, <2>2 DEF Content, Result
  <2>4. \A d \in Client : d # c => Result(d)' = Result(d)
    BY <2>1, <2>2 DEF Result
  <2> QED
    BY <2>3, <2>4, ResultsUpdate
<1>5. ASSUME NEW v \in Value, NEW i \in Inode, Create(c, v, i)
      PROVE  Results' = [Results EXCEPT ![c] = None] /\ Content' = Content
  <2>1. path' = path /\ Others /\ pc'[c] = "write"
    BY <1>5 DEF Create
  <2>2. \A j \in Inode : j # i => Parsed(j)' = Parsed(j)
    BY <1>5, SameParse DEF Create
  <2>3. i # path /\ \A d \in Client : pc[d] = "read" => fd[d] \in Inode /\ fd[d] # i
    BY <1>5 DEF Create, IsFree, Whole, FileWhole, ReadersWhole
  <2>4. Content' = Content /\ Result(c)' = None
    BY <2>1, <2>2, <2>3 DEF Content, Result
  <2>5. \A d \in Client : d # c => Result(d)' = Result(d)
    BY <2>1, <2>2, <2>3 DEF Result
  <2> QED
    BY <2>4, <2>5, ResultsUpdate
<1>6. CASE Write(c)
  <2>1. path' = path /\ pc' = pc /\ fd' = fd /\ value' = value /\ fd[c] = tmp
    BY <1>6 DEF Write, Whole, SaveWrites
  <2>2. \A j \in Inode : j # tmp => Parsed(j)' = Parsed(j)
    BY <1>6, <2>1, SameParse DEF Write
  <2>3. path # None => path # tmp
    BY DEF Whole, FileWhole
  <2>4. \A d \in Client : pc[d] = "read" => fd[d] \in Inode /\ fd[d] # tmp
    BY DEF Whole, ReadersWhole
  <2>5. \A d \in Client : Result(d)' = Result(d)
    BY <2>1, <2>2, <2>4 DEF Result
  <2>6. Content' = Content
    BY <2>1, <2>2, <2>3 DEF Content
  <2>7. Results' = Results
    BY <2>5 DEF Results
  <2> QED
    BY <2>6, <2>7
<1>7. CASE Rename(c)
  <2>a. tmp \in Inode
    BY <1>7 DEF Rename, Whole, SaveWrites
  <2>b. tmp # None
    BY <2>a, StateFileAssumption
  <2>1. cells' = cells /\ Others /\ tmp \in Inode /\ path' = tmp /\ pc'[c] = "saved"
    BY <1>7, <2>a, <2>b DEF Rename
  <2>2. \A i : Parsed(i)' = Parsed(i)
    BY <2>1, SameParse
  <2>3. path' # None /\ Parses(path)'
    BY <2>1 DEF Whole, FileWhole
  <2>4. Parsed(path)' \in Value
    BY <2>3 DEF Parses, Parsed
  <2>5. Content' \in Value
    <3>1. Content' = Parsed(path)'
      BY <2>3 DEF Content
    <3> QED
      BY <2>4, <3>1
  <2>6. Result(c) = None /\ Result(c)' = None
    BY <1>7, <2>1 DEF Rename, Saving, Result
  <2>7. \A d \in Client : Result(d)' = Result(d)
    BY <2>1, <2>2, <2>6 DEF Result
  <2>8. Results' = Results
    BY <2>7 DEF Results
  <2> QED
    BY <2>5, <2>8
<1>8. CASE Crash(c)
  <2>1. cells' = cells /\ path' = path /\ Others /\ pc'[c] = "idle"
    BY <1>8 DEF Crash, fileVars
  <2>2. \A i : Parsed(i)' = Parsed(i)
    BY <2>1, SameParse
  <2>3. Content' = Content /\ Result(c)' = None
    BY <2>1, <2>2 DEF Content, Result
  <2>4. \A d \in Client : d # c => Result(d)' = Result(d)
    BY <2>1, <2>2 DEF Result
  <2> QED
    BY <2>3, <2>4, ResultsUpdate
<1> QED
  BY <1>2, <1>3, <1>4, <1>5, <1>6, <1>7, <1>8 DEF Step

\* Until two saves overlap, the file with its temporary twin implements the atomic
\* file, whoever is killed where: a load sees the save before it, whole.
THEOREM AtomicCorrect == Spec => AtomicUntilOverlap
<1>1. Init => Atomic!Init
  BY DEF Init, Atomic!Init, Result
<1>2. FileInv /\ FileInv' /\ [Next]_vars => [~overlapped' => Atomic!Next]_(Atomic!vars)
  <2> SUFFICES ASSUME FileInv, FileInv', [Next]_vars, ~overlapped'
               PROVE  [Atomic!Next]_(Atomic!vars)
    OBVIOUS
  <2>1. CASE UNCHANGED vars
    BY <2>1 DEF vars, fileVars, Atomic!vars, Result, Parsed, Parses
  <2>2. ASSUME NEW c \in Client, Step(c) PROVE [Atomic!Next]_(Atomic!vars)
    BY <2>2, OverlapStays, StepRefines DEF FileInv
  <2> QED
    BY <2>1, <2>2 DEF Next
<1> QED
  BY <1>1, <1>2, FileInvariance, PTL DEF Spec, AtomicUntilOverlap
====
