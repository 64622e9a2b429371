---- MODULE LifecycleProofs ----
(***************************************************************************)
(* Proofs about Lifecycle, for any number of services, actors, pids and    *)
(* faults.                                                                 *)
(***************************************************************************)
EXTENDS Lifecycle, FiniteSetTheorems, TLAPS

\* Stages of a command about one service.
ServiceStage == {"decide", "spawn", "wait", "record", "verify", "health", "tunnels",
                 "stop", "candidates", "check", "signal", "reload"}

\* The strengthening TypeOK needs: a restart is in its down half, and a command
\* that is about one service has one.
RestartStops ==
  \A a \in Actor :
    cmd[a] = "restart" =>
      pc[a] \in {"stop", "candidates", "check", "signal", "save", "reload", "failed"}

WorksOnService ==
  \A a \in Actor :
    pc[a] \in ServiceStage \/ (pc[a] = "save" /\ cmd[a] = "restart") => cur[a] \in Service

TypeInv == TypeOK /\ RestartStops /\ WorksOnService

USE LifecycleAssumption

LEMMA FreeType == Free \in Process
BY DEF Free, Process

LEMMA ProcessUpdate ==
  ASSUME NEW r \in Process
  PROVE  /\ \A s \in Service \cup {NoService} : [r EXCEPT !.port = s] \in Process
         /\ [r EXCEPT !.parent = NoActor] \in Process
         /\ [r EXCEPT !.signalled = TRUE] \in Process
BY DEF Process

LEMMA EndedType ==
  ASSUME TypeOK, NEW p \in Pid
  PROVE  Ended(p) \in Process
<1>1. proc[p] \in Process
  BY DEF TypeOK
<1>2. [proc[p] EXCEPT !.state = "zombie", !.port = NoService] \in Process
  BY <1>1 DEF Process
<1> QED
  BY <1>2, FreeType DEF Ended

LEMMA OrphanedType ==
  ASSUME TypeOK, NEW a \in Actor
  PROVE  Orphaned(a) \in [Pid -> Process]
<1>1. \A p \in Pid : proc[p] \in Process /\ [proc[p] EXCEPT !.parent = NoActor] \in Process
  BY ProcessUpdate DEF TypeOK
<1> QED
  BY <1>1, FreeType DEF Orphaned

LEMMA KillPidType ==
  ASSUME TypeOK, NEW p
  PROVE  KillPid(p) \in [Pid -> Process]
<1>1. ASSUME p \in Pid PROVE [proc[p] EXCEPT !.signalled = TRUE] \in Process
  BY <1>1, ProcessUpdate DEF TypeOK
<1>2. [proc EXCEPT ![p].signalled = TRUE] \in [Pid -> Process]
  BY <1>1 DEF TypeOK
<1>3. [proc EXCEPT ![p] = Free] \in [Pid -> Process]
  BY FreeType DEF TypeOK
<1> QED
  BY <1>2, <1>3 DEF KillPid, TypeOK

LEMMA DecisionRange ==
  ASSUME NEW f, NEW live, NEW L
  PROVE  StartDecision(f, live, L) \in {"adopt", "spawn", "refuse"}
BY DEF StartDecision

LEMMA InitTypeInv == Init => TypeInv
BY FreeType DEF Init, NoState, TypeInv, TypeOK, RestartStops, WorksOnService, Desired, Stage, Command,
   StableAt, ServiceStage

LEMMA CommandTypeOK ==
  ASSUME TypeInv, NEW a \in Actor, CommandStep(a)
  PROVE  TypeOK'
<1> USE DEF TypeInv, TypeOK, WorksOnService, Goto, At, OsUnchanged, DataUnchanged, osVars,
        Desired, Stage, Command, ServiceStage
<1>1. CASE NextService(a)
  <2> SUFFICES ASSUME \/ pc' = [pc EXCEPT ![a] = "save"] /\ UNCHANGED <<cur, todo>>
                      \/ \E s \in todo[a] :
                           /\ todo' = [todo EXCEPT ![a] = todo[a] \ {s}]
                           /\ \/ UNCHANGED <<pc, cur>>
                              \/ /\ pc' = [pc EXCEPT ![a] = "decide"]
                                 /\ cur' = [cur EXCEPT ![a] = s]
               PROVE  /\ todo' \in [Actor -> SUBSET Service]
                      /\ cur' \in [Actor -> Service \cup {NoService}]
                      /\ pc' \in [Actor -> Stage]
    BY <1>1 DEF NextService
  <2>1. CASE pc' = [pc EXCEPT ![a] = "save"] /\ UNCHANGED <<cur, todo>>
    BY <2>1
  <2>2. ASSUME NEW s \in todo[a], todo' = [todo EXCEPT ![a] = todo[a] \ {s}],
               \/ UNCHANGED <<pc, cur>>
               \/ pc' = [pc EXCEPT ![a] = "decide"] /\ cur' = [cur EXCEPT ![a] = s]
        PROVE  /\ todo' \in [Actor -> SUBSET Service]
               /\ cur' \in [Actor -> Service \cup {NoService}]
               /\ pc' \in [Actor -> Stage]
    <3>1. s \in Service /\ todo[a] \ {s} \in SUBSET Service
      OBVIOUS
    <3>2. todo' \in [Actor -> SUBSET Service]
      BY <2>2, <3>1
    <3>3. cur' \in [Actor -> Service \cup {NoService}]
      <4>1. cur' = cur \/ cur' = [cur EXCEPT ![a] = s]
        BY <2>2
      <4>2. cur \in [Actor -> Service \cup {NoService}]
        OBVIOUS
      <4> HIDE DEF TypeInv, TypeOK, WorksOnService
      <4> QED
        BY <4>1, <4>2, <3>1
    <3>4. pc' \in [Actor -> Stage]
      BY <2>2
    <3> QED
      BY <3>2, <3>3, <3>4
  <2> QED
    BY <2>1, <2>2
<1>2. CASE Save(a)
  BY <1>2 DEF Save
<1>3. CASE Reload(a)
  BY <1>3 DEF Reload
<1>4. CASE EndCommand(a)
  <2>1. proc' \in [Pid -> Process]
    BY <1>4, OrphanedType DEF EndCommand
  <2>2. snap' \in [Actor -> [Service -> Desired]]
    BY <1>4 DEF EndCommand, Forget, NoState
  <2>3. samples' \in [Actor -> 0 .. StableAt - 1]
    BY <1>4 DEF EndCommand, Forget, StableAt
  <2>4. pc' \in [Actor -> Stage] /\ cmd' \in [Actor -> Command \cup {"none"}]
    BY <1>4 DEF EndCommand, Forget
  <2>5. /\ cur' \in [Actor -> Service \cup {NoService}]
        /\ todo' \in [Actor -> SUBSET Service]
        /\ target' \in [Actor -> Pid \cup {NoPid}]
        /\ cand' \in [Actor -> SUBSET Pid]
    BY <1>4 DEF EndCommand, Forget
  <2> QED
    BY <1>4, <2>1, <2>2, <2>3, <2>4, <2>5 DEF EndCommand, Forget
<1>5. CASE Decide(a)
  <2>2. \/ pc' = [pc EXCEPT ![a] = "verify"]
        \/ pc' = [pc EXCEPT ![a] = "spawn"]
        \/ pc' = [pc EXCEPT ![a] = "failed"]
    BY <1>5, DecisionRange DEF Decide
  <2>3. pc' \in [Actor -> Stage]
    BY <2>2
  <2>4. target' \in [Actor -> Pid \cup {NoPid}]
    BY <1>5 DEF Decide
  <2> QED
    BY <1>5, <2>3, <2>4 DEF Decide
<1>6. ASSUME NEW p \in Pid, Spawn(a, p) PROVE TypeOK'
  BY <1>6 DEF Spawn, Free, Process
<1>7. CASE SpawnFails(a)
  BY <1>7 DEF SpawnFails, Fault
<1>8. CASE Wait(a)
  <2>1. Sole(PidsListening(cur[a])) =>
          (CHOOSE p \in PidsListening(cur[a]) : TRUE) \in Pid
    BY DEF Sole, PidsListening
  <2>2. target' \in [Actor -> Pid \cup {NoPid}]
    <3>1. target' = target \/ \E p \in Pid : target' = [target EXCEPT ![a] = p]
      BY <1>8, <2>1 DEF Wait
    <3> QED
      BY <3>1
  <2>3. pc' \in [Actor -> Stage]
    <3>1. pc' = [pc EXCEPT ![a] = "record"] \/ pc' = [pc EXCEPT ![a] = "failed"]
      BY <1>8 DEF Wait
    <3> QED
      BY <3>1
  <2> QED
    BY <1>8, <2>2, <2>3 DEF Wait
<1>9. CASE WaitTimesOut(a)
  BY <1>9 DEF WaitTimesOut
<1>10. CASE Record(a)
  BY <1>10 DEF Record
<1>11. CASE Verify(a)
  <2>1. samples' \in [Actor -> 0 .. StableAt - 1]
    <3>1. samples[a] \in 0 .. 2 /\ (samples[a] + 1 # 3 => samples[a] + 1 \in 0 .. 2)
      BY DEF StableAt
    <3> QED
      BY <1>11, <3>1 DEF Verify, Sample, StableAt
  <2>2. snap' \in [Actor -> [Service -> Desired]]
    BY <1>11 DEF Verify, Sample
  <2>3. pc' \in [Actor -> Stage]
    BY <1>11 DEF Verify, Sample
  <2>4. verified' \subseteq Service
    <3>1. cur[a] \in Service
      BY <1>11 DEF Verify, Sample
    <3> QED
      BY <1>11, <3>1 DEF Verify, Sample
  <2> QED
    BY <1>11, <2>1, <2>2, <2>3, <2>4 DEF Verify, Sample
<1>12. CASE Health(a)
  <2>1. Sole(PidsListening(cur[a])) =>
          (CHOOSE p \in PidsListening(cur[a]) : TRUE) \in Pid
    BY DEF Sole, PidsListening
  <2>2. pidFile' \in [Service -> Pid \cup {NoPid}]
    <3>1. \/ pidFile' = pidFile
          \/ \E p \in Pid : pidFile' = [pidFile EXCEPT ![cur[a]] = p]
      BY <1>12, <2>1 DEF Health
    <3> QED
      BY <3>1
  <2>3. pc' \in [Actor -> Stage]
    <3>1. pc' = [pc EXCEPT ![a] = "tunnels"] \/ pc' = [pc EXCEPT ![a] = "next"]
      BY <1>12 DEF Health
    <3> QED
      BY <3>1
  <2> QED
    BY <1>12, <2>2, <2>3 DEF Health
<1>13. CASE OpenTunnels(a)
  BY <1>13 DEF OpenTunnels
<1>14. CASE StopTunnels(a)
  BY <1>14 DEF StopTunnels
<1>15. CASE CollectCandidates(a)
  <2>1. pidFile[cur[a]] \in Pid \cup {NoPid}
    BY <1>15 DEF CollectCandidates
  <2>2. StopCandidates(pidFile[cur[a]], PidsListening(cur[a])) \in SUBSET Pid
    BY <2>1, Zenon DEF StopCandidates, PidsListening
  <2>3. cand' \in [Actor -> SUBSET Pid]
    BY <1>15, <2>2 DEF CollectCandidates
  <2>4. pc' \in [Actor -> Stage]
    BY <1>15 DEF CollectCandidates
  <2> QED
    BY <1>15, <2>3, <2>4 DEF CollectCandidates
<1>16. ASSUME NEW p \in Pid, CheckCandidate(a, p) PROVE TypeOK'
  <2>1. cand[a] \ {p} \in SUBSET Pid
    OBVIOUS
  <2>2. cand' \in [Actor -> SUBSET Pid]
    BY <1>16, <2>1 DEF CheckCandidate
  <2>3. pc' = pc \/ pc' = [pc EXCEPT ![a] = "signal"]
    BY <1>16 DEF CheckCandidate
  <2>4. target' = target \/ target' = [target EXCEPT ![a] = p]
    BY <1>16 DEF CheckCandidate
  <2>5. pc' \in [Actor -> Stage]
    BY <2>3
  <2>6. target' \in [Actor -> Pid \cup {NoPid}]
    BY <2>4
  <2> QED
    BY <1>16, <2>2, <2>5, <2>6 DEF CheckCandidate
<1>17. CASE Signal(a)
  <2>1. proc' \in [Pid -> Process]
    BY <1>17, KillPidType DEF Signal
  <2>2. pc' \in [Actor -> Stage]
    <3>1. pc' = [pc EXCEPT ![a] = "check"] \/ pc' = [pc EXCEPT ![a] = "failed"]
      BY <1>17 DEF Signal
    <3> QED
      BY <3>1
  <2> QED
    BY <1>17, <2>1, <2>2 DEF Signal
<1>18. CASE Unrecord(a)
  BY <1>18 DEF Unrecord, Forgotten
<1> QED
  BY <1>1, <1>2, <1>3, <1>4, <1>5, <1>6, <1>7, <1>8, <1>9, 
     <1>10, <1>11, <1>12, <1>13, <1>14, <1>15, <1>16, <1>17, <1>18 DEF CommandStep

LEMMA CommandControl ==
  ASSUME TypeInv, NEW a \in Actor, CommandStep(a)
  PROVE  RestartStops' /\ WorksOnService'
<1> USE DEF TypeInv, RestartStops, WorksOnService, Goto, At, OsUnchanged, DataUnchanged,
        osVars, ServiceStage
<1> pc \in [Actor -> Stage] /\ cmd \in [Actor -> Command \cup {"none"}]
    /\ cur \in [Actor -> Service \cup {NoService}] /\ todo \in [Actor -> SUBSET Service]
  BY DEF TypeOK
<1>1. CASE NextService(a)
  BY <1>1 DEF NextService
<1>2. CASE Save(a)
  BY <1>2 DEF Save
<1>3. CASE Reload(a)
  BY <1>3 DEF Reload
<1>4. CASE EndCommand(a)
  BY <1>4 DEF EndCommand, Forget
<1>5. CASE Decide(a)
  BY <1>5 DEF Decide
<1>6. ASSUME NEW p \in Pid, Spawn(a, p) PROVE RestartStops' /\ WorksOnService'
  BY <1>6 DEF Spawn
<1>7. CASE SpawnFails(a)
  BY <1>7 DEF SpawnFails
<1>8. CASE Wait(a)
  BY <1>8 DEF Wait
<1>9. CASE WaitTimesOut(a)
  BY <1>9 DEF WaitTimesOut
<1>10. CASE Record(a)
  BY <1>10 DEF Record
<1>11. CASE Verify(a)
  BY <1>11 DEF Verify, Sample
<1>12. CASE Health(a)
  BY <1>12 DEF Health
<1>13. CASE OpenTunnels(a)
  BY <1>13 DEF OpenTunnels
<1>14. CASE StopTunnels(a)
  BY <1>14 DEF StopTunnels
<1>15. CASE CollectCandidates(a)
  BY <1>15 DEF CollectCandidates
<1>16. ASSUME NEW p \in Pid, CheckCandidate(a, p) PROVE RestartStops' /\ WorksOnService'
  BY <1>16 DEF CheckCandidate
<1>17. CASE Signal(a)
  BY <1>17 DEF Signal
<1>18. CASE Unrecord(a)
  BY <1>18 DEF Unrecord, Forgotten
<1> QED
  BY <1>1, <1>2, <1>3, <1>4, <1>5, <1>6, <1>7, <1>8, <1>9, 
     <1>10, <1>11, <1>12, <1>13, <1>14, <1>15, <1>16, <1>17, <1>18 DEF CommandStep

LEMMA BeginTypeInv ==
  ASSUME TypeInv, NEW a \in Actor, Begin(a)
  PROVE  TypeInv'
<1> USE DEF TypeInv, TypeOK, RestartStops, WorksOnService, Goto, At, osVars, Stage, Command,
        ServiceStage
<1>1. ASSUME NEW c \in Command, NEW s \in Service, BeginService(a, c, s) PROVE TypeInv'
  BY <1>1 DEF BeginService
<1>2. ASSUME NEW c \in Command, BeginPass(a, c) PROVE TypeInv'
  BY <1>2 DEF BeginPass
<1> QED
  BY <1>1, <1>2 DEF Begin

LEMMA AbortTypeInv ==
  ASSUME TypeInv, NEW a \in Actor, Abort(a)
  PROVE  TypeInv'
<1> USE DEF TypeInv, RestartStops, WorksOnService, Goto, Abort, Forget
<1>1. /\ pc' = [pc EXCEPT ![a] = "idle"]
      /\ cmd' = [cmd EXCEPT ![a] = "none"]
      /\ cur' = [cur EXCEPT ![a] = NoService]
  OBVIOUS
<1>2. TypeOK'
  <2> USE DEF TypeOK
  <2>1. proc' \in [Pid -> Process]
    BY OrphanedType
  <2>2. snap' \in [Actor -> [Service -> Desired]]
    BY DEF NoState, Desired
  <2>3. samples' \in [Actor -> 0 .. StableAt - 1]
    BY DEF StableAt
  <2>4. pc' \in [Actor -> Stage] /\ cmd' \in [Actor -> Command \cup {"none"}]
    BY <1>1 DEF Stage
  <2>5. /\ cur' \in [Actor -> Service \cup {NoService}]
        /\ todo' \in [Actor -> SUBSET Service]
        /\ target' \in [Actor -> Pid \cup {NoPid}]
        /\ cand' \in [Actor -> SUBSET Pid]
    OBVIOUS
  <2>6. faults' \in 0 .. MaxFaults
    BY DEF Fault
  <2> QED
    BY <2>1, <2>2, <2>3, <2>4, <2>5, <2>6
<1>3. RestartStops' /\ WorksOnService'
  BY <1>1 DEF TypeOK, ServiceStage
<1> QED
  BY <1>2, <1>3

LEMMA HostTypeInv ==
  ASSUME TypeInv, NEW p \in Pid, Host(p)
  PROVE  TypeInv'
<1> USE DEF TypeInv, TypeOK
<1>1. /\ proc' \in [Pid -> Process]
      /\ listened' \in [Service -> SUBSET Pid]
      /\ faults' \in 0 .. MaxFaults
      /\ HostStep
  <2>1. CASE Bind(p)
    <3>1. \A s \in Service : [proc[p] EXCEPT !.port = s] \in Process
      BY ProcessUpdate
    <3> QED
      BY <2>1, <3>1 DEF Bind
  <2>2. CASE End(p)
    BY <2>2, EndedType DEF End
  <2>3. CASE Crash(p)
    BY <2>3, EndedType DEF Crash, Fault
  <2>4. CASE Wedge(p)
    <3>1. [proc[p] EXCEPT !.port = NoService] \in Process
      BY ProcessUpdate
    <3> QED
      BY <2>4, <3>1 DEF Wedge, Fault
  <2>5. ASSUME NEW q \in Pid, Fork(p, q)
        PROVE  /\ proc' \in [Pid -> Process]
               /\ listened' \in [Service -> SUBSET Pid]
               /\ faults' \in 0 .. MaxFaults
               /\ HostStep
    <3>1. [proc[p] EXCEPT !.parent = NoActor] \in Process
      BY ProcessUpdate
    <3> QED
      BY <2>5, <3>1 DEF Fork, Fault
  <2>6. ASSUME NEW s \in Service, Foreign(p, s)
        PROVE  /\ proc' \in [Pid -> Process]
               /\ listened' \in [Service -> SUBSET Pid]
               /\ faults' \in 0 .. MaxFaults
               /\ HostStep
    <3>1. [Free EXCEPT !.state = "up", !.port = s] \in Process
      BY DEF Process, Free
    <3> QED
      BY <2>6, <3>1 DEF Foreign, Fault
  <2> QED
    BY <2>1, <2>2, <2>3, <2>4, <2>5, <2>6 DEF Host
<1>2. TypeOK'
  BY <1>1 DEF HostStep, localVars
<1>3. RestartStops' /\ WorksOnService'
  BY <1>1 DEF HostStep, localVars, RestartStops, WorksOnService
<1> QED
  BY <1>2, <1>3

LEMMA NextTypeInv == TypeInv /\ [Next]_vars => TypeInv'
<1> SUFFICES ASSUME TypeInv, [Next]_vars PROVE TypeInv'
  OBVIOUS
<1>1. ASSUME NEW a \in Actor, CommandStep(a) PROVE TypeInv'
  BY <1>1, CommandTypeOK, CommandControl DEF TypeInv
<1>2. CASE UNCHANGED vars
  BY <1>2 DEF vars, osVars, localVars, TypeInv, TypeOK, RestartStops, WorksOnService
<1> QED
  BY <1>1, <1>2, BeginTypeInv, AbortTypeInv, HostTypeInv DEF Next

LEMMA TypeInvariance == Spec => []TypeInv
BY InitTypeInv, NextTypeInv, PTL DEF Spec

\* Every reachable state is well typed, whatever the parameters.
THEOREM TypeCorrect == Spec => []TypeOK
BY TypeInvariance, PTL DEF TypeInv

----
(* Commands end, as far as it depends on them. *)

LEMMA StepsTable ==
  ASSUME NEW c, NEW n, NEW v, NEW k
  PROVE  /\ StepsFrom("idle", c, n, v, k) = 0
         /\ StepsFrom("done", c, n, v, k) = 1 /\ StepsFrom("failed", c, n, v, k) = 1
         /\ StepsFrom("save", c, n, v, k) = (IF c = "restart" THEN 13 ELSE 2) + v
         /\ StepsFrom("tunnels", c, n, v, k) = 3 + v /\ StepsFrom("next", c, n, v, k) = 3 + v
         /\ StepsFrom("health", c, n, v, k) = 4 + v
         /\ StepsFrom("verify", c, n, v, k) = 4 + StableAt - n + v
         /\ StepsFrom("record", c, n, v, k) = 8 + v
         /\ StepsFrom("wait", c, n, v, k) = 9 + v
         /\ StepsFrom("spawn", c, n, v, k) = 10 + v
         /\ StepsFrom("decide", c, n, v, k) = 11 + v
         /\ StepsFrom("reload", c, n, v, k) = 12 + v
         /\ StepsFrom("check", c, n, v, k) = 14 + v + k
         /\ StepsFrom("signal", c, n, v, k) = 15 + v + k
         /\ StepsFrom("candidates", c, n, v, k) = 15 + v + 2 * Cardinality(Pid)
         /\ StepsFrom("stop", c, n, v, k) = 16 + v + 2 * Cardinality(Pid)
BY DEF StepsFrom

Finitely == IsFiniteSet(Service) /\ IsFiniteSet(Pid)

LEMMA Sizes ==
  ASSUME Finitely, TypeOK, NEW a \in Actor
  PROVE  /\ Cardinality(todo[a]) \in Nat /\ Cardinality(todo[a]) <= Cardinality(Service)
         /\ Cardinality(cand[a]) \in Nat /\ Cardinality(cand[a]) <= Cardinality(Pid)
         /\ \A s \in todo[a] : Cardinality(todo[a] \ {s}) = Cardinality(todo[a]) - 1
         /\ \A p \in cand[a] : Cardinality(cand[a] \ {p}) = Cardinality(cand[a]) - 1
         /\ Cardinality(Pid) \in Nat /\ Cardinality(Service) \in Nat
<1>1. todo[a] \subseteq Service /\ cand[a] \subseteq Pid
  BY DEF TypeOK
<1>2. IsFiniteSet(todo[a]) /\ IsFiniteSet(cand[a])
  BY <1>1, FS_Subset DEF Finitely
<1> QED
  BY <1>1, <1>2, FS_Subset, FS_CardinalityType, FS_RemoveElement DEF Finitely

LEMMA StepsBounded ==
  ASSUME Finitely, TypeOK, NEW a \in Actor
  PROVE  StepsLeft(a) \in 0 .. 16 + 9 * Cardinality(Service) + 2 * Cardinality(Pid)
<1>1. samples[a] \in 0 .. 2 /\ pc[a] \in Stage
  BY DEF TypeOK, StableAt
<1> DEFINE v == 9 * Cardinality(todo[a])
           k == 2 * Cardinality(cand[a])
<1>2. /\ v \in 0 .. 9 * Cardinality(Service) /\ k \in 0 .. 2 * Cardinality(Pid)
      /\ Cardinality(Service) \in Nat /\ Cardinality(Pid) \in Nat
  BY Sizes
<1> HIDE DEF v, k
<1>3. StepsLeft(a) = StepsFrom(pc[a], cmd[a], samples[a], v, k)
  BY DEF StepsLeft, v, k
<1>4. StepsFrom(pc[a], cmd[a], samples[a], v, k)
        \in 0 .. 16 + 9 * Cardinality(Service) + 2 * Cardinality(Pid)
  BY <1>1, <1>2, StepsTable DEF Stage, StableAt
<1> QED
  BY <1>3, <1>4

Nearer(a) == StepsLeft(a)' \in Nat /\ StepsLeft(a)' < StepsLeft(a)

\* Steps of a command that keep what it still has to visit and to kill.
LEMMA StageAdvances ==
  ASSUME Finitely, TypeInv, NEW a \in Actor,
         UNCHANGED <<todo, cand>>,
         \/ pc[a] \in {"done", "failed"} /\ pc'[a] = "idle"
         \/ pc[a] \notin {"idle", "done", "failed"} /\ pc'[a] = "failed"
         \/ pc[a] = "save" /\ pc'[a] = (IF cmd[a] = "restart" THEN "reload" ELSE "done")
         \/ pc[a] = "reload" /\ pc'[a] = "decide"
         \/ pc[a] = "decide" /\ pc'[a] \in {"spawn", "verify"} /\ samples' = samples
         \/ pc[a] = "spawn" /\ pc'[a] = "wait"
         \/ pc[a] = "wait" /\ pc'[a] = "record"
         \/ pc[a] = "record" /\ pc'[a] = "verify" /\ samples' = samples
         \/ pc[a] = "verify" /\ pc'[a] = "health"
         \/ pc[a] = "verify" /\ pc'[a] = "verify" /\ samples'[a] = samples[a] + 1
         \/ pc[a] = "health" /\ pc'[a] \in {"tunnels", "next"}
         \/ pc[a] = "tunnels" /\ pc'[a] = "save" /\ cmd'[a] = cmd[a]
         \/ pc[a] = "next" /\ pc'[a] = "save" /\ cmd'[a] = cmd[a]
         \/ pc[a] = "stop" /\ pc'[a] = "candidates"
         \/ pc[a] = "signal" /\ pc'[a] = "check"
         \/ pc[a] = "check" /\ pc'[a] = "save"
  PROVE  Nearer(a)
<1> DEFINE v == 9 * Cardinality(todo[a])
           k == 2 * Cardinality(cand[a])
<1>1. /\ v \in Nat /\ k \in Nat /\ Cardinality(Pid) \in Nat /\ k <= 2 * Cardinality(Pid)
      /\ samples[a] \in 0 .. 2
  BY Sizes DEF TypeInv, TypeOK, StableAt
<1>2. pc[a] \in {"tunnels", "next"} => cmd[a] # "restart"
  BY DEF TypeInv, RestartStops
<1>3. /\ StepsLeft(a) = StepsFrom(pc[a], cmd[a], samples[a], v, k)
      /\ StepsLeft(a)' = StepsFrom(pc'[a], cmd'[a], samples'[a], v, k)
  BY DEF StepsLeft
<1> HIDE DEF v, k
<1>4. /\ pc[a] \in Stage
      /\ StepsFrom(pc'[a], cmd'[a], samples'[a], v, k) \in Nat
      /\ StepsFrom(pc'[a], cmd'[a], samples'[a], v, k)
           < StepsFrom(pc[a], cmd[a], samples[a], v, k)
  BY <1>1, <1>2, StepsTable DEF TypeInv, TypeOK, Stage, StableAt
<1> QED
  BY <1>3, <1>4 DEF Nearer

LEMMA CommandAdvances ==
  ASSUME Finitely, TypeInv, NEW a \in Actor, CommandStep(a)
  PROVE  Nearer(a)
<1> USE DEF Goto, At, OsUnchanged, DataUnchanged
<1>1. /\ pc \in [Actor -> Stage] /\ cmd \in [Actor -> Command \cup {"none"}]
      /\ todo \in [Actor -> SUBSET Service] /\ cand \in [Actor -> SUBSET Pid]
      /\ samples \in [Actor -> 0 .. StableAt - 1]
      /\ pidFile \in [Service -> Pid \cup {NoPid}]
      /\ pc[a] \in ServiceStage => cur[a] \in Service
  BY DEF TypeInv, TypeOK, WorksOnService
<1>2. CASE NextService(a)
  <2>1. CASE todo[a] = {} /\ pc'[a] = "save" /\ UNCHANGED <<cur, todo, cand, cmd>> /\ pc[a] = "next"
    BY <2>1, StageAdvances
  <2>2. ASSUME NEW s \in todo[a], pc[a] = "next", todo' = [todo EXCEPT ![a] = @ \ {s}],
               UNCHANGED <<cand, samples>>, pc'[a] \in {"next", "decide"}
        PROVE  Nearer(a)
    <3> DEFINE n == Cardinality(todo[a])
               k == 2 * Cardinality(cand[a])
    <3>1. n \in Nat /\ Cardinality(todo'[a]) = n - 1
      BY <1>1, <2>2, Sizes DEF TypeInv
    <3>2. /\ StepsLeft(a) = StepsFrom("next", cmd[a], samples[a], 9 * n, k)
          /\ StepsLeft(a)' = StepsFrom(pc'[a], cmd'[a], samples'[a], 9 * (n - 1), k)
      BY <2>2, <3>1 DEF StepsLeft
    <3> HIDE DEF n, k
    <3>3. StepsFrom("next", cmd[a], samples[a], 9 * n, k) = 3 + 9 * n
      BY StepsTable
    <3>4. StepsFrom(pc'[a], cmd'[a], samples'[a], 9 * (n - 1), k)
            \in {3 + 9 * (n - 1), 11 + 9 * (n - 1)}
      BY <2>2, StepsTable
    <3>5. 9 * n \in Nat /\ 9 * (n - 1) \in Nat /\ 9 * (n - 1) = 9 * n - 9
      <4>1. Cardinality(todo'[a]) \in Nat
        BY <1>1, <2>2, Sizes, FS_CardinalityType, FS_RemoveElement, FS_Subset
           DEF Finitely, TypeInv
      <4> QED
        BY <3>1, <4>1
    <3> QED
      BY <3>2, <3>3, <3>4, <3>5 DEF Nearer
  <2> QED
    BY <1>1, <1>2, <2>1, <2>2 DEF NextService
<1>3. CASE Save(a)
  BY <1>1, <1>3, StageAdvances DEF Save
<1>4. CASE Reload(a)
  BY <1>1, <1>4, StageAdvances DEF Reload
<1>5. CASE EndCommand(a)
  <2>1. pc[a] \in {"done", "failed"} /\ pc'[a] = "idle"
    BY <1>1, <1>5 DEF EndCommand, Forget
  <2> QED
    BY <2>1, StepsTable DEF StepsLeft, Nearer
<1>6. CASE Decide(a)
  BY <1>1, <1>6, DecisionRange, StageAdvances DEF Decide
<1>7. ASSUME NEW p \in Pid, Spawn(a, p) PROVE Nearer(a)
  BY <1>1, <1>7, StageAdvances DEF Spawn
<1>8. CASE SpawnFails(a)
  BY <1>1, <1>8, StageAdvances DEF SpawnFails
<1>9. CASE Wait(a)
  BY <1>1, <1>9, StageAdvances DEF Wait
<1>10. CASE WaitTimesOut(a)
  BY <1>1, <1>10, StageAdvances DEF WaitTimesOut
<1>11. CASE Record(a)
  BY <1>1, <1>11, StageAdvances DEF Record
<1>12. CASE Verify(a)
  BY <1>1, <1>12, StageAdvances DEF Verify, Sample
<1>13. CASE Health(a)
  BY <1>1, <1>13, StageAdvances DEF Health
<1>14. CASE OpenTunnels(a)
  BY <1>1, <1>14, StageAdvances DEF OpenTunnels
<1>15. CASE StopTunnels(a)
  BY <1>1, <1>15, StageAdvances DEF StopTunnels
<1>16. CASE CollectCandidates(a)
  <2>1. pc[a] = "candidates" /\ pc'[a] = "check" /\ todo' = todo
    BY <1>1, <1>16 DEF CollectCandidates
  <2>2. cand'[a] \subseteq Pid
    BY CommandTypeOK DEF TypeInv, TypeOK
  <2>3. /\ Cardinality(cand'[a]) \in Nat /\ Cardinality(cand'[a]) <= Cardinality(Pid)
        /\ Cardinality(Pid) \in Nat /\ Cardinality(todo[a]) \in Nat
    BY <2>2, Sizes, FS_Subset, FS_CardinalityType DEF Finitely, TypeInv
  <2>4. /\ StepsLeft(a) = 15 + 9 * Cardinality(todo[a]) + 2 * Cardinality(Pid)
        /\ StepsLeft(a)' = 14 + 9 * Cardinality(todo[a]) + 2 * Cardinality(cand'[a])
    BY <2>1, StepsTable DEF StepsLeft
  <2> QED
    BY <2>3, <2>4 DEF Nearer
<1>17. ASSUME NEW p \in Pid, CheckCandidate(a, p) PROVE Nearer(a)
  <2>1. /\ pc[a] = "check" /\ pc'[a] \in {"check", "signal"} /\ todo' = todo
        /\ p \in cand[a] /\ cand'[a] = cand[a] \ {p}
    BY <1>1, <1>17 DEF CheckCandidate
  <2> DEFINE v == 9 * Cardinality(todo[a])
             n == Cardinality(cand[a])
  <2>2. v \in Nat /\ n \in Nat /\ Cardinality(cand'[a]) = n - 1
    BY <2>1, Sizes DEF TypeInv
  <2>3. /\ StepsLeft(a) = StepsFrom("check", cmd[a], samples[a], v, 2 * n)
        /\ StepsLeft(a)' = StepsFrom(pc'[a], cmd'[a], samples'[a], v, 2 * (n - 1))
    BY <2>1, <2>2 DEF StepsLeft
  <2> HIDE DEF v, n
  <2>4. StepsFrom("check", cmd[a], samples[a], v, 2 * n) = 14 + v + 2 * n
    BY StepsTable
  <2>5. StepsFrom(pc'[a], cmd'[a], samples'[a], v, 2 * (n - 1))
          \in {14 + v + 2 * (n - 1), 15 + v + 2 * (n - 1)}
    BY <2>1, StepsTable
  <2> QED
    BY <2>2, <2>3, <2>4, <2>5 DEF Nearer
<1>18. CASE Signal(a)
  BY <1>1, <1>18, StageAdvances DEF Signal
<1>19. CASE Unrecord(a)
  BY <1>1, <1>19, StageAdvances DEF Unrecord, Forgotten
<1> QED
  BY <1>2, <1>3, <1>4, <1>5, <1>6, <1>7, <1>8, <1>9, <1>10, <1>11, <1>12, <1>13, <1>14, <1>15,
     <1>16, <1>17, <1>18, <1>19 DEF CommandStep

\* What an actor's steps leave of the others' commands: everything.
LEMMA OthersLocals ==
  ASSUME TypeOK, NEW a \in Actor, NEW b \in Actor, a # b,
         Begin(b) \/ CommandStep(b) \/ Abort(b)
  PROVE  /\ pc'[a] = pc[a] /\ cmd'[a] = cmd[a] /\ samples'[a] = samples[a]
         /\ todo'[a] = todo[a] /\ cand'[a] = cand[a]
<1> USE DEF Goto, TypeOK, OsUnchanged, DataUnchanged
<1>1. CASE Begin(b)
  BY <1>1 DEF Begin, BeginService, BeginPass
<1>2. CASE Abort(b)
  BY <1>2 DEF Abort, Forget
<1>3. CASE NextService(b) \/ Save(b) \/ Reload(b) \/ EndCommand(b)
  BY <1>3 DEF NextService, Save, Reload, EndCommand, Forget
<1>4. CASE Decide(b) \/ (\E p \in Pid : Spawn(b, p)) \/ SpawnFails(b)
  BY <1>4 DEF Decide, Spawn, SpawnFails
<1>5. CASE Wait(b) \/ WaitTimesOut(b) \/ Record(b)
  BY <1>5 DEF Wait, WaitTimesOut, Record
<1>6. CASE Verify(b) \/ Health(b) \/ OpenTunnels(b)
  BY <1>6 DEF Verify, Sample, Health, OpenTunnels
<1>7. CASE StopTunnels(b) \/ CollectCandidates(b) \/ (\E p \in Pid : CheckCandidate(b, p))
  BY <1>7 DEF StopTunnels, CollectCandidates, CheckCandidate
<1>8. CASE Signal(b) \/ Unrecord(b)
  BY <1>8 DEF Signal, Unrecord, Forgotten
<1> QED
  BY <1>1, <1>2, <1>3, <1>4, <1>5, <1>6, <1>7, <1>8 DEF CommandStep

\* The steps of others leave a command where it is, and a kill ends it.
LEMMA OthersKeep ==
  ASSUME Finitely, TypeInv, TypeInv', NEW a \in Actor, pc[a] # "idle", [Next]_vars
  PROVE  CommandStep(a) \/ StepsLeft(a)' <= StepsLeft(a)
<1>1. StepsLeft(a) \in Nat
  BY StepsBounded, Sizes DEF TypeInv
<1>2. ASSUME pc'[a] = pc[a], cmd'[a] = cmd[a], samples'[a] = samples[a],
             todo'[a] = todo[a], cand'[a] = cand[a]
      PROVE  StepsLeft(a)' <= StepsLeft(a)
  <2>1. StepsLeft(a)' = StepsLeft(a)
    BY <1>2 DEF StepsLeft
  <2> QED
    BY <1>1, <2>1
<1>3. ASSUME NEW b \in Actor, Begin(b) \/ CommandStep(b) \/ Abort(b)
      PROVE  CommandStep(a) \/ StepsLeft(a)' <= StepsLeft(a)
  <2>1. CASE b # a
    BY <1>2, <1>3, <2>1, OthersLocals DEF TypeInv
  <2>2. CASE b = a /\ Abort(a)
    <3>1. pc'[a] = "idle"
      BY <2>2 DEF Abort, Forget, Goto, TypeInv, TypeOK
    <3>2. StepsLeft(a)' = 0
      BY <3>1, StepsTable DEF StepsLeft
    <3> QED
      BY <1>1, <3>2
  <2>3. ~Begin(a)
    BY DEF Begin, BeginService, BeginPass, At
  <2> QED
    BY <1>3, <2>1, <2>2, <2>3
<1>4. ASSUME NEW p \in Pid, Host(p) PROVE StepsLeft(a)' <= StepsLeft(a)
  <2>1. HostStep
    BY <1>4 DEF Host, Bind, End, Crash, Wedge, Fork, Foreign
  <2> QED
    BY <1>2, <2>1 DEF HostStep, localVars
<1>5. CASE UNCHANGED vars
  BY <1>2, <1>5 DEF vars, localVars
<1> QED
  BY <1>3, <1>4, <1>5 DEF Next

\* CommandsAdvance: whatever overlaps, fails or is killed, every step of a command is nearer
\* to its end, and nobody else's sets it back; with StepsBounded, a command takes no more
\* than 16 + 9 |Service| + 2 |Pid| steps.
THEOREM AdvanceCorrect == Finitely => (Spec => CommandsAdvance)
<1> SUFFICES ASSUME Finitely PROVE Spec => CommandsAdvance
  OBVIOUS
<1>1. ASSUME TypeInv, TypeInv', [Next]_vars
      PROVE  [\A a \in Actor :
                /\ CommandStep(a) => StepsLeft(a)' < StepsLeft(a)
                /\ pc[a] # "idle" => StepsLeft(a)' <= StepsLeft(a)]_vars
  <2> SUFFICES ASSUME NEW a \in Actor
               PROVE  /\ CommandStep(a) => StepsLeft(a)' < StepsLeft(a)
                      /\ pc[a] # "idle" => StepsLeft(a)' <= StepsLeft(a)
    OBVIOUS
  <2>1. StepsLeft(a) \in Nat
    BY <1>1, StepsBounded, Sizes DEF TypeInv
  <2> QED
    BY <1>1, <2>1, CommandAdvances, OthersKeep DEF Nearer
<1> QED
  BY <1>1, TypeInvariance, PTL DEF Spec, CommandsAdvance

----
(* Where the pid in a pid_file comes from. *)

\* The strengthening PidFileNamesListener needs: whoever listens has been heard,
\* and a command that is about to record a pid has heard it.
ListenersHeard ==
  \A p \in Pid, s \in Service : proc[p].port = s => p \in listened[s]

RecordsHeard ==
  \A a \in Actor : pc[a] = "record" => target[a] \in listened[cur[a]]

HeardInv == ListenersHeard /\ PidFileNamesListener /\ RecordsHeard

\* What a poll returns as the sole listener has been heard.
LEMMA SoleHeard ==
  ASSUME ListenersHeard, NEW s \in Service, Sole(PidsListening(s))
  PROVE  (CHOOSE p \in PidsListening(s) : TRUE) \in listened[s]
<1>1. (CHOOSE p \in PidsListening(s) : TRUE) \in PidsListening(s)
  BY DEF Sole
<1> QED
  BY <1>1 DEF PidsListening, ListenersHeard

\* A process that ends, is signalled or loses its parent listens nowhere new.
LEMMA PortsOnlyClose ==
  ASSUME TypeOK, NEW p \in Pid
  PROVE  /\ \A a \in Actor : Orphaned(a)[p].port \in {proc[p].port, NoService}
         /\ \A q : KillPid(q)[p].port \in {proc[p].port, NoService}
         /\ Ended(p).port = NoService
BY DEF TypeOK, Process, Orphaned, KillPid, Ended, Free

LEMMA CommandHeard ==
  ASSUME TypeInv, HeardInv, NEW a \in Actor, CommandStep(a)
  PROVE  HeardInv'
<1> USE DEF TypeInv, HeardInv, ListenersHeard, PidFileNamesListener, RecordsHeard, Goto, At,
        OsUnchanged, DataUnchanged, osVars
<1> /\ pc \in [Actor -> Stage] /\ target \in [Actor -> Pid \cup {NoPid}]
    /\ cur \in [Actor -> Service \cup {NoService}]
    /\ pidFile \in [Service -> Pid \cup {NoPid}]
    /\ proc \in [Pid -> Process]
    /\ pc[a] \in ServiceStage => cur[a] \in Service
  BY DEF TypeOK, WorksOnService
<1> HIDE DEF TypeInv
<1>1. CASE NextService(a)
  BY <1>1 DEF NextService
<1>2. CASE Save(a)
  BY <1>2 DEF Save
<1>3. CASE Reload(a)
  BY <1>3 DEF Reload
<1>4. CASE EndCommand(a)
  <2>1. \A p \in Pid : proc'[p].port \in {proc[p].port, NoService}
    BY <1>4, PortsOnlyClose DEF EndCommand, TypeInv
  <2> QED
    BY <1>4, <2>1 DEF EndCommand, Forget
<1>5. CASE Decide(a)
  <2>1. pc' = [pc EXCEPT ![a] = pc'[a]] /\ pc'[a] # "record"
    BY <1>5, DecisionRange DEF Decide
  <2>2. target' = [target EXCEPT ![a] = target'[a]]
    BY <1>5 DEF Decide
  <2> QED
    BY <1>5, <2>1, <2>2 DEF Decide
<1>6. ASSUME NEW p \in Pid, Spawn(a, p) PROVE HeardInv'
  <2>1. \A q \in Pid : proc'[q].port \in {proc[q].port, NoService}
    BY <1>6 DEF Spawn, Free
  <2> QED
    BY <1>6, <2>1 DEF Spawn
<1>7. CASE SpawnFails(a)
  BY <1>7 DEF SpawnFails
<1>8. CASE Wait(a)
  <2>1. cur[a] \in Service
    BY <1>8 DEF Wait, ServiceStage
  <2>2. Sole(PidsListening(cur[a])) =>
          (CHOOSE p \in PidsListening(cur[a]) : TRUE) \in listened[cur[a]]
    BY <2>1, SoleHeard
  <2>3. \/ /\ pc' = [pc EXCEPT ![a] = "failed"]
           /\ target' = target
        \/ /\ pc' = [pc EXCEPT ![a] = "record"]
           /\ \E p \in listened[cur[a]] : target' = [target EXCEPT ![a] = p]
    BY <1>8, <2>2 DEF Wait
  <2>4. UNCHANGED <<proc, listened, cur, pidFile>>
    BY <1>8 DEF Wait
  <2>5. RecordsHeard'
    BY <2>3, <2>4
  <2>6. ListenersHeard' /\ PidFileNamesListener'
    BY <2>4 DEF PidsListening
  <2> QED
    BY <2>5, <2>6
<1>9. CASE WaitTimesOut(a)
  BY <1>9 DEF WaitTimesOut
<1>10. CASE Record(a)
  <2>1. cur[a] \in Service
    BY <1>10 DEF Record, ServiceStage
  <2> QED
    BY <1>10, <2>1 DEF Record
<1>11. CASE Verify(a)
  BY <1>11 DEF Verify, Sample
<1>12. CASE Health(a)
  <2>1. cur[a] \in Service
    BY <1>12 DEF Health, ServiceStage
  <2>2. Sole(PidsListening(cur[a])) =>
          (CHOOSE p \in PidsListening(cur[a]) : TRUE) \in listened[cur[a]]
    BY <2>1, SoleHeard
  <2>3. \/ pidFile' = pidFile
        \/ \E p \in listened[cur[a]] : pidFile' = [pidFile EXCEPT ![cur[a]] = p]
    BY <1>12, <2>2 DEF Health
  <2>4. /\ pc' = [pc EXCEPT ![a] = pc'[a]] /\ pc'[a] # "record"
        /\ UNCHANGED <<proc, listened, cur, target>>
    BY <1>12 DEF Health
  <2>5. PidFileNamesListener'
    BY <2>1, <2>3, <2>4
  <2>6. ListenersHeard' /\ RecordsHeard'
    BY <2>4 DEF PidsListening
  <2> QED
    BY <2>5, <2>6
<1>13. CASE OpenTunnels(a)
  BY <1>13 DEF OpenTunnels
<1>14. CASE StopTunnels(a)
  BY <1>14 DEF StopTunnels
<1>15. CASE CollectCandidates(a)
  BY <1>15 DEF CollectCandidates
<1>16. ASSUME NEW p \in Pid, CheckCandidate(a, p) PROVE HeardInv'
  <2>1. pc' = pc \/ pc' = [pc EXCEPT ![a] = "signal"]
    BY <1>16 DEF CheckCandidate
  <2>2. target' = target \/ target' = [target EXCEPT ![a] = p]
    BY <1>16 DEF CheckCandidate
  <2>3. pc[a] = "check" /\ UNCHANGED <<proc, listened, cur, pidFile>>
    BY <1>16 DEF CheckCandidate
  <2>4. RecordsHeard'
    BY <2>1, <2>2, <2>3
  <2>5. ListenersHeard' /\ PidFileNamesListener'
    BY <2>3 DEF PidsListening
  <2> QED
    BY <2>4, <2>5
<1>17. CASE Signal(a)
  <2>1. \A p \in Pid : proc'[p].port \in {proc[p].port, NoService}
    BY <1>17, PortsOnlyClose DEF Signal, TypeInv
  <2> QED
    BY <1>17, <2>1 DEF Signal
<1>18. CASE Unrecord(a)
  BY <1>18 DEF Unrecord, Forgotten
<1> QED
  BY <1>1, <1>2, <1>3, <1>4, <1>5, <1>6, <1>7, <1>8, <1>9, <1>10, <1>11, <1>12, <1>13,
     <1>14, <1>15, <1>16, <1>17, <1>18 DEF CommandStep

LEMMA AbortHeard ==
  ASSUME TypeInv, HeardInv, NEW a \in Actor, Abort(a)
  PROVE  HeardInv'
<1>1. \A p \in Pid : proc'[p].port \in {proc[p].port, NoService}
  BY PortsOnlyClose DEF Abort, TypeInv
<1> QED
  BY <1>1 DEF Abort, Forget, Goto, HeardInv, ListenersHeard, PidFileNamesListener,
     RecordsHeard, TypeInv, TypeOK

LEMMA BeginHeard ==
  ASSUME TypeInv, HeardInv, NEW a \in Actor, Begin(a)
  PROVE  HeardInv'
<1> USE DEF HeardInv, ListenersHeard, PidFileNamesListener, RecordsHeard, Goto, At, osVars,
        TypeInv, TypeOK
<1>1. ASSUME NEW c \in Command, NEW s \in Service, BeginService(a, c, s) PROVE HeardInv'
  BY <1>1 DEF BeginService
<1>2. ASSUME NEW c \in Command, BeginPass(a, c) PROVE HeardInv'
  BY <1>2 DEF BeginPass
<1> QED
  BY <1>1, <1>2 DEF Begin

LEMMA HostHeard ==
  ASSUME TypeInv, HeardInv, NEW p \in Pid, Host(p)
  PROVE  HeardInv'
<1> USE DEF HeardInv, ListenersHeard, PidFileNamesListener, RecordsHeard, HostStep, localVars,
        TypeInv, TypeOK
<1>1. CASE Bind(p)
  BY <1>1 DEF Bind, Process
<1>2. CASE End(p)
  BY <1>2, PortsOnlyClose DEF End
<1>3. CASE Crash(p)
  BY <1>3, PortsOnlyClose DEF Crash
<1>4. CASE Wedge(p)
  BY <1>4 DEF Wedge, Process
<1>5. ASSUME NEW q \in Pid, Fork(p, q) PROVE HeardInv'
  BY <1>5 DEF Fork, Process
<1>6. ASSUME NEW s \in Service, Foreign(p, s) PROVE HeardInv'
  BY <1>6 DEF Foreign, Free, Process
<1> QED
  BY <1>1, <1>2, <1>3, <1>4, <1>5, <1>6 DEF Host

\* However many commands overlap, crash and fail, a pid_file only ever names a
\* process that has listened on the service's port.
THEOREM PidFileCorrect == Spec => []PidFileNamesListener
<1>1. Init => HeardInv
  BY DEF Init, Free, HeardInv, ListenersHeard, PidFileNamesListener, RecordsHeard
<1>2. TypeInv /\ HeardInv /\ [Next]_vars => HeardInv'
  <2> SUFFICES ASSUME TypeInv, HeardInv, [Next]_vars PROVE HeardInv'
    OBVIOUS
  <2>1. CASE UNCHANGED vars
    BY <2>1 DEF vars, osVars, localVars, HeardInv, ListenersHeard, PidFileNamesListener,
       RecordsHeard
  <2> QED
    BY <2>1, CommandHeard, AbortHeard, BeginHeard, HostHeard DEF Next
<1>3. HeardInv => PidFileNamesListener
  BY DEF HeardInv
<1> QED
  BY <1>1, <1>2, <1>3, TypeInvariance, PTL DEF Spec
----
(* Where a request to run comes from. *)

\* The strengthening DesiredRunningWasVerified needs: an actor's copy of the state
\* file asks for no service that was never seen stable.
CopiesVerified ==
  \A a \in Actor, s \in Service : snap[a][s] = "running" => s \in verified

DesiredInv == DesiredRunningWasVerified /\ CopiesVerified

LEMMA CommandVerified ==
  ASSUME TypeInv, DesiredInv, NEW a \in Actor, CommandStep(a)
  PROVE  DesiredInv'
<1> USE DEF DesiredInv, DesiredRunningWasVerified, CopiesVerified
<1> /\ snap \in [Actor -> [Service -> Desired]]
    /\ pc[a] \in ServiceStage => cur[a] \in Service
  BY DEF TypeInv, TypeOK, WorksOnService
<1>1. CASE UNCHANGED <<disk, snap, verified>>
  BY <1>1
<1>2. CASE Save(a)
  BY <1>2 DEF Save
<1>3. CASE Reload(a)
  BY <1>3 DEF Reload
<1>4. CASE EndCommand(a)
  BY <1>4 DEF EndCommand, Forget, NoState
<1>5. CASE Verify(a)
  <2>1. cur[a] \in Service /\ UNCHANGED disk
    BY <1>5 DEF Verify, Sample, At, ServiceStage
  <2>2. CASE snap' = snap
    BY <1>5, <2>1, <2>2 DEF Verify, Sample
  <2>3. CASE snap' = [snap EXCEPT ![a][cur[a]] = "running"] /\ verified' = verified \cup {cur[a]}
    BY <2>1, <2>3
  <2> QED
    BY <1>5, <2>2, <2>3 DEF Verify, Sample
<1>6. CASE Unrecord(a)
  BY <1>6 DEF Unrecord, Forgotten, OsUnchanged
<1>7. \/ UNCHANGED <<disk, snap, verified>>
      \/ Save(a) \/ Reload(a) \/ EndCommand(a) \/ Verify(a) \/ Unrecord(a)
  BY DEF CommandStep, NextService, Decide, Spawn, SpawnFails, Wait, WaitTimesOut, Record,
     Health, OpenTunnels, StopTunnels, CollectCandidates, CheckCandidate, Signal,
     DataUnchanged
<1> QED
  BY <1>1, <1>2, <1>3, <1>4, <1>5, <1>6, <1>7

LEMMA OthersVerified ==
  ASSUME TypeInv, DesiredInv,
         \/ UNCHANGED vars
         \/ \E p \in Pid : Host(p)
         \/ \E a \in Actor : Begin(a) \/ Abort(a)
  PROVE  DesiredInv'
<1> USE DEF DesiredInv, DesiredRunningWasVerified, CopiesVerified
<1> snap \in [Actor -> [Service -> Desired]]
  BY DEF TypeInv, TypeOK
<1>1. CASE UNCHANGED vars
  BY <1>1 DEF vars
<1>2. ASSUME NEW p \in Pid, Host(p) PROVE DesiredInv'
  BY <1>2 DEF Host, Bind, End, Crash, Wedge, Fork, Foreign, HostStep
<1>3. ASSUME NEW a \in Actor, Begin(a) PROVE DesiredInv'
  BY <1>3 DEF Begin, BeginService, BeginPass
<1>4. ASSUME NEW a \in Actor, Abort(a) PROVE DesiredInv'
  BY <1>4 DEF Abort, Forget, NoState
<1> QED
  BY <1>1, <1>2, <1>3, <1>4

\* However many commands overlap, lose each other's updates, fail or are killed,
\* the state file asks for no service that no command ever saw stable.
THEOREM DesiredCorrect == Spec => []DesiredRunningWasVerified
<1>1. Init => DesiredInv
  BY DEF Init, NoState, DesiredInv, DesiredRunningWasVerified, CopiesVerified
<1>2. TypeInv /\ DesiredInv /\ [Next]_vars => DesiredInv'
  BY CommandVerified, OthersVerified DEF Next
<1>3. DesiredInv => DesiredRunningWasVerified
  BY DEF DesiredInv
<1> QED
  BY <1>1, <1>2, <1>3, TypeInvariance, PTL DEF Spec
----
(* The decisions of ManagedStatus, which the code takes in different places. *)

\* start_service and managed_service_status read the same three observations with
\* code of their own, and agree: start adopts exactly what status calls running, and
\* launches exactly what it calls stopped or stale.
THEOREM StartAgreesWithStatus ==
  ASSUME NEW f \in Pid \cup {NoPid}, NEW live \in BOOLEAN, NEW L \in SUBSET Pid
  PROVE  /\ StartDecision(f, live, L) = "adopt"
              <=> ManagedServiceStatus(f, live, L) = "running"
         /\ StartDecision(f, live, L) = "spawn"
              <=> ManagedServiceStatus(f, live, L) \in {"stopped", "stale"}
<1>2. Several(L) => L # {} /\ L # {f}
  BY DEF Several
<1>3. CASE Several(L)
  <2>1. ManagedServiceStatus(f, live, L) \in {"stale-listeners", "multi-listener"}
    BY <1>3 DEF ManagedServiceStatus
  <2>2. StartDecision(f, live, L) = "refuse"
    BY <1>2, <1>3 DEF StartDecision
  <2> QED
    BY <2>1, <2>2
<1>4. CASE ~Several(L)
  BY <1>4 DEF ManagedServiceStatus, StartDecision
<1> QED
  BY <1>3, <1>4
----
(* Commands that do not overlap, for any number of services, actors and    *)
(* pids.                                                                   *)

\* Commands take turns: while one runs, no other is given.
OneAtATime == \A a, b \in Actor : pc[a] # "idle" /\ pc[b] # "idle" => a = b

\* Processes crash, lose their port or cannot be launched, and bind their port
\* before the deadline if ever.  Left out is what start_service cannot see: other
\* programs on the port, a launcher's children, a child it gave up or was killed
\* before it recorded.
Sparing == Faults \subseteq {"crash", "wedge", "spawn"} /\ SlowStart = {}

----
(* What supervise does to the state file. *)

HIDE LifecycleAssumption

\* A pass carries the state file unaltered, and works on what it asks for.
PassStage == {"decide", "spawn", "wait", "record", "verify"}
PassInv ==
  \A a \in Actor : cmd[a] = "supervise" =>
    /\ pc[a] # "idle" /\ pc[a] # "tunnels" /\ pc[a] # "reload"
    /\ pc[a] \notin {"stop", "candidates", "check", "signal"}
    /\ snap[a] = disk
    /\ pc[a] \in PassStage => disk[cur[a]] = "running"

LEMMA InitPass == Init => PassInv
BY DEF Init, PassInv

LEMMA CommandPass ==
  ASSUME TypeInv, PassInv, OneAtATime, NEW a \in Actor, CommandStep(a)
  PROVE  PassInv'
<1> USE DEF PassInv, PassStage, Goto, At, OsUnchanged, DataUnchanged, osVars
<1>1. /\ pc \in [Actor -> Stage] /\ cmd \in [Actor -> Command \cup {"none"}]
      /\ cur \in [Actor -> Service \cup {NoService}]
      /\ snap \in [Actor -> [Service -> Desired]] /\ disk \in [Service -> Desired]
      /\ todo \in [Actor -> SUBSET Service]
  BY DEF TypeInv, TypeOK
<1>2. \A b \in Actor \ {a} : pc[a] # "idle" => cmd[b] # "supervise"
  BY DEF OneAtATime
<1>3. CASE NextService(a)
  <2>1. /\ pc[a] = "next" /\ UNCHANGED <<cmd, snap, disk>>
        /\ \/ pc' = [pc EXCEPT ![a] = "save"] /\ cur' = cur
           \/ pc' = pc /\ cur' = cur
           \/ \E s \in Service : /\ cmd[a] = "supervise" => snap[a][s] = "running"
                                 /\ pc' = [pc EXCEPT ![a] = "decide"]
                                 /\ cur' = [cur EXCEPT ![a] = s]
    BY <1>1, <1>3 DEF NextService, Skipped
  <2> QED
    BY <1>1, <1>2, <2>1
<1>4. CASE Save(a)
  BY <1>1, <1>2, <1>4 DEF Save
<1>5. CASE Reload(a)
  BY <1>1, <1>2, <1>5 DEF Reload
<1>6. CASE EndCommand(a)
  BY <1>1, <1>2, <1>6 DEF EndCommand, Forget
<1>7. CASE Decide(a)
  BY <1>1, <1>2, <1>7, DecisionRange DEF Decide
<1>8. ASSUME NEW p \in Pid, Spawn(a, p) PROVE PassInv'
  BY <1>1, <1>2, <1>8 DEF Spawn
<1>9. CASE SpawnFails(a)
  BY <1>1, <1>2, <1>9 DEF SpawnFails
<1>10. CASE Wait(a)
  BY <1>1, <1>2, <1>10 DEF Wait
<1>11. CASE WaitTimesOut(a)
  BY <1>1, <1>2, <1>11 DEF WaitTimesOut
<1>12. CASE Record(a)
  BY <1>1, <1>2, <1>12 DEF Record
<1>13. CASE Verify(a)
  <2>1. cur[a] \in Service /\ pc[a] = "verify" /\ UNCHANGED <<cmd, cur, disk>>
    BY <1>13 DEF Verify, Sample, TypeInv, WorksOnService, ServiceStage
  <2>2. /\ snap' = snap \/ snap' = [snap EXCEPT ![a][cur[a]] = "running"]
        /\ \E stage \in {"failed", "health", "verify"} : pc' = [pc EXCEPT ![a] = stage]
    BY <1>13 DEF Verify, Sample
  <2>3. cmd[a] = "supervise" => snap'[a] = disk
    BY <1>1, <2>1, <2>2
  <2> QED
    BY <1>1, <1>2, <2>1, <2>2, <2>3
<1>14. CASE Health(a)
  BY <1>1, <1>2, <1>14 DEF Health
<1>15. CASE OpenTunnels(a)
  BY <1>1, <1>2, <1>15 DEF OpenTunnels
<1>16. CASE StopTunnels(a)
  BY <1>1, <1>2, <1>16 DEF StopTunnels
<1>17. CASE CollectCandidates(a)
  BY <1>1, <1>2, <1>17 DEF CollectCandidates
<1>18. ASSUME NEW p \in Pid, CheckCandidate(a, p) PROVE PassInv'
  BY <1>1, <1>2, <1>18 DEF CheckCandidate
<1>19. CASE Signal(a)
  BY <1>1, <1>2, <1>19 DEF Signal
<1>20. CASE Unrecord(a)
  BY <1>1, <1>2, <1>20 DEF Unrecord, Forgotten
<1> QED
  BY <1>3, <1>4, <1>5, <1>6, <1>7, <1>8, <1>9, <1>10, <1>11, <1>12, <1>13, <1>14, <1>15,
     <1>16, <1>17, <1>18, <1>19, <1>20 DEF CommandStep

LEMMA NextPass == TypeInv /\ PassInv /\ OneAtATime /\ [Next]_vars => PassInv'
<1> SUFFICES ASSUME TypeInv, PassInv, OneAtATime, [Next]_vars PROVE PassInv'
  OBVIOUS
<1> USE DEF PassInv, PassStage, TypeInv, TypeOK
<1>1. ASSUME NEW a \in Actor, Begin(a) PROVE PassInv'
  BY <1>1 DEF Begin, BeginService, BeginPass, At, Goto, osVars
<1>2. ASSUME NEW a \in Actor, Abort(a) PROVE PassInv'
  BY <1>2 DEF Abort, Forget, Goto
<1>3. ASSUME NEW p \in Pid, Host(p) PROVE PassInv'
  <2>1. HostStep
    BY <1>3 DEF Host, Bind, End, Crash, Wedge, Fork, Foreign
  <2> QED
    BY <2>1 DEF HostStep, localVars
<1>4. CASE UNCHANGED vars
  BY <1>4 DEF vars, localVars
<1> HIDE DEF PassInv, PassStage, TypeInv, TypeOK
<1> QED
  BY <1>1, <1>2, <1>3, <1>4, CommandPass DEF Next

\* SuperviseHeedsDesired: while commands do not overlap, a supervise pass launches a service
\* only if the state file asks for it, whatever else runs, ends or is killed on the host.
THEOREM HeedsCorrect == Spec /\ []OneAtATime => []SuperviseHeedsDesired
<1>1. PassInv => SuperviseHeedsDesired
  BY DEF PassInv, PassStage, SuperviseHeedsDesired
<1>2. Spec /\ []OneAtATime => []PassInv
  BY TypeInvariance, InitPass, NextPass, PTL DEF Spec
<1> QED
  BY <1>1, <1>2, PTL

\* SuperviseNeverResurrects: it takes a command that overlaps a supervise pass to make the
\* pass's save turn a recorded stop into a request to run (finding 2), no fault of a
\* process does.
THEOREM NeverResurrectsCorrect == Spec /\ []OneAtATime => SuperviseNeverResurrects
<1>1. ASSUME PassInv, NEW a \in Actor, cmd[a] = "supervise", Save(a) PROVE disk' = disk
  BY <1>1 DEF PassInv, Save
<1>2. PassInv => [\A a \in Actor, s \in Service :
                    At(a, "save") /\ cmd[a] = "supervise" /\ Save(a) /\ disk[s] = "stopped"
                      => disk'[s] = "stopped"]_vars
  BY <1>1
<1>3. Spec /\ []OneAtATime => []PassInv
  BY TypeInvariance, InitPass, NextPass, PTL DEF Spec
<1> QED
  BY <1>2, <1>3, PTL DEF SuperviseNeverResurrects

----
(* Who serves, and who is recorded. *)

USE LifecycleAssumption

\* A process launched for s that was not told to stop.
Live(p, s) == proc[p].state = "up" /\ proc[p].service = s /\ ~proc[p].signalled

\* One that runs for s and has its port or may still bind it.
Present(p, s) ==
  /\ proc[p].state = "up" /\ proc[p].service = s
  /\ proc[p].port = s \/ ~proc[p].signalled

OwnPort ==
  \A p \in Pid :
    proc[p].state = "up" /\ proc[p].port # NoService => proc[p].port = proc[p].service

OnePresent ==
  \A s \in Service, p, q \in Pid : Present(p, s) /\ Present(q, s) => p = q

Launching(a) == pc[a] \in {"wait", "record"}

\* Nobody that could still serve is forgotten: the pid_file names it, or the
\* command that launched it is about to.
AllRecorded ==
  \A s \in Service, p \in Pid :
    Live(p, s) => pidFile[s] = p \/ \E a \in Actor : Launching(a) /\ cur[a] = s

\* What a command relies on at each of its stages.
Relies(a) ==
  /\ pc[a] = "spawn" => \A p \in Pid : ~Present(p, cur[a])
  /\ Launching(a) => \A p \in Pid : Present(p, cur[a]) => p = target[a]
  /\ pc[a] = "check" => \A p \in Pid : Live(p, cur[a]) => p \in cand[a]
  /\ pc[a] = "signal" => \A p \in Pid : Live(p, cur[a]) => p \in cand[a] \cup {target[a]}
  /\ cmd[a] = "down" /\ pc[a] \in {"save", "done"} => \A p \in Pid : ~Live(p, cur[a])
  /\ cmd[a] = "down" =>
       pc[a] \in {"stop", "candidates", "check", "signal", "save", "done", "failed"}

SerialInv == OwnPort /\ OnePresent /\ AllRecorded /\ \A a \in Actor : Relies(a)

LEMMA InitSerial == Init => SerialInv
BY DEF Init, Free, SerialInv, OwnPort, OnePresent, AllRecorded, Relies, Live, Present, Launching

\* A step that launches nobody, and after which nobody has more than before.
Wanes ==
  \A p \in Pid :
    proc'[p].state = "up" =>
      /\ proc[p].state = "up" /\ proc'[p].service = proc[p].service
      /\ proc[p].signalled => proc'[p].signalled
      /\ proc'[p].port = NoService \/ proc'[p].port = proc[p].port

LEMMA HostWanes ==
  ASSUME TypeInv, OwnPort, OnePresent, Sparing, NEW p \in Pid, Host(p)
  PROVE  /\ OwnPort' /\ OnePresent'
         /\ \A q \in Pid : \A s : Live(q, s)' => Live(q, s)
         /\ \A q \in Pid, s \in Service : Present(q, s)' => Present(q, s)
<1>1. proc \in [Pid -> Process]
  BY DEF TypeInv, TypeOK
<1>2. CASE Bind(p)
  BY <1>1, <1>2 DEF Bind, OwnPort, OnePresent, Live, Present, Process
<1>3. ASSUME Wanes
      PROVE  /\ OwnPort' /\ OnePresent'
             /\ \A q \in Pid : \A s : Live(q, s)' => Live(q, s)
             /\ \A q \in Pid, s \in Service : Present(q, s)' => Present(q, s)
  BY <1>1, <1>3 DEF Wanes, OwnPort, OnePresent, Live, Present
<1>4. CASE End(p)
  BY <1>1, <1>3, <1>4 DEF End, Wanes, Ended, Free, Process
<1>5. CASE Crash(p)
  BY <1>1, <1>3, <1>5 DEF Crash, Wanes, Ended, Free, Process
<1>6. CASE Wedge(p)
  BY <1>1, <1>3, <1>6 DEF Wedge, Wanes, Process
<1> QED
  BY <1>2, <1>4, <1>5, <1>6 DEF Host, Fork, Foreign, Fault, Sparing

LEMMA HostSerial ==
  ASSUME TypeInv, SerialInv, Sparing, NEW p \in Pid, Host(p)
  PROVE  SerialInv'
<1>1. OwnPort' /\ OnePresent'
  BY HostWanes DEF SerialInv
<1>2. /\ \A q \in Pid : \A s : Live(q, s)' => Live(q, s)
      /\ \A q \in Pid, s \in Service : Present(q, s)' => Present(q, s)
  BY HostWanes DEF SerialInv
<1>3. HostStep
  BY DEF Host, Bind, End, Crash, Wedge, Fork, Foreign
<1>4. AllRecorded'
  BY <1>2, <1>3 DEF SerialInv, AllRecorded, HostStep, localVars, Launching
<1>5. ASSUME NEW a \in Actor PROVE Relies(a)'
  <2>1. Relies(a)
    BY DEF SerialInv
  <2>2. pc[a] = "spawn" \/ Launching(a) \/ pc[a] \in {"check", "signal"} => cur[a] \in Service
    BY DEF TypeInv, WorksOnService, ServiceStage, Launching
  <2> QED
    <3>1. UNCHANGED <<pc, cmd, cur, cand, target>>
      BY <1>3 DEF HostStep, localVars
    <3>2. /\ \A q \in Pid : Live(q, cur[a])' => Live(q, cur[a])
          /\ cur[a] \in Service => \A q \in Pid : Present(q, cur[a])' => Present(q, cur[a])
      BY <1>2, <3>1 DEF Live, Present
    <3> QED
      BY <2>1, <2>2, <3>1, <3>2 DEF Relies, Launching
<1> QED
  BY <1>1, <1>4, <1>5 DEF SerialInv

----
(* The command that runs. *)

\* What is left of AllRecorded when only one command runs.
RecordedBy(a) ==
  \A s \in Service, p \in Pid :
    Live(p, s) => pidFile[s] = p \/ (Launching(a) /\ cur[a] = s)

Sound(a) == OwnPort /\ OnePresent /\ RecordedBy(a) /\ Relies(a)

LEMMA LaunchSound ==
  ASSUME TypeInv, Sparing, NEW a \in Actor, Sound(a),
         \/ Decide(a) \/ (\E p \in Pid : Spawn(a, p)) \/ SpawnFails(a)
         \/ Wait(a) \/ WaitTimesOut(a) \/ Record(a)
  PROVE  Sound(a)'
<1> USE DEF Sound, RecordedBy, Relies, Launching, Goto, At, OsUnchanged, DataUnchanged, osVars
<1>1. /\ pc \in [Actor -> Stage] /\ cur \in [Actor -> Service \cup {NoService}]
      /\ pidFile \in [Service -> Pid \cup {NoPid}] /\ target \in [Actor -> Pid \cup {NoPid}]
      /\ proc \in [Pid -> Process]
      /\ pc[a] \in ServiceStage => cur[a] \in Service
  BY DEF TypeInv, TypeOK, WorksOnService
<1>2. CASE Decide(a)
  <2>1. StartDecision(pidFile[cur[a]], FileAlive(cur[a]), PidsListening(cur[a])) = "spawn"
          => \A p \in Pid : ~Present(p, cur[a])
    <3>1. /\ cur[a] \in Service /\ pc[a] = "decide"
          /\ \A p \in Pid : Live(p, cur[a]) => pidFile[cur[a]] = p
      BY <1>1, <1>2 DEF Decide, ServiceStage
    <3>2. ASSUME StartDecision(pidFile[cur[a]], FileAlive(cur[a]), PidsListening(cur[a])) = "spawn"
          PROVE  /\ \A p \in Pid : pidFile[cur[a]] = p => ~PidAlive(p)
                 /\ PidsListening(cur[a]) = {}
      BY <3>2 DEF StartDecision, FileAlive
    <3>3. \A p \in Pid : Present(p, cur[a]) => p \in PidsListening(cur[a]) \/ Live(p, cur[a])
      BY DEF Present, Live, PidsListening
    <3>4. \A p \in Pid : Live(p, cur[a]) => PidAlive(p)
      BY DEF Live, PidAlive
    <3> QED
      BY <3>1, <3>2, <3>3, <3>4
  <2> QED
    BY <1>1, <1>2, <2>1, DecisionRange DEF Decide, OwnPort, OnePresent, Live, Present
<1>3. ASSUME NEW p \in Pid, Spawn(a, p) PROVE Sound(a)'
  BY <1>1, <1>3 DEF Spawn, Free, OwnPort, OnePresent, Live, Present, Process, ServiceStage
<1>4. CASE SpawnFails(a)
  BY <1>1, <1>4 DEF SpawnFails, OwnPort, OnePresent, Live, Present
<1>5. CASE Wait(a)
  <2>1. /\ cur[a] \in Service /\ pc[a] = "wait" /\ UNCHANGED <<proc, pidFile, cmd, cur, cand>>
        /\ \/ /\ Sole(PidsListening(cur[a])) /\ pc' = [pc EXCEPT ![a] = "record"]
              /\ target'[a] \in PidsListening(cur[a])
           \/ /\ Several(PidsListening(cur[a])) \/ ~PidAlive(target[a])
              /\ pc' = [pc EXCEPT ![a] = "failed"]
    BY <1>1, <1>5 DEF Wait, Sole, ServiceStage
  <2>2. \A p \in Pid : Present(p, cur[a]) => p = target[a]
    BY <2>1
  <2>3. \A p \in PidsListening(cur[a]) : p \in Pid /\ Present(p, cur[a])
    BY <1>1, <2>1 DEF PidsListening, OwnPort, Present
  <2>4. \A p \in Pid : Live(p, cur[a]) => Present(p, cur[a]) /\ PidAlive(p)
    BY DEF Live, Present, PidAlive
  <2>5. CASE pc' = [pc EXCEPT ![a] = "record"]
    <3>1. target'[a] = target[a]
      BY <1>1, <2>1, <2>2, <2>3, <2>5
    <3> QED
      BY <1>1, <2>1, <2>5, <3>1 DEF OwnPort, OnePresent, Live, Present
  <2>6. CASE pc' = [pc EXCEPT ![a] = "failed"]
    <3>1. \A p \in Pid : ~Live(p, cur[a])
      BY <1>1, <2>1, <2>2, <2>3, <2>4, <2>6 DEF Several
    <3> QED
      BY <1>1, <2>1, <2>6, <3>1 DEF OwnPort, OnePresent, Live, Present
  <2> QED
    BY <2>1, <2>5, <2>6
<1>6. CASE WaitTimesOut(a)
  BY <1>1, <1>6 DEF WaitTimesOut, OwnPort, OnePresent, Live, Present, Sparing
<1>7. CASE Record(a)
  BY <1>1, <1>7 DEF Record, OwnPort, OnePresent, Live, Present
<1> QED
  BY <1>2, <1>3, <1>4, <1>5, <1>6, <1>7

LEMMA RunSound ==
  ASSUME TypeInv, NEW a \in Actor, Sound(a),
         \/ NextService(a) \/ Save(a) \/ Reload(a) \/ EndCommand(a)
         \/ Verify(a) \/ Health(a) \/ OpenTunnels(a)
  PROVE  Sound(a)'
<1> USE DEF Sound, RecordedBy, Relies, Launching, Goto, At, OsUnchanged, DataUnchanged, osVars
<1>1. /\ pc \in [Actor -> Stage] /\ cur \in [Actor -> Service \cup {NoService}]
      /\ pidFile \in [Service -> Pid \cup {NoPid}] /\ cmd \in [Actor -> Command \cup {"none"}]
      /\ proc \in [Pid -> Process]
      /\ pc[a] \in ServiceStage => cur[a] \in Service
  BY DEF TypeInv, TypeOK, WorksOnService
<1>2. CASE NextService(a)
  BY <1>1, <1>2 DEF NextService, OwnPort, OnePresent, Live, Present
<1>3. CASE Save(a)
  BY <1>1, <1>3 DEF Save, OwnPort, OnePresent, Live, Present
<1>4. CASE Reload(a)
  BY <1>1, <1>4 DEF Reload, OwnPort, OnePresent, Live, Present
<1>5. CASE EndCommand(a)
  <2>1. /\ UNCHANGED pidFile /\ pc'[a] = "idle" /\ cmd'[a] = "none"
        /\ proc' \in {proc, Orphaned(a)} /\ pc[a] \in {"done", "failed"}
    BY <1>1, <1>5 DEF EndCommand, Forget
  <2> QED
    <3>1. \A p \in Pid : proc'[p].state = "up" =>
            /\ proc[p].state = "up" /\ proc'[p].service = proc[p].service
            /\ proc'[p].port = proc[p].port /\ proc'[p].signalled = proc[p].signalled
      BY <1>1, <2>1 DEF Orphaned, Free, Process
    <3>2. OwnPort' /\ OnePresent'
      BY <3>1 DEF OwnPort, OnePresent, Present
    <3>3. RecordedBy(a)' /\ Relies(a)'
      BY <2>1, <3>1 DEF Live
    <3> QED
      BY <3>2, <3>3
<1>6. CASE Verify(a)
  BY <1>1, <1>6 DEF Verify, Sample, OwnPort, OnePresent, Live, Present
<1>7. CASE Health(a)
  <2>1. /\ cur[a] \in Service /\ pc[a] = "health" /\ UNCHANGED <<proc, cmd, cur, cand, target>>
        /\ pc' = [pc EXCEPT ![a] = "tunnels"] \/ pc' = [pc EXCEPT ![a] = "next"]
        /\ \/ pidFile' = pidFile
           \/ \E q \in PidsListening(cur[a]) : pidFile' = [pidFile EXCEPT ![cur[a]] = q]
    BY <1>1, <1>7 DEF Health, Sole, ServiceStage
  <2>2. \A q \in PidsListening(cur[a]) : q \in Pid /\ Present(q, cur[a])
    BY <1>1, <2>1 DEF PidsListening, OwnPort, Present
  <2>3. \A q \in Pid : Live(q, cur[a]) => Present(q, cur[a])
    BY DEF Live, Present
  <2>4. \A p \in Pid, s \in Service : Live(p, s) => pidFile'[s] = p
    BY <1>1, <2>1, <2>2, <2>3 DEF OnePresent
  <2> QED
    <3>1. RecordedBy(a)'
      BY <2>1, <2>4 DEF Live
    <3>2. Relies(a)'
      BY <1>1, <2>1
    <3>3. OwnPort' /\ OnePresent'
      BY <2>1 DEF OwnPort, OnePresent, Present
    <3> QED
      BY <3>1, <3>2, <3>3
<1>8. CASE OpenTunnels(a)
  BY <1>1, <1>8 DEF OpenTunnels, OwnPort, OnePresent, Live, Present
<1> QED
  BY <1>2, <1>3, <1>4, <1>5, <1>6, <1>7, <1>8

LEMMA StopSound ==
  ASSUME TypeInv, NEW a \in Actor, Sound(a),
         \/ StopTunnels(a) \/ CollectCandidates(a) \/ (\E p \in Pid : CheckCandidate(a, p))
         \/ Signal(a) \/ Unrecord(a)
  PROVE  Sound(a)'
<1> USE DEF Sound, RecordedBy, Relies, Launching, Goto, At, OsUnchanged, DataUnchanged, osVars
<1>1. /\ pc \in [Actor -> Stage] /\ cur \in [Actor -> Service \cup {NoService}]
      /\ pidFile \in [Service -> Pid \cup {NoPid}] /\ cmd \in [Actor -> Command \cup {"none"}]
      /\ proc \in [Pid -> Process] /\ cand \in [Actor -> SUBSET Pid]
      /\ target \in [Actor -> Pid \cup {NoPid}]
      /\ pc[a] \in ServiceStage => cur[a] \in Service
  BY DEF TypeInv, TypeOK, WorksOnService
<1>2. CASE StopTunnels(a)
  BY <1>1, <1>2 DEF StopTunnels, OwnPort, OnePresent, Live, Present
<1>3. CASE CollectCandidates(a)
  <2>1. \A p \in Pid : Live(p, cur[a]) => p \in cand'[a]
    <3>1. /\ cur[a] \in Service /\ pc[a] = "candidates"
          /\ \A p \in Pid : Live(p, cur[a]) => pidFile[cur[a]] = p
      BY <1>1, <1>3 DEF CollectCandidates, ServiceStage
    <3>2. cand'[a] = PidsListening(cur[a]) \cup ({pidFile[cur[a]]} \ {NoPid})
      BY <1>1, <1>3 DEF CollectCandidates, StopCandidates
    <3> QED
      BY <3>1, <3>2
  <2> QED
    BY <1>1, <1>3, <2>1 DEF CollectCandidates, OwnPort, OnePresent, Live, Present
<1>4. ASSUME NEW p \in Pid, CheckCandidate(a, p) PROVE Sound(a)'
  BY <1>1, <1>4 DEF CheckCandidate, PidAlive, OwnPort, OnePresent, Live, Present
<1>5. CASE Signal(a)
  <2>1. /\ pc[a] = "signal" /\ UNCHANGED <<cmd, cur, target, cand, pidFile>>
        /\ \/ /\ PidAlive(target[a]) /\ proc' = KillPid(target[a])
              /\ pc' = [pc EXCEPT ![a] = "check"]
           \/ ~PidAlive(target[a]) /\ proc' = proc /\ pc' = [pc EXCEPT ![a] = "failed"]
    BY <1>5 DEF Signal
  <2>2. CASE proc' = KillPid(target[a]) /\ pc' = [pc EXCEPT ![a] = "check"]
    <3>1. \A p \in Pid : proc'[p].state = "up" =>
            /\ proc[p].state = "up" /\ proc'[p].service = proc[p].service
            /\ proc'[p].port = proc[p].port
            /\ IF p = target[a] THEN proc'[p].signalled
                                ELSE proc'[p].signalled = proc[p].signalled
      BY <1>1, <2>2 DEF KillPid, Free, Process
    <3> QED
      BY <1>1, <2>1, <2>2, <3>1 DEF OwnPort, OnePresent, Live, Present
  <2>3. CASE proc' = proc /\ pc' = [pc EXCEPT ![a] = "failed"]
    BY <1>1, <2>1, <2>3 DEF OwnPort, OnePresent, Live, Present
  <2> QED
    BY <2>1, <2>2, <2>3
<1>6. CASE Unrecord(a)
  BY <1>1, <1>6 DEF Unrecord, Forgotten, OwnPort, OnePresent, Live, Present, ServiceStage
<1> QED
  BY <1>2, <1>3, <1>4, <1>5, <1>6

\* The commands that wait their turn keep what they rely on: nothing.
LEMMA CommandSerial ==
  ASSUME TypeInv, SerialInv, OneAtATime, Sparing, NEW a \in Actor, CommandStep(a)
  PROVE  SerialInv'
<1>1. pc \in [Actor -> Stage] /\ cmd \in [Actor -> Command \cup {"none"}]
  BY DEF TypeInv, TypeOK
<1>2. pc[a] # "idle"
  BY DEF CommandStep, NextService, Save, Reload, EndCommand, Decide, Spawn, SpawnFails, Wait,
         WaitTimesOut, Record, Verify, Sample, Health, OpenTunnels, StopTunnels,
         CollectCandidates, CheckCandidate, Signal, Unrecord, Forgotten, At
<1>3. \A b \in Actor \ {a} : pc[b] = "idle"
  BY <1>2 DEF OneAtATime
<1>4. Sound(a)'
  <2>1. Sound(a)
    BY <1>3 DEF SerialInv, Sound, AllRecorded, RecordedBy, Launching
  <2> QED
    BY <2>1, LaunchSound, RunSound, StopSound DEF CommandStep
<1>5. \A b \in Actor \ {a} : pc'[b] = pc[b] /\ cmd'[b] = cmd[b]
  BY <1>1 DEF CommandStep, NextService, Save, Reload, EndCommand, Forget, Decide, Spawn, SpawnFails,
         Wait, WaitTimesOut, Record, Verify, Sample, Health, OpenTunnels, StopTunnels,
         CollectCandidates, CheckCandidate, Signal, Unrecord, Forgotten, Goto
<1>6. \A b \in Actor \ {a} : Relies(b)'
  BY <1>3, <1>5 DEF SerialInv, Relies, Launching
<1> QED
  BY <1>4, <1>6 DEF SerialInv, Sound, AllRecorded, RecordedBy

LEMMA BeginSerial ==
  ASSUME TypeInv, SerialInv, NEW a \in Actor, Begin(a)
  PROVE  SerialInv'
<1>1. /\ pc \in [Actor -> Stage] /\ cmd \in [Actor -> Command \cup {"none"}]
      /\ cur \in [Actor -> Service \cup {NoService}]
  BY DEF TypeInv, TypeOK
<1>2. /\ UNCHANGED <<proc, pidFile, cand, target>> /\ pc[a] = "idle"
      /\ \E c \in Command, stage \in {"decide", "stop", "next"} :
           /\ cmd' = [cmd EXCEPT ![a] = c] /\ pc' = [pc EXCEPT ![a] = stage]
           /\ c = "down" => stage = "stop"
      /\ \A b \in Actor \ {a} : cur'[b] = cur[b]
  BY <1>1 DEF Begin, BeginService, BeginPass, At, Goto, osVars
<1>3. OwnPort' /\ OnePresent'
  BY <1>2 DEF SerialInv, OwnPort, OnePresent, Present
<1>4. AllRecorded'
  BY <1>1, <1>2 DEF SerialInv, AllRecorded, Launching, Live
<1>5. Relies(a)'
  BY <1>1, <1>2 DEF Relies, Launching
<1>6. ASSUME NEW b \in Actor \ {a} PROVE Relies(b)'
  BY <1>1, <1>2 DEF SerialInv, Relies, Launching, Live, Present
<1> QED
  BY <1>3, <1>4, <1>5, <1>6 DEF SerialInv

LEMMA NextSerial ==
  Sparing /\ TypeInv /\ SerialInv /\ OneAtATime /\ [Next]_vars => SerialInv'
<1> SUFFICES ASSUME Sparing, TypeInv, SerialInv, OneAtATime, [Next]_vars PROVE SerialInv'
  OBVIOUS
<1>1. ASSUME NEW a \in Actor PROVE ~Abort(a)
  BY DEF Abort, Fault, Sparing
<1>2. CASE UNCHANGED vars
  BY <1>2 DEF vars, localVars, osVars, SerialInv, OwnPort, OnePresent, AllRecorded, Relies, Live,
              Present, Launching
<1> QED
  BY <1>1, <1>2, BeginSerial, CommandSerial, HostSerial DEF Next

LEMMA SerialInvariance == Sparing => (Spec /\ []OneAtATime => []SerialInv)
<1> SUFFICES ASSUME Sparing PROVE Spec /\ []OneAtATime => []SerialInv
  OBVIOUS
<1>1. TypeInv /\ SerialInv /\ OneAtATime /\ [Next]_vars => SerialInv'
  BY NextSerial
<1> QED
  BY <1>1, TypeInvariance, InitSerial, PTL DEF Spec

\* OneInstance: while commands do not overlap, no service ever has two processes that
\* serve or may still bind its port, whatever crashes or loses its port in between.
THEOREM InstanceCorrect == Sparing => (Spec /\ []OneAtATime => []OneInstance)
<1>1. SerialInv => OneInstance
  BY DEF SerialInv, OnePresent, OneInstance, Instance, MustEnd, Present
<1> QED
  BY <1>1, SerialInvariance, PTL

\* ListenerIsRecorded: while they do not, between commands the pid_file of a service names the process that
\* listens on its port and was not told to end.
THEOREM RecordedCorrect == Sparing => (Spec /\ []OneAtATime => []ListenerIsRecorded)
<1>1. SerialInv => ListenerIsRecorded
  <2> SUFFICES ASSUME SerialInv, \A a \in Actor : pc[a] = "idle",
                      NEW s \in Service, NEW p \in PidsListening(s), Instance(p, s)
               PROVE  pidFile[s] = p
    BY DEF ListenerIsRecorded
  <2>1. p \in Pid /\ Live(p, s)
    BY DEF PidsListening, Instance, MustEnd, Live
  <2> QED
    BY <2>1 DEF SerialInv, AllRecorded, Launching
<1> QED
  BY <1>1, SerialInvariance, PTL

\* DownStops: while commands do not overlap, a down that reports success has told every
\* process of the service to end: its candidates, collected once, held them all.
THEOREM DownCorrect == Sparing => (Spec /\ []OneAtATime => []DownStops)
<1>1. SerialInv => DownStops
  BY DEF SerialInv, Relies, DownStops, Instance, MustEnd, Live
<1> QED
  BY <1>1, SerialInvariance, PTL
====
