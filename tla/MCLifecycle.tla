---- MODULE MCLifecycle ----
(***************************************************************************)
(* Instances of Lifecycle for TLC.                                         *)
(***************************************************************************)
EXTENDS Lifecycle, TLC

CONSTANT worker      \* the actor that supervises, where a run tells it apart

\* Every actor runs every command.
AnyCommand == [a \in Actor |-> Command]

\* The tray's worker supervises while the other actors are commands of a user.
WorkerSupervises ==
  [a \in Actor |-> IF a = worker THEN {"startup", "supervise"} ELSE {"up", "down"}]

\* restart is a down and an up of one actor, startup an up without tunnels: the
\* overlap of the other three covers theirs.
UpDownSupervise == [a \in Actor |-> {"up", "down", "supervise"}]

PidSymmetry   == Permutations(Pid)
ActorSymmetry == Permutations(Pid) \cup Permutations(Actor)
====
