---- MODULE ManagedStatus ----
(***************************************************************************)
(* The decisions bridgeboard takes about one managed service from three    *)
(* observations of the host:                                               *)
(*   f     the pid its pid_file holds, or NoPid,                           *)
(*   live  whether `kill -0` (or tasklist) accepts that pid,               *)
(*   L     the set of pids listening on the service's port.                *)
(* process.rs makes the same three observations in managed_service_status, *)
(* start_service and stop_service, and draws a conclusion of its own in    *)
(* each; this module holds the three conclusions side by side.             *)
(***************************************************************************)
CONSTANT NoPid                  \* the pid_file is missing or does not parse

Sole(L)    == \E p \in L : L = {p}
Several(L) == \E p, q \in L : p # q

\* What a row of `status`, the supervisor and the stability check see.
ManagedServiceStatus(f, live, L) ==
  CASE Several(L) /\ f # NoPid /\ ~live      -> "stale-listeners"
    [] Several(L) /\ (f = NoPid \/ live)     -> "multi-listener"
    [] ~Several(L) /\ f # NoPid /\ live      ->
         IF L = {f} THEN "running" ELSE IF L = {} THEN "no-listener" ELSE "pid-mismatch"
    [] ~Several(L) /\ f # NoPid /\ ~live     ->
         IF L = {} THEN "stale" ELSE "stale-listener"
    [] ~Several(L) /\ f = NoPid              ->
         IF L = {} THEN "stopped" ELSE "port-owned"

\* Faulty variants of the two decisions below, which the properties must tell
\* from the code's: a live pid that does not listen is started over; a pid_file
\* whose process is gone is refused; only listeners are stopped.
StartOverNoListener(f, live, L) ==
  IF f # NoPid /\ live /\ L # {}
    THEN IF L = {f} THEN "adopt" ELSE "refuse"
    ELSE IF L = {} THEN "spawn" ELSE "refuse"

StartRefusesStaleFile(f, live, L) ==
  IF f # NoPid
    THEN IF live /\ L = {f} THEN "adopt" ELSE "refuse"
    ELSE IF L = {} THEN "spawn" ELSE "refuse"

StopOnlyListeners(f, L) == L

\* start_service before it spawns: return the recorded pid, bail, or spawn.
StartDecision(f, live, L) ==
  IF f # NoPid /\ live
    THEN IF L = {f} THEN "adopt" ELSE "refuse"
    ELSE IF L = {} THEN "spawn" ELSE "refuse"

\* stop_service: every pid it checks and signals.
StopCandidates(f, L) == L \cup ({f} \ {NoPid})
====
