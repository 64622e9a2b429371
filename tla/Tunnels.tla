---- MODULE Tunnels ----
(***************************************************************************)
(* SSH tunnels for one service.  Every host keeps, in its state file, the  *)
(* pid of each tunnel it started under a key made of the forward mode, the *)
(* peer and, unless it is the service's own port, the local port.  A local *)
(* forward listens on the host that starts it, a reverse forward on the    *)
(* peer.  start_tunnel_spec and stop_tunnels_for work on a copy of these   *)
(* records that a command has loaded and will save.                        *)
(*                                                                         *)
(* No two tunnels of a host have the same ends, for one of them could not  *)
(* bind its port: a tunnel stands for the ssh process that carries it, and *)
(* a recorded pid is the process it names, or Dead once that has ended.    *)
(* (The system gives a pid out again only after a long while.)             *)
(***************************************************************************)
EXTENDS Naturals

CONSTANTS
  Machine,
  Service,       \* the service's own process, as a pid
  Dead, NoPid

ASSUME TunnelsAssumption ==
  /\ Machine \subseteq Nat
  /\ Dead # NoPid /\ Service \notin {Dead, NoPid}

VARIABLES
  unix,      \* the machines that run Unix; the others run Windows
  running,   \* whether the service runs on each machine
  ssh,       \* the tunnels each machine carries
  saved      \* the pids in each machine's state file

tunnelVars == <<running, ssh, saved>>

\* The service's own port, or the one of --local-port.
Port == {"fixed", "spare"}

Local(q, n) == [mode |-> "local", peer |-> q, port |-> n]
Reverse(q)  == [mode |-> "reverse", peer |-> q, port |-> "fixed"]
Tunnel == {Local(q, n) : q \in Machine, n \in Port} \cup {Reverse(q) : q \in Machine}

ASSUME PidAssumption == {Service, Dead, NoPid} \cap Tunnel = {}

Pid      == Tunnel \cup {Service, Dead}
Records  == [Tunnel -> Pid \cup {NoPid}]
NoRecord == [k \in Tunnel |-> NoPid]

\* tunnel_key_for_port: the mode, the peer and the local port.
TunnelKey(t) == t

----
\* Where a tunnel of machine h listens, and who listens on a machine's port.
Site(h, t) == IF t.mode = "local" THEN <<h, t.port>> ELSE <<t.peer, "fixed">>

Listeners(m, n) ==
  {l \in Machine \X Tunnel : l[2] \in ssh[l[1]] /\ Site(l[1], l[2]) = <<m, n>>}
    \cup (IF n = "fixed" /\ running[m] THEN {<<m, Service>>} ELSE {})

Busy(m, n) == Listeners(m, n) # {}

\* Faulty variant: whatever is recorded is taken to run.
PidRecorded(p) == p # NoPid

\* kill -0; nothing else is asked about a recorded pid.
PidAlive(p) == p \notin {Dead, NoPid}

\* Windows first ends the scheduled task of the same name, and with it this tunnel.
CanBind(h, t) ==
  Listeners(Site(h, t)[1], Site(h, t)[2]) \subseteq (IF h \in unix THEN {} ELSE {<<h, t>>})

\* Process p of machine h ends.
Buried(mem, p) == [k \in Tunnel |-> IF mem[k] = p THEN Dead ELSE mem[k]]

End(h, p) ==
  /\ running' = IF p = Service THEN [running EXCEPT ![h] = FALSE] ELSE running
  /\ ssh' = [ssh EXCEPT ![h] = @ \ {p}]
  /\ saved' = [saved EXCEPT ![h] = Buried(@, p)]

TunnelsTypeOK ==
  /\ running \in [Machine -> BOOLEAN]
  /\ ssh \in [Machine -> SUBSET Tunnel]
  /\ saved \in [Machine -> Records]
====
