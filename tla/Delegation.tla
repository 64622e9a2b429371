---- MODULE Delegation ----
(***************************************************************************)
(* Commands about one service that may belong to another host.  A command  *)
(* that is not for this host's own service asks the owner's host, over     *)
(* ssh, to run a plain up, down or restart, waits for its answer with a    *)
(* timeout, and then opens or closes the tunnel to that owner.  The        *)
(* commands of a host share its state file and nothing orders them.        *)
(*                                                                         *)
(* A command is the list of steps it still has to take; a step that fails  *)
(* ends it, with nothing saved.                                            *)
(***************************************************************************)
EXTENDS Tunnels, Sequences, FiniteSets

CONSTANTS
  Peers,       \* the peers in each machine's configuration
  Nobody,      \* no machine
  Setups,      \* owners in the registries, tunnel modes, and Unix machines
  AssumeLocal, \* assume_local_forward_for_peers
  OnDemand,    \* whether its startup policy is on_demand
  Slot,        \* commands under way
  NoCommand,
  User, Lost,  \* who waits for a command, if it is not another command
  May,         \* forms and commands that users give on each machine
  LocalPorts,  \* local ports they choose for a tunnel to each machine
  Beside,      \* those they give while another command is under way
  MaxFaults    \* faults, and commands given while another is under way

Form == {"plain", "remote", "target"}
Verb == {"up", "down", "restart", "open"}

\* The steps of a command, and what is kept of a command under way.
Stage == {"load", "call", "wait", "probe", "tunnel", "reverse", "start", "stop", "halt",
          "save", "ok", "failed"}
Commands ==
  [host : Machine, form : Form, verb : Verb, plan : Seq(Stage) \ {<<>>},
   to : Machine \cup {Nobody}, port : Port, mem : Records, hand : {"none", "copy", "dirty"},
   todo : SUBSET Machine, caller : Slot \cup {User, Lost}, clean : BOOLEAN]

ASSUME DelegationAssumption ==
  /\ Peers \in [Machine -> SUBSET Machine] /\ \A m \in Machine : m \notin Peers[m]
  /\ Nobody \notin Machine /\ NoCommand \notin Commands
  /\ Setups \subseteq [Machine -> Machine \cup {Nobody}] \X (SUBSET {"local", "reverse"})
                      \X (SUBSET Machine)
  /\ AssumeLocal \in BOOLEAN /\ OnDemand \in BOOLEAN
  /\ Slot \subseteq Nat /\ User \notin Slot /\ Lost \notin Slot
  /\ {May, Beside} \subseteq [Machine -> SUBSET (Form \X Verb)]
  /\ LocalPorts \in [Machine -> SUBSET Port] /\ MaxFaults \in Nat

VARIABLES
  record,   \* the owner in each machine's registry, if it has the service
  modes,    \* tunnel modes of the service
  cmd,      \* commands under way
  tidy,     \* history: no command of the machine has lost a change it had in hand
  faults

setup == <<record, modes, unix>>
vars  == <<setup, tunnelVars, cmd, tidy, faults>>

Init ==
  /\ \E s \in Setups : record = s[1] /\ modes = s[2] /\ unix = s[3]
  /\ running = [m \in Machine |-> FALSE]
  /\ ssh = [m \in Machine |-> {}]
  /\ saved = [m \in Machine |-> NoRecord]
  /\ cmd = [c \in Slot |-> NoCommand]
  /\ tidy = [m \in Machine |-> TRUE]
  /\ faults = 0

----
(* Whom a command is for. *)

\* peer_service_owner: whom the peer names, if that is a peer of this host too.
OwnerOf(h, q) == IF record[q] \in Peers[h] THEN record[q] ELSE q

Knowing(h) == {q \in Peers[h] : record[q] # Nobody}

\* find_peer_service takes the first peer, in the order of their names, that
\* answers and lists the service.
First(S) == CHOOSE q \in S : \A r \in S : q <= r

LocalForwardAllowed == "local" \in modes \/ (modes = {} /\ AssumeLocal)

\* Whom the command form of host h is for; q is what the user names, or the first
\* peer that answers.
Route(h, form, q) ==
  IF form # "target" /\ record[h] # Nobody THEN record[h]
  ELSE IF q \in Knowing(h) THEN OwnerOf(h, q) ELSE Nobody

FirstKnowing(h) == IF Knowing(h) = {} THEN Nobody ELSE First(Knowing(h))

(* What it does. *)

UpOwn     == <<"load", "start", "reverse", "save">>
DownOwn   == <<"load", "stop", "halt", "save">>
\* Faulty variant: saved before the tunnel is open.
UpOtherSavedEarly == <<"load", "call", "save", "tunnel">>
UpOther   == <<"load", "call", "tunnel", "save">>
DownOther == <<"load", "stop", "save">>
Delegated == <<"call", "load", "tunnel", "save">>
Undo      == <<"call", "load", "stop", "save">>
View(form) ==
  IF ~LocalForwardAllowed THEN <<>>
  ELSE (IF form = "target" THEN <<>> ELSE <<"probe">>) \o <<"load", "tunnel", "save">>

\* up, down, restart and open, and their remote and target forms, on machine h.
\* open, too, ends at the call if nobody knows the service.
Plan(h, form, verb) ==
  LET own == form # "target" /\ record[h] = h
      up   == IF own THEN UpOwn ELSE UpOther
      down == IF own THEN DownOwn ELSE DownOther
  IN CASE verb = "open" ->
            IF form = "target" \/ record[h] = Nobody
              THEN (IF OnDemand \/ Knowing(h) = {} THEN <<"call">> ELSE <<>>) \o View(form)
              ELSE IF OnDemand THEN up ELSE <<>>
       [] verb = "up" /\ (form = "plain" \/ own) -> up
       [] verb = "down" /\ (form = "plain" \/ own) -> down
       [] verb = "restart" /\ (form = "plain" \/ own) -> down \o up
       [] verb \in {"up", "restart"} /\ form # "plain" /\ ~own -> Delegated
       [] verb = "down" /\ form # "plain" /\ ~own -> Undo

\* What the owner's host is asked to run.
Asked(c) == IF cmd[c].form = "plain" \/ cmd[c].verb = "open" THEN "up" ELSE cmd[c].verb

Command(h, form, verb, q, n, caller, clean) ==
  [host |-> h, form |-> form, verb |-> verb, plan |-> Plan(h, form, verb) \o <<"ok">>,
   to |-> Route(h, form, q), port |-> n, mem |-> NoRecord, hand |-> "none", todo |-> {},
   caller |-> caller, clean |-> clean]

Active  == {c \in Slot : cmd[c] # NoCommand}
At(c, stage) == c \in Active /\ Head(cmd[c].plan) = stage
Ended(c) == At(c, "ok") \/ At(c, "failed")
FreeSlot(c) == c \notin Active /\ \A d \in Slot : d < c => d \in Active

Put(c, r) == cmd' = [cmd EXCEPT ![c] = r]
Onward(r)  == [r EXCEPT !.plan = Tail(@)]
Failed(r) == [r EXCEPT !.plan = <<"failed">>, !.mem = NoRecord, !.hand = "none"]

\* What a command that ends early had changed in its copy is lost.
Losing(c) == tidy' = IF cmd[c].hand = "dirty" THEN [tidy EXCEPT ![cmd[c].host] = FALSE] ELSE tidy
Fail(c) == Put(c, Failed(cmd[c])) /\ Losing(c)

\* A fault somewhere, or a second command: whoever is under way is disturbed.
Disturbed == [c \in Slot |-> IF c \in Active THEN [cmd[c] EXCEPT !.clean = FALSE] ELSE cmd[c]]
Fault == faults < MaxFaults /\ faults' = faults + 1

----
(* Steps of a command. *)

\* A user gives a command.  A peer before q that knows the service did not answer, or
\* another command is under way: both are counted as faults.
Begin(h, form, verb, q, n) ==
  LET known   == form # "target" /\ record[h] # Nobody
      skipped == form # "target" /\ q # FirstKnowing(h)
      alone   == Active = {}
  IN /\ <<form, verb>> \in (IF alone THEN May[h] ELSE Beside[h])
     /\ q \in (IF known \/ Knowing(h) = {} THEN {FirstKnowing(h)} ELSE Knowing(h))
     /\ form = "target" => Knowing(h) # {} /\ n \in LocalPorts[OwnerOf(h, q)]
     /\ form # "target" => n = "fixed"
     /\ IF alone /\ ~skipped THEN UNCHANGED faults ELSE Fault
     /\ \E c \in Slot :
          /\ FreeSlot(c)
          /\ cmd' = [Disturbed EXCEPT ![c] = Command(h, form, verb, q, n, User, alone)]
     /\ UNCHANGED <<setup, tunnelVars, tidy>>

\* State::load.  The history notes who else is between a load and its save.
Load(c) ==
  LET h == cmd[c].host IN
  /\ At(c, "load")
  /\ Put(c, Onward([cmd[c] EXCEPT !.mem = saved[h], !.hand = "copy"]))
  /\ tidy' = IF \E d \in Active \ {c} : cmd[d].host = h /\ cmd[d].hand # "none"
               THEN [tidy EXCEPT ![h] = FALSE] ELSE tidy
  /\ UNCHANGED <<setup, tunnelVars, faults>>

\* start_owned_service, as far as the port lets it.
Start(c) ==
  LET h == cmd[c].host IN
  /\ At(c, "start")
  /\ \/ /\ running[h] \/ ~Busy(h, "fixed")
        /\ running' = [running EXCEPT ![h] = TRUE]
        /\ Put(c, Onward([cmd[c] EXCEPT
                           !.todo = IF "reverse" \in modes THEN Peers[h] ELSE {}]))
        /\ UNCHANGED tidy
     \/ ~running[h] /\ Busy(h, "fixed") /\ Fail(c) /\ UNCHANGED running
  /\ UNCHANGED <<setup, ssh, saved, faults>>

\* start_tunnel_spec: r is the command once the tunnel t is there.
Open(c, t, r) ==
  LET h == cmd[c].host
      k == TunnelKey(t)
      Recorded(p) == Put(c, [r EXCEPT !.mem[k] = p, !.hand = "dirty"])
  IN \/ PidAlive(cmd[c].mem[k]) /\ Put(c, r) /\ UNCHANGED <<ssh, tidy>>
     \/ /\ ~PidAlive(cmd[c].mem[k]) /\ CanBind(h, t)
        /\ ssh' = [ssh EXCEPT ![h] = @ \cup {t}]
        /\ Recorded(t) /\ UNCHANGED tidy
     \/ /\ ~PidAlive(cmd[c].mem[k]) /\ ~CanBind(h, t) /\ (h \in unix \/ t.mode = "reverse")
        /\ Fail(c) /\ UNCHANGED ssh
     \* On Windows whoever listens on the port is taken for the new tunnel.
     \/ /\ ~PidAlive(cmd[c].mem[k]) /\ ~CanBind(h, t) /\ h \notin unix /\ t.mode = "local"
        /\ \E l \in Listeners(h, t.port) : l[1] = h /\ Recorded(l[2])
        /\ UNCHANGED <<ssh, tidy>>

\* up on the owner opens a reverse tunnel to each peer.
OpenReverse(c) ==
  /\ At(c, "reverse")
  /\ IF cmd[c].todo = {} THEN Put(c, Onward(cmd[c])) /\ UNCHANGED <<ssh, tidy>>
     ELSE LET q == First(cmd[c].todo)
          IN Open(c, Reverse(q), [cmd[c] EXCEPT !.todo = @ \ {q}])
  /\ UNCHANGED <<setup, running, saved, faults>>

\* The service is thought to be here already if anybody listens on its port.
ReverseListener(c) ==
  "reverse" \in modes /\ cmd[c].port = "fixed" /\ Busy(cmd[c].host, "fixed")

OpenLocal(c) ==
  /\ At(c, "tunnel")
  /\ \/ ReverseListener(c) /\ Put(c, Onward(cmd[c])) /\ UNCHANGED <<ssh, tidy>>
     \/ ~ReverseListener(c) /\ ~LocalForwardAllowed /\ Fail(c) /\ UNCHANGED ssh
     \/ /\ ~ReverseListener(c) /\ LocalForwardAllowed
        /\ Open(c, Local(cmd[c].to, cmd[c].port), Onward(cmd[c]))
  /\ UNCHANGED <<setup, running, saved, faults>>

\* open does without state if the reverse tunnel is there.
Probe(c) ==
  /\ At(c, "probe")
  /\ Put(c, IF ReverseListener(c) THEN [cmd[c] EXCEPT !.plan = <<"ok">>] ELSE Onward(cmd[c]))
  /\ UNCHANGED <<setup, tunnelVars, tidy, faults>>

\* Faulty variant: every tunnel of the service.
VictimsOfAll(c) == {k \in Tunnel : cmd[c].mem[k] # NoPid}

\* Faulty variant: only the key without a port.
VictimsOwnPort(c) ==
  {k \in Tunnel : cmd[c].mem[k] # NoPid /\ k.port = "fixed"
                    /\ (cmd[c].form = "target" => k.peer = cmd[c].to)}

\* Whose tunnels a command closes: stop_tunnels_for_peer, or stop_tunnels_for.
Victims(c) ==
  {k \in Tunnel : cmd[c].mem[k] # NoPid /\ (cmd[c].form = "target" => k.peer = cmd[c].to)}

\* Process p of machine h ends: nobody's copy of the records names it any more.
Mourn(cmds, h, p) ==
  [c \in Slot |-> IF c \in Active /\ cmd[c].host = h THEN [cmds[c] EXCEPT !.mem = Buried(@, p)]
                 ELSE cmds[c]]

\* One of them after the other, in a fixed order.
Stop(c) ==
  /\ At(c, "stop")
  /\ IF Victims(c) = {} THEN Put(c, Onward(cmd[c])) /\ UNCHANGED tunnelVars
     ELSE LET k == CHOOSE k \in Victims(c) : TRUE
              h == cmd[c].host
              p == cmd[c].mem[k]
              removed == [cmd EXCEPT ![c].mem[k] = NoPid, ![c].hand = "dirty"]
          IN IF PidAlive(p) THEN cmd' = Mourn(removed, h, p) /\ End(h, p)
             ELSE cmd' = removed /\ UNCHANGED tunnelVars
  /\ UNCHANGED <<setup, tidy, faults>>

\* stop_service.
Halt(c) ==
  LET h == cmd[c].host IN
  /\ At(c, "halt")
  /\ cmd' = [Mourn(cmd, h, Service) EXCEPT ![c] = Onward(@)]
  /\ End(h, Service)
  /\ UNCHANGED <<setup, tidy, faults>>

Save(c) ==
  /\ At(c, "save")
  /\ saved' = [saved EXCEPT ![cmd[c].host] = cmd[c].mem]
  /\ Put(c, Onward([cmd[c] EXCEPT !.mem = NoRecord, !.hand = "none"]))
  /\ UNCHANGED <<setup, running, ssh, tidy, faults>>

----
(* Asking the owner. *)

\* run_bridgeboard_command.  No owner: the command ends.
Ask(c) ==
  /\ At(c, "call")
  /\ IF cmd[c].to = Nobody THEN Fail(c)
     ELSE /\ \E d \in Slot :
               /\ FreeSlot(d)
               /\ cmd' = [cmd EXCEPT
                    ![c].plan = <<"wait">> \o Tail(@),
                    ![d] = Command(cmd[c].to, "plain", Asked(c), FirstKnowing(cmd[c].to),
                                   "fixed", c, cmd[c].clean)]
          /\ UNCHANGED tidy
  /\ UNCHANGED <<setup, tunnelVars, faults>>

\* Faulty variant: a call that failed is made again.
ReturnRetries(d) ==
  LET c == cmd[d].caller IN
  /\ Ended(d)
  /\ IF c \in Slot
       THEN cmd' = [cmd EXCEPT ![d] = NoCommand,
                      ![c] = IF At(d, "ok") THEN Onward(@)
                             ELSE [@ EXCEPT !.plan = <<"call">> \o Tail(@)]]
       ELSE Put(d, NoCommand)
  /\ UNCHANGED <<setup, tunnelVars, tidy, faults>>

\* A command ends; whoever waits for it goes on, or fails as it did.
Return(d) ==
  LET c == cmd[d].caller IN
  /\ Ended(d)
  /\ IF c \in Slot
       THEN /\ cmd' = [cmd EXCEPT ![d] = NoCommand,
                         ![c] = IF At(d, "ok") THEN Onward(@) ELSE Failed(@)]
            /\ IF At(d, "ok") THEN UNCHANGED tidy ELSE Losing(c)
       ELSE Put(d, NoCommand) /\ UNCHANGED tidy
  /\ UNCHANGED <<setup, tunnelVars, faults>>

Awaited(c) == {d \in Active : cmd[d].caller = c}

\* Faulty variant: the answer is still awaited.
DesertedAwaiting(cmds, c) == [cmds EXCEPT ![c] = Failed(@)]

\* Command c ends early; what it asked for runs on.
Deserted(cmds, c) ==
  [d \in Slot |-> IF d \in Awaited(c) THEN [cmds[d] EXCEPT !.caller = Lost]
                 ELSE IF d = c THEN Failed(cmds[c]) ELSE cmds[d]]

\* Faulty variant: every poll grants it the whole timeout again.
TimeOutRenewed(c) == At(c, "wait") /\ UNCHANGED vars

\* output_with_timeout kills the ssh; what it started on the owner runs on.
TimeOut(c) ==
  /\ At(c, "wait")
  /\ IF Awaited(c) = {} THEN UNCHANGED faults ELSE Fault
  /\ cmd' = Deserted(cmd, c)
  /\ Losing(c)
  /\ UNCHANGED <<setup, tunnelVars>>

----
(* Faults. *)

\* The connection is gone: nobody hears the answer.
LoseAnswer(d) ==
  /\ Fault
  /\ d \in Active /\ cmd[d].caller \in Slot
  /\ cmd' = [Disturbed EXCEPT ![d].caller = Lost]
  /\ UNCHANGED <<setup, tunnelVars, tidy>>

\* A step fails or the command is killed.
Break(c) ==
  /\ Fault
  /\ c \in Active /\ ~Ended(c)
  /\ cmd' = Deserted(Disturbed, c)
  /\ Losing(c)
  /\ UNCHANGED <<setup, tunnelVars>>

\* ssh is up, but its pid is not found within five seconds.
Leak(c) ==
  LET h == cmd[c].host
      t == IF At(c, "tunnel") THEN Local(cmd[c].to, cmd[c].port) ELSE Reverse(First(cmd[c].todo))
  IN /\ Fault
     /\ \/ At(c, "tunnel") /\ LocalForwardAllowed /\ ~ReverseListener(c)
        \/ At(c, "reverse") /\ cmd[c].todo # {}
     /\ ~PidAlive(cmd[c].mem[TunnelKey(t)]) /\ CanBind(h, t)
     /\ ssh' = [ssh EXCEPT ![h] = @ \cup {t}]
     /\ cmd' = [Disturbed EXCEPT ![c] = Failed(@)]
     /\ tidy' = [tidy EXCEPT ![h] = FALSE]
     /\ UNCHANGED <<setup, running, saved>>

\* A tunnel or a service ends by itself.
Die(h, p) ==
  /\ Fault
  /\ p \in ssh[h] \/ (p = Service /\ running[h])
  /\ End(h, p)
  /\ cmd' = Mourn(Disturbed, h, p)
  /\ UNCHANGED <<setup, tidy>>

----
Step(c) ==
  \/ Load(c) \/ Start(c) \/ OpenReverse(c) \/ OpenLocal(c) \/ Probe(c) \/ Stop(c) \/ Halt(c)
  \/ Save(c) \/ Ask(c) \/ Return(c)

Faults ==
  \/ \E c \in Slot : LoseAnswer(c) \/ Break(c) \/ Leak(c)
  \/ \E h \in Machine, p \in Tunnel \cup {Service} : Die(h, p)

Next ==
  \/ \E h \in Machine, n \in Port :
       \E do \in May[h] \cup Beside[h], q \in Peers[h] \cup {Nobody} :
         Begin(h, do[1], do[2], q, n)
  \/ \E c \in Slot : Step(c) \/ TimeOut(c)
  \/ Faults

Spec == Init /\ [][Next]_vars

\* Somebody goes on while commands are under way: their waits are polls and sleeps with
\* deadlines.
FairSpec == Spec /\ WF_vars(\E c \in Slot : Step(c) \/ TimeOut(c))

----
TypeOK ==
  /\ TunnelsTypeOK
  /\ <<record, modes, unix>> \in Setups
  /\ cmd \in [Slot -> Commands \cup {NoCommand}]
  /\ tidy \in [Machine -> BOOLEAN] /\ faults \in 0 .. MaxFaults

TunnelsTo(h, q) == {t \in ssh[h] : t.peer = q}
Leads(h, n, q)  == Local(q, n) \in ssh[h] \/ (n = "fixed" /\ Reverse(h) \in ssh[q])

InHands(h) == UNION {{cmd[c].mem[k] : k \in Tunnel} : c \in {d \in Active : cmd[d].host = h}}

\* The machine whose service a command is about.
Owner(c) ==
  LET h == cmd[c].host IN IF cmd[c].form # "target" /\ record[h] = h THEN h ELSE cmd[c].to

\* Where users give commands.
Given == {h \in Machine : May[h] \cup Beside[h] # {}}

\* In setup s machine q owns the service, and reaches h if it opens reverse tunnels.
ServesFor(s, q, h) == s[1][q] = q /\ ("reverse" \in s[2] => h \in Peers[q])

\* The registries agree: whom the machine of a command takes for the owner is the owner in
\* its own registry.  (Were it not, the one asked would ask somebody else in turn, and the
\* tunnel would lead to a machine that does not run the service.)
OwnersKnown ==
  \A s \in Setups, h \in Given :
    /\ s[1][h] \in Machine => ServesFor(s, s[1][h], h) \/ s[1][h] = h
    /\ \A q \in Peers[h] : s[1][q] # Nobody =>
         ServesFor(s, IF s[1][q] \in Peers[h] THEN s[1][q] ELSE q, h)

\* No ssh process is forgotten: on a machine where no command has lost a change, because
\* it failed or because another loaded or saved in between, every tunnel is recorded or in
\* the hands of a command.  A port taken by a forgotten one stays taken (a later up fails,
\* a later down has nothing to stop).
TunnelsAccounted ==
  \A h \in Machine : tidy[h] => ssh[h] \subseteq InHands(h) \cup {saved[h][k] : k \in Tunnel}

\* An up or restart that reports success on a Unix machine, with nothing else going on
\* meanwhile, tells the truth whatever went wrong before: the owner runs the service, and
\* the local port leads there and not to another owner.
UpIsUp ==
  \A c \in Slot :
    At(c, "ok") /\ cmd[c].clean /\ cmd[c].verb \in {"up", "restart"} /\ cmd[c].host \in unix =>
      LET h == cmd[c].host
          q == Owner(c)
      IN /\ running[q]
         /\ h # q => Leads(h, cmd[c].port, q)
         /\ h = q /\ "reverse" \in modes => \A r \in Peers[h] : Leads(r, "fixed", h)

\* So does a down: the owner's service is stopped (plain down is for this machine only),
\* and no tunnel of this machine leads to the owner, if none was forgotten.
DownIsDown ==
  \A c \in Slot :
    At(c, "ok") /\ cmd[c].clean /\ cmd[c].verb = "down" =>
      LET h == cmd[c].host
          q == Owner(c)
      IN /\ h = q \/ cmd[c].form # "plain" => ~running[q]
         /\ tidy[h] => TunnelsTo(h, q) = {}

\* Command c, of a target form, takes a record out and spares what is not the target's.
Spares(c) ==
  LET h == cmd[c].host IN
  /\ At(c, "stop") /\ cmd[c].form = "target" /\ cmd'[c] # NoCommand
  /\ \E k \in Tunnel : cmd[c].mem[k] # NoPid /\ cmd'[c].mem[k] = NoPid
  => running' = running
     /\ \A q \in Machine \ {cmd[c].to} : TunnelsTo(h, q) = TunnelsTo(h, q)'

\* A command about the service of one owner closes no tunnel to another owner and stops
\* no service of this machine, however commands overlap (stop_tunnels_for_peer).
UnixTargetSparesOthers == [][\A c \in Slot : At(c, "stop") /\ cmd[c].host \in unix => Spares(c)]_vars

\* What BLUEPRINT.md says of every machine.
TargetSparesOthers == [][\A c \in Slot : Spares(c)]_vars

\* What is left of the step a command is at: the call itself, peers, records.
WithinStep(c) ==
  CASE Head(cmd[c].plan) = "call"    -> 1
    [] Head(cmd[c].plan) = "reverse" -> Cardinality(cmd[c].todo)
    [] Head(cmd[c].plan) = "stop"    -> Cardinality(Victims(c))
    [] OTHER -> 0

\* Command c ends, gets further in its plan, or in the step it is at; or stays where it is.
Nearer(c) ==
  \/ cmd'[c] = NoCommand
  \/ Len(cmd'[c].plan) < Len(cmd[c].plan)
  \/ Len(cmd'[c].plan) = Len(cmd[c].plan) /\ WithinStep(c)' < WithinStep(c)

Unmoved(c) == cmd'[c].plan = cmd[c].plan /\ WithinStep(c)' = WithinStep(c)

\* No command goes round in circles, however commands ask each other, time out and lose
\* answers: what it does itself brings it nearer to its end, and what happens elsewhere
\* never sets it back.
CommandsAdvance ==
  [][\A c \in Active : /\ Step(c) \/ TimeOut(c) => Nearer(c)
                       /\ Nearer(c) \/ Unmoved(c)]_vars

\* No command waits for ever, not for another command, not for a lost answer.
EveryCommandEnds == []<>(Active = {})
====
