---- MODULE SuccessProofs ----
(***************************************************************************)
(* Proofs that a command of Delegation that reports success tells the      *)
(* truth, when nothing else went on meanwhile: UpIsUp and DownIsDown.      *)
(***************************************************************************)
EXTENDS DelegationProofs

USE TunnelsAssumption, PidAssumption, DelegationAssumption

----
(***************************************************************************)
(* The shape of a plan: what must be done just before it is done.          *)
(***************************************************************************)
\* A command about this machine's own service.
Owns(c) == cmd[c].form # "target" /\ record[cmd[c].host] = cmd[c].host

Upward(verb) == verb \in {"up", "restart"}

\* The step that completes a command, and those that must come before it.
Last(own, verb) ==
  IF Upward(verb) THEN IF own THEN "reverse" ELSE "tunnel" ELSE IF own THEN "halt" ELSE "stop"

Before(own, verb) ==
  IF own THEN IF Upward(verb) THEN {"start"} ELSE {"stop"} ELSE {"call", "wait"}

\* At step i of plan p nothing but saving is left, or but step last and saving.
Done(p, i) == p[i] = "ok" \/ (p[i] = "save" /\ p[i + 1] = "ok")
Near(p, i, last) == p[i] = last \/ (p[i] = "load" /\ p[i + 1] = last)

Way(p, last, before) ==
  \A i \in 1 .. Len(p) - 1 :
    /\ p[i] # "probe"
    /\ Done(p, i + 1) => Done(p, i) \/ p[i] = last
    /\ Near(p, i + 1, last) => Near(p, i, last) \/ p[i] \in before

LEMMA LastFacts ==
  ASSUME NEW own \in BOOLEAN, NEW verb
  PROVE  /\ Last(own, verb) \in {"reverse", "tunnel", "halt", "stop"}
         /\ "call" \in Before(own, verb) <=> "wait" \in Before(own, verb)
BY DEF Last, Before

\* The rest of a plan that has this shape has it too.
LEMMA WayOnward ==
  ASSUME NEW p, Orderly(p), Head(p) \notin {"ok", "failed"},
         NEW last \in {"reverse", "tunnel", "halt", "stop"}, NEW before, Way(p, last, before)
  PROVE  /\ Way(Tail(p), last, before)
         /\ Done(Tail(p), 1) => Done(p, 1) \/ p[1] = last
         /\ Near(Tail(p), 1, last) => Near(p, 1, last) \/ p[1] \in before
<1> DEFINE t == Tail(p)
<1>1. p \in Seq(Stage) /\ p # <<>> /\ p[Len(p)] \in {"ok", "failed"}
  BY DEF Orderly
<1>2. t \in Seq(Stage) /\ Len(t) = Len(p) - 1 /\ \A i \in 1 .. Len(t) : t[i] = p[i + 1]
  BY <1>1, HeadTailProperties, ZenonT(40)
<1>3. Len(p) \in Nat /\ Len(t) \in Nat /\ Len(p) # 0 /\ Head(p) = p[1]
  BY <1>1, <1>2, LenProperties, EmptySeq
<1> HIDE DEF t
<1>4. Len(p) # 1
  BY <1>1, <1>3
<1>5. t[Len(t)] \in {"ok", "failed"}
  <2>1. Len(t) \in 1 .. Len(t) /\ Len(t) + 1 = Len(p)
    BY <1>2, <1>3, <1>4
  <2> QED
    BY <1>1, <1>2, <2>1
<1>6. ASSUME NEW i \in 1 .. Len(t)
      PROVE  (Done(t, i) => Done(p, i + 1)) /\ (Near(t, i, last) <=> Near(p, i + 1, last))
             /\ (Done(p, i + 1) => Done(t, i))
  <2>1. t[i] = p[i + 1] /\ i \in Nat
    BY <1>2, <1>3
  <2>2. CASE i = Len(t)
    BY <1>5, <2>1, <2>2 DEF Done, Near
  <2>3. CASE i # Len(t)
    <3>1. i + 1 \in 1 .. Len(t)
      BY <1>3, <2>3
    <3>2. t[i + 1] = p[i + 1 + 1]
      BY <1>2, <3>1
    <3> QED
      BY <2>1, <3>2 DEF Done, Near
  <2> QED
    BY <2>2, <2>3
<1>7. \A i \in 1 .. Len(t) : /\ p[i] # "probe"
                             /\ Done(p, i + 1) => Done(p, i) \/ p[i] = last
                             /\ Near(p, i + 1, last) => Near(p, i, last) \/ p[i] \in before
  BY <1>2, <1>3 DEF Way
<1>8. ASSUME NEW i \in 1 .. Len(t) - 1
      PROVE  /\ t[i] # "probe"
             /\ Done(t, i + 1) => Done(t, i) \/ t[i] = last
             /\ Near(t, i + 1, last) => Near(t, i, last) \/ t[i] \in before
  <2>1. i \in 1 .. Len(t) /\ i + 1 \in 1 .. Len(t)
    BY <1>3
  <2>2. t[i] = p[i + 1] /\ i + 1 \in Nat
    BY <1>2, <2>1
  <2> QED
    BY <1>6, <1>7, <2>1, <2>2
<1>9. 1 \in 1 .. Len(t) /\ 1 + 1 \in Nat
  BY <1>2, <1>3, <1>4
<1>10. /\ Done(t, 1) => Done(p, 1) \/ p[1] = last
       /\ Near(t, 1, last) => Near(p, 1, last) \/ p[1] \in before
  BY <1>6, <1>7, <1>9
<1> QED
  BY <1>8, <1>10 DEF t, Way

\* So has a plan whose call has become a wait.
LEMMA WayWait ==
  ASSUME NEW p, Orderly(p), Head(p) = "call",
         NEW last \in {"reverse", "tunnel", "halt", "stop"}, NEW before, Way(p, last, before),
         "call" \in before <=> "wait" \in before
  PROVE  Way(<<"wait">> \o Tail(p), last, before)
<1> DEFINE w == <<"wait">> \o Tail(p)
<1>1. Len(w) = Len(p) /\ w[1] = "wait" /\ p[1] = "call" /\ \A i \in 2 .. Len(p) : w[i] = p[i]
  BY DEF Orderly
<1>2. Len(p) \in Nat /\ p[Len(p)] \in {"ok", "failed"}
  BY LenProperties DEF Orderly
<1> HIDE DEF w
<1>3. ASSUME NEW i \in 2 .. Len(p)
      PROVE  (Done(w, i) <=> Done(p, i)) /\ (Near(w, i, last) <=> Near(p, i, last))
  <2>1. CASE i = Len(p)
    BY <1>1, <1>2, <2>1 DEF Done, Near
  <2>2. CASE i # Len(p)
    <3>1. w[i] = p[i] /\ w[i + 1] = p[i + 1]
      BY <1>1, <1>2, <2>2
    <3> QED
      BY <3>1 DEF Done, Near
  <2> QED
    BY <2>1, <2>2
<1>4. ASSUME NEW i \in 1 .. Len(w) - 1
      PROVE  /\ w[i] # "probe"
             /\ Done(w, i + 1) => Done(w, i) \/ w[i] = last
             /\ Near(w, i + 1, last) => Near(w, i, last) \/ w[i] \in before
  <2>1. /\ i + 1 \in 2 .. Len(p) /\ p[i] # "probe"
        /\ Done(p, i + 1) => Done(p, i) \/ p[i] = last
        /\ Near(p, i + 1, last) => Near(p, i, last) \/ p[i] \in before
    BY <1>1, <1>2 DEF Way
  <2>2. CASE i = 1
    <3>1. ~Done(p, i) /\ p[i] # last /\ ~Near(p, i, last)
      BY <1>1, <2>2 DEF Done, Near
    <3> QED
      BY <1>1, <1>3, <2>1, <2>2, <3>1
  <2>3. CASE i # 1
    <3>1. i \in 2 .. Len(p) /\ w[i] = p[i]
      BY <1>1, <1>2, <2>3
    <3> QED
      BY <1>3, <2>1, <3>1
  <2> QED
    BY <2>2, <2>3
<1> QED
  BY <1>4 DEF w, Way

\* What a plan is like when it is made.
LEMMA PlanWays ==
  ASSUME NEW h \in Machine, NEW form \in Form, NEW verb \in Verb \ {"open"}, NEW own \in BOOLEAN,
         own <=> form # "target" /\ record[h] = h
  PROVE  LET p == Plan(h, form, verb) \o <<"ok">>
             last == Last(own, verb)
         IN  /\ Way(p, last, Before(own, verb)) /\ ~Done(p, 1)
             /\ Near(p, 1, last) => verb = "down" /\ form = "plain" /\ ~own
<1> DEFINE Good(p, last, before) == Way(p \o <<"ok">>, last, before) /\ ~Done(p \o <<"ok">>, 1)
           Far(p, last) == ~Near(p \o <<"ok">>, 1, last)
<1> USE DEF Way, Done, Near
<1>1. /\ Good(UpOwn, "reverse", {"start"}) /\ Far(UpOwn, "reverse")
      /\ Good(DownOwn \o UpOwn, "reverse", {"start"}) /\ Far(DownOwn \o UpOwn, "reverse")
  BY DEF UpOwn, DownOwn
<1>2. Good(DownOwn, "halt", {"stop"}) /\ Far(DownOwn, "halt")
  BY DEF DownOwn
<1>3. /\ Good(UpOther, "tunnel", {"call", "wait"}) /\ Far(UpOther, "tunnel")
      /\ Good(DownOther \o UpOther, "tunnel", {"call", "wait"}) /\ Far(DownOther \o UpOther, "tunnel")
      /\ Good(Delegated, "tunnel", {"call", "wait"}) /\ Far(Delegated, "tunnel")
  BY DEF UpOther, DownOther, Delegated
<1>4. /\ Good(DownOther, "stop", {"call", "wait"})
      /\ Good(Undo, "stop", {"call", "wait"}) /\ Far(Undo, "stop")
  BY DEF DownOther, Undo
<1> HIDE DEF Way, Done, Near
<1>5. CASE own
  <2>1. /\ verb = "up" => Plan(h, form, verb) = UpOwn
        /\ verb = "restart" => Plan(h, form, verb) = DownOwn \o UpOwn
        /\ verb = "down" => Plan(h, form, verb) = DownOwn
    BY <1>5 DEF Plan
  <2> QED
    BY <1>1, <1>2, <1>5, <2>1 DEF Verb, Last, Before, Upward
<1>6. CASE ~own
  <2>1. /\ verb = "up" => Plan(h, form, verb) \in {UpOther, Delegated}
        /\ verb = "restart" => Plan(h, form, verb) \in {DownOther \o UpOther, Delegated}
        /\ verb = "down" => Plan(h, form, verb) = IF form = "plain" THEN DownOther ELSE Undo
    BY <1>6 DEF Plan
  <2> QED
    BY <1>3, <1>4, <1>6, <2>1 DEF Verb, Last, Before, Upward
<1> QED
  BY <1>5, <1>6

----
(***************************************************************************)
(* The invariant.                                                          *)
(***************************************************************************)
Owned(c) == IF Owns(c) THEN cmd[c].host ELSE cmd[c].to

\* Whom the command takes for the owner is the owner.
Straight(c) ==
  cmd[c].to # Nobody =>
    /\ cmd[c].to \in Machine /\ record[cmd[c].to] = cmd[c].to
    /\ ~Owns(c) => /\ cmd[c].to # cmd[c].host
                   /\ "reverse" \in modes => cmd[c].host \in Peers[cmd[c].to]

Shaped(c) ==
  cmd[c].verb # "open" =>
    Way(cmd[c].plan, Last(Owns(c), cmd[c].verb), Before(Owns(c), cmd[c].verb))

\* Machine q runs the service and has reverse tunnels to its peers, except those in S.
Serves(q, S) ==
  running[q] /\ ("reverse" \in modes => \A r \in Peers[q] \ S : Reverse(r) \in ssh[q])

\* What is true when the last step of the command is next.
Prepared(c) ==
  IF Upward(cmd[c].verb)
    THEN IF Owns(c) THEN Serves(cmd[c].host, cmd[c].todo)
         ELSE cmd[c].to # Nobody /\ Serves(cmd[c].to, {})
    ELSE IF Owns(c) THEN tidy[cmd[c].host] => TunnelsTo(cmd[c].host, cmd[c].host) = {}
         ELSE cmd[c].form # "plain" => cmd[c].to # Nobody /\ ~running[cmd[c].to]

\* What is true when it is done.
Achieved(c) ==
  IF Upward(cmd[c].verb)
    THEN IF Owns(c) THEN Serves(cmd[c].host, {})
         ELSE /\ cmd[c].to # Nobody /\ Serves(cmd[c].to, {})
              /\ cmd[c].host \in unix => Leads(cmd[c].host, cmd[c].port, cmd[c].to)
    ELSE /\ Owns(c) \/ cmd[c].form # "plain" => ~running[Owned(c)]
         /\ tidy[cmd[c].host] => TunnelsTo(cmd[c].host, Owned(c)) = {}

Truthful(c) ==
  cmd[c].verb # "open" =>
    /\ Near(cmd[c].plan, 1, Last(Owns(c), cmd[c].verb)) => Prepared(c)
    /\ Done(cmd[c].plan, 1) => Achieved(c)

\* A command that leaves the next step to others.
Rests(c) == At(c, "wait") \/ At(c, "failed")

\* Command d is what command c asks of the owner.
Answers(d, c) ==
  cmd[d].host = cmd[c].to /\ cmd[d].form = "plain" /\ cmd[d].verb = Asked(c)

\* Commands nobody disturbed: only one of them moves, and whoever is waited for runs what
\* was asked of the owner.
Calm ==
  /\ \A c \in Active : cmd[c].clean /\ Straight(c) /\ Shaped(c) /\ Truthful(c)
  /\ \A c, d \in Active : c = d \/ Rests(c) \/ Rests(d)
  /\ \A c \in Slot, d \in Active : cmd[d].caller = c => Answers(d, c)

CalmInv == Calm \/ \A c \in Active : ~cmd[c].clean

----
(***************************************************************************)
(* Steps.                                                                  *)
(***************************************************************************)
\* What no step changes in a command nobody disturbs.
Alike(s, r) ==
  /\ s.host = r.host /\ s.form = r.form /\ s.verb = r.verb /\ s.to = r.to /\ s.port = r.port
  /\ s.clean = r.clean

\* Command c takes a step.
Moved(c) ==
  /\ Active' = Active
  /\ \A d \in Active : Alike(cmd'[d], cmd[d]) /\ cmd'[d].caller = cmd[d].caller
  /\ \A d \in Active \ {c} : cmd'[d].plan = cmd[d].plan

LEMMA AlikeSame ==
  ASSUME UNCHANGED setup, NEW d, Alike(cmd'[d], cmd[d])
  PROVE  (Owns(d)' <=> Owns(d)) /\ (Straight(d) => Straight(d)') /\ Owned(d)' = Owned(d)
BY DEF setup, Alike, Owns, Straight, Owned

\* A command that is not to move keeps what is true of it.
LEMMA RestSame ==
  ASSUME UNCHANGED setup, Inv, NEW d \in Active, Alike(cmd'[d], cmd[d]), cmd'[d].plan = cmd[d].plan
  PROVE  /\ Straight(d) => Straight(d)'
         /\ Shaped(d) => Shaped(d)'
         /\ Rests(d) => Truthful(d)'
<1>1. (Owns(d)' <=> Owns(d)) /\ (Straight(d) => Straight(d)') /\ cmd'[d].verb = cmd[d].verb
  BY AlikeSame DEF Alike
<1>2. Last(Owns(d), cmd[d].verb)' = Last(Owns(d), cmd[d].verb)
      /\ Before(Owns(d), cmd[d].verb)' = Before(Owns(d), cmd[d].verb)
  BY <1>1 DEF Last, Before
<1>3. Shaped(d) => Shaped(d)'
  BY <1>1, <1>2 DEF Shaped
<1>4. ASSUME Rests(d) PROVE Truthful(d)'
  <2>1. cmd'[d].plan[1] \in {"wait", "failed"}
    BY <1>4, CommandFacts DEF Rests, At, Fit, Orderly
  <2>2. Last(Owns(d), cmd[d].verb)' \in {"reverse", "tunnel", "halt", "stop"}
    BY DEF Last
  <2> QED
    BY <2>1, <2>2 DEF Truthful, Near, Done
<1> QED
  BY <1>1, <1>3, <1>4

\* A command that has failed claims nothing.
LEMMA FailedTrue ==
  ASSUME UNCHANGED setup, NEW c, Alike(cmd'[c], cmd[c]), cmd'[c].plan = <<"failed">>
  PROVE  Shaped(c)' /\ Truthful(c)'
<1>1. Last(Owns(c), cmd[c].verb)' \in {"reverse", "tunnel", "halt", "stop"}
  BY DEF Last
<1>2. Shaped(c)'
  BY DEF Shaped, Way
<1>3. Truthful(c)'
  BY <1>1 DEF Truthful, Near, Done
<1> QED
  BY <1>2, <1>3

\* The command whose turn it is takes a step.
LEMMA TurnKept ==
  ASSUME Inv, CalmInv, UNCHANGED setup, NEW c \in Active, ~Rests(c), Moved(c),
         Calm => Shaped(c)' /\ Truthful(c)'
  PROVE  CalmInv'
<1>1. Active' = Active /\ \A d \in Active : cmd'[d].clean = cmd[d].clean
  BY DEF Moved, Alike
<1>2. CASE \A d \in Active : ~cmd[d].clean
  BY <1>1, <1>2 DEF CalmInv
<1>3. CASE Calm
  <2>1. \A d \in Active \ {c} : Rests(d)
    BY <1>3 DEF Calm
  <2>2. \A d \in Active \ {c} : Straight(d)' /\ Shaped(d)' /\ Truthful(d)'
    BY <1>3, <2>1, RestSame DEF Calm, Moved
  <2>3. Straight(c)'
    BY <1>3, AlikeSame DEF Calm, Moved
  <2>4. \A d \in Active' : cmd'[d].clean /\ Straight(d)' /\ Shaped(d)' /\ Truthful(d)'
    BY <1>1, <1>3, <2>2, <2>3 DEF Calm
  <2>5. \A d \in Active \ {c} : Rests(d)'
    BY <2>1 DEF Rests, At, Moved
  <2>6. \A d, e \in Active' : d = e \/ Rests(d)' \/ Rests(e)'
    BY <1>1, <2>5
  <2>7. ASSUME NEW d \in Active', NEW e \in Slot, cmd'[d].caller = e
        PROVE  Answers(d, e)'
    <3>1. d \in Active /\ cmd[d].caller = e
      BY <2>7 DEF Moved
    <3>2. e \in Active /\ Answers(d, e)
      BY <1>3, <3>1 DEF Inv, TypeInv, WaitInv, At, Calm
    <3>3. Alike(cmd'[d], cmd[d]) /\ Alike(cmd'[e], cmd[e])
      BY <3>1, <3>2 DEF Moved
    <3> QED
      BY <3>2, <3>3 DEF Answers, Asked, Alike
  <2> QED
    BY <2>4, <2>6, <2>7 DEF Calm, CalmInv
<1> QED
  BY <1>2, <1>3 DEF CalmInv

\* What is true of a command and of what it needs stays true if nothing of that changes.
LEMMA IdleSame ==
  ASSUME UNCHANGED <<setup, running, ssh>>, NEW c, Alike(cmd'[c], cmd[c]),
         cmd'[c].todo = cmd[c].todo, tidy'[cmd[c].host] => tidy[cmd[c].host]
  PROVE  (Prepared(c) => Prepared(c)') /\ (Achieved(c) => Achieved(c)')
<1>1. (Owns(c)' <=> Owns(c)) /\ Owned(c)' = Owned(c)
  BY AlikeSame
<1>2. UNCHANGED <<record, modes, unix>>
  BY DEF setup
<1>3. Prepared(c) => Prepared(c)'
  BY <1>1, <1>2 DEF Prepared, Alike, Serves, TunnelsTo
<1>4. Achieved(c) => Achieved(c)'
  BY <1>1, <1>2 DEF Achieved, Alike, Serves, TunnelsTo, Leads
<1> QED
  BY <1>3, <1>4

\* A command goes on to the next step of its plan.
LEMMA OnwardTrue ==
  ASSUME Inv, Calm, UNCHANGED setup, NEW c, NEW stage, At(c, stage), stage \notin {"ok", "failed"},
         Alike(cmd'[c], cmd[c]), cmd'[c].plan = Tail(cmd[c].plan),
         cmd[c].verb # "open" =>
           /\ stage \in Before(Owns(c), cmd[c].verb) => Prepared(c)'
           /\ stage = Last(Owns(c), cmd[c].verb) /\ Prepared(c) => Prepared(c)' /\ Achieved(c)'
           /\ stage = "load" /\ Prepared(c) => Prepared(c)'
           /\ stage = "save" /\ Achieved(c) => Achieved(c)'
  PROVE  Shaped(c)' /\ Truthful(c)'
<1> DEFINE p == cmd[c].plan
           last == Last(Owns(c), cmd[c].verb)
           before == Before(Owns(c), cmd[c].verb)
<1>1. c \in Active /\ Head(p) = stage /\ Orderly(p) /\ p[1] = stage /\ Shaped(c) /\ Truthful(c)
  <2>1. c \in Active /\ Head(p) = stage
    BY DEF At
  <2> QED
    BY <2>1, CommandFacts DEF Fit, Orderly, Calm
<1>2. (Owns(c)' <=> Owns(c)) /\ cmd'[c].verb = cmd[c].verb /\ Owns(c) \in BOOLEAN
  BY AlikeSame DEF Alike, Owns
<1>3. /\ Last(Owns(c), cmd[c].verb)' = last
      /\ Before(Owns(c), cmd[c].verb)' = before
  BY <1>2 DEF Last, Before
<1>4. last \in {"reverse", "tunnel", "halt", "stop"}
  BY <1>2, LastFacts
<1> HIDE DEF p, last, before
<1>5. ASSUME cmd[c].verb # "open"
      PROVE  /\ Way(Tail(p), last, before)
             /\ Done(Tail(p), 1) => Done(p, 1) \/ p[1] = last
             /\ Near(Tail(p), 1, last) => Near(p, 1, last) \/ p[1] \in before
  <2>1. Way(p, last, before)
    BY <1>1, <1>5 DEF Shaped, p, last, before
  <2> QED
    BY <1>1, <1>4, <2>1, WayOnward
<1>6. Shaped(c)'
  BY <1>2, <1>3, <1>5 DEF Shaped, p
<1>7. ASSUME cmd[c].verb # "open"
      PROVE  /\ Near(Tail(p), 1, last) => Prepared(c)'
             /\ Done(Tail(p), 1) => Achieved(c)'
  <2>1. Near(p, 1, last) => Prepared(c) /\ (stage = last \/ stage = "load")
    BY <1>1, <1>7 DEF Truthful, Near, p, last
  <2>2. Done(p, 1) => Achieved(c) /\ stage = "save"
    BY <1>1, <1>7 DEF Truthful, Done, p
  <2>3. stage = last => Near(p, 1, last)
    BY <1>1 DEF Near
  <2> QED
    BY <1>1, <1>5, <1>7, <2>1, <2>2, <2>3 DEF last, before
<1>8. Truthful(c)'
  BY <1>2, <1>3, <1>7 DEF Truthful, p
<1> QED
  BY <1>6, <1>8

LEMMA OnwardAlike ==
  ASSUME NEW r \in Commands
  PROVE  /\ Alike(Onward(r), r) /\ Onward(r).plan = Tail(r.plan)
         /\ Onward(r).todo = r.todo /\ Onward(r).caller = r.caller /\ Onward(r).mem = r.mem
         /\ Alike(Failed(r), r) /\ Failed(r).plan = <<"failed">> /\ Failed(r).caller = r.caller
BY DEF Onward, Failed, Commands, Alike

LEMMA PutMoves ==
  ASSUME Inv, NEW c \in Active, ~At(c, "wait"),
         NEW r, Fit(r), r.caller = cmd[c].caller, Alike(r, cmd[c]), Put(c, r)
  PROVE  Moved(c) /\ cmd'[c] = r
<1>1. Active' = Active /\ cmd'[c] = r /\ \A d \in Slot \ {c} : cmd'[d] = cmd[d]
  BY PutAlone
<1> QED
  BY <1>1 DEF Moved, Alike, Active

\* A command fails.
LEMMA FailCalm ==
  ASSUME Inv, CalmInv, UNCHANGED setup, NEW c \in Active, ~Rests(c), Fail(c)
  PROVE  CalmInv'
<1> DEFINE r == Failed(cmd[c])
<1>1. Put(c, r) /\ ~At(c, "wait")
  BY DEF Fail, Rests
<1>2. Fit(r) /\ r.caller = cmd[c].caller /\ Alike(r, cmd[c]) /\ r.plan = <<"failed">>
  BY CommandFacts, FitFailed, OnwardAlike
<1> HIDE DEF r
<1>3. Moved(c) /\ cmd'[c] = r
  BY <1>1, <1>2, PutMoves
<1>4. Shaped(c)' /\ Truthful(c)'
  BY <1>2, <1>3, FailedTrue
<1> QED
  BY <1>3, <1>4, TurnKept

\* A step that only puts the command on, or ends it early.
LEMMA LoadCalm ==
  ASSUME Inv, CalmInv, NEW c \in Slot, Load(c)
  PROVE  CalmInv'
<1> DEFINE r == Onward([cmd[c] EXCEPT !.mem = saved[cmd[c].host], !.hand = "copy"])
<1>1. /\ c \in Active /\ Head(cmd[c].plan) = "load" /\ ~At(c, "wait") /\ ~Rests(c)
      /\ At(c, "load")
  BY AtFacts DEF Load, Rests, At
<1>2. Fit(cmd[c]) /\ cmd[c] \in Commands /\ saved[cmd[c].host] \in Records
  BY <1>1, CommandFacts, InvParts
<1>3. /\ Fit(r) /\ r.caller = cmd[c].caller
      /\ Alike(r, cmd[c]) /\ r.plan = Tail(cmd[c].plan) /\ r.todo = cmd[c].todo
  <2>1. Fit(r)
    BY <1>1, <1>2, FitLoad
  <2>2. /\ r.caller = cmd[c].caller
        /\ Alike(r, cmd[c]) /\ r.plan = Tail(cmd[c].plan) /\ r.todo = cmd[c].todo
    BY <1>2 DEF Onward, Commands, Alike
  <2> QED
    BY <2>1, <2>2
<1>4. Put(c, r) /\ UNCHANGED <<setup, running, ssh>>
  BY DEF Load, tunnelVars
<1> HIDE DEF r
<1>5. Moved(c) /\ cmd'[c] = r
  BY <1>1, <1>3, <1>4, PutMoves
<1>6. tidy'[cmd[c].host] => tidy[cmd[c].host]
  BY <1>1, InvParts, CommandFacts DEF Load
<1>7. Prepared(c) => Prepared(c)'
  BY <1>3, <1>4, <1>5, <1>6, IdleSame
<1>8. "load" \notin Before(Owns(c), cmd[c].verb) /\ "load" # Last(Owns(c), cmd[c].verb)
  BY DEF Before, Last
<1>9. Calm => Shaped(c)' /\ Truthful(c)'
  BY <1>1, <1>3, <1>4, <1>5, <1>7, <1>8, OnwardTrue
<1> QED
  BY <1>1, <1>4, <1>5, <1>9, TurnKept

LEMMA SaveCalm ==
  ASSUME Inv, CalmInv, NEW c \in Slot, Save(c)
  PROVE  CalmInv'
<1> DEFINE r == Onward([cmd[c] EXCEPT !.mem = NoRecord, !.hand = "none"])
<1>1. /\ c \in Active /\ Head(cmd[c].plan) = "save" /\ ~At(c, "wait") /\ ~Rests(c)
      /\ At(c, "save")
  BY AtFacts DEF Save, Rests, At
<1>2. Fit(cmd[c]) /\ cmd[c] \in Commands
  BY <1>1, CommandFacts
<1>3. /\ Fit(r) /\ r.caller = cmd[c].caller
      /\ Alike(r, cmd[c]) /\ r.plan = Tail(cmd[c].plan) /\ r.todo = cmd[c].todo
  <2>1. Fit(r)
    BY <1>1, <1>2, FitSave
  <2>2. /\ r.caller = cmd[c].caller
        /\ Alike(r, cmd[c]) /\ r.plan = Tail(cmd[c].plan) /\ r.todo = cmd[c].todo
    BY <1>2 DEF Onward, Commands, Alike
  <2> QED
    BY <2>1, <2>2
<1>4. Put(c, r) /\ UNCHANGED <<setup, running, ssh>> /\ tidy' = tidy
  BY DEF Save
<1> HIDE DEF r
<1>5. Moved(c) /\ cmd'[c] = r
  BY <1>1, <1>3, <1>4, PutMoves
<1>7. Achieved(c) => Achieved(c)'
  BY <1>3, <1>4, <1>5, IdleSame
<1>8. "save" \notin Before(Owns(c), cmd[c].verb) /\ "save" # Last(Owns(c), cmd[c].verb)
  BY DEF Before, Last
<1>9. Calm => Shaped(c)' /\ Truthful(c)'
  BY <1>1, <1>3, <1>4, <1>5, <1>7, <1>8, OnwardTrue
<1> QED
  BY <1>1, <1>4, <1>5, <1>9, TurnKept

\* Only open, which claims nothing, probes.
LEMMA ProbeCalm ==
  ASSUME Inv, CalmInv, NEW c \in Slot, Probe(c)
  PROVE  CalmInv'
<1> DEFINE r == IF ReverseListener(c) THEN [cmd[c] EXCEPT !.plan = <<"ok">>] ELSE Onward(cmd[c])
<1>1. /\ c \in Active /\ Head(cmd[c].plan) = "probe" /\ ~At(c, "wait") /\ ~Rests(c)
      /\ cmd[c].hand = "none"
  BY AtFacts DEF Probe, Rests, At
<1>2. Fit(cmd[c]) /\ cmd[c] \in Commands
  BY <1>1, CommandFacts
<1>3. Fit(r) /\ r.caller = cmd[c].caller /\ Alike(r, cmd[c])
  <2>1. Fit(r)
    BY <1>1, <1>2, FitProbe, FitOnward
  <2>2. r.caller = cmd[c].caller /\ Alike(r, cmd[c])
    BY <1>2 DEF Onward, Commands, Alike
  <2> QED
    BY <2>1, <2>2
<1>4. Put(c, r) /\ UNCHANGED setup
  BY DEF Probe
<1> HIDE DEF r
<1>5. Moved(c) /\ cmd'[c] = r
  BY <1>1, <1>3, <1>4, PutMoves
<1>6. ASSUME Calm PROVE cmd[c].verb = "open"
  <2> DEFINE p == cmd[c].plan
  <2>1. Len(p) \in Nat /\ Len(p) # 0 /\ Len(p) # 1 /\ p[1] = "probe"
    BY <1>1, <1>2, LenProperties, EmptySeq DEF Fit, Orderly
  <2> HIDE DEF p
  <2>2. 1 \in 1 .. Len(p) - 1
    BY <2>1
  <2> USE DEF p
  <2> QED
    BY <1>1, <1>6, <2>1, <2>2 DEF Calm, Shaped, Way
<1>7. Calm => Shaped(c)' /\ Truthful(c)'
  BY <1>3, <1>5, <1>6 DEF Alike, Shaped, Truthful
<1> QED
  BY <1>1, <1>4, <1>5, <1>7, TurnKept

\* Once a command has started its own service it serves but for the reverse tunnels to do.
LEMMA StartCalm ==
  ASSUME Inv, CalmInv, NEW c \in Slot, Start(c)
  PROVE  CalmInv'
<1> DEFINE h == cmd[c].host
           T == IF "reverse" \in modes THEN Peers[h] ELSE {}
           s == [cmd[c] EXCEPT !.todo = T]
           r == Onward(s)
<1>1. /\ c \in Active /\ Head(cmd[c].plan) = "start" /\ ~At(c, "wait") /\ ~Rests(c)
      /\ At(c, "start")
  BY AtFacts DEF Start, Rests, At
<1>2. Fit(cmd[c]) /\ cmd[c] \in Commands /\ h \in Machine /\ T \in SUBSET Machine
  BY <1>1, CommandFacts
<1>3. UNCHANGED setup
  BY DEF Start
<1>4. CASE Fail(c)
  BY <1>1, <1>3, <1>4, FailCalm
<1>5. CASE Put(c, r) /\ running' = [running EXCEPT ![h] = TRUE]
  <2>1. /\ Fit(s) /\ Head(s.plan) = "start" /\ s.caller = cmd[c].caller
    <3> HIDE DEF T
    <3>1. Fit(s) /\ s.plan = cmd[c].plan /\ s.caller = cmd[c].caller
      BY <1>2, FitTodo, ZenonT(60)
    <3> QED
      BY <1>1, <3>1
  <2>2. /\ r.caller = cmd[c].caller
        /\ Alike(r, cmd[c]) /\ r.plan = Tail(cmd[c].plan) /\ r.todo = T
    <3> HIDE DEF T
    <3> QED
      BY <1>2 DEF Onward, Commands, Alike
  <2>3. Fit(r)
    <3> HIDE DEF s
    <3> QED
      BY <2>1, FitOnward
  <2> HIDE DEF r, s
  <2>4. Moved(c) /\ cmd'[c] = r
    BY <1>1, <1>5, <2>2, <2>3, PutMoves
  <2>5. (Owns(c)' <=> Owns(c)) /\ UNCHANGED modes /\ cmd'[c].verb = cmd[c].verb
        /\ cmd'[c].host = h /\ cmd'[c].todo = T
    BY <1>3, <2>2, <2>4, AlikeSame DEF setup, Alike
  <2>6. "start" \in Before(Owns(c), cmd[c].verb) => Upward(cmd[c].verb) /\ Owns(c)
        /\ "start" # Last(Owns(c), cmd[c].verb)
    BY DEF Before, Last
  <2>7. Serves(h, T)'
    <3>1. running'[h] = TRUE
      BY <1>2, <1>5, InvParts
    <3> QED
      BY <2>5, <3>1 DEF Serves
  <2>8. Upward(cmd[c].verb) /\ Owns(c) => Prepared(c)'
    BY <2>5, <2>7 DEF Prepared
  <2>9. Calm => Shaped(c)' /\ Truthful(c)'
    BY <1>1, <1>3, <2>2, <2>4, <2>6, <2>8, OnwardTrue DEF Last
  <2> QED
    BY <1>1, <1>3, <2>4, <2>9, TurnKept
<1> QED
  BY <1>4, <1>5 DEF Start

\* On Unix, and for a reverse tunnel, start_tunnel_spec leaves the tunnel that was meant.
LEMMA OpenLeaves ==
  ASSUME Inv, NEW c \in Active, NEW t \in Tunnel, NEW r, Open(c, t, r), ~Fail(c)
  PROVE  /\ ssh[cmd[c].host] \subseteq ssh'[cmd[c].host] /\ ssh' \in [Machine -> SUBSET Tunnel]
         /\ \A g \in Machine \ {cmd[c].host} : ssh'[g] = ssh[g]
         /\ cmd[c].host \in unix \/ t.mode = "reverse" => t \in ssh'[cmd[c].host]
         /\ \/ Put(c, r) \/ \E p \in Tunnel \cup {Service} : Put(c, Marked(r, t, p))
         /\ tidy' = tidy
<1> DEFINE h == cmd[c].host
           m == cmd[c].mem
<1>1. h \in Machine /\ Honest(h, unix, ssh[h], m) /\ m \in Records
  BY CommandFacts DEF Inv, RecordsInv
<1>2. CASE PidAlive(m[t]) /\ Put(c, r) /\ UNCHANGED <<ssh, tidy>>
  <2>1. h \in unix \/ t.mode = "reverse" => m[t] = t /\ t \in ssh[h]
    BY <1>1, <1>2 DEF Honest, PidAlive
  <2> QED
    BY <1>2, <2>1, InvParts
<1>3. CASE /\ ssh' = [ssh EXCEPT ![h] = @ \cup {t}] /\ UNCHANGED tidy
           /\ Put(c, Marked(r, t, t))
  BY <1>1, <1>3, InvParts
<1>4. CASE /\ h \notin unix /\ t.mode = "local" /\ UNCHANGED <<ssh, tidy>>
           /\ \E l \in Listeners(h, t.port) : Put(c, Marked(r, t, l[2]))
  BY <1>1, <1>4, InvParts, ListenersLemma
<1> QED
  BY <1>2, <1>3, <1>4 DEF Open, TunnelKey, Marked

\* A command that has opened a tunnel is like the one it was to be.
LEMMA OpenMoves ==
  ASSUME Inv, NEW c \in Active, ~At(c, "wait"), cmd[c].hand # "none", NEW t \in Tunnel,
         NEW r, Fit(r), r.caller = cmd[c].caller, r.hand = cmd[c].hand, Alike(r, cmd[c]),
         \/ Put(c, r) \/ \E p \in Tunnel \cup {Service} : Put(c, Marked(r, t, p))
  PROVE  /\ Moved(c) /\ Alike(cmd'[c], r) /\ cmd'[c].plan = r.plan /\ cmd'[c].todo = r.todo
<1>1. CASE Put(c, r)
  BY <1>1, PutMoves DEF Alike
<1>2. ASSUME NEW p \in Tunnel \cup {Service}, Put(c, Marked(r, t, p))
      PROVE  /\ Moved(c) /\ Alike(cmd'[c], r) /\ cmd'[c].plan = r.plan /\ cmd'[c].todo = r.todo
  <2> DEFINE s == Marked(r, t, p)
  <2>1. Fit(s)
    <3>1. p \in Pid \cup {NoPid}
      BY DEF Pid
    <3> QED
      BY <3>1, FitMarked
  <2>2. s.caller = r.caller /\ Alike(s, r) /\ s.plan = r.plan /\ s.todo = r.todo
    BY DEF Fit, Marked, Commands, Alike
  <2>3. Put(c, s)
    BY <1>2
  <2> HIDE DEF s
  <2>4. Alike(s, cmd[c])
    BY <2>2 DEF Alike
  <2>5. Moved(c) /\ cmd'[c] = s
    BY <2>1, <2>2, <2>3, <2>4, PutMoves
  <2> QED
    BY <2>2, <2>5
<1> QED
  BY <1>1, <1>2

LEMMA OpenReverseCalm ==
  ASSUME Inv, CalmInv, NEW c \in Slot, OpenReverse(c)
  PROVE  CalmInv'
<1> DEFINE h == cmd[c].host
<1>1. /\ c \in Active /\ Head(cmd[c].plan) = "reverse" /\ ~At(c, "wait") /\ ~Rests(c)
      /\ At(c, "reverse") /\ cmd[c].hand # "none"
  BY AtFacts DEF OpenReverse, Rests, At, Working
<1>2. Fit(cmd[c]) /\ cmd[c] \in Commands /\ h \in Machine /\ cmd[c].todo \in SUBSET Machine
  BY <1>1, CommandFacts
<1>3. UNCHANGED <<setup, running>> /\ UNCHANGED <<record, modes>>
  BY DEF OpenReverse, setup
<1>4. /\ "reverse" \notin Before(Owns(c), cmd[c].verb)
      /\ "reverse" = Last(Owns(c), cmd[c].verb) <=> Upward(cmd[c].verb) /\ Owns(c)
  BY DEF Before, Last
<1>5. CASE Fail(c)
  BY <1>1, <1>3, <1>5, FailCalm
<1>6. CASE cmd[c].todo = {} /\ ~Fail(c)
  <2> DEFINE r == Onward(cmd[c])
  <2>1. Put(c, r) /\ ssh' = ssh
    BY <1>6 DEF OpenReverse
  <2>2. /\ Fit(r) /\ r.caller = cmd[c].caller
        /\ Alike(r, cmd[c]) /\ r.plan = Tail(cmd[c].plan) /\ r.todo = {}
    BY <1>1, <1>2, <1>6, FitOnward, OnwardAlike
  <2> HIDE DEF r
  <2>3. Moved(c) /\ cmd'[c] = r
    BY <1>1, <2>1, <2>2, PutMoves
  <2>4. Upward(cmd[c].verb) /\ Owns(c) /\ Prepared(c) => Prepared(c)' /\ Achieved(c)'
    <3>1. Owns(c)' <=> Owns(c)
      BY <1>3, <2>2, <2>3, AlikeSame
    <3>2. Upward(cmd[c].verb) /\ Owns(c) /\ Prepared(c) => Serves(h, {})
      BY <1>6 DEF Prepared
    <3>3. Serves(h, {}) => Serves(h, {})'
      BY <1>3, <2>1, <2>2, <2>3 DEF Serves, Alike
    <3> QED
      BY <2>2, <2>3, <3>1, <3>2, <3>3 DEF Prepared, Achieved, Alike
  <2>5. Calm => Shaped(c)' /\ Truthful(c)'
    BY <1>1, <1>3, <1>4, <2>2, <2>3, <2>4, OnwardTrue
  <2> QED
    BY <1>1, <1>3, <2>3, <2>5, TurnKept
<1>7. CASE cmd[c].todo # {} /\ ~Fail(c)
  <2> DEFINE q == First(cmd[c].todo)
             T == cmd[c].todo \ {q}
             r == [cmd[c] EXCEPT !.todo = T]
  <2>1. q \in Machine /\ T \in SUBSET Machine
    BY <1>2, <1>7, LeastIsMember
  <2>2. Open(c, Reverse(q), r) /\ Reverse(q) \in Tunnel /\ Reverse(q).mode = "reverse"
    BY <1>7, <2>1 DEF OpenReverse, Tunnel, Reverse
  <2> HIDE DEF T
  <2>3. /\ Fit(r) /\ r.caller = cmd[c].caller /\ r.hand = cmd[c].hand
        /\ r.plan = cmd[c].plan /\ r.todo = T /\ Alike(r, cmd[c])
    <3>1. Fit(r) /\ r.caller = cmd[c].caller /\ r.hand = cmd[c].hand /\ r.plan = cmd[c].plan
      BY <1>2, <2>1, FitTodo
    <3>2. r.todo = T /\ Alike(r, cmd[c])
      BY <1>2 DEF Commands, Alike
    <3> QED
      BY <3>1, <3>2
  <2> HIDE DEF r, q
  <2>4. /\ ssh[h] \subseteq ssh'[h] /\ Reverse(q) \in ssh'[h]
        /\ Put(c, r) \/ \E p \in Tunnel \cup {Service} : Put(c, Marked(r, Reverse(q), p))
    BY <1>1, <1>7, <2>2, OpenLeaves
  <2>5. Moved(c) /\ Alike(cmd'[c], r) /\ cmd'[c].plan = cmd[c].plan /\ cmd'[c].todo = T
    <3>1. Moved(c) /\ Alike(cmd'[c], r) /\ cmd'[c].plan = r.plan /\ cmd'[c].todo = r.todo
      BY <1>1, <2>2, <2>3, <2>4, OpenMoves
    <3> QED
      BY <2>3, <3>1
  <2>6. /\ (Owns(c)' <=> Owns(c)) /\ cmd'[c].verb = cmd[c].verb /\ cmd'[c].host = h
        /\ Shaped(c) => Shaped(c)'
    BY <1>1, <1>3, <2>5, AlikeSame, RestSame DEF Moved, Alike
  <2>7. Upward(cmd[c].verb) /\ Owns(c) /\ Prepared(c) => Prepared(c)'
    <3>1. Serves(h, cmd[c].todo) =>
            running'[h] /\ ("reverse" \in modes => \A g \in Peers[h] \ T : Reverse(g) \in ssh'[h])
      <4>1. \A g \in Peers[h] \ T : g = q \/ g \in Peers[h] \ cmd[c].todo
        BY DEF T
      <4> QED
        BY <1>3, <2>4, <4>1 DEF Serves
    <3> QED
      BY <1>3, <2>5, <2>6, <3>1 DEF Prepared, Serves
  <2>8. Calm => Truthful(c)'
    <3>1. cmd'[c].plan[1] = "reverse"
      BY <1>1, <1>2, <2>5 DEF Fit, Orderly
    <3>2. Last(Owns(c), cmd[c].verb)' = Last(Owns(c), cmd[c].verb)
      BY <2>6 DEF Last
    <3>3. ~Done(cmd'[c].plan, 1)
      BY <3>1 DEF Done
    <3>4. Near(cmd'[c].plan, 1, Last(Owns(c), cmd[c].verb)) <=> "reverse" = Last(Owns(c), cmd[c].verb)
      BY <3>1 DEF Near
    <3> QED
      BY <1>1, <1>4, <2>5, <2>6, <2>7, <3>2, <3>3, <3>4 DEF Truthful, Calm
  <2>9. Calm => Shaped(c)' /\ Truthful(c)'
    BY <1>1, <2>6, <2>8 DEF Calm
  <2> QED
    BY <1>1, <1>3, <2>5, <2>9, TurnKept
<1> QED
  BY <1>5, <1>6, <1>7

\* A tunnel on Unix leads to the owner, whether it is the command's or the owner's.
LEMMA OpenLocalCalm ==
  ASSUME Inv, CalmInv, NEW c \in Slot, OpenLocal(c)
  PROVE  CalmInv'
<1> DEFINE h == cmd[c].host
           t == Local(cmd[c].to, cmd[c].port)
           r == Onward(cmd[c])
<1>1. /\ c \in Active /\ Head(cmd[c].plan) = "tunnel" /\ ~At(c, "wait") /\ ~Rests(c)
      /\ At(c, "tunnel") /\ cmd[c].hand # "none"
  BY AtFacts DEF OpenLocal, Rests, At, Working
<1>2. /\ Fit(cmd[c]) /\ cmd[c] \in Commands /\ h \in Machine /\ cmd[c].port \in Port
      /\ cmd[c].to \in Machine /\ t \in Tunnel
  BY <1>1, CommandFacts, TargetKnown DEF Tunnel
<1>3. UNCHANGED <<setup, running>> /\ UNCHANGED <<record, modes, unix>>
  BY DEF OpenLocal, setup
<1>4. /\ "tunnel" \notin Before(Owns(c), cmd[c].verb)
      /\ "tunnel" = Last(Owns(c), cmd[c].verb) <=> Upward(cmd[c].verb) /\ ~Owns(c)
  BY DEF Before, Last
<1>5. CASE Fail(c)
  BY <1>1, <1>3, <1>5, FailCalm
<1>6. CASE ~Fail(c)
  <2>1. /\ Fit(r) /\ r.caller = cmd[c].caller /\ r.hand = cmd[c].hand
        /\ Alike(r, cmd[c]) /\ r.plan = Tail(cmd[c].plan)
    BY <1>1, <1>2, FitOnward, OnwardAlike
  <2>2. \/ ReverseListener(c) /\ Put(c, r) /\ ssh' = ssh
        \/ Open(c, t, r)
    BY <1>6 DEF OpenLocal
  <2> HIDE DEF r
  <2>3. /\ ssh' \in [Machine -> SUBSET Tunnel] /\ \A g \in Machine : ssh[g] \subseteq ssh'[g]
        /\ Put(c, r) \/ \E p \in Tunnel \cup {Service} : Put(c, Marked(r, t, p))
        /\ h \in unix => ReverseListener(c) \/ t \in ssh'[h]
    <3>1. CASE ReverseListener(c) /\ Put(c, r) /\ ssh' = ssh
      BY <3>1, InvParts
    <3>2. CASE Open(c, t, r)
      <4> HIDE DEF t
      <4>1. /\ ssh[h] \subseteq ssh'[h] /\ ssh' \in [Machine -> SUBSET Tunnel]
            /\ \A g \in Machine \ {h} : ssh'[g] = ssh[g]
            /\ h \in unix => t \in ssh'[h]
            /\ Put(c, r) \/ \E p \in Tunnel \cup {Service} : Put(c, Marked(r, t, p))
        BY <1>1, <1>2, <1>6, <3>2, OpenLeaves
      <4> QED
        BY <4>1
    <3> QED
      BY <2>2, <3>1, <3>2
  <2> HIDE DEF t
  <2>4. Moved(c) /\ Alike(cmd'[c], cmd[c]) /\ cmd'[c].plan = Tail(cmd[c].plan)
    <3>1. Moved(c) /\ Alike(cmd'[c], r) /\ cmd'[c].plan = r.plan
      <4>1. c \in Active /\ ~At(c, "wait") /\ cmd[c].hand # "none" /\ t \in Tunnel
        BY <1>1, <1>2
      <4>2. /\ Fit(r) /\ r.caller = cmd[c].caller /\ r.hand = cmd[c].hand /\ Alike(r, cmd[c])
            /\ Put(c, r) \/ \E p \in Tunnel \cup {Service} : Put(c, Marked(r, t, p))
        BY <2>1, <2>3
      <4> HIDE DEF h
      <4> QED
        BY <4>1, <4>2, OpenMoves
    <3> QED
      BY <2>1, <3>1 DEF Alike
  <2>5. Owns(c)' <=> Owns(c)
    BY <1>3, <2>4, AlikeSame
  <2>6. ASSUME Calm, Upward(cmd[c].verb), ~Owns(c), Prepared(c)
        PROVE  Prepared(c)' /\ Achieved(c)'
    <3>1. cmd[c].to # Nobody /\ Serves(cmd[c].to, {})
      BY <2>6 DEF Prepared
    <3>2. Serves(cmd[c].to, {})' /\ cmd'[c].to = cmd[c].to
      <4>1. Serves(cmd[c].to, {}) /\ cmd'[c].to = cmd[c].to
        BY <2>4, <3>1 DEF Alike
      <4> QED
        BY <1>2, <1>3, <2>3, <4>1 DEF Serves
    <3>3. h \in unix => Leads(h, cmd[c].port, cmd[c].to)'
      <4>1. CASE t \in ssh'[h]
        BY <2>4, <4>1 DEF Leads, Alike, t
      <4>2. CASE ReverseListener(c)
        <5>1. "reverse" \in modes /\ cmd[c].port = "fixed"
          BY <4>2 DEF ReverseListener
        <5>2. h \in Peers[cmd[c].to]
          BY <1>1, <2>6, <3>1, <5>1 DEF Calm, Straight
        <5>3. Reverse(h) \in ssh[cmd[c].to]
          BY <3>1, <5>1, <5>2 DEF Serves
        <5>4. Reverse(h) \in ssh'[cmd[c].to]
          BY <1>2, <2>3, <5>3
        <5> QED
          BY <2>4, <5>1, <5>4 DEF Leads, Alike
      <4> QED
        BY <2>3, <4>1, <4>2
    <3>4. cmd'[c].verb = cmd[c].verb /\ cmd'[c].host = h /\ cmd'[c].port = cmd[c].port
      BY <2>4 DEF Alike
    <3>5. Prepared(c)'
      BY <2>5, <2>6, <3>1, <3>2, <3>4 DEF Prepared
    <3>6. Achieved(c)'
      BY <1>3, <2>5, <2>6, <3>1, <3>2, <3>3, <3>4 DEF Achieved
    <3> QED
      BY <3>5, <3>6
  <2>7. Calm => Shaped(c)' /\ Truthful(c)'
    BY <1>1, <1>3, <1>4, <2>4, <2>6, OnwardTrue
  <2> QED
    BY <1>1, <1>3, <2>4, <2>7, TurnKept
<1> QED
  BY <1>5, <1>6

\* When a process ends, commands lose a record of it and nothing else.
LEMMA MournAlike ==
  ASSUME NEW cmds, Similar(cmds), NEW h, NEW p, NEW d \in Active
  PROVE  LET M == Mourn(cmds, h, p)
         IN  /\ Alike(M[d], cmds[d]) /\ M[d].plan = cmds[d].plan
             /\ M[d].caller = cmds[d].caller /\ M[d].todo = cmds[d].todo
<1>1. cmds[d] \in Commands
  BY DEF Similar, Fit
<1>2. Mourn(cmds, h, p)[d] \in {cmds[d], [cmds[d] EXCEPT !.mem = Buried(cmds[d].mem, p)]}
  BY DEF Mourn, Active
<1> QED
  BY <1>1, <1>2 DEF Commands, Alike

\* A plan that stays at its first step.
LEMMA StayTrue ==
  ASSUME UNCHANGED setup, Inv, Calm, NEW c, NEW stage, At(c, stage), Alike(cmd'[c], cmd[c]),
         cmd'[c].plan = cmd[c].plan, stage \notin {"ok", "save", "load"},
         cmd[c].verb # "open" /\ stage = Last(Owns(c), cmd[c].verb) /\ Prepared(c) => Prepared(c)'
  PROVE  Shaped(c)' /\ Truthful(c)'
<1>1. c \in Active /\ cmd[c].plan[1] = stage /\ Shaped(c) /\ Truthful(c)
  <2>1. c \in Active /\ Head(cmd[c].plan) = stage
    BY DEF At
  <2> QED
    BY <2>1, CommandFacts DEF Fit, Orderly, Calm
<1>2. (Owns(c)' <=> Owns(c)) /\ cmd'[c].verb = cmd[c].verb
  BY AlikeSame DEF Alike
<1>3. Last(Owns(c), cmd[c].verb)' = Last(Owns(c), cmd[c].verb)
  BY <1>2 DEF Last
<1>4. Shaped(c)'
  BY <1>1, RestSame
<1>5. ~Done(cmd[c].plan, 1) /\ (Near(cmd[c].plan, 1, Last(Owns(c), cmd[c].verb))
                                 <=> stage = Last(Owns(c), cmd[c].verb))
  BY <1>1 DEF Done, Near
<1>6. Truthful(c)'
  BY <1>1, <1>2, <1>3, <1>5 DEF Truthful
<1> QED
  BY <1>4, <1>6

LEMMA HaltCalm ==
  ASSUME Inv, CalmInv, NEW c \in Slot, Halt(c)
  PROVE  CalmInv'
<1> DEFINE h == cmd[c].host
           M == Mourn(cmd, h, Service)
           r == Onward(M[c])
<1>1. /\ c \in Active /\ Head(cmd[c].plan) = "halt" /\ ~At(c, "wait") /\ ~Rests(c)
      /\ At(c, "halt") /\ h \in Machine
  BY AtFacts, CommandFacts DEF Halt, Rests, At
<1>2. /\ UNCHANGED setup /\ tidy' = tidy /\ cmd' = [M EXCEPT ![c] = r]
      /\ running' = [running EXCEPT ![h] = FALSE] /\ ssh' = [ssh EXCEPT ![h] = @ \ {Service}]
  BY DEF Halt, End
<1>3. /\ Similar(M) /\ Fit(M[c]) /\ M[c] \in Commands /\ Head(M[c].plan) = "halt"
      /\ \A d \in Active : /\ Alike(M[d], cmd[d]) /\ M[d].plan = cmd[d].plan
                           /\ M[d].caller = cmd[d].caller
  <2>1. Similar(cmd)
    BY InvParts, SimilarSame
  <2>2. Similar(M)
    BY <2>1, SimilarMourn
  <2>3. \A d \in Active : /\ Alike(M[d], cmd[d]) /\ M[d].plan = cmd[d].plan
                          /\ M[d].caller = cmd[d].caller
    BY <2>1, MournAlike
  <2> HIDE DEF M
  <2> QED
    BY <1>1, <2>2, <2>3 DEF Similar, Fit
<1> HIDE DEF M
<1>4. /\ Fit(r) /\ r.caller = cmd[c].caller /\ Alike(r, cmd[c]) /\ r.plan = Tail(cmd[c].plan)
  <2>1. Fit(r) /\ r.caller = M[c].caller
    BY <1>3, FitOnward
  <2>2. Alike(r, M[c]) /\ r.plan = Tail(M[c].plan)
    BY <1>3, OnwardAlike
  <2> HIDE DEF r
  <2> QED
    BY <1>1, <1>3, <2>1, <2>2 DEF Alike
<1> HIDE DEF r
<1>5. Active' = Active /\ cmd'[c] = r /\ \A d \in Slot \ {c} : cmd'[d] = M[d]
  <2>1. CommandsFit /\ WaitInv
    BY InvParts
  <2> QED
    BY <1>1, <1>2, <1>3, <1>4, <2>1, PutFit, ZenonT(60)
<1>6. Moved(c)
  BY <1>3, <1>4, <1>5 DEF Moved, Active
<1>7. ~running'[h] /\ ssh'[h] \subseteq ssh[h]
  BY <1>1, <1>2, InvParts
<1>8. ASSUME ~Upward(cmd[c].verb), Owns(c), Prepared(c)
      PROVE  Prepared(c)' /\ Achieved(c)'
  <2>1. Owns(c)' /\ cmd'[c].host = h /\ cmd'[c].verb = cmd[c].verb
    BY <1>2, <1>4, <1>5, <1>8, AlikeSame DEF Alike
  <2>2. tidy[h] => TunnelsTo(h, h) = {}
    BY <1>8 DEF Prepared
  <2>3. tidy'[h] => \A t \in ssh'[h] : t.peer # h
    BY <1>2, <1>7, <2>2 DEF TunnelsTo
  <2> QED
    BY <1>7, <1>8, <2>1, <2>3 DEF Prepared, Achieved, Owned, TunnelsTo
<1>9. /\ "halt" \notin Before(Owns(c), cmd[c].verb)
      /\ "halt" = Last(Owns(c), cmd[c].verb) => ~Upward(cmd[c].verb) /\ Owns(c)
  BY DEF Before, Last
<1>10. Calm => Shaped(c)' /\ Truthful(c)'
  BY <1>1, <1>2, <1>4, <1>5, <1>8, <1>9, OnwardTrue
<1> QED
  BY <1>1, <1>2, <1>6, <1>10, TurnKept

\* A command that has nothing more to close has closed every tunnel it knows of, which is
\* every tunnel to the owner if none was forgotten.
LEMMA NothingLeft ==
  ASSUME Inv, NEW c, At(c, "stop"), Victims(c) = {}, tidy[cmd[c].host]
  PROVE  TunnelsTo(cmd[c].host, Owned(c)) = {}
<1> DEFINE h == cmd[c].host
<1>1. c \in Active /\ cmd[c].hand # "none" /\ h \in Machine
  BY AtFacts, CommandFacts DEF Working
<1>2. ssh[h] \subseteq Listed(cmd[c].mem)
  BY <1>1 DEF Inv, AccountInv, Holding
<1>3. ASSUME NEW t \in ssh[h]
      PROVE  cmd[c].form = "target" /\ t.peer # cmd[c].to
  <2>1. t \in Tunnel /\ cmd[c].mem[t] = t /\ t # NoPid
    BY <1>2, <1>3 DEF Listed
  <2> QED
    BY <2>1 DEF Victims
<1>4. cmd[c].form = "target" => Owned(c) = cmd[c].to
  BY DEF Owned, Owns
<1> QED
  BY <1>3, <1>4 DEF TunnelsTo

LEMMA StopCalm ==
  ASSUME Inv, CalmInv, NEW c \in Slot, Stop(c)
  PROVE  CalmInv'
<1> DEFINE h == cmd[c].host
<1>1. /\ c \in Active /\ Head(cmd[c].plan) = "stop" /\ ~At(c, "wait") /\ ~Rests(c)
      /\ At(c, "stop") /\ h \in Machine /\ cmd[c].hand # "none"
  BY AtFacts, CommandFacts DEF Stop, Rests, At, Working
<1>2. UNCHANGED <<setup, tidy>>
  BY DEF Stop
<1>3. /\ "stop" \in Before(Owns(c), cmd[c].verb) => Owns(c) /\ ~Upward(cmd[c].verb)
      /\ "stop" = Last(Owns(c), cmd[c].verb) => ~Owns(c) /\ ~Upward(cmd[c].verb)
  BY DEF Before, Last
<1>4. CASE Victims(c) = {}
  <2> DEFINE r == Onward(cmd[c])
  <2>1. Put(c, r) /\ UNCHANGED <<running, ssh>>
    BY <1>4 DEF Stop, tunnelVars
  <2>2. /\ Fit(r) /\ r.caller = cmd[c].caller
        /\ Alike(r, cmd[c]) /\ r.plan = Tail(cmd[c].plan) /\ r.todo = cmd[c].todo
    BY <1>1, CommandFacts, FitOnward, OnwardAlike
  <2> HIDE DEF r
  <2>3. Moved(c) /\ cmd'[c] = r
    BY <1>1, <2>1, <2>2, PutMoves
  <2>4. /\ (Owns(c)' <=> Owns(c)) /\ Owned(c)' = Owned(c)
        /\ cmd'[c].verb = cmd[c].verb /\ cmd'[c].host = h /\ cmd'[c].form = cmd[c].form
    BY <1>2, <2>2, <2>3, AlikeSame DEF Alike
  <2>5. tidy[h] => TunnelsTo(h, Owned(c)) = {}
    BY <1>1, <1>4, NothingLeft
  <2>6. Prepared(c) => Prepared(c)'
    <3>1. tidy'[cmd[c].host] => tidy[cmd[c].host]
      BY <1>2
    <3> QED
      BY <1>2, <2>1, <2>2, <2>3, <3>1, IdleSame
  <2>7. tidy'[cmd'[c].host] => TunnelsTo(cmd[c].host, Owned(c))' = {}
    BY <1>2, <2>1, <2>4, <2>5 DEF TunnelsTo
  <2>8. Owns(c) /\ ~Upward(cmd[c].verb) => Prepared(c)'
    BY <2>4, <2>7 DEF Prepared, Owned
  <2>9. ~Owns(c) /\ ~Upward(cmd[c].verb) /\ Prepared(c) => Achieved(c)'
    BY <2>1, <2>4, <2>7 DEF Prepared, Achieved, Owned
  <2>10. Calm => Shaped(c)' /\ Truthful(c)'
    BY <1>1, <1>2, <1>3, <2>2, <2>3, <2>6, <2>8, <2>9, OnwardTrue
  <2> QED
    BY <1>1, <1>2, <2>3, <2>10, TurnKept
<1>5. ASSUME NEW k \in Victims(c),
             IF PidAlive(cmd[c].mem[k])
               THEN cmd' = Mourn(Removed(c, k), h, cmd[c].mem[k]) /\ End(h, cmd[c].mem[k])
               ELSE cmd' = Removed(c, k) /\ UNCHANGED tunnelVars
      PROVE  CalmInv'
  <2> DEFINE R == Removed(c, k)
  <2>1. /\ Similar(R)
        /\ \A d \in Active : /\ Alike(R[d], cmd[d]) /\ R[d].plan = cmd[d].plan
                             /\ R[d].caller = cmd[d].caller
    <3>1. k \in Tunnel
      BY DEF Victims
    <3>2. Similar(R) /\ \A d \in Active \ {c} : R[d] = cmd[d]
      BY <1>1, <3>1, RemovedFacts
    <3>3. R[c] = Marked(cmd[c], k, NoPid)
      BY <1>1, InvParts DEF Removed, CommandsFit
    <3>4. Alike(Marked(cmd[c], k, NoPid), cmd[c])
      BY <1>1, CommandFacts DEF Marked, Commands, Alike
    <3> QED
      BY <3>2, <3>3, <3>4 DEF Similar, Alike
  <2> HIDE DEF R
  <2>2. \A g \in Machine : running'[g] => running[g]
    BY <1>5, InvParts DEF End, tunnelVars
  <2>3. /\ Active' = Active
        /\ \A d \in Active : /\ Alike(cmd'[d], cmd[d]) /\ cmd'[d].plan = cmd[d].plan
                             /\ cmd'[d].caller = cmd[d].caller
    <3> DEFINE p == cmd[c].mem[k]
    <3>1. CASE PidAlive(p)
      <4>1. cmd' = Mourn(R, h, p)
        BY <1>5, <3>1 DEF R
      <4>2. Active' = Active
        BY <2>1, <4>1, SimilarMourn, SettleFit, InvParts
      <4>3. \A d \in Active : /\ Alike(cmd'[d], R[d]) /\ cmd'[d].plan = R[d].plan
                              /\ cmd'[d].caller = R[d].caller
        BY <2>1, <4>1, MournAlike
      <4> QED
        BY <2>1, <4>2, <4>3 DEF Alike
    <3>2. CASE ~PidAlive(p)
      <4>1. cmd' = R
        BY <1>5, <3>2 DEF R
      <4> QED
        BY <2>1, <4>1, SettleFit, InvParts
    <3> QED
      BY <3>1, <3>2
  <2>4. Moved(c)
    BY <2>3 DEF Moved
  <2>5. ASSUME Calm, cmd[c].verb # "open", ~Owns(c), ~Upward(cmd[c].verb), Prepared(c)
        PROVE  Prepared(c)'
    <3>1. /\ (Owns(c)' <=> Owns(c)) /\ cmd'[c].verb = cmd[c].verb
          /\ cmd'[c].form = cmd[c].form /\ cmd'[c].to = cmd[c].to
      BY <1>1, <1>2, <2>3, AlikeSame DEF Alike
    <3>2. cmd[c].to # Nobody => (running'[cmd[c].to] => running[cmd[c].to])
      BY <1>1, <2>2, CommandFacts
    <3> QED
      BY <2>5, <3>1, <3>2 DEF Prepared
  <2>6. Calm => Shaped(c)' /\ Truthful(c)'
    BY <1>1, <1>2, <1>3, <2>3, <2>5, StayTrue
  <2> QED
    BY <1>1, <1>2, <2>4, <2>6, TurnKept
<1>6. CASE Victims(c) # {}
  BY <1>5, <1>6, StopCases DEF Stop
<1> QED
  BY <1>4, <1>6

----
(***************************************************************************)
(* Asking the owner.                                                       *)
(***************************************************************************)
LEMMA WaitingAlike ==
  ASSUME NEW r \in Commands
  PROVE  /\ Alike(Waiting(r), r) /\ Waiting(r).plan = <<"wait">> \o Tail(r.plan)
         /\ Waiting(r).caller = r.caller
BY DEF Waiting, Commands, Alike

\* A command that does not move keeps what is true of it if the machines stay as they are.
LEMMA StillTrue ==
  ASSUME Inv, UNCHANGED <<setup, running, ssh>>, NEW e \in Active, Alike(cmd'[e], cmd[e]),
         cmd'[e].plan = cmd[e].plan, cmd'[e].todo = cmd[e].todo,
         tidy'[cmd[e].host] => tidy[cmd[e].host]
  PROVE  /\ Straight(e) => Straight(e)'
         /\ Shaped(e) => Shaped(e)'
         /\ Truthful(e) => Truthful(e)'
<1>1. (Straight(e) => Straight(e)') /\ (Shaped(e) => Shaped(e)')
  BY RestSame
<1>2. (Prepared(e) => Prepared(e)') /\ (Achieved(e) => Achieved(e)')
  BY IdleSame
<1>3. (Owns(e)' <=> Owns(e)) /\ cmd'[e].verb = cmd[e].verb
  BY AlikeSame DEF Alike
<1>4. Last(Owns(e), cmd[e].verb)' = Last(Owns(e), cmd[e].verb)
  BY <1>3 DEF Last
<1>5. Truthful(e) => Truthful(e)'
  BY <1>2, <1>3, <1>4 DEF Truthful
<1> QED
  BY <1>1, <1>5

\* One command goes, or goes on, and nothing happens to the others.
LEMMA SettleCalm ==
  ASSUME Inv, Calm, UNCHANGED <<setup, running, ssh>>, \A g \in Machine : tidy'[g] => tidy[g],
         Active' \subseteq Active, NEW c,
         \A e \in Active' : /\ Alike(cmd'[e], cmd[e]) /\ cmd'[e].caller \in {cmd[e].caller, Lost}
                            /\ cmd'[e].caller \in Slot => cmd'[e].caller \in Active',
         \A e \in Active' \ {c} : cmd'[e].plan = cmd[e].plan /\ cmd'[e].todo = cmd[e].todo,
         c \in Active' => Shaped(c)' /\ Truthful(c)',
         c \in Active' => Rests(c)' \/ \A e \in Active' \ {c} : Rests(e)
  PROVE  Calm'
<1>1. \A e \in Active' \ {c} : Straight(e)' /\ Shaped(e)' /\ Truthful(e)'
  <2> TAKE e \in Active' \ {c}
  <2>1. /\ e \in Active /\ Alike(cmd'[e], cmd[e]) /\ tidy'[cmd[e].host] => tidy[cmd[e].host]
        /\ cmd'[e].plan = cmd[e].plan /\ cmd'[e].todo = cmd[e].todo
    BY CommandFacts
  <2>2. Straight(e) /\ Shaped(e) /\ Truthful(e)
    BY <2>1 DEF Calm
  <2> QED
    BY <2>1, <2>2, StillTrue
<1>2. c \in Active' => Straight(c)'
  BY AlikeSame DEF Calm
<1>3. \A e \in Active' : cmd'[e].clean /\ Straight(e)' /\ Shaped(e)' /\ Truthful(e)'
  BY <1>1, <1>2 DEF Calm, Alike
<1>4. \A e \in Active' \ {c} : Rests(e) => Rests(e)'
  BY DEF Rests, At
<1>5. \A d, e \in Active' : d = e \/ Rests(d)' \/ Rests(e)'
  BY <1>4 DEF Calm
<1>6. ASSUME NEW x \in Slot, NEW d \in Active', cmd'[d].caller = x
      PROVE  Answers(d, x)'
  <2>1. d \in Active /\ cmd[d].caller = x /\ x \in Active'
    BY <1>6
  <2>2. Answers(d, x) /\ Alike(cmd'[d], cmd[d]) /\ Alike(cmd'[x], cmd[x])
    BY <2>1 DEF Calm
  <2> QED
    BY <2>2 DEF Answers, Asked, Alike
<1> QED
  BY <1>3, <1>5, <1>6 DEF Calm

\* The one asked takes the service for its own.
LEMMA AskCalm ==
  ASSUME Inv, CalmInv, NEW c \in Slot, Ask(c)
  PROVE  CalmInv'
<1>1. /\ c \in Active /\ Head(cmd[c].plan) = "call" /\ ~At(c, "wait") /\ ~Rests(c)
      /\ Fit(cmd[c]) /\ cmd[c] \in Commands /\ cmd[c].to \in Machine \cup {Nobody}
      /\ cmd[c].verb \in Verb /\ UNCHANGED setup
  BY AtFacts, CommandFacts DEF Ask, Rests, At
<1>2. CASE cmd[c].to = Nobody
  BY <1>1, <1>2, FailCalm DEF Ask
<1>3. CASE cmd[c].to # Nobody
  <2> DEFINE g == cmd[c].to
             new == Command(g, "plain", Asked(c), FirstKnowing(g), "fixed", c, cmd[c].clean)
  <2>1. PICK d \in Slot : /\ FreeSlot(d)
                          /\ cmd' = [cmd EXCEPT ![c].plan = <<"wait">> \o Tail(@), ![d] = new]
    BY <1>3 DEF Ask
  <2>2. d \notin Active /\ d # c
    BY <1>1, <2>1 DEF FreeSlot
  <2>3. /\ new.host = g /\ new.form = "plain" /\ new.verb = Asked(c) /\ new.caller = c
        /\ new.to = Route(g, "plain", FirstKnowing(g)) /\ new.clean = cmd[c].clean
        /\ new.plan = Plan(g, "plain", Asked(c)) \o <<"ok">>
    BY DEF Command
  <2> HIDE DEF new
  <2>4. /\ cmd'[c] = Waiting(cmd[c]) /\ cmd'[d] = new
        /\ \A e \in Slot \ {c, d} : cmd'[e] = cmd[e]
    BY <2>1, <2>2, InvParts DEF Waiting, CommandsFit
  <2>5. Active' \subseteq Active \cup {d} /\ \A e \in Active \ {c} : cmd'[e] = cmd[e]
    BY <1>1, <2>2, <2>4 DEF Active
  <2>6. /\ Alike(cmd'[c], cmd[c]) /\ cmd'[c].plan = <<"wait">> \o Tail(cmd[c].plan)
        /\ cmd'[c].caller = cmd[c].caller
    BY <1>1, <2>4, WaitingAlike
  <2>7. CASE \A e \in Active : ~cmd[e].clean
    <3>1. \A e \in Active' : ~cmd'[e].clean
      BY <1>1, <2>3, <2>4, <2>5, <2>6, <2>7 DEF Alike
    <3> QED
      BY <3>1 DEF CalmInv
  <2>8. CASE Calm
    <3>1. /\ cmd[c].clean /\ Shaped(c) /\ Straight(c)
          /\ \A e \in Active \ {c} : Rests(e)
      BY <1>1, <2>8 DEF Calm
    <3>2. Straight(c)' /\ Rests(c)' /\ Shaped(c)' /\ Truthful(c)'
      <4>1. (Owns(c)' <=> Owns(c)) /\ Straight(c)' /\ cmd'[c].verb = cmd[c].verb
        BY <1>1, <2>6, <3>1, AlikeSame DEF Alike
      <4>2. /\ Last(Owns(c), cmd[c].verb)' = Last(Owns(c), cmd[c].verb)
            /\ Before(Owns(c), cmd[c].verb)' = Before(Owns(c), cmd[c].verb)
            /\ Owns(c) \in BOOLEAN
        BY <4>1 DEF Last, Before, Owns
      <4>3. cmd[c].verb # "open" => Way(cmd[c].plan, Last(Owns(c), cmd[c].verb),
                                        Before(Owns(c), cmd[c].verb))
        BY <3>1 DEF Shaped
      <4>4. Shaped(c)'
        <5> DEFINE last == Last(Owns(c), cmd[c].verb)
                   before == Before(Owns(c), cmd[c].verb)
                   p == cmd[c].plan
        <5>1. last \in {"reverse", "tunnel", "halt", "stop"} /\ ("call" \in before <=> "wait" \in before)
          BY <4>2, LastFacts
        <5>2. Orderly(p) /\ Head(p) = "call" /\ cmd'[c].plan = <<"wait">> \o Tail(p)
          BY <1>1, <2>6 DEF Fit
        <5>3. ASSUME cmd[c].verb # "open" PROVE Way(<<"wait">> \o Tail(p), last, before)
          <6>1. Way(p, last, before)
            BY <4>3, <5>3
          <6> HIDE DEF p, last, before
          <6> QED
            BY <5>1, <5>2, <6>1, WayWait
        <5> QED
          BY <4>1, <4>2, <5>2, <5>3 DEF Shaped
      <4>5. /\ cmd'[c].plan[1] = "wait" /\ Head(cmd'[c].plan) = "wait" /\ c \in Active'
        <5>1. Orderly(cmd[c].plan)
          BY <1>1 DEF Fit
        <5>2. Fit(Waiting(cmd[c])) /\ Head(Waiting(cmd[c]).plan) = "wait"
          BY <1>1, <1>3, FitWait DEF Waiting
        <5>3. Head(Waiting(cmd[c]).plan) = Waiting(cmd[c]).plan[1]
          BY <5>2 DEF Fit, Orderly
        <5> QED
          BY <2>4, <5>2, <5>3 DEF Fit, Active
      <4>6. Rests(c)'
        BY <4>5 DEF Rests, At
      <4>7. Truthful(c)'
        <5>1. Last(Owns(c), cmd[c].verb)' \in {"reverse", "tunnel", "halt", "stop"}
          BY DEF Last
        <5> QED
          BY <4>5, <5>1 DEF Truthful, Near, Done
      <4> QED
        BY <4>1, <4>4, <4>6, <4>7
    <3>3. /\ g \in Machine /\ record[g] = g /\ new.to = g /\ Asked(c) \in Verb \ {"open"}
      <4>1. g \in Machine /\ record[g] = g /\ g # Nobody
        BY <1>1, <1>3, <3>1 DEF Straight
      <4>2. Asked(c) \in Verb \ {"open"}
        BY <1>1 DEF Asked, Verb
      <4> QED
        BY <2>3, <4>1, <4>2 DEF Route
    <3>4. Owns(d)' /\ Straight(d)' /\ Shaped(d)' /\ Truthful(d)' /\ cmd'[d].clean
      <4>1. UNCHANGED <<record, modes>>
        BY <1>1 DEF setup
      <4>2. /\ cmd'[d].host = g /\ cmd'[d].form = "plain" /\ cmd'[d].verb = Asked(c)
            /\ cmd'[d].to = g /\ cmd'[d].clean
            /\ cmd'[d].plan = Plan(g, "plain", Asked(c)) \o <<"ok">>
        BY <2>3, <2>4, <3>1, <3>3
      <4>3. Owns(d)'
        BY <3>3, <4>1, <4>2 DEF Owns
      <4>4. Straight(d)'
        BY <3>3, <4>1, <4>2, <4>3 DEF Straight
      <4>5. LET p == Plan(g, "plain", Asked(c)) \o <<"ok">>
                last == Last(TRUE, Asked(c))
            IN  Way(p, last, Before(TRUE, Asked(c))) /\ ~Done(p, 1) /\ ~Near(p, 1, last)
        <5>1. "plain" \in Form /\ TRUE \in BOOLEAN /\ (TRUE <=> "plain" # "target" /\ record[g] = g)
          BY <3>3 DEF Form
        <5> HIDE DEF g
        <5> QED
          BY <3>3, <5>1, PlanWays
      <4>6. /\ Last(Owns(d), cmd[d].verb)' = Last(TRUE, Asked(c))
            /\ Before(Owns(d), cmd[d].verb)' = Before(TRUE, Asked(c))
        BY <4>2, <4>3 DEF Last, Before
      <4>7. Shaped(d)' /\ Truthful(d)'
        BY <4>2, <4>5, <4>6 DEF Shaped, Truthful
      <4> QED
        BY <4>2, <4>3, <4>4, <4>7
    <3>5. \A e \in Active \ {c} : Straight(e)' /\ Shaped(e)' /\ Truthful(e)' /\ Rests(e)' /\ cmd'[e].clean
      <4> TAKE e \in Active \ {c}
      <4>1. cmd'[e] = cmd[e] /\ Straight(e) /\ Shaped(e) /\ Rests(e) /\ cmd[e].clean
        BY <2>5, <2>8, <3>1 DEF Calm
      <4>2. Alike(cmd'[e], cmd[e]) /\ cmd'[e].plan = cmd[e].plan
        BY <4>1 DEF Alike
      <4>3. Straight(e)' /\ Shaped(e)' /\ Truthful(e)'
        BY <1>1, <4>1, <4>2, RestSame
      <4>4. Rests(e)'
        BY <4>1 DEF Rests, At, Active
      <4> QED
        BY <4>1, <4>3, <4>4
    <3>6. \A e \in Active' : cmd'[e].clean /\ Straight(e)' /\ Shaped(e)' /\ Truthful(e)'
      BY <2>5, <2>6, <3>1, <3>2, <3>4, <3>5 DEF Alike
    <3>7. \A e, f \in Active' : e = f \/ Rests(e)' \/ Rests(f)'
      BY <2>5, <3>2, <3>5
    <3>8. ASSUME NEW x \in Slot, NEW e \in Active', cmd'[e].caller = x
          PROVE  Answers(e, x)'
      <4>1. CASE e = d
        <5>1. x = c /\ Asked(c)' = Asked(c) /\ cmd'[c].to = g
          BY <2>3, <2>4, <2>6, <3>8, <4>1 DEF Alike, Asked
        <5> QED
          BY <2>3, <2>4, <4>1, <5>1 DEF Answers
      <4>2. CASE e # d
        <5>1. e \in Active /\ cmd[e].caller = x /\ Alike(cmd'[e], cmd[e])
          BY <2>5, <2>6, <3>8, <4>2 DEF Alike
        <5>2. x \in Active /\ x # c
          BY <1>1, <5>1, InvParts DEF WaitInv, At
        <5>3. cmd'[x] = cmd[x] /\ Answers(e, x)
          BY <2>5, <2>8, <5>1, <5>2 DEF Calm
        <5> QED
          BY <5>1, <5>3 DEF Answers, Asked, Alike
      <4> QED
        BY <4>1, <4>2
    <3> QED
      BY <3>6, <3>7, <3>8 DEF Calm, CalmInv
  <2> QED
    BY <2>7, <2>8 DEF CalmInv
<1> QED
  BY <1>2, <1>3

\* An answer that the owner has done it is true.
LEMMA ReturnCalm ==
  ASSUME Inv, CalmInv, NEW d \in Slot, Return(d)
  PROVE  CalmInv'
<1>1. /\ UNCHANGED setup /\ UNCHANGED <<setup, running, ssh>> /\ d \in Active /\ Ended(d)
      /\ ~At(d, "wait")
  BY DEF Return, tunnelVars, Ended, At
<1>2. \A e \in Active : cmd[e].caller \in Slot => cmd[e].caller \in Active /\ cmd[e].caller # d
  BY <1>1, InvParts DEF WaitInv, At
<1>3. CASE cmd[d].caller \notin Slot
  <2>1. cmd' = [cmd EXCEPT ![d] = NoCommand] /\ tidy' = tidy
    BY <1>3 DEF Return, Put
  <2>2. Active' = Active \ {d} /\ \A e \in Active' : cmd'[e] = cmd[e]
    BY <2>1, InvParts DEF CommandsFit, Active
  <2>3. \A e \in Active' : Alike(cmd'[e], cmd[e])
    BY <2>2 DEF Alike
  <2>4. Calm => Calm'
    <3>1. d \notin Active' /\ Active' \subseteq Active /\ \A g \in Machine : tidy'[g] => tidy[g]
      BY <2>1, <2>2
    <3>2. \A e \in Active' : /\ Alike(cmd'[e], cmd[e]) /\ cmd'[e].caller \in {cmd[e].caller, Lost}
                             /\ cmd'[e].caller \in Slot => cmd'[e].caller \in Active'
      BY <1>2, <2>2, <2>3
    <3>3. \A e \in Active' \ {d} : cmd'[e].plan = cmd[e].plan /\ cmd'[e].todo = cmd[e].todo
      BY <2>2
    <3> QED
      BY <1>1, <3>1, <3>2, <3>3, SettleCalm
  <2> QED
    BY <2>2, <2>4 DEF CalmInv
<1>4. ASSUME NEW c \in Slot, cmd[d].caller = c PROVE CalmInv'
  <2> DEFINE r == IF At(d, "ok") THEN Onward(cmd[c]) ELSE Failed(cmd[c])
  <2>1. /\ c \in Active /\ c # d /\ At(c, "wait") /\ cmd[c] \in Commands /\ Head(cmd[c].plan) = "wait"
        /\ \A e \in Active : cmd[e].caller = c => e = d
    <3>1. At(c, "wait") /\ c # d /\ \A e \in Active : cmd[e].caller = c => e = d
      BY <1>1, <1>4, InvParts DEF WaitInv
    <3> QED
      BY <3>1, AtFacts, CommandFacts
  <2>2. /\ cmd' = [cmd EXCEPT ![d] = NoCommand, ![c] = r]
        /\ IF At(d, "ok") THEN tidy' = tidy ELSE Losing(c)
    BY <1>4, <2>1, InvParts DEF Return, CommandsFit
  <2>3. /\ Alike(r, cmd[c]) /\ r.caller = cmd[c].caller
        /\ At(d, "ok") => r.plan = Tail(cmd[c].plan)
        /\ ~At(d, "ok") => r.plan = <<"failed">>
        /\ r # NoCommand
    <3>1. Fit(Onward(cmd[c])) /\ Fit(Failed(cmd[c]))
      BY <2>1, CommandFacts, FitOnward, FitFailed
    <3> QED
      BY <2>1, <3>1, OnwardAlike DEF Fit
  <2>4. \A g \in Machine : tidy'[g] => tidy[g]
    BY <2>1, <2>2, LosingLemma
  <2> HIDE DEF r
  <2>5. cmd'[c] = r /\ cmd'[d] = NoCommand /\ \A e \in Slot \ {c, d} : cmd'[e] = cmd[e]
    BY <1>4, <2>1, <2>2, InvParts DEF CommandsFit
  <2>6. Active' \subseteq Active \ {d} /\ \A e \in Active' \ {c} : cmd'[e] = cmd[e]
    BY <2>1, <2>5 DEF Active
  <2>7. \A e \in Active' : Alike(cmd'[e], cmd[e]) /\ cmd'[e].caller = cmd[e].caller
    BY <2>3, <2>5, <2>6 DEF Alike
  <2>8. CASE \A e \in Active : ~cmd[e].clean
    BY <2>6, <2>7, <2>8 DEF CalmInv, Alike
  <2>9. CASE Calm
    <3>1. Shaped(c)' /\ Truthful(c)' /\ (~At(d, "ok") => cmd'[c].plan = <<"failed">>)
      <4>1. CASE ~At(d, "ok")
        BY <1>1, <2>3, <2>5, <4>1, FailedTrue
      <4>2. CASE At(d, "ok")
        <5> DEFINE g == cmd[c].to
        <5>1. /\ Answers(d, c) /\ Straight(c) /\ Truthful(d)
              /\ cmd[d].host \in Machine /\ cmd[c].verb \in Verb
          BY <1>1, <1>4, <2>1, <2>9, CommandFacts DEF Calm
        <5>2. g \in Machine /\ g # Nobody /\ record[g] = g
          BY <5>1 DEF Answers, Straight
        <5>3. Owns(d) /\ cmd[d].verb = Asked(c) /\ cmd[d].host = g
          BY <5>1, <5>2 DEF Owns, Answers
        <5>4. Achieved(d)
          <6>1. Done(cmd[d].plan, 1)
            BY <1>1, <4>2, CommandFacts DEF At, Fit, Orderly, Done
          <6>2. cmd[d].verb # "open"
            BY <5>3 DEF Asked
          <6> QED
            BY <5>1, <6>1, <6>2 DEF Truthful
        <5>5. ASSUME ~Owns(c), cmd[c].verb # "open" PROVE Prepared(c)
          <6>1. CASE Upward(cmd[c].verb)
            <7>1. Upward(cmd[d].verb)
              BY <5>3, <6>1 DEF Asked, Upward
            <7> QED
              BY <5>2, <5>3, <5>4, <5>5, <6>1, <7>1 DEF Achieved, Prepared
          <6>2. CASE ~Upward(cmd[c].verb)
            <7>1. cmd[c].form # "plain" => ~Upward(cmd[d].verb)
              BY <5>3, <5>5, <6>2 DEF Asked, Upward
            <7> QED
              BY <5>2, <5>3, <5>4, <5>5, <6>2, <7>1 DEF Achieved, Prepared, Owned
          <6> QED
            BY <6>1, <6>2
        <5>6. Prepared(c) => Prepared(c)'
          <6>1. tidy'[cmd[c].host] => tidy[cmd[c].host]
            BY <2>2, <4>2
          <6>2. cmd'[c].todo = cmd[c].todo
            BY <2>1, <2>5, <4>2, OnwardAlike DEF r
          <6> QED
            BY <1>1, <2>3, <2>5, <6>1, <6>2, IdleSame
        <5>7. /\ "wait" \in Before(Owns(c), cmd[c].verb) => ~Owns(c)
              /\ "wait" # Last(Owns(c), cmd[c].verb)
          BY DEF Before, Last
        <5> QED
          BY <1>1, <2>1, <2>3, <2>5, <2>9, <4>2, <5>5, <5>6, <5>7, OnwardTrue
      <4> QED
        BY <4>1, <4>2
    <3>2. c \in Active' => Rests(c)' \/ \A e \in Active' \ {c} : Rests(e)
      <4>1. CASE At(d, "ok")
        <5>1. ~Rests(d)
          BY <4>1 DEF At, Rests
        <5> QED
          BY <1>1, <2>6, <2>9, <5>1 DEF Calm
      <4>2. CASE ~At(d, "ok")
        BY <3>1, <4>2 DEF Rests, At
      <4> QED
        BY <4>1, <4>2
    <3>3. \A e \in Active' : /\ Alike(cmd'[e], cmd[e]) /\ cmd'[e].caller \in {cmd[e].caller, Lost}
                             /\ cmd'[e].caller \in Slot => cmd'[e].caller \in Active'
      <4>1. c \in Active'
        BY <2>3, <2>5 DEF Active
      <4> QED
        BY <1>2, <2>5, <2>6, <2>7, <4>1 DEF Active
    <3>4. \A e \in Active' \ {c} : cmd'[e].plan = cmd[e].plan /\ cmd'[e].todo = cmd[e].todo
      BY <2>6
    <3>5. Active' \subseteq Active
      BY <2>6
    <3>6. Calm'
      BY <1>1, <2>4, <2>9, <3>1, <3>2, <3>3, <3>4, <3>5, SettleCalm
    <3> QED
      BY <3>6 DEF CalmInv
  <2> QED
    BY <2>8, <2>9 DEF CalmInv
<1> QED
  BY <1>3, <1>4

\* Who ends early claims nothing, and nobody hears what it asked for.
LEMMA TimeOutCalm ==
  ASSUME Inv, CalmInv, NEW c \in Slot, TimeOut(c)
  PROVE  CalmInv'
<1>1. /\ UNCHANGED setup /\ UNCHANGED <<setup, running, ssh>> /\ c \in Active
      /\ cmd' = Deserted(cmd, c) /\ Losing(c)
  BY DEF TimeOut, tunnelVars, At
<1>2. /\ Active' = Active /\ cmd'[c] = Failed(cmd[c]) /\ c \notin Awaited(c)
      /\ \A g \in Machine : tidy'[g] => tidy[g]
  BY <1>1, InvParts, SimilarSame, DesertedFit, LosingLemma DEF Awaited, WaitInv
<1>3. ASSUME NEW e \in Active \ {c}
      PROVE  /\ Alike(cmd'[e], cmd[e]) /\ cmd'[e].plan = cmd[e].plan /\ cmd'[e].todo = cmd[e].todo
             /\ cmd'[e].caller \in {cmd[e].caller, Lost}
  <2>1. e \in Slot /\ cmd[e] \in Commands
    BY CommandFacts
  <2>2. cmd'[e] \in {cmd[e], [cmd[e] EXCEPT !.caller = Lost]}
    BY <1>1, <2>1 DEF Deserted
  <2> QED
    BY <2>1, <2>2 DEF Commands, Alike
<1>4. Alike(cmd'[c], cmd[c]) /\ cmd'[c].plan = <<"failed">> /\ cmd'[c].caller = cmd[c].caller
  BY <1>1, <1>2, CommandFacts, OnwardAlike
<1>5. CASE \A e \in Active : ~cmd[e].clean
  BY <1>2, <1>3, <1>4, <1>5 DEF CalmInv, Alike
<1>6. CASE Calm
  <2>1. Shaped(c)' /\ Truthful(c)' /\ Rests(c)'
    BY <1>1, <1>2, <1>4, FailedTrue DEF Rests, At
  <2>2. \A e \in Active' : /\ Alike(cmd'[e], cmd[e]) /\ cmd'[e].caller \in {cmd[e].caller, Lost}
                           /\ cmd'[e].caller \in Slot => cmd'[e].caller \in Active'
    <3>1. \A e \in Active : cmd[e].caller \in Slot => cmd[e].caller \in Active
      BY InvParts DEF WaitInv, At
    <3> QED
      BY <1>2, <1>3, <1>4, <3>1
  <2>3. \A e \in Active' \ {c} : cmd'[e].plan = cmd[e].plan /\ cmd'[e].todo = cmd[e].todo
    BY <1>2, <1>3
  <2>4. Calm'
    BY <1>1, <1>2, <1>6, <2>1, <2>2, <2>3, SettleCalm
  <2> QED
    BY <2>4 DEF CalmInv
<1> QED
  BY <1>5, <1>6 DEF CalmInv

\* After a fault nobody is undisturbed.
LEMMA FaultCalm ==
  ASSUME Inv,
         \/ \E c \in Slot : LoseAnswer(c) \/ Break(c) \/ Leak(c)
         \/ \E h \in Machine, p \in Tunnel \cup {Service} : Die(h, p)
  PROVE  CalmInv'
<1>1. /\ \A e \in Slot \ Active : Disturbed[e] = NoCommand
      /\ \A e \in Active : Disturbed[e] \in Commands /\ ~Disturbed[e].clean
      /\ Similar(Disturbed)
  <2>1. Similar(Disturbed)
    BY InvParts, SimilarDisturbed
  <2>2. \A e \in Active : Disturbed[e] = [cmd[e] EXCEPT !.clean = FALSE] /\ cmd[e] \in Commands
    BY CommandFacts DEF Disturbed
  <2>3. \A e \in Active : ~Disturbed[e].clean
    BY <2>2 DEF Commands
  <2> QED
    BY <2>1, <2>3 DEF Similar, Fit
<1>2. Disturbed \in [Slot -> Commands \cup {NoCommand}]
  BY <1>1 DEF Similar
<1>3. SUFFICES \A e \in Active' : ~cmd'[e].clean
  BY DEF CalmInv
<1>4. ASSUME NEW c \in Slot, LoseAnswer(c) PROVE \A e \in Active' : ~cmd'[e].clean
  <2>1. c \in Active /\ cmd' = [Disturbed EXCEPT ![c].caller = Lost]
    BY <1>4 DEF LoseAnswer
  <2>2. cmd'[c] = [Disturbed[c] EXCEPT !.caller = Lost] /\ \A e \in Slot \ {c} : cmd'[e] = Disturbed[e]
    BY <1>2, <2>1
  <2>3. ~cmd'[c].clean
    BY <1>1, <2>1, <2>2 DEF Commands
  <2> QED
    BY <1>1, <2>2, <2>3 DEF Active
<1>5. ASSUME NEW c \in Slot, Break(c) PROVE \A e \in Active' : ~cmd'[e].clean
  <2>1. c \in Active /\ cmd' = Deserted(Disturbed, c)
    BY <1>5 DEF Break
  <2>2. Active' = Active
    BY <1>1, <2>1, InvParts, DesertedFit
  <2>3. \A e \in Active : cmd'[e] \in {Disturbed[e], [Disturbed[e] EXCEPT !.caller = Lost],
                                       Failed(Disturbed[e])}
    BY <2>1 DEF Deserted, Active
  <2>4. \A e \in Active : Failed(Disturbed[e]).clean = Disturbed[e].clean
    BY <1>1, OnwardAlike DEF Alike
  <2>5. \A e \in Active : [Disturbed[e] EXCEPT !.caller = Lost].clean = Disturbed[e].clean
    BY <1>1 DEF Commands
  <2> QED
    BY <1>1, <2>2, <2>3, <2>4, <2>5
<1>6. ASSUME NEW c \in Slot, Leak(c) PROVE \A e \in Active' : ~cmd'[e].clean
  <2>1. c \in Active /\ cmd' = [Disturbed EXCEPT ![c] = Failed(@)]
    BY <1>6 DEF Leak, At
  <2>2. cmd'[c] = Failed(Disturbed[c]) /\ \A e \in Slot \ {c} : cmd'[e] = Disturbed[e]
    BY <1>2, <2>1
  <2>3. ~cmd'[c].clean
    BY <1>1, <2>1, <2>2, OnwardAlike DEF Alike
  <2> QED
    BY <1>1, <2>2, <2>3 DEF Active
<1>7. ASSUME NEW h \in Machine, NEW p \in Tunnel \cup {Service}, Die(h, p)
      PROVE  \A e \in Active' : ~cmd'[e].clean
  <2>1. cmd' = Mourn(Disturbed, h, p)
    BY <1>7 DEF Die
  <2>2. Active' = Active
    BY <1>1, <2>1, InvParts, SimilarMourn, SettleFit
  <2>3. \A e \in Active : Alike(cmd'[e], Disturbed[e])
    BY <1>1, <2>1, MournAlike
  <2> QED
    BY <1>1, <2>2, <2>3 DEF Alike
<1> QED
  BY <1>4, <1>5, <1>6, <1>7

\* A command given when nothing else is under way knows the owner.
LEMMA BeginCalm ==
  ASSUME OwnersKnown, Inv, NEW h \in Machine, NEW n \in Port, NEW do \in May[h] \cup Beside[h],
         NEW q \in Peers[h] \cup {Nobody}, Begin(h, do[1], do[2], q, n)
  PROVE  CalmInv'
<1> DEFINE form == do[1]
           verb == do[2]
           alone == Active = {}
           r == Command(h, form, verb, q, n, User, alone)
<1>1. form \in Form /\ verb \in Verb /\ h \in Given
  BY DEF Given
<1>2. UNCHANGED setup /\ UNCHANGED <<record, modes>>
  BY DEF Begin, setup
<1>3. PICK c \in Slot : FreeSlot(c) /\ cmd' = [Disturbed EXCEPT ![c] = r]
  BY DEF Begin
<1>4. /\ r.host = h /\ r.form = form /\ r.verb = verb /\ r.to = Route(h, form, q)
      /\ r.plan = Plan(h, form, verb) \o <<"ok">> /\ r.caller = User /\ r.clean = alone
  BY DEF Command
<1> HIDE DEF r
<1>5. cmd'[c] = r /\ \A e \in Slot \ {c} : cmd'[e] = Disturbed[e]
  BY <1>3 DEF Disturbed
<1>6. CASE Active # {}
  <2>1. \A e \in Active : ~Disturbed[e].clean
    BY CommandFacts DEF Disturbed, Commands
  <2>2. \A e \in Slot \ Active : Disturbed[e] = NoCommand
    BY DEF Disturbed, Active
  <2>3. \A e \in Active' : ~cmd'[e].clean
    BY <1>4, <1>5, <1>6, <2>1, <2>2 DEF Active
  <2> QED
    BY <2>3 DEF CalmInv
<1>7. CASE Active = {}
  <2>1. Active' \subseteq {c}
    BY <1>5, <1>7 DEF Active, Disturbed
  <2>2. Owns(c)' <=> form # "target" /\ record[h] = h
    BY <1>2, <1>4, <1>5 DEF Owns
  <2>3. Straight(c)'
    <3> DEFINE s == <<record, modes, unix>>
               to == Route(h, form, q)
    <3>1. s \in Setups /\ s[1] = record /\ s[2] = modes
      BY InvParts DEF TypeOK
    <3> HIDE DEF s
    <3>2. /\ record[h] \in Machine => ServesFor(s, record[h], h) \/ record[h] = h
          /\ \A p \in Peers[h] : record[p] # Nobody => ServesFor(s, OwnerOf(h, p), h)
      BY <1>1, <3>1 DEF OwnersKnown, OwnerOf
    <3>3. record \in [Machine -> Machine \cup {Nobody}]
      BY InvParts, SetupFacts
    <3>4. ASSUME to # Nobody
          PROVE  /\ to \in Machine /\ record[to] = to
                 /\ ~(form # "target" /\ record[h] = h)
                      => to # h /\ ("reverse" \in modes => h \in Peers[to])
      <4>1. CASE form # "target" /\ record[h] # Nobody
        <5>1. to = record[h] /\ to \in Machine
          BY <3>3, <4>1 DEF Route
        <5> QED
          BY <3>1, <3>2, <4>1, <5>1 DEF ServesFor
      <4>2. CASE ~(form # "target" /\ record[h] # Nobody)
        <5>1. q \in Knowing(h) /\ to = OwnerOf(h, q)
          BY <3>4, <4>2 DEF Route
        <5>2. q \in Peers[h] /\ record[q] # Nobody /\ ServesFor(s, to, h)
          BY <3>2, <5>1 DEF Knowing
        <5>3. to \in Peers[h]
          BY <5>1, <5>2 DEF OwnerOf
        <5> QED
          BY <3>1, <5>2, <5>3 DEF ServesFor
      <4> QED
        BY <4>1, <4>2
    <3> QED
      BY <1>2, <1>4, <1>5, <2>2, <3>4 DEF Straight
  <2>4. Shaped(c)' /\ Truthful(c)'
    <3> DEFINE own == form # "target" /\ record[h] = h
               p == Plan(h, form, verb) \o <<"ok">>
    <3>1. ASSUME verb # "open"
          PROVE  /\ Way(p, Last(own, verb), Before(own, verb)) /\ ~Done(p, 1)
                 /\ Near(p, 1, Last(own, verb)) => verb = "down" /\ form = "plain" /\ ~own
      <4>1. verb \in Verb \ {"open"} /\ own \in BOOLEAN
        BY <1>1, <3>1
      <4> HIDE DEF form, verb
      <4> QED
        BY <1>1, <4>1, PlanWays
    <3>2. /\ Last(Owns(c), cmd[c].verb)' = Last(own, verb)
          /\ Before(Owns(c), cmd[c].verb)' = Before(own, verb)
      BY <1>4, <1>5, <2>2 DEF Last, Before
    <3>3. Shaped(c)'
      BY <1>4, <1>5, <3>1, <3>2 DEF Shaped
    <3>4. verb = "down" /\ form = "plain" /\ ~own => Prepared(c)'
      BY <1>4, <1>5, <2>2 DEF Prepared, Upward
    <3>5. Truthful(c)'
      BY <1>4, <1>5, <3>1, <3>2, <3>4 DEF Truthful
    <3> QED
      BY <3>3, <3>5
  <2>5. cmd'[c].clean /\ cmd'[c].caller \notin Slot
    BY <1>4, <1>5, <1>7
  <2> QED
    BY <2>1, <2>3, <2>4, <2>5 DEF Calm, CalmInv
<1> QED
  BY <1>6, <1>7

----
LEMMA InitCalm == Init => CalmInv
BY DEF Init, Active, CalmInv

LEMMA NextCalm == OwnersKnown /\ Inv /\ CalmInv /\ [Next]_vars => CalmInv'
<1> SUFFICES ASSUME OwnersKnown, Inv, CalmInv, [Next]_vars PROVE CalmInv'
  OBVIOUS
<1>1. CASE UNCHANGED vars
  <2>1. UNCHANGED <<setup, running, ssh>> /\ cmd' = cmd /\ tidy' = tidy
    BY <1>1 DEF vars, tunnelVars
  <2>2. Active' = Active /\ Lost \notin Active
    BY <2>1 DEF Active
  <2>3. \A e \in Active' : /\ Alike(cmd'[e], cmd[e]) /\ cmd'[e].caller \in {cmd[e].caller, Lost}
                           /\ cmd'[e].caller \in Slot => cmd'[e].caller \in Active'
    BY <2>1, <2>2, InvParts DEF Alike, WaitInv, At
  <2>4. Calm => Calm'
    BY <2>1, <2>2, <2>3, SettleCalm
  <2> QED
    BY <2>1, <2>2, <2>4 DEF CalmInv
<1>2. ASSUME NEW h \in Machine, NEW n \in Port, NEW do \in May[h] \cup Beside[h],
             NEW q \in Peers[h] \cup {Nobody}, Begin(h, do[1], do[2], q, n)
      PROVE  CalmInv'
  BY <1>2, BeginCalm
<1>3. ASSUME NEW c \in Slot, Step(c)
      PROVE  CalmInv'
  BY <1>3, LoadCalm, StartCalm, OpenReverseCalm, OpenLocalCalm, ProbeCalm, StopCalm, HaltCalm,
     SaveCalm, AskCalm, ReturnCalm DEF Step
<1>4. ASSUME NEW c \in Slot, TimeOut(c)
      PROVE  CalmInv'
  BY <1>4, TimeOutCalm
<1>5. CASE Faults
  BY <1>5, FaultCalm DEF Faults
<1> QED
  BY <1>1, <1>2, <1>3, <1>4, <1>5 DEF Next

LEMMA CalmInvariance == OwnersKnown => (Spec => [](Inv /\ CalmInv))
<1>1. ASSUME OwnersKnown PROVE Inv /\ CalmInv /\ [Next]_vars => CalmInv'
  BY <1>1, NextCalm
<1>2. CASE ~OwnersKnown
  BY <1>2
<1>3. CASE OwnersKnown
  <2>1. Inv /\ CalmInv /\ [Next]_vars => CalmInv'
    BY <1>3, <1>1
  <2>2. Spec => [](Inv /\ CalmInv)
    BY <2>1, InitCalm, Invariance, PTL DEF Spec
  <2> QED
    BY <2>2
<1> QED
  BY <1>2, <1>3

\* What an undisturbed command that reports success has achieved.
LEMMA SuccessAchieved ==
  ASSUME Inv, CalmInv, NEW c \in Slot, At(c, "ok"), cmd[c].clean, cmd[c].verb # "open"
  PROVE  /\ Achieved(c) /\ Owner(c) = Owned(c) /\ cmd[c].host \in Machine
         /\ ~Owns(c) => Owned(c) # cmd[c].host
<1>1. c \in Active /\ Calm
  BY DEF At, CalmInv
<1>2. Done(cmd[c].plan, 1) /\ cmd[c].host \in Machine
  BY <1>1, CommandFacts DEF At, Fit, Orderly, Done
<1>3. Achieved(c) /\ Straight(c)
  BY <1>1, <1>2 DEF Calm, Truthful
<1>4. Owner(c) = Owned(c)
  BY DEF Owner, Owned, Owns
<1>5. ~Owns(c) => Owned(c) # cmd[c].host
  BY <1>2, <1>3 DEF Straight, Owned
<1> QED
  BY <1>2, <1>3, <1>4, <1>5

\* UpIsUp: an up or restart that nothing disturbed and that reports success on Unix, however
\* many commands and faults came before, leaves the owner running the service and a tunnel
\* that leads to it, as the exit status of up_inner and remote_up says.
THEOREM UpCorrect == OwnersKnown => (Spec => []UpIsUp)
<1>1. Inv /\ CalmInv => UpIsUp
  <2> SUFFICES ASSUME Inv, CalmInv, NEW c \in Slot, At(c, "ok"), cmd[c].clean,
                      cmd[c].verb \in {"up", "restart"}, cmd[c].host \in unix
               PROVE  LET h == cmd[c].host
                          q == Owner(c)
                      IN  /\ running[q]
                          /\ h # q => Leads(h, cmd[c].port, q)
                          /\ h = q /\ "reverse" \in modes => \A r \in Peers[h] : Leads(r, "fixed", h)
    BY DEF UpIsUp
  <2>1. Achieved(c) /\ Owner(c) = Owned(c) /\ (~Owns(c) => Owned(c) # cmd[c].host)
    BY SuccessAchieved
  <2>2. Upward(cmd[c].verb)
    BY DEF Upward
  <2> QED
    BY <2>1, <2>2 DEF Achieved, Owned, Serves, Leads
<1>2. CASE OwnersKnown
  <2>1. Spec => [](Inv /\ CalmInv)
    BY <1>2, CalmInvariance
  <2>2. Spec => []UpIsUp
    BY <1>1, <2>1, PTL
  <2> QED
    BY <2>2
<1> QED
  BY <1>2

\* DownIsDown: a down that nothing disturbed and that reports success leaves the owner's
\* service stopped, and no tunnel of this machine to the owner unless one was forgotten.
THEOREM DownCorrect == OwnersKnown => (Spec => []DownIsDown)
<1>1. Inv /\ CalmInv => DownIsDown
  <2> SUFFICES ASSUME Inv, CalmInv, NEW c \in Slot, At(c, "ok"), cmd[c].clean,
                      cmd[c].verb = "down"
               PROVE  LET h == cmd[c].host
                          q == Owner(c)
                      IN  /\ h = q \/ cmd[c].form # "plain" => ~running[q]
                          /\ tidy[h] => TunnelsTo(h, q) = {}
    BY DEF DownIsDown
  <2>1. Achieved(c) /\ Owner(c) = Owned(c) /\ (~Owns(c) => Owned(c) # cmd[c].host)
    BY SuccessAchieved
  <2>2. ~Upward(cmd[c].verb)
    BY DEF Upward
  <2> QED
    BY <2>1, <2>2 DEF Achieved
<1>2. CASE OwnersKnown
  <2>1. Spec => [](Inv /\ CalmInv)
    BY <1>2, CalmInvariance
  <2>2. Spec => []DownIsDown
    BY <1>1, <2>1, PTL
  <2> QED
    BY <2>2
<1> QED
  BY <1>2
====
