---- MODULE DelegationProofs ----
(***************************************************************************)
(* Proofs about Delegation, for any machines, registries, tunnel modes and *)
(* number of commands that overlap, time out, fail and are killed.         *)
(***************************************************************************)
EXTENDS Delegation, TLAPS, SequenceTheorems, FiniteSetTheorems, WellFoundedInduction

USE TunnelsAssumption, PidAssumption, DelegationAssumption

LEMMA LeastIsMember ==
  ASSUME NEW S \in SUBSET Nat, S # {}
  PROVE  First(S) \in S
<1> DEFINE R == OpToRel(<, Nat)
<1>1. IsWellFoundedOn(R, Nat)
  BY NatLessThanWellFounded
<1>2. ASSUME NEW x \in Nat, NEW y \in Nat, <<y, x>> \notin R PROVE x <= y
  <2>1. ~(y < x)
    BY <1>2 DEF OpToRel
  <2> QED
    BY <2>1
<1> HIDE DEF R
<1>3. PICK x \in S : \A y \in S : <<y, x>> \notin R
  BY <1>1, WFMin
<1>4. \A y \in S : x <= y
  <2> TAKE y \in S
  <2>1. x \in Nat /\ y \in Nat /\ <<y, x>> \notin R
    BY <1>3
  <2> QED
    BY <1>2, <2>1
<1> QED
  BY <1>4 DEF First

----
(***************************************************************************)
(* Plans.  A step that works on the copy of the records comes between a    *)
(* load and its save; a call and the wait for its answer may come on       *)
(* either side, which the step after them tells.                           *)
(***************************************************************************)
Working == {"start", "reverse", "stop", "halt", "tunnel", "save"}

\* At step i of plan p the command has loaded and not yet saved.
Holds(p, i) == p[i] \in Working \/ (p[i] \in {"call", "wait"} /\ p[i + 1] \in Working)

Linked(p, i) ==
  /\ p[i] \notin {"ok", "failed"}
  /\ p[i] \in {"call", "wait"} => p[i + 1] \notin {"call", "wait"}
  /\ Holds(p, i + 1) <=> p[i] = "load" \/ (p[i] # "save" /\ Holds(p, i))

Orderly(p) ==
  /\ p \in Seq(Stage) /\ p # <<>>
  /\ p[Len(p)] \in {"ok", "failed"}
  /\ \A i \in 1 .. Len(p) - 1 : Linked(p, i)

\* A tunnel is opened to an owner that has been called.
Called(p) == \A i \in 1 .. Len(p) : p[i] = "tunnel" => \E j \in 1 .. i - 1 : p[j] = "call"

Fresh(p) == Orderly(p) /\ ~Holds(p, 1)

LEMMA FreshPlans ==
  /\ Fresh(<<"ok">>) /\ Fresh(<<"failed">>)
  /\ Fresh(UpOwn \o <<"ok">>) /\ Fresh(DownOwn \o <<"ok">>) /\ Fresh((DownOwn \o UpOwn) \o <<"ok">>)
  /\ Fresh(UpOther \o <<"ok">>) /\ Fresh(DownOther \o <<"ok">>)
  /\ Fresh((DownOther \o UpOther) \o <<"ok">>)
  /\ Fresh(Delegated \o <<"ok">>) /\ Fresh(Undo \o <<"ok">>)
<1> USE DEF Fresh, Orderly, Linked, Holds, Working, Stage
<1>1. Fresh(<<"ok">>) /\ Fresh(<<"failed">>)
  OBVIOUS
<1>2. Fresh(UpOwn \o <<"ok">>) /\ Fresh(DownOwn \o <<"ok">>)
  BY DEF UpOwn, DownOwn
<1>3. Fresh((DownOwn \o UpOwn) \o <<"ok">>)
  BY DEF UpOwn, DownOwn
<1>4. Fresh(UpOther \o <<"ok">>) /\ Fresh(DownOther \o <<"ok">>)
  BY DEF UpOther, DownOther
<1>5. Fresh((DownOther \o UpOther) \o <<"ok">>)
  BY DEF UpOther, DownOther
<1>6. Fresh(Delegated \o <<"ok">>) /\ Fresh(Undo \o <<"ok">>)
  BY DEF Delegated, Undo
<1> QED
  BY <1>1, <1>2, <1>3, <1>4, <1>5, <1>6

LEMMA FreshViews ==
  ASSUME NEW form
  PROVE  Fresh((<<>> \o View(form)) \o <<"ok">>) /\ Fresh((<<"call">> \o View(form)) \o <<"ok">>)
<1> USE DEF Fresh, Orderly, Linked, Holds, Working, Stage
<1>1. CASE ~LocalForwardAllowed
  BY <1>1 DEF View
<1>2. CASE LocalForwardAllowed /\ form = "target"
  <2>1. Fresh((<<>> \o View(form)) \o <<"ok">>)
    BY <1>2 DEF View
  <2>2. Fresh((<<"call">> \o View(form)) \o <<"ok">>)
    BY <1>2 DEF View
  <2> QED
    BY <2>1, <2>2
<1>3. CASE LocalForwardAllowed /\ form # "target"
  <2>1. Fresh((<<>> \o View(form)) \o <<"ok">>)
    BY <1>3 DEF View
  <2>2. Fresh((<<"call">> \o View(form)) \o <<"ok">>)
    BY <1>3 DEF View
  <2> QED
    BY <2>1, <2>2
<1> QED
  BY <1>1, <1>2, <1>3

LEMMA CalledPlans ==
  /\ Called(<<"ok">>) /\ Called(<<"failed">>) /\ Called(<<>> \o <<"ok">>)
  /\ Called(UpOwn \o <<"ok">>) /\ Called(DownOwn \o <<"ok">>)
  /\ Called((DownOwn \o UpOwn) \o <<"ok">>)
  /\ Called(UpOther \o <<"ok">>) /\ Called(DownOther \o <<"ok">>)
  /\ Called((DownOther \o UpOther) \o <<"ok">>)
  /\ Called(Delegated \o <<"ok">>) /\ Called(Undo \o <<"ok">>)
  /\ \A form \in Form : Called((<<"call">> \o View(form)) \o <<"ok">>)
<1> USE DEF Called
<1>1. Called(<<"ok">>) /\ Called(<<"failed">>) /\ Called(<<>> \o <<"ok">>)
  OBVIOUS
<1>2. Called(UpOwn \o <<"ok">>) /\ Called(DownOwn \o <<"ok">>)
  BY DEF UpOwn, DownOwn
<1>3. Called((DownOwn \o UpOwn) \o <<"ok">>)
  BY DEF UpOwn, DownOwn
<1>4. Called(UpOther \o <<"ok">>) /\ Called(DownOther \o <<"ok">>)
  BY DEF UpOther, DownOther
<1>5. Called((DownOther \o UpOther) \o <<"ok">>)
  BY DEF UpOther, DownOther
<1>6. Called(Delegated \o <<"ok">>) /\ Called(Undo \o <<"ok">>)
  BY DEF Delegated, Undo
<1>7. \A form \in Form : Called((<<"call">> \o View(form)) \o <<"ok">>)
  BY DEF View
<1> QED
  BY <1>1, <1>2, <1>3, <1>4, <1>5, <1>6, <1>7

\* Only a view of what some peer is known to have does without a call.
LEMMA PlanLemma ==
  ASSUME NEW h \in Machine, NEW form \in Form, NEW verb \in Verb
  PROVE  /\ Fresh(Plan(h, form, verb) \o <<"ok">>)
         /\ \/ Called(Plan(h, form, verb) \o <<"ok">>)
            \/ Knowing(h) # {} /\ (form = "target" \/ record[h] = Nobody) /\ verb = "open"
<1> DEFINE own == form # "target" /\ record[h] = h
           p == Plan(h, form, verb)
<1> USE FreshPlans, CalledPlans
<1>1. CASE verb = "open"
  <2>1. CASE form = "target" \/ record[h] = Nobody
    <3>1. CASE OnDemand \/ Knowing(h) = {}
      <4>1. p = <<"call">> \o View(form)
        BY <1>1, <2>1, <3>1 DEF Plan
      <4> QED
        BY <4>1, FreshViews
    <3>2. CASE ~(OnDemand \/ Knowing(h) = {})
      <4>1. p = <<>> \o View(form)
        BY <1>1, <2>1, <3>2 DEF Plan
      <4> QED
        BY <1>1, <2>1, <3>2, <4>1, FreshViews
    <3> QED
      BY <3>1, <3>2
  <2>2. CASE ~(form = "target" \/ record[h] = Nobody)
    <3>1. p \in {UpOwn, UpOther, <<>>}
      BY <1>1, <2>2 DEF Plan
    <3>2. Fresh(<<>> \o <<"ok">>)
      BY ConcatEmptySeq, <<"ok">> \in Seq({"ok"})
    <3> QED
      BY <3>1, <3>2
  <2> QED
    BY <2>1, <2>2
<1>2. CASE verb = "up"
  <2>1. p \in {UpOwn, UpOther, Delegated}
    BY <1>2 DEF Plan, Form
  <2> QED
    BY <2>1
<1>3. CASE verb = "down"
  <2>1. p \in {DownOwn, DownOther, Undo}
    BY <1>3 DEF Plan, Form
  <2> QED
    BY <2>1
<1>4. CASE verb = "restart"
  <2>1. p \in {DownOwn \o UpOwn, DownOther \o UpOther, Delegated}
    BY <1>4 DEF Plan, Form
  <2> QED
    BY <2>1
<1> QED
  BY <1>1, <1>2, <1>3, <1>4 DEF Verb

\* The rest of a plan, once its first step is done.
LEMMA OnwardPlan ==
  ASSUME NEW p, Orderly(p), Head(p) \notin {"ok", "failed"}
  PROVE  /\ Orderly(Tail(p))
         /\ Holds(Tail(p), 1) <=> Head(p) = "load" \/ (Head(p) # "save" /\ Holds(p, 1))
         /\ Head(p) = "call" => Head(Tail(p)) \notin {"call", "wait"}
         /\ Head(p) # "call" /\ Called(p) => Called(Tail(p))
<1> DEFINE t == Tail(p)
<1>1. p \in Seq(Stage) /\ p # <<>> /\ p[Len(p)] \in {"ok", "failed"}
  BY DEF Orderly
<1>2. t \in Seq(Stage) /\ Len(t) = Len(p) - 1 /\ \A i \in 1 .. Len(t) : t[i] = p[i + 1]
  BY <1>1, HeadTailProperties, ZenonT(40)
<1>3. Len(p) \in Nat /\ Len(t) \in Nat /\ Len(p) # 0
  BY <1>1, <1>2, LenProperties, EmptySeq
<1>4. Head(p) = p[1]
  BY <1>1
<1> HIDE DEF t
<1>5. Len(p) # 1
  BY <1>1, <1>4
<1>6. Len(t) >= 1 /\ t # <<>>
  BY <1>2, <1>3, <1>5, EmptySeq
<1>7. t[Len(t)] = p[Len(p)]
  <2>1. Len(t) \in 1 .. Len(t) /\ Len(t) + 1 = Len(p)
    BY <1>2, <1>3, <1>6
  <2> QED
    BY <1>2, <2>1
<1>8. \A i \in 1 .. Len(t) : Linked(p, i)
  BY <1>2, <1>3 DEF Orderly
<1>9. ASSUME NEW i \in 1 .. Len(t) PROVE Holds(t, i) <=> Holds(p, i + 1)
  <2>1. t[i] = p[i + 1] /\ i \in Nat
    BY <1>2, <1>3
  <2>2. CASE i = Len(t)
    <3>1. t[i] \in {"ok", "failed"}
      BY <1>1, <1>7, <2>2
    <3> QED
      BY <2>1, <3>1 DEF Holds, Working
  <2>3. CASE i # Len(t)
    <3>1. i + 1 \in 1 .. Len(t)
      BY <1>3, <2>3
    <3>2. t[i + 1] = p[i + 1 + 1]
      BY <1>2, <3>1
    <3> QED
      BY <2>1, <3>2 DEF Holds
  <2> QED
    BY <2>2, <2>3
<1>10. ASSUME NEW i \in 1 .. Len(t) - 1 PROVE Linked(t, i)
  <2>1. i \in 1 .. Len(t) /\ i + 1 \in 1 .. Len(t)
    BY <1>3
  <2>2. t[i] = p[i + 1] /\ t[i + 1] = p[i + 1 + 1]
    BY <1>2, <2>1
  <2>3. (Holds(t, i) <=> Holds(p, i + 1)) /\ (Holds(t, i + 1) <=> Holds(p, i + 1 + 1))
    BY <1>9, <2>1
  <2>4. Linked(p, i + 1)
    BY <1>8, <2>1
  <2> QED
    BY <2>2, <2>3, <2>4 DEF Linked
<1>11. Orderly(t)
  BY <1>1, <1>2, <1>6, <1>7, <1>10 DEF Orderly
<1>12. 1 \in 1 .. Len(t) /\ t[1] = p[1 + 1] /\ Linked(p, 1)
  BY <1>2, <1>3, <1>6, <1>8
<1>13. Holds(t, 1) <=> p[1] = "load" \/ (p[1] # "save" /\ Holds(p, 1))
  BY <1>9, <1>12 DEF Linked
<1>14. Head(p) = "call" => Head(t) \notin {"call", "wait"}
  <2>1. Head(t) = t[1]
    BY <1>2, <1>6
  <2> QED
    BY <1>4, <1>12, <2>1 DEF Linked
<1>15. ASSUME Head(p) # "call", Called(p), NEW i \in 1 .. Len(t), t[i] = "tunnel"
       PROVE  \E j \in 1 .. i - 1 : t[j] = "call"
  <2>1. i + 1 \in 1 .. Len(p) /\ p[i + 1] = "tunnel"
    BY <1>2, <1>3, <1>15
  <2>2. PICK j \in 1 .. (i + 1) - 1 : p[j] = "call"
    BY <1>15, <2>1 DEF Called
  <2>3. j # 1
    BY <1>4, <1>15, <2>2
  <2>4. j - 1 \in 1 .. i - 1 /\ j - 1 \in 1 .. Len(t) /\ (j - 1) + 1 = j
    BY <1>3, <2>2, <2>3
  <2> QED
    BY <1>2, <2>2, <2>4
<1> QED
  BY <1>4, <1>11, <1>13, <1>14, <1>15 DEF t, Called

\* The rest of a plan, after a call, once the wait for its answer is put before it.
LEMMA WaitPlan ==
  ASSUME NEW p, Orderly(p), Head(p) = "call"
  PROVE  /\ Orderly(<<"wait">> \o Tail(p))
         /\ Head(<<"wait">> \o Tail(p)) = "wait"
         /\ Holds(<<"wait">> \o Tail(p), 1) <=> Holds(p, 1)
<1>1. Orderly(<<"wait">> \o Tail(p))
  BY DEF Orderly, Linked, Holds, Working, Stage
<1>2. Head(<<"wait">> \o Tail(p)) = "wait"
  BY DEF Orderly
<1>3. Holds(<<"wait">> \o Tail(p), 1) <=> Holds(p, 1)
  BY DEF Orderly, Holds, Working, Linked
<1> QED
  BY <1>1, <1>2, <1>3

----
(***************************************************************************)
(* What is true of every command under way.                                *)
(***************************************************************************)
Fit(r) ==
  /\ r \in Commands /\ Orderly(r.plan)
  /\ r.hand # "none" <=> Holds(r.plan, 1)
  /\ r.to = Nobody => Called(r.plan)

\* Whoever is waited for was asked by the one who waits, and by nobody else.
WaitInv ==
  \A d \in Active : cmd[d].caller \in Slot =>
    /\ At(cmd[d].caller, "wait") /\ cmd[d].caller # d
    /\ \A e \in Active : cmd[e].caller = cmd[d].caller => e = d

CommandsFit == cmd \in [Slot -> Commands \cup {NoCommand}] /\ \A c \in Active : Fit(cmd[c])

TypeInv == TypeOK /\ CommandsFit /\ WaitInv

LEMMA SetupFacts ==
  ASSUME TypeOK
  PROVE  /\ record \in [Machine -> Machine \cup {Nobody}]
         /\ modes \subseteq {"local", "reverse"} /\ unix \subseteq Machine
BY DEF TypeOK

LEMMA PlanEnds ==
  ASSUME NEW r, Fit(r), Head(r.plan) \notin {"ok", "failed"}
  PROVE  Tail(r.plan) \in Seq(Stage) \ {<<>>}
BY OnwardPlan DEF Fit, Orderly

\* What no step of a command changes.
Same(s, r) == s.host = r.host /\ s.to = r.to /\ s.port = r.port /\ s.form = r.form

USE DEF Same

LEMMA FitOnward ==
  ASSUME NEW r, Fit(r), Head(r.plan) \notin {"ok", "failed", "call", "load", "save"}
  PROVE  /\ Fit(Onward(r))
         /\ Same(Onward(r), r) /\ Onward(r).mem = r.mem /\ Onward(r).hand = r.hand
         /\ Onward(r).todo = r.todo /\ Onward(r).caller = r.caller
<1>1. Onward(r) \in Commands /\ Onward(r).plan = Tail(r.plan)
  BY PlanEnds DEF Fit, Onward, Commands
<1>2. /\ Same(Onward(r), r) /\ Onward(r).mem = r.mem /\ Onward(r).hand = r.hand
      /\ Onward(r).todo = r.todo /\ Onward(r).caller = r.caller
  BY DEF Fit, Onward, Commands
<1>3. Orderly(Onward(r).plan) /\ (Holds(Onward(r).plan, 1) <=> Holds(r.plan, 1))
  BY <1>1, OnwardPlan DEF Fit
<1>4. r.to = Nobody => Called(Onward(r).plan)
  BY <1>1, OnwardPlan DEF Fit
<1> QED
  BY <1>1, <1>2, <1>3, <1>4 DEF Fit

LEMMA FitLoad ==
  ASSUME NEW r, Fit(r), Head(r.plan) = "load", NEW m \in Records
  PROVE  LET s == Onward([r EXCEPT !.mem = m, !.hand = "copy"])
         IN  Fit(s) /\ s.host = r.host /\ s.mem = m /\ s.hand = "copy" /\ s.caller = r.caller
<1> DEFINE s == Onward([r EXCEPT !.mem = m, !.hand = "copy"])
<1>1. s \in Commands /\ s.plan = Tail(r.plan)
  BY PlanEnds DEF Fit, Onward, Commands
<1>2. s.host = r.host /\ s.mem = m /\ s.hand = "copy" /\ s.caller = r.caller /\ s.to = r.to
  BY DEF Fit, Onward, Commands
<1>3. /\ Orderly(Tail(r.plan)) /\ Holds(Tail(r.plan), 1)
      /\ r.to = Nobody => Called(Tail(r.plan))
  BY OnwardPlan DEF Fit
<1> QED
  BY <1>1, <1>2, <1>3 DEF Fit

LEMMA FitSave ==
  ASSUME NEW r, Fit(r), Head(r.plan) = "save"
  PROVE  LET s == Onward([r EXCEPT !.mem = NoRecord, !.hand = "none"])
         IN  Fit(s) /\ s.host = r.host /\ s.mem = NoRecord /\ s.hand = "none" /\ s.caller = r.caller
<1> DEFINE s == Onward([r EXCEPT !.mem = NoRecord, !.hand = "none"])
<1>1. s \in Commands /\ s.plan = Tail(r.plan)
  BY PlanEnds DEF Fit, Onward, Commands, Records, NoRecord
<1>2. s.host = r.host /\ s.mem = NoRecord /\ s.hand = "none" /\ s.caller = r.caller /\ s.to = r.to
  BY DEF Fit, Onward, Commands
<1>3. /\ Orderly(Tail(r.plan)) /\ ~Holds(Tail(r.plan), 1)
      /\ r.to = Nobody => Called(Tail(r.plan))
  BY OnwardPlan DEF Fit
<1> QED
  BY <1>1, <1>2, <1>3 DEF Fit

LEMMA FitFailed ==
  ASSUME NEW r, Fit(r)
  PROVE  /\ Fit(Failed(r)) /\ Failed(r).host = r.host /\ Failed(r).caller = r.caller
         /\ Failed(r).mem = NoRecord /\ Failed(r).hand = "none"
<1>1. <<"failed">> \in Seq(Stage) \ {<<>>}
  BY DEF Stage
<1>2. Failed(r) \in Commands
  BY <1>1 DEF Fit, Failed, Commands, Records, NoRecord
<1>3. /\ Failed(r).plan = <<"failed">> /\ Failed(r).host = r.host /\ Failed(r).caller = r.caller
      /\ Failed(r).mem = NoRecord /\ Failed(r).hand = "none" /\ Failed(r).to = r.to
  BY DEF Fit, Failed, Commands
<1> QED
  BY <1>2, <1>3, FreshPlans, CalledPlans DEF Fit, Fresh

\* A command whose plan, hand and target stay is as fit as before.
LEMMA FitSame ==
  ASSUME NEW r, Fit(r), NEW s \in Commands, s.plan = r.plan, s.to = r.to,
         s.hand # "none" <=> r.hand # "none"
  PROVE  Fit(s)
BY DEF Fit

LEMMA FitMem ==
  ASSUME NEW r, Fit(r), NEW m \in Records
  PROVE  LET s == [r EXCEPT !.mem = m]
         IN  /\ Fit(s) /\ s.mem = m
             /\ Same(s, r) /\ s.plan = r.plan /\ s.hand = r.hand /\ s.todo = r.todo
             /\ s.caller = r.caller
<1> DEFINE s == [r EXCEPT !.mem = m]
<1>1. s \in Commands
  BY DEF Fit, Commands
<1>2. /\ s.mem = m /\ Same(s, r) /\ s.plan = r.plan /\ s.hand = r.hand /\ s.todo = r.todo
      /\ s.caller = r.caller
  BY DEF Fit, Commands
<1> QED
  BY <1>1, <1>2, FitSame

\* The command once its copy has p in record k.
Marked(r, k, p) == [r EXCEPT !.mem[k] = p, !.hand = "dirty"]

LEMMA FitMarked ==
  ASSUME NEW r, Fit(r), r.hand # "none", NEW k \in Tunnel, NEW p \in Pid \cup {NoPid}
  PROVE  /\ Fit(Marked(r, k, p)) /\ Marked(r, k, p).hand = "dirty"
         /\ Marked(r, k, p).mem = [r.mem EXCEPT ![k] = p]
         /\ Marked(r, k, p).host = r.host /\ Marked(r, k, p).caller = r.caller
         /\ Marked(r, k, p).plan = r.plan /\ Same(Marked(r, k, p), r)
<1> DEFINE s == Marked(r, k, p)
<1>1. [r.mem EXCEPT ![k] = p] \in Records
  BY DEF Fit, Commands, Records
<1>2. s \in Commands
  BY <1>1 DEF Fit, Commands, Marked
<1>3. /\ s.mem = [r.mem EXCEPT ![k] = p] /\ s.hand = "dirty"
      /\ Same(s, r) /\ s.plan = r.plan /\ s.caller = r.caller
  BY DEF Fit, Commands, Marked
<1> HIDE DEF s
<1>4. Fit(s)
  BY <1>2, <1>3, FitSame
<1> QED
  BY <1>3, <1>4 DEF s

LEMMA FitDisturbed ==
  ASSUME NEW r, Fit(r)
  PROVE  LET s == [r EXCEPT !.clean = FALSE]
         IN  /\ Fit(s)
             /\ Same(s, r) /\ s.plan = r.plan /\ s.mem = r.mem /\ s.hand = r.hand
             /\ s.todo = r.todo /\ s.caller = r.caller
<1> DEFINE s == [r EXCEPT !.clean = FALSE]
<1>1. s \in Commands
  BY DEF Fit, Commands
<1>2. /\ Same(s, r) /\ s.plan = r.plan /\ s.mem = r.mem /\ s.hand = r.hand
      /\ s.todo = r.todo /\ s.caller = r.caller
  BY DEF Fit, Commands
<1> QED
  BY <1>1, <1>2, FitSame

LEMMA FitLost ==
  ASSUME NEW r, Fit(r)
  PROVE  LET s == [r EXCEPT !.caller = Lost]
         IN  /\ Fit(s) /\ s.caller = Lost
             /\ Same(s, r) /\ s.plan = r.plan /\ s.mem = r.mem /\ s.hand = r.hand /\ s.todo = r.todo
<1> DEFINE s == [r EXCEPT !.caller = Lost]
<1>1. s \in Commands
  BY DEF Fit, Commands
<1>2. /\ s.caller = Lost /\ Same(s, r) /\ s.plan = r.plan /\ s.mem = r.mem
      /\ s.hand = r.hand /\ s.todo = r.todo
  BY DEF Fit, Commands
<1> QED
  BY <1>1, <1>2, FitSame

LEMMA FitTodo ==
  ASSUME NEW r, Fit(r), NEW T \in SUBSET Machine
  PROVE  LET s == [r EXCEPT !.todo = T]
         IN  /\ Fit(s)
             /\ Same(s, r) /\ s.plan = r.plan /\ s.mem = r.mem /\ s.hand = r.hand
             /\ s.caller = r.caller
<1> DEFINE s == [r EXCEPT !.todo = T]
<1>1. s \in Commands
  BY DEF Fit, Commands
<1>2. Same(s, r) /\ s.plan = r.plan /\ s.mem = r.mem /\ s.hand = r.hand /\ s.caller = r.caller
  BY DEF Fit, Commands
<1> QED
  BY <1>1, <1>2, FitSame

\* A command at its call that waits instead.
LEMMA FitWait ==
  ASSUME NEW r, Fit(r), Head(r.plan) = "call", r.to # Nobody
  PROVE  LET s == [r EXCEPT !.plan = <<"wait">> \o Tail(@)]
         IN  /\ Fit(s) /\ Head(s.plan) = "wait"
             /\ Same(s, r) /\ s.mem = r.mem /\ s.hand = r.hand /\ s.todo = r.todo
             /\ s.caller = r.caller
<1> DEFINE s == [r EXCEPT !.plan = <<"wait">> \o Tail(@)]
<1>1. Orderly(<<"wait">> \o Tail(r.plan))
  BY WaitPlan DEF Fit
<1>2. <<"wait">> \o Tail(r.plan) \in Seq(Stage) \ {<<>>}
  BY <1>1 DEF Orderly
<1>3. s \in Commands /\ s.plan = <<"wait">> \o Tail(r.plan)
  BY <1>2 DEF Fit, Commands
<1>4. Same(s, r) /\ s.mem = r.mem /\ s.hand = r.hand /\ s.todo = r.todo /\ s.caller = r.caller
  BY DEF Fit, Commands
<1>5. Head(s.plan) = "wait" /\ (Holds(s.plan, 1) <=> Holds(r.plan, 1))
  BY <1>3, WaitPlan DEF Fit
<1> QED
  BY <1>1, <1>3, <1>4, <1>5 DEF Fit

\* A command that ends at once because the reverse tunnel is there.
LEMMA FitProbe ==
  ASSUME NEW r, Fit(r), r.hand = "none"
  PROVE  LET s == [r EXCEPT !.plan = <<"ok">>]
         IN  Fit(s) /\ s.host = r.host /\ s.mem = r.mem /\ s.hand = r.hand /\ s.caller = r.caller
<1> DEFINE s == [r EXCEPT !.plan = <<"ok">>]
<1>1. <<"ok">> \in Seq(Stage) \ {<<>>}
  BY DEF Stage
<1>2. s \in Commands /\ s.plan = <<"ok">>
  BY <1>1 DEF Fit, Commands
<1>3. s.host = r.host /\ s.mem = r.mem /\ s.hand = r.hand /\ s.caller = r.caller /\ s.to = r.to
  BY DEF Fit, Commands
<1> QED
  BY <1>2, <1>3, FreshPlans, CalledPlans DEF Fit, Fresh

LEMMA FirstKnowingLemma ==
  ASSUME NEW h \in Machine
  PROVE  /\ FirstKnowing(h) \in Machine \cup {Nobody}
         /\ Knowing(h) # {} => FirstKnowing(h) \in Knowing(h)
<1>1. Knowing(h) \subseteq Nat /\ Knowing(h) \subseteq Machine
  BY DEF Knowing
<1> QED
  BY <1>1, LeastIsMember DEF FirstKnowing

LEMMA RouteLemma ==
  ASSUME TypeOK, NEW h \in Machine, NEW form \in Form, NEW q \in Machine \cup {Nobody}
  PROVE  /\ Route(h, form, q) \in Machine \cup {Nobody}
         /\ q \in Knowing(h) => Route(h, form, q) \in Machine
<1>1. record \in [Machine -> Machine \cup {Nobody}]
  BY SetupFacts
<1>2. q \in Knowing(h) => q \in Machine /\ OwnerOf(h, q) \in Machine
  BY <1>1 DEF Knowing, OwnerOf
<1>3. q \in Knowing(h) => Route(h, form, q) \in Machine
  BY <1>1, <1>2 DEF Route
<1>4. Route(h, form, q) \in Machine \cup {Nobody}
  BY <1>1, <1>2 DEF Route
<1> QED
  BY <1>3, <1>4

\* A new command is fit if it names a peer that knows the service, where there is one.
LEMMA FitCommand ==
  ASSUME TypeOK, NEW h \in Machine, NEW form \in Form, NEW verb \in Verb,
         NEW q \in Machine \cup {Nobody}, NEW n \in Port,
         NEW u \in Slot \cup {User, Lost}, NEW b \in BOOLEAN,
         form = "target" \/ record[h] = Nobody => Knowing(h) = {} \/ q \in Knowing(h)
  PROVE  LET s == Command(h, form, verb, q, n, u, b)
         IN  Fit(s) /\ s.host = h /\ s.mem = NoRecord /\ s.hand = "none" /\ s.caller = u
<1> DEFINE s == Command(h, form, verb, q, n, u, b)
           p == Plan(h, form, verb) \o <<"ok">>
<1>1. Fresh(p)
  BY PlanLemma
<1>2. p \in Seq(Stage) \ {<<>>} /\ Orderly(p) /\ ~Holds(p, 1)
  BY <1>1 DEF Fresh, Orderly
<1> HIDE DEF p
<1>3. Route(h, form, q) \in Machine \cup {Nobody}
  BY RouteLemma
<1>4. s \in Commands
  BY <1>2, <1>3 DEF Command, Commands, Records, NoRecord, p
<1>5. /\ s.plan = p /\ s.to = Route(h, form, q)
      /\ s.host = h /\ s.mem = NoRecord /\ s.hand = "none" /\ s.caller = u
  BY DEF Command, p
<1>6. s.to = Nobody => Called(p)
  <2>1. q \in Knowing(h) => Route(h, form, q) \in Machine
    BY RouteLemma
  <2>2. Called(p) \/ (Knowing(h) # {} /\ (form = "target" \/ record[h] = Nobody))
    BY PlanLemma DEF p
  <2> QED
    BY <1>5, <2>1, <2>2
<1> QED
  BY <1>2, <1>4, <1>5, <1>6 DEF Fit

----
(***************************************************************************)
(* How the commands under way may change.                                  *)
(***************************************************************************)
\* Nobody waits anew and whoever is still waited for is still there.
LEMMA WaitKept ==
  ASSUME WaitInv, Active' \subseteq Active,
         \A d \in Active' : cmd'[d].caller \in Slot =>
           /\ cmd'[d].caller = cmd[d].caller
           /\ cmd[d].caller \in Active' /\ Head(cmd'[cmd[d].caller].plan) = "wait"
  PROVE  WaitInv'
<1>1. ASSUME NEW d \in Active', cmd'[d].caller \in Slot
      PROVE  /\ At(cmd[d].caller, "wait")' /\ cmd'[d].caller # d
             /\ \A e \in Active' : cmd'[e].caller = cmd'[d].caller => e = d
  <2>1. cmd'[d].caller = cmd[d].caller /\ d \in Active
    BY <1>1
  <2>2. cmd'[d].caller # d /\ \A e \in Active : cmd[e].caller = cmd[d].caller => e = d
    BY <1>1, <2>1 DEF WaitInv
  <2>3. \A e \in Active' : cmd'[e].caller = cmd'[d].caller => e = d
    BY <1>1, <2>1, <2>2
  <2>4. cmd'[d].caller \in Active' /\ Head(cmd'[cmd'[d].caller].plan) = "wait"
    BY <1>1
  <2> QED
    BY <2>2, <2>3, <2>4 DEF At
<1> QED
  BY <1>1 DEF WaitInv, At

\* Commands keep their plans, and at most lose whoever waits for them.
LEMMA AlikeFit ==
  ASSUME CommandsFit, WaitInv, cmd' \in [Slot -> Commands \cup {NoCommand}],
         \A d \in Slot \ Active : cmd'[d] = NoCommand,
         \A d \in Active : /\ Fit(cmd'[d]) /\ cmd'[d].plan = cmd[d].plan
                           /\ cmd'[d].caller \in {cmd[d].caller, Lost}
  PROVE  CommandsFit' /\ WaitInv' /\ Active' = Active
<1>1. Active' = Active
  BY ZenonT(60) DEF Active, Fit
<1>2. \A d \in Slot : At(d, "wait") => d \in Active' /\ Head(cmd'[d].plan) = "wait"
  BY <1>1 DEF At
<1>3. CommandsFit'
  BY <1>1 DEF CommandsFit
<1>4. \A d \in Active : cmd'[d].caller \in Slot => cmd'[d].caller = cmd[d].caller
  OBVIOUS
<1>5. WaitInv'
  <2>1. \A d \in Active' : cmd'[d].caller \in Slot =>
          cmd[d].caller \in Active' /\ Head(cmd'[cmd[d].caller].plan) = "wait"
    BY <1>1, <1>2, <1>4 DEF WaitInv
  <2> QED
    BY <1>1, <1>4, <2>1, WaitKept
<1> QED
  BY <1>1, <1>3, <1>5

\* The commands are as they were, but for their copies of the records and their disturbance.
Similar(cmds) ==
  /\ cmds \in [Slot -> Commands \cup {NoCommand}]
  /\ \A d \in Slot \ Active : cmds[d] = NoCommand
  /\ \A d \in Active : /\ Fit(cmds[d]) /\ Same(cmds[d], cmd[d])
                       /\ cmds[d].plan = cmd[d].plan /\ cmds[d].caller = cmd[d].caller

LEMMA SimilarSame ==
  ASSUME CommandsFit
  PROVE  Similar(cmd)
BY DEF Similar, CommandsFit, Active

LEMMA SimilarDisturbed ==
  ASSUME CommandsFit
  PROVE  /\ Similar(Disturbed)
         /\ \A d \in Active : Disturbed[d].mem = cmd[d].mem /\ Disturbed[d].hand = cmd[d].hand
<1>2. \A d \in Active : Disturbed[d] = [cmd[d] EXCEPT !.clean = FALSE]
  BY DEF Disturbed, Active
<1>3. \A d \in Slot \ Active : Disturbed[d] = NoCommand
  BY DEF Disturbed, Active
<1>4. ASSUME NEW d \in Active
      PROVE  /\ Fit(Disturbed[d]) /\ Same(Disturbed[d], cmd[d])
             /\ Disturbed[d].plan = cmd[d].plan /\ Disturbed[d].caller = cmd[d].caller
             /\ Disturbed[d].mem = cmd[d].mem /\ Disturbed[d].hand = cmd[d].hand
  <2>1. Fit(cmd[d]) /\ Disturbed[d] = [cmd[d] EXCEPT !.clean = FALSE]
    BY <1>2 DEF CommandsFit
  <2>2. /\ Same(Disturbed[d], cmd[d])
        /\ Disturbed[d].plan = cmd[d].plan /\ Disturbed[d].caller = cmd[d].caller
        /\ Disturbed[d].mem = cmd[d].mem /\ Disturbed[d].hand = cmd[d].hand
    BY <2>1, FitDisturbed
  <2>3. Fit(Disturbed[d])
    BY <2>1, FitDisturbed
  <2> QED
    BY <2>2, <2>3
<1>5. \A d \in Slot : Disturbed[d] \in Commands \cup {NoCommand}
  BY <1>3, <1>4 DEF Fit
<1>6. Disturbed \in [Slot -> Commands \cup {NoCommand}]
  BY <1>5 DEF Disturbed
<1> QED
  BY <1>3, <1>4, <1>6 DEF Similar

LEMMA BuriedType ==
  ASSUME NEW m \in Records, NEW p
  PROVE  Buried(m, p) \in Records
BY DEF Buried, Records, Pid

LEMMA SimilarMourn ==
  ASSUME NEW cmds, Similar(cmds), NEW h, NEW p
  PROVE  LET M == Mourn(cmds, h, p)
         IN  /\ Similar(M)
             /\ \A d \in Active : /\ M[d].hand = cmds[d].hand
                                  /\ M[d].mem = IF cmd[d].host = h THEN Buried(cmds[d].mem, p)
                                                ELSE cmds[d].mem
<1> DEFINE M == Mourn(cmds, h, p)
<1>1. ASSUME NEW d \in Active
      PROVE  /\ Fit(M[d]) /\ Same(M[d], cmd[d])
             /\ M[d].plan = cmd[d].plan /\ M[d].caller = cmd[d].caller
             /\ M[d].hand = cmds[d].hand
             /\ M[d].mem = IF cmd[d].host = h THEN Buried(cmds[d].mem, p) ELSE cmds[d].mem
  <2>1. CASE cmd[d].host = h
    <3>1. M[d] = [cmds[d] EXCEPT !.mem = Buried(cmds[d].mem, p)]
      BY <2>1 DEF Mourn, Active
    <3>2. Buried(cmds[d].mem, p) \in Records
      BY BuriedType DEF Similar, Fit, Commands
    <3> HIDE DEF M
    <3> QED
      BY <2>1, <3>1, <3>2, FitMem DEF Similar
  <2>2. CASE cmd[d].host # h
    <3>1. M[d] = cmds[d]
      BY <2>2 DEF Mourn, Active
    <3> HIDE DEF M
    <3> QED
      BY <2>2, <3>1 DEF Similar
  <2> QED
    BY <2>1, <2>2
<1>2. \A d \in Slot \ Active : M[d] = NoCommand
  BY DEF Mourn, Similar
<1>3. \A d \in Slot : M[d] \in Commands \cup {NoCommand}
  BY <1>1, <1>2 DEF Fit
<1>4. M \in [Slot -> Commands \cup {NoCommand}]
  BY <1>3 DEF Mourn
<1> QED
  BY <1>1, <1>2, <1>4 DEF Similar

LEMMA SettleFit ==
  ASSUME CommandsFit, WaitInv, NEW cmds, Similar(cmds), cmd' = cmds
  PROVE  CommandsFit' /\ WaitInv' /\ Active' = Active
<1>1. cmd' \in [Slot -> Commands \cup {NoCommand}] /\ \A d \in Slot \ Active : cmd'[d] = NoCommand
  BY DEF Similar
<1>2. \A d \in Active : /\ Fit(cmd'[d]) /\ cmd'[d].plan = cmd[d].plan
                        /\ cmd'[d].caller \in {cmd[d].caller, Lost}
  BY DEF Similar
<1> QED
  BY <1>1, <1>2, AlikeFit

\* A command that nobody makes wait goes on.
LEMMA PutFit ==
  ASSUME CommandsFit, WaitInv, NEW cmds, Similar(cmds), NEW c \in Active, ~At(c, "wait"),
         NEW r, Fit(r), r.caller = cmd[c].caller, cmd' = [cmds EXCEPT ![c] = r]
  PROVE  /\ CommandsFit' /\ WaitInv' /\ Active' = Active
         /\ cmd'[c] = r /\ \A d \in Slot \ {c} : cmd'[d] = cmds[d]
<1>1. cmd'[c] = r /\ r \in Commands /\ \A d \in Slot \ {c} : cmd'[d] = cmds[d]
  BY DEF Similar, Active, Fit
<1>2. cmd' \in [Slot -> Commands \cup {NoCommand}]
  BY DEF Similar, Fit
<1>3. \A d \in Active : Fit(cmd'[d]) /\ cmd'[d].caller = cmd[d].caller
  BY <1>1 DEF Similar, Active
<1>4. Active' = Active
  BY <1>1, <1>3 DEF Active, Similar, Fit
<1>5. CommandsFit'
  BY <1>2, <1>3, <1>4 DEF CommandsFit
<1>6. \A d \in Active : cmd[d].caller # c \/ c \notin Slot
  BY DEF WaitInv, At
<1>7. \A d \in Slot : At(d, "wait") /\ d # c => d \in Active' /\ Head(cmd'[d].plan) = "wait"
  BY <1>1, <1>4 DEF At, Similar
<1>8. WaitInv'
  <2>1. \A d \in Active' : cmd'[d].caller \in Slot =>
          cmd[d].caller \in Active' /\ Head(cmd'[cmd[d].caller].plan) = "wait"
    BY <1>3, <1>4, <1>6, <1>7 DEF WaitInv, Active
  <2> QED
    BY <1>3, <1>4, <2>1, WaitKept
<1> QED
  BY <1>1, <1>4, <1>5, <1>8

\* A user gives a command.
LEMMA NewFit ==
  ASSUME CommandsFit, WaitInv, NEW cmds, Similar(cmds), NEW c \in Slot \ Active,
         NEW r, Fit(r), r.caller \notin Slot, cmd' = [cmds EXCEPT ![c] = r]
  PROVE  /\ CommandsFit' /\ WaitInv' /\ Active' = Active \cup {c}
         /\ cmd'[c] = r /\ \A d \in Slot \ {c} : cmd'[d] = cmds[d]
<1>1. cmd'[c] = r /\ r \in Commands /\ \A d \in Slot \ {c} : cmd'[d] = cmds[d]
  BY DEF Similar, Fit
<1>2. cmd' \in [Slot -> Commands \cup {NoCommand}]
  BY DEF Similar, Fit
<1>3. \A d \in Active : Fit(cmd'[d]) /\ cmd'[d].caller = cmd[d].caller /\ cmd'[d].plan = cmd[d].plan
  BY <1>1 DEF Similar, Active
<1>4. Active' = Active \cup {c}
  BY <1>1, <1>3 DEF Active, Similar, Fit
<1>5. CommandsFit'
  BY <1>1, <1>2, <1>3, <1>4 DEF CommandsFit
<1>6. \A d \in Active' : cmd'[d].caller \in Slot => d \in Active
  BY <1>1, <1>4
<1>7. WaitInv'
  <2>1. \A d \in Active : At(d, "wait") => d \in Active' /\ Head(cmd'[d].plan) = "wait"
    BY <1>3, <1>4 DEF At
  <2>2. ASSUME NEW d \in Active', cmd'[d].caller \in Slot
        PROVE  /\ cmd'[d].caller \in Active' /\ Head(cmd'[cmd'[d].caller].plan) = "wait"
               /\ cmd'[d].caller # d
               /\ \A e \in Active' : cmd'[e].caller = cmd'[d].caller => e = d
    <3>1. d \in Active /\ cmd'[d].caller = cmd[d].caller
      BY <1>3, <1>6, <2>2
    <3>2. At(cmd[d].caller, "wait") /\ cmd[d].caller # d
      BY <2>2, <3>1 DEF WaitInv
    <3>3. cmd[d].caller \in Active
      BY <3>2 DEF At
    <3>4. \A e \in Active' : cmd'[e].caller = cmd'[d].caller => e = d
      BY <1>3, <1>6, <2>2, <3>1 DEF WaitInv
    <3> QED
      BY <2>1, <3>1, <3>2, <3>3, <3>4
  <2> QED
    BY <2>2 DEF WaitInv, At
<1> QED
  BY <1>1, <1>4, <1>5, <1>7

LEMMA DesertedFit ==
  ASSUME CommandsFit, WaitInv, NEW c \in Active, NEW cmds, Similar(cmds), cmd' = Deserted(cmds, c)
  PROVE  /\ CommandsFit' /\ WaitInv'
         /\ Active' = Active /\ cmd'[c] = Failed(cmds[c])
         /\ \A d \in Active \ {c} : /\ cmd'[d].host = cmd[d].host /\ cmd'[d].mem = cmds[d].mem
                                    /\ cmd'[d].hand = cmds[d].hand
<1>1. c \notin Awaited(c) /\ c \in Slot
  BY DEF Awaited, WaitInv, Active
<1>2. cmd'[c] = Failed(cmds[c]) /\ Fit(Failed(cmds[c])) /\ Failed(cmds[c]).caller = cmd[c].caller
  BY <1>1, FitFailed DEF Deserted, Similar
<1>3. ASSUME NEW d \in Active, d \in Awaited(c)
      PROVE  /\ Fit(cmd'[d]) /\ cmd'[d].caller = Lost /\ cmd'[d].plan = cmd[d].plan
             /\ cmd'[d].host = cmd[d].host /\ cmd'[d].mem = cmds[d].mem
             /\ cmd'[d].hand = cmds[d].hand
  <2>1. cmd'[d] = [cmds[d] EXCEPT !.caller = Lost]
    BY <1>3 DEF Deserted, Active
  <2> QED
    BY <2>1, FitLost DEF Similar
<1>4. ASSUME NEW d \in Active, d \notin Awaited(c), d # c
      PROVE  /\ Fit(cmd'[d]) /\ cmd'[d].caller = cmd[d].caller /\ cmd'[d].plan = cmd[d].plan
             /\ cmd'[d].host = cmd[d].host /\ cmd'[d].mem = cmds[d].mem
             /\ cmd'[d].hand = cmds[d].hand
  <2>1. cmd'[d] = cmds[d]
    BY <1>4 DEF Deserted, Active
  <2> QED
    BY <2>1 DEF Similar
<1>5. \A d \in Slot \ Active : cmd'[d] = NoCommand
  BY DEF Deserted, Similar, Awaited
<1>6. \A d \in Active : Fit(cmd'[d])
  BY <1>2, <1>3, <1>4
<1>7. Active' = Active
  BY <1>5, <1>6 DEF Active, Fit
<1>8. \A d \in Slot : cmd'[d] \in Commands \cup {NoCommand}
  BY <1>5, <1>6 DEF Fit
<1>9. CommandsFit'
  BY <1>6, <1>7, <1>8 DEF CommandsFit, Deserted
<1>10. ASSUME NEW d \in Active, cmd'[d].caller \in Slot
       PROVE  cmd'[d].caller = cmd[d].caller /\ cmd[d].caller # c
  BY <1>2, <1>3, <1>4, <1>10 DEF Awaited, WaitInv
<1>11. \A d \in Slot \ {c} : At(d, "wait") => d \in Active' /\ Head(cmd'[d].plan) = "wait"
  BY <1>3, <1>4, <1>7 DEF At
<1>12. WaitInv'
  <2>1. \A d \in Active' : cmd'[d].caller \in Slot =>
          cmd[d].caller \in Active' /\ Head(cmd'[cmd[d].caller].plan) = "wait"
    BY <1>7, <1>10, <1>11 DEF WaitInv
  <2> QED
    BY <1>7, <1>10, <2>1, WaitKept
<1> QED
  BY <1>2, <1>3, <1>4, <1>7, <1>9, <1>12

----
(***************************************************************************)
(* The inductive invariant.                                                *)
(***************************************************************************)
\* Records m of machine h, where the machines in u run Unix and h carries the tunnels S.
\* A living tunnel they name is there; it is the one of its key on Unix, and wherever it is
\* a reverse tunnel.
Honest(h, u, S, m) ==
  \A k \in Tunnel :
    /\ m[k] \in Tunnel => m[k] \in S
    /\ h \in u \/ k.mode = "reverse" => m[k] \in {k, Dead, NoPid}

RecordsInv ==
  /\ \A h \in Machine : Honest(h, unix, ssh[h], saved[h])
  /\ \A c \in Active : Honest(cmd[c].host, unix, ssh[cmd[c].host], cmd[c].mem)

\* The tunnels that are in the records under their own keys.
Listed(m) == {t \in Tunnel : m[t] = t}

\* Commands of machine h between a load and its save.
Holding(h) == {c \in Active : cmd[c].host = h /\ cmd[c].hand # "none"}

\* On a machine where no change was lost only one command at a time has a copy of the
\* records.  Its copy accounts for every tunnel, and so does the state file, unless the
\* copy has changed.
AccountInv ==
  \A h \in Machine : tidy[h] =>
    /\ \A c, d \in Holding(h) : c = d
    /\ \A c \in Holding(h) : ssh[h] \subseteq Listed(cmd[c].mem)
    /\ (\A c \in Holding(h) : cmd[c].hand = "copy") => ssh[h] \subseteq Listed(saved[h])

Inv == TypeInv /\ RecordsInv /\ AccountInv

LEMMA CommandFacts ==
  ASSUME Inv, NEW c \in Active
  PROVE  /\ c \in Slot /\ Fit(cmd[c]) /\ cmd[c] \in Commands
         /\ cmd[c].host \in Machine /\ cmd[c].mem \in Records
         /\ cmd[c].hand \in {"none", "copy", "dirty"}
         /\ cmd[c].todo \subseteq Machine /\ cmd[c].port \in Port
         /\ cmd[c].to \in Machine \cup {Nobody} /\ cmd[c].caller \in Slot \cup {User, Lost}
         /\ cmd[c].form \in Form /\ cmd[c].verb \in Verb /\ cmd[c].clean \in BOOLEAN
<1>1. c \in Slot /\ Fit(cmd[c]) /\ cmd[c] \in Commands
  BY DEF Inv, TypeInv, CommandsFit, Active, Fit
<1> QED
  BY <1>1 DEF Commands

LEMMA InvParts ==
  ASSUME Inv
  PROVE  /\ TypeOK /\ CommandsFit /\ WaitInv /\ TunnelsTypeOK
         /\ running \in [Machine -> BOOLEAN] /\ ssh \in [Machine -> SUBSET Tunnel]
         /\ saved \in [Machine -> Records]
         /\ tidy \in [Machine -> BOOLEAN] /\ faults \in 0 .. MaxFaults
BY DEF Inv, TypeInv, TypeOK, TunnelsTypeOK

LEMMA TypeKept ==
  ASSUME TypeOK, UNCHANGED setup, TunnelsTypeOK', CommandsFit', tidy' \in [Machine -> BOOLEAN],
         faults' \in 0 .. MaxFaults
  PROVE  TypeOK'
BY DEF TypeOK, setup, CommandsFit

LEMMA NoRecordFacts == NoRecord \in Records /\ \A h, u, S : Honest(h, u, S, NoRecord)
BY DEF NoRecord, Records, Honest

\* No tunnel comes or goes, and commands keep their copies or give them up.
LEMMA Kept ==
  ASSUME Inv, UNCHANGED <<setup, ssh, saved>>,
         \A h \in Machine : tidy'[h] => tidy[h],
         \A d \in Active \ Active' : cmd[d].hand = "none",
         \A d \in Active' :
           \/ /\ d \in Active /\ cmd'[d].host = cmd[d].host
              /\ cmd'[d].mem = cmd[d].mem /\ cmd'[d].hand = cmd[d].hand
           \/ /\ cmd'[d].mem = NoRecord /\ cmd'[d].hand = "none"
              /\ d \in Active => cmd'[d].host = cmd[d].host
              /\ d \in Active /\ cmd[d].hand = "dirty" => ~tidy'[cmd[d].host]
  PROVE  RecordsInv' /\ AccountInv'
<1>1. unix' = unix /\ ssh' = ssh /\ saved' = saved
  BY DEF setup
<1>2. \A d \in Active : cmd[d].hand \in {"none", "copy", "dirty"}
  BY CommandFacts
<1>3. RecordsInv'
  <2>1. \A c \in Active' : Honest(cmd'[c].host, unix, ssh[cmd'[c].host], cmd'[c].mem)
    BY NoRecordFacts DEF Inv, RecordsInv
  <2> QED
    BY <1>1, <2>1 DEF Inv, RecordsInv
<1>4. \A h : Holding(h)' \subseteq Holding(h)
  BY DEF Holding
<1>5. \A h : \A c \in Holding(h)' : cmd'[c].mem = cmd[c].mem /\ cmd'[c].hand = cmd[c].hand
  BY DEF Holding
<1>6. ASSUME NEW h \in Machine, tidy'[h], \A c \in Holding(h)' : cmd'[c].hand = "copy"
      PROVE  \A c \in Holding(h) : cmd[c].hand = "copy"
  <2>1. SUFFICES ASSUME NEW c \in Holding(h), cmd[c].hand # "copy" PROVE FALSE
    OBVIOUS
  <2>2. c \in Active /\ cmd[c].host = h /\ cmd[c].hand = "dirty"
    BY <1>2, <2>1 DEF Holding
  <2>3. c \in Active' /\ cmd'[c].host = h /\ cmd'[c].hand = "dirty"
    <3>1. c \in Active'
      BY <2>2
    <3>2. ~(cmd[c].hand = "dirty" => ~tidy'[cmd[c].host])
      BY <1>6, <2>2
    <3>3. cmd'[c].host = cmd[c].host /\ cmd'[c].hand = cmd[c].hand
      BY <2>2, <3>1, <3>2
    <3> QED
      BY <2>2, <3>1, <3>3
  <2>4. c \in Holding(h)'
    BY <2>3 DEF Holding
  <2> QED
    BY <1>6, <2>3, <2>4
<1>7. ASSUME NEW h \in Machine, tidy'[h]
      PROVE  /\ \A c, d \in Holding(h)' : c = d
             /\ \A c \in Holding(h)' : ssh[h] \subseteq Listed(cmd'[c].mem)
             /\ (\A c \in Holding(h)' : cmd'[c].hand = "copy") => ssh[h] \subseteq Listed(saved[h])
  <2>1. /\ \A c, d \in Holding(h) : c = d
        /\ \A c \in Holding(h) : ssh[h] \subseteq Listed(cmd[c].mem)
        /\ (\A c \in Holding(h) : cmd[c].hand = "copy") => ssh[h] \subseteq Listed(saved[h])
    BY <1>7 DEF Inv, AccountInv
  <2> QED
    BY <1>4, <1>5, <1>6, <1>7, <2>1
<1>8. AccountInv'
  BY <1>1, <1>7 DEF AccountInv
<1> QED
  BY <1>3, <1>8

LEMMA LosingLemma ==
  ASSUME Inv, NEW c \in Active, Losing(c)
  PROVE  /\ tidy' \in [Machine -> BOOLEAN] /\ \A h \in Machine : tidy'[h] => tidy[h]
         /\ cmd[c].hand = "dirty" => ~tidy'[cmd[c].host]
BY InvParts, CommandFacts DEF Losing

LEMMA ListedBuried ==
  ASSUME NEW m \in Records, NEW p, NEW t \in Listed(m), t # p
  PROVE  t \in Listed(Buried(m, p))
BY DEF Listed, Buried

LEMMA ListedChanged ==
  ASSUME NEW m \in Records, NEW k \in Tunnel, NEW p
  PROVE  /\ p = k => k \in Listed([m EXCEPT ![k] = p])
         /\ \A t \in Listed(m) : t # m[k] => t \in Listed([m EXCEPT ![k] = p])
<1> DEFINE n == [m EXCEPT ![k] = p]
<1>1. n[k] = p /\ \A j \in Tunnel \ {k} : n[j] = m[j]
  BY DEF Records
<1> HIDE DEF n
<1> QED
  BY <1>1 DEF Listed, n

LEMMA HonestMore ==
  ASSUME NEW h, NEW u, NEW S, NEW T, S \subseteq T, NEW m, Honest(h, u, S, m)
  PROVE  Honest(h, u, T, m)
BY DEF Honest

LEMMA HonestBuried ==
  ASSUME NEW h, NEW u, NEW S, NEW m, Honest(h, u, S, m), NEW p
  PROVE  Honest(h, u, S \ {p}, Buried(m, p))
BY DEF Honest, Buried

LEMMA HonestChanged ==
  ASSUME NEW h, NEW u, NEW S, NEW m \in Records, Honest(h, u, S, m), NEW k \in Tunnel, NEW p,
         p \in Tunnel => p \in S,
         p \in {k, NoPid} \/ (h \notin u /\ k.mode # "reverse")
  PROVE  Honest(h, u, S, [m EXCEPT ![k] = p])
<1> DEFINE n == [m EXCEPT ![k] = p]
<1>1. n[k] = p /\ \A j \in Tunnel \ {k} : n[j] = m[j]
  BY DEF Records
<1> HIDE DEF n
<1> QED
  BY <1>1 DEF Honest, n

\* A process ends, and commands keep what is left of their copies.
LEMMA Buries ==
  ASSUME Inv, NEW h \in Machine, NEW p \in Tunnel \cup {Service}, End(h, p),
         UNCHANGED <<setup, tidy>>, Active' = Active,
         \A d \in Active : /\ cmd'[d].host = cmd[d].host /\ cmd'[d].hand = cmd[d].hand
                           /\ cmd'[d].mem = IF cmd[d].host = h THEN Buried(cmd[d].mem, p)
                                             ELSE cmd[d].mem
  PROVE  TunnelsTypeOK' /\ RecordsInv' /\ AccountInv'
<1>1. unix' = unix /\ tidy' = tidy
  BY DEF setup
<1>2. /\ ssh' = [ssh EXCEPT ![h] = @ \ {p}] /\ saved' = [saved EXCEPT ![h] = Buried(@, p)]
      /\ ssh \in [Machine -> SUBSET Tunnel] /\ saved \in [Machine -> Records]
      /\ running' \in [Machine -> BOOLEAN]
  BY InvParts DEF End
<1>3. ssh' \in [Machine -> SUBSET Tunnel]
  BY <1>2
<1>4. saved' \in [Machine -> Records]
  BY <1>2, BuriedType
<1>5. TunnelsTypeOK'
  BY <1>2, <1>3, <1>4 DEF TunnelsTypeOK
<1>6. \A g \in Machine : IF g = h THEN saved'[g] = Buried(saved[g], p) /\ ssh'[g] = ssh[g] \ {p}
                         ELSE saved'[g] = saved[g] /\ ssh'[g] = ssh[g]
  BY <1>2
<1>7. RecordsInv'
  <2>1. \A g \in Machine : Honest(g, unix, ssh'[g], saved'[g])
    <3> TAKE g \in Machine
    <3>1. Honest(g, unix, ssh[g], saved[g])
      BY DEF Inv, RecordsInv
    <3>2. Honest(g, unix, ssh[g] \ {p}, Buried(saved[g], p))
      BY <3>1, HonestBuried
    <3> QED
      BY <1>6, <3>1, <3>2
  <2>2. ASSUME NEW c \in Active PROVE Honest(cmd'[c].host, unix, ssh'[cmd'[c].host], cmd'[c].mem)
    <3>1. cmd[c].host \in Machine /\ Honest(cmd[c].host, unix, ssh[cmd[c].host], cmd[c].mem)
      BY CommandFacts DEF Inv, RecordsInv
    <3>2. cmd[c].host = h => Honest(h, unix, ssh[h] \ {p}, Buried(cmd[c].mem, p))
      BY <3>1, HonestBuried
    <3>3. /\ cmd'[c].host = cmd[c].host
          /\ cmd'[c].mem = IF cmd[c].host = h THEN Buried(cmd[c].mem, p) ELSE cmd[c].mem
      OBVIOUS
    <3>4. CASE cmd[c].host = h
      <4>1. ssh'[h] = ssh[h] \ {p}
        BY <1>6
      <4> QED
        BY <3>2, <3>3, <3>4, <4>1
    <3>5. CASE cmd[c].host # h
      <4>1. ssh'[cmd[c].host] = ssh[cmd[c].host]
        BY <1>6, <3>1, <3>5
      <4> QED
        BY <3>1, <3>3, <3>5, <4>1
    <3> QED
      BY <3>4, <3>5
  <2> QED
    BY <1>1, <2>1, <2>2 DEF RecordsInv
<1>8. \A g : Holding(g)' = Holding(g)
  BY DEF Holding
<1>9. ASSUME NEW g \in Machine, tidy[g]
      PROVE  /\ \A c, d \in Holding(g) : c = d
             /\ \A c \in Holding(g) : ssh'[g] \subseteq Listed(cmd'[c].mem)
             /\ (\A c \in Holding(g) : cmd'[c].hand = "copy") => ssh'[g] \subseteq Listed(saved'[g])
  <2>1. /\ \A c, d \in Holding(g) : c = d
        /\ \A c \in Holding(g) : ssh[g] \subseteq Listed(cmd[c].mem)
        /\ (\A c \in Holding(g) : cmd[c].hand = "copy") => ssh[g] \subseteq Listed(saved[g])
    BY <1>9 DEF Inv, AccountInv
  <2>2. \A c \in Holding(g) : c \in Active /\ cmd[c].host = g /\ cmd[c].mem \in Records
    BY CommandFacts DEF Holding
  <2>3. \A c \in Holding(g) : ssh'[g] \subseteq Listed(cmd'[c].mem)
    BY <1>6, <2>1, <2>2, ListedBuried
  <2>4. ssh[g] \subseteq Listed(saved[g]) => ssh'[g] \subseteq Listed(saved'[g])
    BY <1>2, <1>6, ListedBuried
  <2> QED
    BY <2>1, <2>2, <2>3, <2>4
<1>10. AccountInv'
  BY <1>1, <1>8, <1>9 DEF AccountInv
<1> QED
  BY <1>5, <1>7, <1>10

----
(***************************************************************************)
(* Steps of a command.                                                     *)
(***************************************************************************)
LEMMA PutAlone ==
  ASSUME Inv, NEW c \in Active, ~At(c, "wait"),
         NEW r, Fit(r), r.caller = cmd[c].caller, Put(c, r)
  PROVE  /\ CommandsFit' /\ WaitInv' /\ Active' = Active
         /\ cmd'[c] = r /\ \A d \in Slot \ {c} : cmd'[d] = cmd[d]
<1>1. CommandsFit /\ WaitInv /\ Similar(cmd) /\ cmd' = [cmd EXCEPT ![c] = r]
  BY InvParts, SimilarSame DEF Put
<1> QED
  BY <1>1, PutFit

\* A command goes on, with its copy as it was, or without.
LEMMA PutKept ==
  ASSUME Inv, UNCHANGED <<setup, ssh, saved>>, running' \in [Machine -> BOOLEAN],
         NEW c \in Active, ~At(c, "wait"),
         NEW r, Fit(r), r.caller = cmd[c].caller, r.host = cmd[c].host, Put(c, r),
         \A h \in Machine : tidy'[h] => tidy[h],
         \/ r.mem = cmd[c].mem /\ r.hand = cmd[c].hand
         \/ /\ r.mem = NoRecord /\ r.hand = "none"
            /\ cmd[c].hand = "dirty" => ~tidy'[cmd[c].host]
  PROVE  CommandsFit' /\ WaitInv' /\ TunnelsTypeOK' /\ RecordsInv' /\ AccountInv'
<1>1. /\ CommandsFit' /\ WaitInv' /\ Active' = Active
      /\ cmd'[c] = r /\ \A d \in Slot \ {c} : cmd'[d] = cmd[d]
  BY PutAlone
<1>2. TunnelsTypeOK'
  BY InvParts DEF TunnelsTypeOK
<1>3. \A d \in Active \ {c} : cmd'[d] = cmd[d]
  BY <1>1 DEF Active
<1>4. RecordsInv' /\ AccountInv'
  BY <1>1, <1>3, Kept
<1> QED
  BY <1>1, <1>2, <1>4

\* A command fails.
LEMMA FailKept ==
  ASSUME Inv, UNCHANGED <<setup, running, ssh, saved>>, NEW c \in Active, ~At(c, "wait"), Fail(c)
  PROVE  /\ CommandsFit' /\ WaitInv' /\ TunnelsTypeOK' /\ RecordsInv' /\ AccountInv'
         /\ tidy' \in [Machine -> BOOLEAN]
<1> DEFINE r == Failed(cmd[c])
<1>1. Put(c, r) /\ Losing(c)
  BY DEF Fail
<1>2. Fit(r) /\ r.host = cmd[c].host /\ r.caller = cmd[c].caller /\ r.mem = NoRecord /\ r.hand = "none"
  BY CommandFacts, FitFailed
<1> HIDE DEF r
<1>3. CommandsFit' /\ WaitInv' /\ TunnelsTypeOK' /\ RecordsInv' /\ AccountInv'
  BY <1>1, <1>2, LosingLemma, InvParts, PutKept
<1> QED
  BY <1>1, <1>3, LosingLemma

LEMMA AtFacts ==
  ASSUME Inv, NEW c, NEW stage, At(c, stage)
  PROVE  /\ c \in Active /\ Head(cmd[c].plan) = stage
         /\ stage # "wait" => ~At(c, "wait")
         /\ stage \in Working => cmd[c].hand # "none"
         /\ stage \in {"ok", "failed", "load", "probe"} => cmd[c].hand = "none"
<1>1. c \in Active /\ Head(cmd[c].plan) = stage /\ (stage # "wait" => ~At(c, "wait"))
  BY DEF At
<1>2. Head(cmd[c].plan) = cmd[c].plan[1] /\ (cmd[c].hand # "none" <=> Holds(cmd[c].plan, 1))
  BY <1>1, CommandFacts DEF Fit, Orderly
<1> QED
  BY <1>1, <1>2 DEF Holds, Working

LEMMA LoadInv ==
  ASSUME Inv, NEW c \in Slot, Load(c)
  PROVE  Inv'
<1> DEFINE h == cmd[c].host
           r == Onward([cmd[c] EXCEPT !.mem = saved[h], !.hand = "copy"])
<1>1. c \in Active /\ Head(cmd[c].plan) = "load" /\ ~At(c, "wait") /\ cmd[c].hand = "none"
  BY AtFacts DEF Load
<1>2. h \in Machine /\ saved[h] \in Records /\ Fit(cmd[c])
  BY <1>1, CommandFacts, InvParts
<1>3. Fit(r) /\ r.host = h /\ r.mem = saved[h] /\ r.hand = "copy" /\ r.caller = cmd[c].caller
  BY <1>1, <1>2, FitLoad
<1>4. cmd' = [cmd EXCEPT ![c] = r]
  BY DEF Load, Put
<1>5. UNCHANGED <<setup, tunnelVars, faults>>
  BY DEF Load
<1>6. unix' = unix /\ running' = running /\ ssh' = ssh /\ saved' = saved
  BY <1>5 DEF setup, tunnelVars
<1>7. tidy' = IF \E d \in Active \ {c} : cmd[d].host = h /\ cmd[d].hand # "none"
               THEN [tidy EXCEPT ![h] = FALSE] ELSE tidy
  BY DEF Load
<1> HIDE DEF r, h
<1>8. /\ CommandsFit' /\ WaitInv' /\ Active' = Active
      /\ cmd'[c] = r /\ \A d \in Slot \ {c} : cmd'[d] = cmd[d]
  BY <1>1, <1>3, <1>4, InvParts, SimilarSame, PutFit
<1>9. tidy' \in [Machine -> BOOLEAN] /\ \A g \in Machine : tidy'[g] => tidy[g]
  BY <1>2, <1>7, InvParts
<1>10. TypeOK'
  BY <1>5, <1>6, <1>8, <1>9, InvParts, TypeKept DEF TunnelsTypeOK
<1>11. \A d \in Active \ {c} : cmd'[d] = cmd[d]
  BY <1>8 DEF Active
<1>12. RecordsInv'
  <2>1. Honest(h, unix, ssh[h], saved[h])
    BY <1>2 DEF Inv, RecordsInv
  <2>2. \A d \in Active : Honest(cmd'[d].host, unix, ssh[cmd'[d].host], cmd'[d].mem)
    BY <1>3, <1>8, <1>11, <2>1 DEF Inv, RecordsInv
  <2> QED
    BY <1>6, <1>8, <2>2 DEF Inv, RecordsInv
<1>13. ASSUME NEW g \in Machine, tidy'[g]
       PROVE  /\ \A d, e \in Holding(g)' : d = e
              /\ \A d \in Holding(g)' : ssh[g] \subseteq Listed(cmd'[d].mem)
              /\ (\A d \in Holding(g)' : cmd'[d].hand = "copy") => ssh[g] \subseteq Listed(saved[g])
  <2>1. /\ \A d, e \in Holding(g) : d = e
        /\ \A d \in Holding(g) : ssh[g] \subseteq Listed(cmd[d].mem)
        /\ (\A d \in Holding(g) : cmd[d].hand = "copy") => ssh[g] \subseteq Listed(saved[g])
    BY <1>9, <1>13 DEF Inv, AccountInv
  <2>2. CASE g # h
    <3>1. Holding(g)' = Holding(g) /\ \A d \in Holding(g) : d # c
      BY <1>1, <1>3, <1>8, <1>11, <2>2 DEF Holding, h
    <3> QED
      BY <1>11, <2>1, <3>1 DEF Holding
  <2>3. CASE g = h
    <3>1. ~ \E d \in Active \ {c} : cmd[d].host = h /\ cmd[d].hand # "none"
      BY <1>2, <1>7, <1>13, <2>3, InvParts
    <3>2. Holding(g) = {}
      BY <1>1, <2>3, <3>1 DEF Holding
    <3>3. \A d \in Holding(g)' : d = c
      BY <1>8, <1>11, <2>3, <3>1 DEF Holding
    <3>4. ssh[g] \subseteq Listed(saved[g]) /\ cmd'[c].mem = saved[g]
      BY <1>3, <1>8, <2>1, <2>3, <3>2
    <3> QED
      BY <3>3, <3>4
  <2> QED
    BY <2>2, <2>3
<1>14. AccountInv'
  BY <1>6, <1>13 DEF AccountInv
<1> QED
  BY <1>8, <1>10, <1>12, <1>14 DEF Inv, TypeInv

LEMMA SaveInv ==
  ASSUME Inv, NEW c \in Slot, Save(c)
  PROVE  Inv'
<1> DEFINE h == cmd[c].host
           r == Onward([cmd[c] EXCEPT !.mem = NoRecord, !.hand = "none"])
<1>1. c \in Active /\ Head(cmd[c].plan) = "save" /\ ~At(c, "wait") /\ cmd[c].hand # "none"
  BY AtFacts DEF Save, Working
<1>2. h \in Machine /\ cmd[c].mem \in Records /\ Fit(cmd[c])
  BY <1>1, CommandFacts
<1>3. Fit(r) /\ r.host = h /\ r.mem = NoRecord /\ r.hand = "none" /\ r.caller = cmd[c].caller
  BY <1>1, <1>2, FitSave
<1>4. cmd' = [cmd EXCEPT ![c] = r]
  BY DEF Save, Put
<1>5. UNCHANGED <<setup, running, ssh, tidy, faults>> /\ unix' = unix
  BY DEF Save, setup
<1>6. saved' = [saved EXCEPT ![h] = cmd[c].mem]
  BY DEF Save
<1> HIDE DEF r, h
<1>7. saved' \in [Machine -> Records] /\ saved'[h] = cmd[c].mem /\ \A g \in Machine \ {h} : saved'[g] = saved[g]
  BY <1>2, <1>6, InvParts
<1>8. /\ CommandsFit' /\ WaitInv' /\ Active' = Active
      /\ cmd'[c] = r /\ \A d \in Slot \ {c} : cmd'[d] = cmd[d]
  BY <1>1, <1>3, <1>4, InvParts, SimilarSame, PutFit
<1>9. TypeOK'
  BY <1>5, <1>7, <1>8, InvParts, TypeKept DEF TunnelsTypeOK
<1>10. \A d \in Active \ {c} : cmd'[d] = cmd[d]
  BY <1>8 DEF Active
<1>11. RecordsInv'
  <2>1. \A d \in Active : Honest(cmd'[d].host, unix, ssh[cmd'[d].host], cmd'[d].mem)
    BY <1>3, <1>8, <1>10, NoRecordFacts DEF Inv, RecordsInv
  <2>2. Honest(h, unix, ssh[h], cmd[c].mem)
    BY <1>1 DEF Inv, RecordsInv, h
  <2>3. \A g \in Machine : Honest(g, unix, ssh[g], saved'[g])
    BY <1>7, <2>2 DEF Inv, RecordsInv
  <2> QED
    BY <1>5, <1>8, <2>1, <2>3 DEF RecordsInv
<1>12. ASSUME NEW g \in Machine, tidy[g]
       PROVE  /\ \A d, e \in Holding(g)' : d = e
              /\ \A d \in Holding(g)' : ssh[g] \subseteq Listed(cmd'[d].mem)
              /\ (\A d \in Holding(g)' : cmd'[d].hand = "copy") => ssh[g] \subseteq Listed(saved'[g])
  <2>1. /\ \A d, e \in Holding(g) : d = e
        /\ \A d \in Holding(g) : ssh[g] \subseteq Listed(cmd[d].mem)
        /\ (\A d \in Holding(g) : cmd[d].hand = "copy") => ssh[g] \subseteq Listed(saved[g])
    BY <1>12 DEF Inv, AccountInv
  <2>2. CASE g # h
    <3>1. Holding(g)' = Holding(g) /\ \A d \in Holding(g) : d # c
      BY <1>1, <1>3, <1>8, <1>10, <2>2, ZenonT(60) DEF Holding, h
    <3> QED
      BY <1>7, <1>10, <2>1, <2>2, <3>1 DEF Holding
  <2>3. CASE g = h
    <3>1. c \in Holding(g) /\ Holding(g)' \subseteq Holding(g) \ {c}
      BY <1>1, <1>3, <1>8, <1>10, <2>3 DEF Holding, h
    <3> QED
      BY <1>7, <2>1, <2>3, <3>1
  <2> QED
    BY <2>2, <2>3
<1>13. AccountInv'
  BY <1>5, <1>12 DEF AccountInv
<1> QED
  BY <1>8, <1>9, <1>11, <1>13 DEF Inv, TypeInv

LEMMA StartInv ==
  ASSUME Inv, NEW c \in Slot, Start(c)
  PROVE  Inv'
<1> DEFINE h == cmd[c].host
           T == IF "reverse" \in modes THEN Peers[h] ELSE {}
           s == [cmd[c] EXCEPT !.todo = T]
           r == Onward(s)
<1>1. c \in Active /\ Head(cmd[c].plan) = "start" /\ ~At(c, "wait")
  BY AtFacts DEF Start
<1>2. h \in Machine /\ Fit(cmd[c]) /\ T \in SUBSET Machine
  BY <1>1, CommandFacts
<1>3. UNCHANGED <<setup, ssh, saved, faults>>
  BY DEF Start
<1>4. \/ /\ running' = [running EXCEPT ![h] = TRUE] /\ tidy' = tidy
         /\ Put(c, r)
      \/ Fail(c) /\ running' = running
  BY DEF Start
<1>5. Fit(s) /\ Head(s.plan) = "start" /\ Same(s, cmd[c])
      /\ s.mem = cmd[c].mem /\ s.hand = cmd[c].hand /\ s.caller = cmd[c].caller
  <2> HIDE DEF T
  <2>1. /\ Fit(s) /\ s.plan = cmd[c].plan /\ Same(s, cmd[c])
        /\ s.mem = cmd[c].mem /\ s.hand = cmd[c].hand /\ s.caller = cmd[c].caller
    BY <1>2, FitTodo, ZenonT(60)
  <2> QED
    BY <1>1, <2>1
<1> HIDE DEF s
<1>6. /\ Fit(r) /\ r.caller = cmd[c].caller /\ r.host = cmd[c].host
      /\ r.mem = cmd[c].mem /\ r.hand = cmd[c].hand
  BY <1>5, FitOnward
<1> HIDE DEF r
<1>7. CASE Put(c, r) /\ running' = [running EXCEPT ![h] = TRUE] /\ tidy' = tidy
  <2>1. running' \in [Machine -> BOOLEAN] /\ tidy' \in [Machine -> BOOLEAN] /\ faults' \in 0 .. MaxFaults
    BY <1>3, <1>7, InvParts
  <2>2. CommandsFit' /\ WaitInv' /\ TunnelsTypeOK' /\ RecordsInv' /\ AccountInv'
    BY <1>1, <1>3, <1>6, <1>7, <2>1, PutKept
  <2> QED
    BY <1>3, <2>1, <2>2, TypeKept, InvParts DEF Inv, TypeInv
<1>8. CASE Fail(c) /\ running' = running
  BY <1>1, <1>3, <1>8, FailKept, TypeKept, InvParts DEF Inv, TypeInv
<1> QED
  BY <1>4, <1>7, <1>8

\* What command c may record under key k: the tunnel k, which is new, or on Windows another
\* process of the machine.
Found(c, k, p) ==
  \/ p = k /\ ssh' = [ssh EXCEPT ![cmd[c].host] = @ \cup {p}]
  \/ /\ ssh' = ssh /\ cmd[c].host \notin unix /\ k.mode # "reverse"
     /\ p \in Tunnel => p \in ssh[cmd[c].host]

\* A pid is recorded where no living one was.
LEMMA RecordKept ==
  ASSUME Inv, UNCHANGED <<setup, running, saved, tidy>>, NEW c \in Active, ~At(c, "wait"),
         cmd[c].hand # "none", NEW k \in Tunnel, ~PidAlive(cmd[c].mem[k]),
         NEW r, Fit(r), r.caller = cmd[c].caller, r.host = cmd[c].host,
         r.mem = cmd[c].mem, r.hand = cmd[c].hand,
         NEW p \in Tunnel \cup {Service}, Found(c, k, p), cmd' = [cmd EXCEPT ![c] = Marked(r, k, p)]
  PROVE  CommandsFit' /\ WaitInv' /\ TunnelsTypeOK' /\ RecordsInv' /\ AccountInv'
<1> DEFINE s == Marked(r, k, p)
           h == cmd[c].host
           m == cmd[c].mem
<1>1. h \in Machine /\ m \in Records
  BY CommandFacts
<1>2. /\ Fit(s) /\ s.mem = [m EXCEPT ![k] = p] /\ s.hand = "dirty"
      /\ s.host = h /\ s.caller = cmd[c].caller
  <2>1. p \in Pid \cup {NoPid}
    BY DEF Pid
  <2> QED
    BY <2>1, FitMarked
<1>3. cmd' = [cmd EXCEPT ![c] = s]
  OBVIOUS
<1> HIDE DEF s
<1>4. /\ CommandsFit' /\ WaitInv' /\ Active' = Active
      /\ cmd'[c] = s /\ \A d \in Slot \ {c} : cmd'[d] = cmd[d]
  <2>1. Put(c, s) /\ Fit(s) /\ s.caller = cmd[c].caller
    BY <1>2, <1>3 DEF Put
  <2> QED
    BY <2>1, PutAlone
<1>5. \A d \in Active \ {c} : cmd'[d] = cmd[d]
  BY <1>4 DEF Active
<1>6. /\ ssh' \in [Machine -> SUBSET Tunnel]
      /\ ssh[h] \subseteq ssh'[h] /\ ssh'[h] \subseteq ssh[h] \cup (IF p = k THEN {k} ELSE {})
      /\ p \in Tunnel => p \in ssh'[h]
      /\ \A g \in Machine \ {h} : ssh'[g] = ssh[g]
  BY <1>1, InvParts DEF Found
<1>7. TunnelsTypeOK'
  BY <1>6, InvParts DEF TunnelsTypeOK
<1>8. unix' = unix
  BY DEF setup
<1>9. RecordsInv'
  <2>1. Honest(h, unix, ssh'[h], s.mem)
    <3>1. Honest(h, unix, ssh'[h], m)
      BY <1>6, HonestMore DEF Inv, RecordsInv
    <3>2. p \in {k, NoPid} \/ (h \notin unix /\ k.mode # "reverse")
      BY DEF Found
    <3> HIDE DEF h, m
    <3> QED
      BY <1>1, <1>2, <1>6, <3>1, <3>2, HonestChanged
  <2>2. \A g \in Machine : ssh[g] \subseteq ssh'[g]
    BY <1>6
  <2>3. ASSUME NEW d \in Active
        PROVE  Honest(cmd'[d].host, unix, ssh'[cmd'[d].host], cmd'[d].mem)
    <3>1. cmd[d].host \in Machine /\ Honest(cmd[d].host, unix, ssh[cmd[d].host], cmd[d].mem)
      BY CommandFacts DEF Inv, RecordsInv
    <3>2. Honest(cmd[d].host, unix, ssh'[cmd[d].host], cmd[d].mem)
      BY <2>2, <3>1 DEF Honest
    <3> QED
      BY <1>2, <1>4, <1>5, <2>1, <3>2
  <2>4. \A g \in Machine : Honest(g, unix, ssh'[g], saved'[g])
    BY <2>2, HonestMore DEF Inv, RecordsInv
  <2> QED
    BY <1>4, <1>8, <2>3, <2>4 DEF RecordsInv
<1>10. m[k] \notin Tunnel
  BY DEF PidAlive
<1>11. (\A t \in Listed(m) : t \in Listed(s.mem)) /\ (p = k => k \in Listed(s.mem))
  <2>1. \A t \in Listed(m) : t # m[k]
    BY <1>10 DEF Listed
  <2>2. /\ p = k => k \in Listed([m EXCEPT ![k] = p])
        /\ \A t \in Listed(m) : t # m[k] => t \in Listed([m EXCEPT ![k] = p])
    BY <1>1, ListedChanged
  <2> QED
    BY <1>2, <2>1, <2>2
<1>12. \A g : Holding(g)' = Holding(g)
  BY <1>2, <1>4, <1>5 DEF Holding
<1>13. c \in Holding(h)
  BY DEF Holding
<1> HIDE DEF h, m
<1>14. ASSUME NEW g \in Machine, tidy[g]
       PROVE  /\ \A d, e \in Holding(g) : d = e
              /\ \A d \in Holding(g) : ssh'[g] \subseteq Listed(cmd'[d].mem)
              /\ (\A d \in Holding(g) : cmd'[d].hand = "copy") => ssh'[g] \subseteq Listed(saved[g])
  <2>1. /\ \A d, e \in Holding(g) : d = e
        /\ \A d \in Holding(g) : ssh[g] \subseteq Listed(cmd[d].mem)
        /\ (\A d \in Holding(g) : cmd[d].hand = "copy") => ssh[g] \subseteq Listed(saved[g])
    BY <1>14 DEF Inv, AccountInv
  <2>2. CASE g # h
    <3>1. \A d \in Holding(g) : d \in Active \ {c}
      BY <2>2 DEF Holding, h
    <3> QED
      BY <1>5, <1>6, <2>1, <2>2, <3>1
  <2>3. CASE g = h
    <3>1. \A d \in Holding(g) : d = c
      BY <1>13, <2>1, <2>3
    <3>2. ssh[h] \subseteq Listed(m)
      BY <1>13, <2>1, <2>3 DEF m
    <3>3. ssh'[h] \subseteq Listed(s.mem)
      BY <1>6, <1>11, <3>2
    <3> QED
      BY <1>2, <1>4, <1>13, <2>3, <3>1, <3>3
  <2> QED
    BY <2>2, <2>3
<1>15. AccountInv'
  BY <1>12, <1>14 DEF AccountInv
<1> QED
  BY <1>4, <1>7, <1>9, <1>15

LEMMA ListenersLemma ==
  ASSUME NEW m, NEW n, NEW l \in Listeners(m, n)
  PROVE  l[2] \in Tunnel \cup {Service} /\ (l[2] \in Tunnel => l[2] \in ssh[l[1]])
BY DEF Listeners

\* start_tunnel_spec leaves every tunnel accounted for, whichever way it goes.
LEMMA OpenKept ==
  ASSUME Inv, UNCHANGED <<setup, running, saved>>, NEW c \in Active, ~At(c, "wait"),
         cmd[c].hand # "none", NEW t \in Tunnel,
         NEW r, Fit(r), r.caller = cmd[c].caller, r.host = cmd[c].host,
         r.mem = cmd[c].mem, r.hand = cmd[c].hand, Open(c, t, r)
  PROVE  /\ CommandsFit' /\ WaitInv' /\ TunnelsTypeOK' /\ RecordsInv' /\ AccountInv'
         /\ tidy' \in [Machine -> BOOLEAN]
<1> DEFINE h == cmd[c].host
           Recorded(p) == cmd' = [cmd EXCEPT ![c] = Marked(r, t, p)]
<1>1. \/ Put(c, r) /\ UNCHANGED <<ssh, tidy>>
      \/ /\ ~PidAlive(cmd[c].mem[t]) /\ Recorded(t) /\ tidy' = tidy
         /\ ssh' = [ssh EXCEPT ![h] = @ \cup {t}]
      \/ Fail(c) /\ UNCHANGED ssh
      \/ /\ ~PidAlive(cmd[c].mem[t]) /\ h \notin unix /\ t.mode # "reverse"
         /\ UNCHANGED <<ssh, tidy>>
         /\ \E l \in Listeners(h, t.port) : l[1] = h /\ Recorded(l[2])
  BY DEF Open, TunnelKey, Put, Marked
<1>2. CASE Put(c, r) /\ UNCHANGED <<ssh, tidy>>
  BY <1>2, PutKept, InvParts
<1>3. CASE /\ ~PidAlive(cmd[c].mem[t]) /\ Recorded(t) /\ tidy' = tidy
           /\ ssh' = [ssh EXCEPT ![h] = @ \cup {t}]
  <2>1. Found(c, t, t)
    BY <1>3 DEF Found
  <2> QED
    BY <1>3, <2>1, RecordKept, InvParts
<1>4. CASE Fail(c) /\ UNCHANGED ssh
  BY <1>4, FailKept
<1>5. CASE /\ ~PidAlive(cmd[c].mem[t]) /\ h \notin unix /\ t.mode # "reverse"
           /\ UNCHANGED <<ssh, tidy>>
           /\ \E l \in Listeners(h, t.port) : l[1] = h /\ Recorded(l[2])
  <2>1. PICK l \in Listeners(h, t.port) : l[1] = h /\ Recorded(l[2])
    BY <1>5
  <2>2. l[2] \in Tunnel \cup {Service} /\ (l[2] \in Tunnel => l[2] \in ssh[h])
    BY <2>1, ListenersLemma
  <2>3. Found(c, t, l[2])
    BY <1>5, <2>2 DEF Found
  <2> QED
    BY <1>5, <2>1, <2>2, <2>3, RecordKept, InvParts
<1> QED
  BY <1>1, <1>2, <1>3, <1>4, <1>5

\* A tunnel is opened to a machine.
LEMMA TargetKnown ==
  ASSUME Inv, NEW c, At(c, "tunnel")
  PROVE  cmd[c].to \in Machine
<1>1. /\ Head(cmd[c].plan) = "tunnel" /\ Fit(cmd[c])
      /\ cmd[c].to \in Machine \cup {Nobody}
  BY AtFacts, CommandFacts
<1>2. cmd[c].plan[1] = "tunnel" /\ 1 \in 1 .. Len(cmd[c].plan)
  BY <1>1 DEF Fit, Orderly
<1>3. ~Called(cmd[c].plan)
  BY <1>2 DEF Called
<1> QED
  BY <1>1, <1>3 DEF Fit

LEMMA OnwardKept ==
  ASSUME Inv, UNCHANGED <<setup, running, ssh, saved, tidy>>, NEW c,
         NEW stage \in Working \ {"save"}, At(c, stage), Put(c, Onward(cmd[c]))
  PROVE  /\ CommandsFit' /\ WaitInv' /\ TunnelsTypeOK' /\ RecordsInv' /\ AccountInv'
         /\ tidy' \in [Machine -> BOOLEAN]
<1> DEFINE r == Onward(cmd[c])
<1>1. c \in Active /\ ~At(c, "wait") /\ Fit(cmd[c])
  BY AtFacts, CommandFacts DEF Working
<1>2. Head(cmd[c].plan) \notin {"ok", "failed", "call", "load", "save"}
  BY AtFacts DEF Working
<1>3. /\ Fit(r) /\ r.caller = cmd[c].caller /\ r.host = cmd[c].host
      /\ r.mem = cmd[c].mem /\ r.hand = cmd[c].hand
  BY <1>1, <1>2, FitOnward
<1> HIDE DEF r
<1>4. Put(c, r)
  BY DEF r
<1> QED
  BY <1>1, <1>3, <1>4, PutKept, InvParts

LEMMA OpenReverseInv ==
  ASSUME Inv, NEW c \in Slot, OpenReverse(c)
  PROVE  Inv'
<1>1. UNCHANGED <<setup, running, saved, faults>> /\ At(c, "reverse")
  BY DEF OpenReverse
<1>2. c \in Active /\ ~At(c, "wait") /\ cmd[c].hand # "none" /\ Fit(cmd[c])
  BY <1>1, AtFacts, CommandFacts DEF Working
<1>3. /\ CommandsFit' /\ WaitInv' /\ TunnelsTypeOK' /\ RecordsInv' /\ AccountInv'
      /\ tidy' \in [Machine -> BOOLEAN]
  <2>1. CASE cmd[c].todo = {}
    <3>1. Put(c, Onward(cmd[c])) /\ UNCHANGED <<ssh, tidy>>
      BY <2>1 DEF OpenReverse
    <3>2. "reverse" \in Working \ {"save"}
      BY DEF Working
    <3> QED
      BY <1>1, <3>1, <3>2, OnwardKept
  <2>2. CASE cmd[c].todo # {}
    <3> DEFINE q == First(cmd[c].todo)
               T == cmd[c].todo \ {q}
               r == [cmd[c] EXCEPT !.todo = T]
    <3>1. q \in Machine /\ T \in SUBSET Machine
      BY <1>2, <2>2, CommandFacts, LeastIsMember
    <3>2. Open(c, Reverse(q), r)
      BY <2>2 DEF OpenReverse
    <3>3. Reverse(q) \in Tunnel
      BY <3>1 DEF Tunnel
    <3> HIDE DEF T
    <3>4. /\ Fit(r) /\ r.caller = cmd[c].caller /\ r.host = cmd[c].host
          /\ r.mem = cmd[c].mem /\ r.hand = cmd[c].hand
      BY <1>2, <3>1, FitTodo
    <3> HIDE DEF r, q
    <3> QED
      BY <1>1, <1>2, <3>2, <3>3, <3>4, OpenKept
  <2> QED
    BY <2>1, <2>2
<1> QED
  BY <1>1, <1>3, TypeKept, InvParts DEF Inv, TypeInv

LEMMA OpenLocalInv ==
  ASSUME Inv, NEW c \in Slot, OpenLocal(c)
  PROVE  Inv'
<1> DEFINE r == Onward(cmd[c])
           t == Local(cmd[c].to, cmd[c].port)
<1>1. UNCHANGED <<setup, running, saved, faults>> /\ At(c, "tunnel")
  BY DEF OpenLocal
<1>2. /\ c \in Active /\ ~At(c, "wait") /\ cmd[c].hand # "none" /\ Fit(cmd[c])
      /\ Head(cmd[c].plan) = "tunnel"
  BY <1>1, AtFacts, CommandFacts DEF Working
<1>3. t \in Tunnel
  BY <1>1, <1>2, TargetKnown, CommandFacts DEF Tunnel
<1>4. /\ Fit(r) /\ r.caller = cmd[c].caller /\ r.host = cmd[c].host
      /\ r.mem = cmd[c].mem /\ r.hand = cmd[c].hand
  BY <1>2, FitOnward
<1>5. "tunnel" \in Working \ {"save"}
  BY DEF Working
<1>6. \/ Put(c, r) /\ UNCHANGED <<ssh, tidy>>
      \/ Fail(c) /\ UNCHANGED ssh
      \/ Open(c, t, r)
  BY DEF OpenLocal
<1>7. CASE Put(c, r) /\ UNCHANGED <<ssh, tidy>>
  <2>1. /\ CommandsFit' /\ WaitInv' /\ TunnelsTypeOK' /\ RecordsInv' /\ AccountInv'
        /\ tidy' \in [Machine -> BOOLEAN]
    BY <1>1, <1>5, <1>7, OnwardKept
  <2> QED
    BY <1>1, <2>1, TypeKept, InvParts DEF Inv, TypeInv
<1>8. CASE Fail(c) /\ UNCHANGED ssh
  BY <1>1, <1>2, <1>8, FailKept, TypeKept, InvParts DEF Inv, TypeInv
<1>9. CASE Open(c, t, r)
  <2> HIDE DEF r, t
  <2>1. /\ CommandsFit' /\ WaitInv' /\ TunnelsTypeOK' /\ RecordsInv' /\ AccountInv'
        /\ tidy' \in [Machine -> BOOLEAN]
    BY <1>1, <1>2, <1>3, <1>4, <1>9, OpenKept
  <2> QED
    BY <1>1, <2>1, TypeKept, InvParts DEF Inv, TypeInv
<1> QED
  BY <1>6, <1>7, <1>8, <1>9

LEMMA ProbeInv ==
  ASSUME Inv, NEW c \in Slot, Probe(c)
  PROVE  Inv'
<1> DEFINE r == IF ReverseListener(c) THEN [cmd[c] EXCEPT !.plan = <<"ok">>] ELSE Onward(cmd[c])
<1>1. UNCHANGED <<setup, tunnelVars, tidy, faults>> /\ At(c, "probe") /\ Put(c, r)
  BY DEF Probe
<1>2. UNCHANGED <<setup, running, ssh, saved, tidy, faults>>
  BY <1>1 DEF tunnelVars
<1>3. /\ c \in Active /\ ~At(c, "wait") /\ cmd[c].hand = "none" /\ Fit(cmd[c])
      /\ Head(cmd[c].plan) = "probe"
  BY <1>1, AtFacts, CommandFacts
<1>4. /\ Fit(r) /\ r.caller = cmd[c].caller /\ r.host = cmd[c].host
      /\ r.mem = cmd[c].mem /\ r.hand = cmd[c].hand
  BY <1>3, FitProbe, FitOnward
<1> HIDE DEF r
<1>5. CommandsFit' /\ WaitInv' /\ TunnelsTypeOK' /\ RecordsInv' /\ AccountInv'
  BY <1>1, <1>2, <1>3, <1>4, PutKept, InvParts
<1> QED
  BY <1>2, <1>5, TypeKept, InvParts DEF Inv, TypeInv

LEMMA HaltInv ==
  ASSUME Inv, NEW c \in Slot, Halt(c)
  PROVE  Inv'
<1> DEFINE h == cmd[c].host
           M == Mourn(cmd, h, Service)
           r == Onward(M[c])
<1>1. UNCHANGED <<setup, tidy, faults>> /\ At(c, "halt") /\ End(h, Service)
  BY DEF Halt
<1>2. /\ c \in Active /\ ~At(c, "wait") /\ cmd[c].hand # "none" /\ Fit(cmd[c])
      /\ Head(cmd[c].plan) = "halt" /\ h \in Machine
  BY <1>1, AtFacts, CommandFacts DEF Working
<1>3. /\ Similar(M)
      /\ \A d \in Active : /\ M[d].hand = cmd[d].hand
                           /\ M[d].mem = IF cmd[d].host = h THEN Buried(cmd[d].mem, Service)
                                         ELSE cmd[d].mem
  BY InvParts, SimilarSame, SimilarMourn
<1>4. cmd' = [M EXCEPT ![c] = r]
  BY DEF Halt
<1> HIDE DEF M
<1>5. /\ Fit(r) /\ r.caller = cmd[c].caller /\ r.host = cmd[c].host
      /\ r.mem = M[c].mem /\ r.hand = M[c].hand
  BY <1>2, <1>3, FitOnward, ZenonT(60) DEF Similar
<1> HIDE DEF r
<1>6. /\ CommandsFit' /\ WaitInv' /\ Active' = Active
      /\ cmd'[c] = r /\ \A d \in Slot \ {c} : cmd'[d] = M[d]
  <2>1. CommandsFit /\ WaitInv /\ c \in Active /\ ~At(c, "wait")
    BY <1>2, InvParts
  <2> QED
    BY <1>3, <1>4, <1>5, <2>1, PutFit, ZenonT(60)
<1>7. \A d \in Active : /\ cmd'[d].host = cmd[d].host /\ cmd'[d].hand = cmd[d].hand
                        /\ cmd'[d].mem = IF cmd[d].host = h THEN Buried(cmd[d].mem, Service)
                                         ELSE cmd[d].mem
  BY <1>3, <1>5, <1>6 DEF Active, Similar
<1>8. TunnelsTypeOK' /\ RecordsInv' /\ AccountInv'
  <2>1. Service \in Tunnel \cup {Service} /\ UNCHANGED <<setup, tidy>>
    BY <1>1
  <2> HIDE DEF h
  <2> QED
    BY <1>1, <1>2, <1>6, <1>7, <2>1, Buries
<1> QED
  BY <1>1, <1>6, <1>8, TypeKept, InvParts DEF Inv, TypeInv

\* Command c, once it has taken the record of k out of its copy.
Removed(c, k) == [cmd EXCEPT ![c] = Marked(cmd[c], k, NoPid)]

LEMMA StopCases ==
  ASSUME Inv, NEW c \in Slot, Stop(c)
  PROVE  \/ Victims(c) = {} /\ Put(c, Onward(cmd[c])) /\ UNCHANGED tunnelVars
         \/ \E k \in Victims(c) :
              IF PidAlive(cmd[c].mem[k])
                THEN /\ cmd' = Mourn(Removed(c, k), cmd[c].host, cmd[c].mem[k])
                     /\ End(cmd[c].host, cmd[c].mem[k])
                ELSE cmd' = Removed(c, k) /\ UNCHANGED tunnelVars
<1>1. CASE Victims(c) = {}
  BY <1>1 DEF Stop
<1>2. CASE Victims(c) # {}
  <2> DEFINE k == CHOOSE k \in Victims(c) : TRUE
             removed == [cmd EXCEPT ![c].mem[k] = NoPid, ![c].hand = "dirty"]
  <2>1. k \in Victims(c)
    BY <1>2
  <2>2. IF PidAlive(cmd[c].mem[k])
          THEN cmd' = Mourn(removed, cmd[c].host, cmd[c].mem[k]) /\ End(cmd[c].host, cmd[c].mem[k])
          ELSE cmd' = removed /\ UNCHANGED tunnelVars
    BY <1>2 DEF Stop
  <2> HIDE DEF k
  <2>3. removed = Removed(c, k)
    BY InvParts DEF Removed, Marked, CommandsFit
  <2> QED
    BY <2>1, <2>2, <2>3
<1> QED
  BY <1>1, <1>2

LEMMA RemovedFacts ==
  ASSUME Inv, NEW c \in Active, cmd[c].hand # "none", NEW k \in Tunnel
  PROVE  /\ Similar(Removed(c, k)) /\ Removed(c, k)[c].hand = "dirty"
         /\ Removed(c, k)[c].mem = [cmd[c].mem EXCEPT ![k] = NoPid]
         /\ \A d \in Active \ {c} : Removed(c, k)[d] = cmd[d]
<1> DEFINE s == Marked(cmd[c], k, NoPid)
           R == Removed(c, k)
<1>1. Fit(cmd[c]) /\ c \in Slot
  BY CommandFacts
<1>2. /\ Fit(s) /\ s.hand = "dirty" /\ s.mem = [cmd[c].mem EXCEPT ![k] = NoPid]
      /\ Same(s, cmd[c]) /\ s.plan = cmd[c].plan /\ s.caller = cmd[c].caller
  BY <1>1, FitMarked
<1> HIDE DEF s
<1>3. R \in [Slot -> Commands \cup {NoCommand}] /\ R[c] = s /\ \A d \in Slot \ {c} : R[d] = cmd[d]
  BY <1>1, <1>2, InvParts DEF Removed, CommandsFit, Fit, s
<1> HIDE DEF R
<1>4. Similar(R)
  BY <1>2, <1>3, CommandFacts DEF Similar, Active
<1>5. \A d \in Active \ {c} : R[d] = cmd[d]
  BY <1>3 DEF Active
<1> QED
  BY <1>2, <1>3, <1>4, <1>5 DEF R

LEMMA StopInv ==
  ASSUME Inv, NEW c \in Slot, Stop(c)
  PROVE  Inv'
<1> DEFINE h == cmd[c].host
           m == cmd[c].mem
<1>1. UNCHANGED <<setup, tidy, faults>> /\ At(c, "stop") /\ unix' = unix /\ tidy' = tidy
  BY DEF Stop, setup
<1>2. /\ c \in Active /\ ~At(c, "wait") /\ cmd[c].hand # "none" /\ h \in Machine /\ m \in Records
  BY <1>1, AtFacts, CommandFacts DEF Working
<1>3. "stop" \in Working \ {"save"}
  BY DEF Working
<1>4. CASE Put(c, Onward(cmd[c])) /\ UNCHANGED tunnelVars
  <2>1. UNCHANGED <<setup, running, ssh, saved, tidy, faults>>
    BY <1>1, <1>4 DEF tunnelVars
  <2>2. CommandsFit' /\ WaitInv' /\ TunnelsTypeOK' /\ RecordsInv' /\ AccountInv'
    BY <1>1, <1>3, <1>4, <2>1, OnwardKept
  <2> QED
    BY <2>1, <2>2, TypeKept, InvParts DEF Inv, TypeInv
<1>5. ASSUME NEW k \in Victims(c),
             IF PidAlive(m[k]) THEN cmd' = Mourn(Removed(c, k), h, m[k]) /\ End(h, m[k])
                               ELSE cmd' = Removed(c, k) /\ UNCHANGED tunnelVars
      PROVE  Inv'
  <2> DEFINE p == m[k]
             R == Removed(c, k)
             n == [m EXCEPT ![k] = NoPid]
  <2>1. k \in Tunnel /\ p \in Pid \cup {NoPid}
    BY <1>2 DEF Victims, Records
  <2>2. /\ Similar(R) /\ R[c].hand = "dirty" /\ R[c].mem = n
        /\ \A d \in Active \ {c} : R[d] = cmd[d]
    BY <1>2, <2>1, RemovedFacts
  <2>3. /\ n \in Records /\ Honest(h, unix, ssh[h], n)
        /\ \A t \in Listed(m) : t # p => t \in Listed(n)
    <3>1. n \in Records
      BY <1>2, <2>1 DEF Records
    <3>2. Honest(h, unix, ssh[h], n)
      <4>1. Honest(h, unix, ssh[h], m) /\ NoPid \notin Tunnel
        BY <1>2 DEF Inv, RecordsInv
      <4> QED
        BY <1>2, <2>1, <4>1, HonestChanged
    <3> QED
      BY <1>2, <2>1, <3>1, <3>2, ListedChanged
  <2> HIDE DEF R, n
  \* What is left of the tunnels and records.
  <2>4. /\ CommandsFit' /\ WaitInv' /\ Active' = Active /\ TunnelsTypeOK'
        /\ \A d \in Active : cmd'[d].host = cmd[d].host
        /\ cmd'[c].hand = "dirty" /\ \A d \in Active \ {c} : cmd'[d].hand = cmd[d].hand
        /\ ssh'[h] \subseteq ssh[h] \ {p} /\ \A g \in Machine \ {h} : ssh'[g] = ssh[g] /\ saved'[g] = saved[g]
        /\ Honest(h, unix, ssh'[h], saved'[h])
        /\ Honest(h, unix, ssh'[h], cmd'[c].mem)
        /\ \A t \in Listed(m) : t # p => t \in Listed(cmd'[c].mem)
        /\ \A d \in Active \ {c} : IF cmd[d].host = h THEN Honest(h, unix, ssh'[h], cmd'[d].mem)
                                   ELSE cmd'[d].mem = cmd[d].mem
    <3>0. /\ Honest(h, unix, ssh[h], saved[h])
          /\ \A d \in Active : cmd[d].host = h => Honest(h, unix, ssh[h], cmd[d].mem)
      BY <1>2 DEF Inv, RecordsInv
    <3>1. CASE PidAlive(p)
      <4> DEFINE M == Mourn(R, h, p)
      <4>1. cmd' = M /\ End(h, p)
        BY <1>5, <3>1 DEF R
      <4>2. /\ Similar(M)
            /\ \A d \in Active : /\ M[d].hand = R[d].hand
                                 /\ M[d].mem = IF cmd[d].host = h THEN Buried(R[d].mem, p)
                                               ELSE R[d].mem
        BY <2>2, SimilarMourn
      <4> HIDE DEF M
      <4>3. CommandsFit' /\ WaitInv' /\ Active' = Active
        BY <4>1, <4>2, InvParts, SettleFit
      <4>4. /\ \A d \in Active : cmd'[d].host = cmd[d].host
            /\ cmd'[c].hand = "dirty" /\ \A d \in Active \ {c} : cmd'[d].hand = cmd[d].hand
        BY <1>2, <2>2, <4>1, <4>2 DEF Similar
      <4>5. /\ ssh' = [ssh EXCEPT ![h] = @ \ {p}] /\ saved' = [saved EXCEPT ![h] = Buried(@, p)]
            /\ running' \in [Machine -> BOOLEAN]
        BY <1>2, <4>1, InvParts DEF End
      <4>6. ssh' \in [Machine -> SUBSET Tunnel] /\ saved' \in [Machine -> Records]
        BY <1>2, <4>5, InvParts, BuriedType
      <4>7. /\ ssh'[h] = ssh[h] \ {p} /\ saved'[h] = Buried(saved[h], p)
            /\ \A g \in Machine \ {h} : ssh'[g] = ssh[g] /\ saved'[g] = saved[g]
        BY <1>2, <4>5, InvParts
      <4>8. cmd'[c].mem = Buried(n, p)
        BY <1>2, <2>2, <4>1, <4>2
      <4>9. \A t \in Listed(m) : t # p => t \in Listed(cmd'[c].mem)
        BY <2>3, <4>8, ListedBuried
      <4>10. \A d \in Active \ {c} :
               IF cmd[d].host = h THEN Honest(h, unix, ssh'[h], cmd'[d].mem)
               ELSE cmd'[d].mem = cmd[d].mem
        BY <2>2, <3>0, <4>1, <4>2, <4>7, HonestBuried
      <4>11. TunnelsTypeOK'
        BY <4>5, <4>6 DEF TunnelsTypeOK
      <4>12. Honest(h, unix, ssh'[h], saved'[h]) /\ Honest(h, unix, ssh'[h], cmd'[c].mem)
        BY <2>3, <3>0, <4>7, <4>8, HonestBuried
      <4> QED
        BY <4>3, <4>4, <4>7, <4>9, <4>10, <4>11, <4>12
    <3>2. CASE ~PidAlive(p)
      <4>1. cmd' = R /\ running' = running /\ ssh' = ssh /\ saved' = saved
        BY <1>5, <3>2 DEF R, tunnelVars
      <4>2. CommandsFit' /\ WaitInv' /\ Active' = Active
        BY <2>2, <4>1, InvParts, SettleFit
      <4>3. /\ \A d \in Active : cmd'[d].host = cmd[d].host
            /\ cmd'[c].hand = "dirty" /\ \A d \in Active \ {c} : cmd'[d].hand = cmd[d].hand
        BY <1>2, <2>2, <4>1 DEF Similar
      <4>4. p \notin Tunnel
        BY <3>2 DEF PidAlive
      <4>5. ssh'[h] \subseteq ssh[h] \ {p}
        <5>1. ssh[h] \subseteq Tunnel
          BY <1>2, InvParts
        <5> QED
          BY <4>1, <4>4, <5>1
      <4>6. TunnelsTypeOK'
        BY <4>1, InvParts DEF TunnelsTypeOK
      <4> QED
        BY <1>2, <2>2, <2>3, <3>0, <4>1, <4>2, <4>3, <4>5, <4>6
    <3> QED
      BY <3>1, <3>2
  <2>5. RecordsInv'
    <3>1. \A g \in Machine : Honest(g, unix, ssh'[g], saved'[g])
      BY <2>4 DEF Inv, RecordsInv
    <3>2. ASSUME NEW d \in Active
          PROVE  Honest(cmd'[d].host, unix, ssh'[cmd'[d].host], cmd'[d].mem)
      <4>1. cmd[d].host \in Machine /\ Honest(cmd[d].host, unix, ssh[cmd[d].host], cmd[d].mem)
        BY CommandFacts DEF Inv, RecordsInv
      <4>2. CASE d = c
        BY <2>4, <4>2
      <4>3. CASE d # c /\ cmd[d].host = h
        BY <2>4, <4>3
      <4>4. CASE d # c /\ cmd[d].host # h
        <5>1. cmd'[d].mem = cmd[d].mem /\ cmd'[d].host = cmd[d].host
              /\ ssh'[cmd[d].host] = ssh[cmd[d].host]
          BY <2>4, <4>1, <4>4
        <5> QED
          BY <4>1, <5>1
      <4> QED
        BY <4>2, <4>3, <4>4
    <3> QED
      BY <1>1, <2>4, <3>1, <3>2 DEF RecordsInv
  <2>6. \A g : Holding(g)' = Holding(g)
    <3>1. Active' = Active /\ \A d \in Active : cmd'[d].host = cmd[d].host
      BY <2>4
    <3>2. \A d \in Active : cmd'[d].hand # "none" <=> cmd[d].hand # "none"
      BY <1>2, <2>4
    <3> QED
      BY <3>1, <3>2 DEF Holding
  <2>7. c \in Holding(h)
    BY <1>2 DEF Holding
  <2> HIDE DEF h, m, p
  <2>8. ASSUME NEW g \in Machine, tidy[g]
        PROVE  /\ \A d, e \in Holding(g) : d = e
               /\ \A d \in Holding(g) : ssh'[g] \subseteq Listed(cmd'[d].mem)
               /\ (\A d \in Holding(g) : cmd'[d].hand = "copy") => ssh'[g] \subseteq Listed(saved'[g])
    <3>1. /\ \A d, e \in Holding(g) : d = e
          /\ \A d \in Holding(g) : ssh[g] \subseteq Listed(cmd[d].mem)
          /\ (\A d \in Holding(g) : cmd[d].hand = "copy") => ssh[g] \subseteq Listed(saved[g])
      BY <2>8 DEF Inv, AccountInv
    <3>2. CASE g # h
      <4>1. \A d \in Holding(g) : d \in Active \ {c} /\ cmd[d].host # h
        BY <3>2 DEF Holding, h
      <4> QED
        BY <2>4, <3>1, <3>2, <4>1
    <3>3. CASE g = h
      <4>1. \A d \in Holding(g) : d = c
        BY <2>7, <3>1, <3>3
      <4>2. ssh[h] \subseteq Listed(m)
        BY <2>7, <3>1, <3>3 DEF m
      <4>3. ssh'[h] \subseteq Listed(cmd'[c].mem)
        BY <2>4, <4>2
      <4> QED
        BY <2>4, <2>7, <3>3, <4>1, <4>3
    <3> QED
      BY <3>2, <3>3
  <2>9. AccountInv'
    BY <1>1, <2>6, <2>8 DEF AccountInv
  <2> QED
    BY <1>1, <2>4, <2>5, <2>9, TypeKept, InvParts DEF Inv, TypeInv
<1> QED
  BY <1>4, <1>5, StopCases

----
(***************************************************************************)
(* Asking the owner.                                                       *)
(***************************************************************************)
\* Command c once it waits for the answer to its call.
Waiting(r) == [r EXCEPT !.plan = <<"wait">> \o Tail(@)]

LEMMA AskInv ==
  ASSUME Inv, NEW c \in Slot, Ask(c)
  PROVE  Inv'
<1>1. UNCHANGED <<setup, tunnelVars, faults>> /\ At(c, "call")
  BY DEF Ask
<1>2. /\ c \in Active /\ ~At(c, "wait") /\ Fit(cmd[c]) /\ Head(cmd[c].plan) = "call"
      /\ cmd[c].to \in Machine \cup {Nobody} /\ cmd[c].clean \in BOOLEAN
  BY <1>1, AtFacts, CommandFacts
<1>3. UNCHANGED <<setup, running, ssh, saved, faults>>
  BY <1>1 DEF tunnelVars
<1>4. CASE cmd[c].to = Nobody
  <2>1. Fail(c)
    BY <1>4 DEF Ask
  <2> QED
    BY <1>2, <1>3, <2>1, FailKept, TypeKept, InvParts DEF Inv, TypeInv
<1>5. CASE cmd[c].to # Nobody
  <2> DEFINE g == cmd[c].to
             new == Command(g, "plain", Asked(c), FirstKnowing(g), "fixed", c, cmd[c].clean)
             r == Waiting(cmd[c])
  <2>1. /\ tidy' = tidy
        /\ \E d \in Slot : /\ FreeSlot(d)
                           /\ cmd' = [cmd EXCEPT ![c].plan = <<"wait">> \o Tail(@), ![d] = new]
    BY <1>5 DEF Ask
  <2>2. PICK d \in Slot : /\ d \notin Active
                          /\ cmd' = [cmd EXCEPT ![c].plan = <<"wait">> \o Tail(@), ![d] = new]
    BY <2>1 DEF FreeSlot
  <2>3. g \in Machine /\ FirstKnowing(g) \in Machine \cup {Nobody}
        /\ (Knowing(g) = {} \/ FirstKnowing(g) \in Knowing(g))
    BY <1>2, <1>5, FirstKnowingLemma
  <2>4. /\ Fit(new) /\ new.host = g /\ new.mem = NoRecord /\ new.hand = "none"
        /\ new.caller = c
    <3>1. Asked(c) \in Verb /\ "plain" \in Form /\ "fixed" \in Port
      BY <1>2, CommandFacts DEF Asked, Verb, Form, Port
    <3>2. TypeOK /\ c \in Slot \cup {User, Lost} /\ cmd[c].clean \in BOOLEAN
      BY <1>2, InvParts
    <3> HIDE DEF g
    <3>3. "plain" = "target" \/ record[g] = Nobody
            => Knowing(g) = {} \/ FirstKnowing(g) \in Knowing(g)
      BY <2>3
    <3>4. Fit(new)
      BY <2>3, <3>1, <3>2, <3>3, FitCommand
    <3>5. new.host = g /\ new.mem = NoRecord /\ new.hand = "none" /\ new.caller = c
      BY DEF Command
    <3> QED
      BY <3>4, <3>5
  <2>5. /\ Fit(r) /\ Head(r.plan) = "wait" /\ r.host = cmd[c].host /\ r.mem = cmd[c].mem
        /\ r.hand = cmd[c].hand /\ r.caller = cmd[c].caller
    BY <1>2, <1>5, FitWait DEF Waiting
  <2>6. c # d /\ c \in Slot
    BY <1>2, <2>2
  <2>7. cmd' = [cmd EXCEPT ![c] = r, ![d] = new]
    BY <2>2, <2>6, InvParts DEF Waiting, CommandsFit
  <2> HIDE DEF new, r
  <2>8. cmd'[c] = r /\ cmd'[d] = new /\ \A e \in Slot \ {c, d} : cmd'[e] = cmd[e]
    BY <2>6, <2>7, InvParts DEF CommandsFit
  <2>9. cmd' \in [Slot -> Commands \cup {NoCommand}]
    BY <2>4, <2>5, <2>7, InvParts DEF CommandsFit, Fit
  <2>10. \A e \in Active \ {c} : cmd'[e] = cmd[e] /\ e # d
    BY <2>2, <2>8 DEF Active
  <2>11. Active' = Active \cup {d}
    <3>1. r # NoCommand /\ new # NoCommand
      BY <2>4, <2>5 DEF Fit
    <3> QED
      BY <1>2, <2>2, <2>8, <3>1 DEF Active
  <2>12. CommandsFit'
    <3>1. \A e \in Active' : Fit(cmd'[e])
      BY <2>4, <2>5, <2>8, <2>10, <2>11, InvParts DEF CommandsFit
    <3> QED
      BY <2>9, <3>1 DEF CommandsFit
  <2>13. WaitInv'
    <3>1. \A e \in Active : cmd[e].caller # c
      BY <1>2, InvParts DEF WaitInv
    <3>2. \A e \in Active : cmd'[e].caller = cmd[e].caller
      BY <2>5, <2>8, <2>10
    <3>3. \A e \in Active : Head(cmd[e].plan) = "wait" => Head(cmd'[e].plan) = "wait"
      BY <2>5, <2>8, <2>10
    <3>4. ASSUME NEW e \in Active', cmd'[e].caller \in Slot
          PROVE  /\ cmd'[e].caller \in Active' /\ Head(cmd'[cmd'[e].caller].plan) = "wait"
                 /\ cmd'[e].caller # e
                 /\ \A f \in Active' : cmd'[f].caller = cmd'[e].caller => f = e
      <4>1. CASE e = d
        <5>1. cmd'[e].caller = c /\ cmd'[c] = r
          BY <2>4, <2>8, <4>1
        <5>2. \A f \in Active' : cmd'[f].caller = c => f = d
          BY <2>11, <3>1, <3>2
        <5> QED
          BY <1>2, <2>5, <2>6, <2>11, <4>1, <5>1, <5>2
      <4>2. CASE e # d
        <5>1. e \in Active /\ cmd'[e].caller = cmd[e].caller
          BY <2>11, <3>2, <4>2
        <5>2. /\ cmd[e].caller \in Active /\ Head(cmd[cmd[e].caller].plan) = "wait"
              /\ cmd[e].caller # e
              /\ \A f \in Active : cmd[f].caller = cmd[e].caller => f = e
          BY <3>4, <5>1, InvParts DEF WaitInv, At
        <5>3. \A f \in Active' : cmd'[f].caller = cmd[e].caller => f = e
          BY <2>4, <2>8, <2>11, <3>1, <3>2, <5>1, <5>2
        <5> QED
          BY <2>11, <3>3, <5>1, <5>2, <5>3
      <4> QED
        BY <4>1, <4>2
    <3> QED
      BY <3>4 DEF WaitInv, At
  <2>14. RecordsInv' /\ AccountInv'
    <3>1. UNCHANGED <<setup, ssh, saved>> /\ \A h \in Machine : tidy'[h] => tidy[h]
      BY <1>3, <2>1
    <3>2. \A e \in Active' :
            \/ /\ e \in Active /\ cmd'[e].host = cmd[e].host
               /\ cmd'[e].mem = cmd[e].mem /\ cmd'[e].hand = cmd[e].hand
            \/ cmd'[e].mem = NoRecord /\ cmd'[e].hand = "none" /\ e \notin Active
      BY <2>2, <2>4, <2>5, <2>8, <2>10, <2>11
    <3> QED
      BY <2>11, <3>1, <3>2, Kept
  <2> QED
    BY <1>3, <2>1, <2>12, <2>13, <2>14, TypeKept, InvParts DEF Inv, TypeInv, TunnelsTypeOK
<1> QED
  BY <1>4, <1>5

LEMMA ReturnInv ==
  ASSUME Inv, NEW d \in Slot, Return(d)
  PROVE  Inv'
<1> DEFINE c == cmd[d].caller
           r == IF At(d, "ok") THEN Onward(cmd[c]) ELSE Failed(cmd[c])
<1>1. UNCHANGED <<setup, running, ssh, saved, faults>> /\ Ended(d)
  BY DEF Return, tunnelVars
<1>2. d \in Active /\ cmd[d].hand = "none" /\ ~At(d, "wait") /\ c \in Slot \cup {User, Lost}
  BY <1>1, AtFacts, CommandFacts DEF Ended
<1>3. \A e \in Active : cmd[e].caller \in Slot => cmd[e].caller # d
  BY <1>2, InvParts DEF WaitInv
<1>4. CASE c \in Slot
  <2>1. /\ c \in Active /\ c # d /\ At(c, "wait") /\ Fit(cmd[c])
        /\ \A e \in Active : cmd[e].caller = c => e = d
    <3>1. At(c, "wait") /\ c # d /\ \A e \in Active : cmd[e].caller = c => e = d
      BY <1>2, <1>4, InvParts DEF WaitInv
    <3> QED
      BY <3>1, AtFacts, CommandFacts
  <2>2. /\ cmd' = [cmd EXCEPT ![d] = NoCommand, ![c] = r]
        /\ IF At(d, "ok") THEN UNCHANGED tidy ELSE Losing(c)
    BY <1>4, <2>1, InvParts DEF Return, CommandsFit
  <2>3. /\ Fit(r) /\ r.host = cmd[c].host /\ r.caller = cmd[c].caller
        /\ IF At(d, "ok") THEN r.mem = cmd[c].mem /\ r.hand = cmd[c].hand
                          ELSE r.mem = NoRecord /\ r.hand = "none"
    <3>1. Head(cmd[c].plan) = "wait"
      BY <2>1 DEF At
    <3>2. /\ Fit(Onward(cmd[c])) /\ Onward(cmd[c]).host = cmd[c].host
          /\ Onward(cmd[c]).caller = cmd[c].caller /\ Onward(cmd[c]).mem = cmd[c].mem
          /\ Onward(cmd[c]).hand = cmd[c].hand
      BY <2>1, <3>1, FitOnward
    <3> QED
      BY <2>1, <3>2, FitFailed
  <2> HIDE DEF r, c
  <2>4. cmd'[c] = r /\ cmd'[d] = NoCommand /\ \A e \in Slot \ {c, d} : cmd'[e] = cmd[e]
    BY <1>4, <2>1, <2>2, InvParts DEF CommandsFit
  <2>5. cmd' \in [Slot -> Commands \cup {NoCommand}]
    BY <2>2, <2>3, InvParts DEF CommandsFit, Fit
  <2>6. \A e \in Active \ {c, d} : cmd'[e] = cmd[e]
    BY <2>4 DEF Active
  <2>7. Active' = Active \ {d}
    <3>1. r # NoCommand
      BY <2>3 DEF Fit
    <3> QED
      BY <1>4, <2>1, <2>4, <3>1 DEF Active
  <2>8. CommandsFit'
    <3>1. \A e \in Active' : Fit(cmd'[e])
      BY <2>3, <2>4, <2>6, <2>7, InvParts DEF CommandsFit
    <3> QED
      BY <2>5, <3>1 DEF CommandsFit
  <2>9. \A e \in Active' : cmd'[e].caller = cmd[e].caller
    BY <2>3, <2>4, <2>6, <2>7
  <2>10. WaitInv'
    <3>1. ASSUME NEW e \in Active', cmd'[e].caller \in Slot
          PROVE  /\ cmd[e].caller \in Active' /\ Head(cmd'[cmd[e].caller].plan) = "wait"
      <4>1. e \in Active /\ e # d /\ cmd[e].caller \in Slot
        BY <2>7, <2>9, <3>1
      <4>2. cmd[e].caller \notin {c, d}
        BY <1>3, <2>1, <4>1
      <4>3. cmd[e].caller \in Active /\ Head(cmd[cmd[e].caller].plan) = "wait"
        BY <4>1, InvParts DEF WaitInv, At
      <4> QED
        BY <2>6, <2>7, <4>2, <4>3
    <3> QED
      BY <2>7, <2>9, <3>1, WaitKept, InvParts
  <2>11. tidy' \in [Machine -> BOOLEAN] /\ RecordsInv' /\ AccountInv'
    <3>1. /\ tidy' \in [Machine -> BOOLEAN] /\ \A h \in Machine : tidy'[h] => tidy[h]
          /\ ~At(d, "ok") /\ cmd[c].hand = "dirty" => ~tidy'[cmd[c].host]
      BY <2>1, <2>2, LosingLemma, InvParts
    <3>2. UNCHANGED <<setup, ssh, saved>> /\ \A e \in Active \ Active' : cmd[e].hand = "none"
      BY <1>1, <1>2, <2>7
    <3>3. \A e \in Active' :
            \/ /\ e \in Active /\ cmd'[e].host = cmd[e].host
               /\ cmd'[e].mem = cmd[e].mem /\ cmd'[e].hand = cmd[e].hand
            \/ /\ cmd'[e].mem = NoRecord /\ cmd'[e].hand = "none"
               /\ e \in Active => cmd'[e].host = cmd[e].host
               /\ e \in Active /\ cmd[e].hand = "dirty" => ~tidy'[cmd[e].host]
      BY <2>3, <2>4, <2>6, <2>7, <3>1
    <3> QED
      BY <3>1, <3>2, <3>3, Kept
  <2> QED
    BY <1>1, <2>8, <2>10, <2>11, TypeKept, InvParts DEF Inv, TypeInv, TunnelsTypeOK
<1>5. CASE c \notin Slot
  <2>1. cmd' = [cmd EXCEPT ![d] = NoCommand] /\ tidy' = tidy
    BY <1>5 DEF Return, Put
  <2>2. cmd' \in [Slot -> Commands \cup {NoCommand}] /\ cmd'[d] = NoCommand
        /\ \A e \in Slot \ {d} : cmd'[e] = cmd[e]
    BY <2>1, InvParts DEF CommandsFit
  <2>3. Active' = Active \ {d} /\ \A e \in Active' : cmd'[e] = cmd[e]
    BY <2>2 DEF Active
  <2>4. CommandsFit'
    <3>1. \A e \in Active' : Fit(cmd'[e])
      BY <2>3, InvParts DEF CommandsFit
    <3> QED
      BY <2>2, <3>1 DEF CommandsFit
  <2>5. WaitInv'
    <3>1. ASSUME NEW e \in Active', cmd'[e].caller \in Slot
          PROVE  /\ cmd[e].caller \in Active' /\ Head(cmd'[cmd[e].caller].plan) = "wait"
      <4>1. e \in Active /\ cmd[e].caller \in Slot
        BY <2>3, <3>1
      <4>2. cmd[e].caller # d
        BY <1>3, <4>1
      <4>3. cmd[e].caller \in Active /\ Head(cmd[cmd[e].caller].plan) = "wait"
        BY <4>1, InvParts DEF WaitInv, At
      <4> QED
        BY <2>3, <4>2, <4>3
    <3> QED
      BY <2>3, <3>1, WaitKept, InvParts
  <2>6. RecordsInv' /\ AccountInv'
    <3>1. UNCHANGED <<setup, ssh, saved>> /\ \A e \in Active \ Active' : cmd[e].hand = "none"
      BY <1>1, <1>2, <2>3
    <3>2. \A e \in Active' : /\ e \in Active /\ cmd'[e].host = cmd[e].host
                             /\ cmd'[e].mem = cmd[e].mem /\ cmd'[e].hand = cmd[e].hand
      BY <2>3
    <3> QED
      BY <2>1, <3>1, <3>2, Kept
  <2> QED
    BY <1>1, <2>1, <2>4, <2>5, <2>6, TypeKept, InvParts DEF Inv, TypeInv, TunnelsTypeOK
<1> QED
  BY <1>4, <1>5

\* A command that ends early gives up its copy; nobody else's changes.
LEMMA DesertedKept ==
  ASSUME Inv, UNCHANGED <<setup, running, ssh, saved>>, NEW c \in Active, NEW cmds, Similar(cmds),
         \A d \in Active : cmds[d].mem = cmd[d].mem /\ cmds[d].hand = cmd[d].hand,
         cmd' = Deserted(cmds, c), Losing(c)
  PROVE  /\ CommandsFit' /\ WaitInv' /\ TunnelsTypeOK' /\ RecordsInv' /\ AccountInv'
         /\ tidy' \in [Machine -> BOOLEAN]
<1>1. /\ CommandsFit' /\ WaitInv' /\ Active' = Active /\ cmd'[c] = Failed(cmds[c])
      /\ \A d \in Active \ {c} : /\ cmd'[d].host = cmd[d].host /\ cmd'[d].mem = cmds[d].mem
                                 /\ cmd'[d].hand = cmds[d].hand
  BY InvParts, DesertedFit
<1>2. cmd'[c].host = cmd[c].host /\ cmd'[c].mem = NoRecord /\ cmd'[c].hand = "none"
  BY <1>1, FitFailed DEF Similar
<1>3. /\ tidy' \in [Machine -> BOOLEAN] /\ \A h \in Machine : tidy'[h] => tidy[h]
      /\ cmd[c].hand = "dirty" => ~tidy'[cmd[c].host]
  BY LosingLemma
<1>4. UNCHANGED <<setup, ssh, saved>> /\ TunnelsTypeOK'
  BY InvParts DEF TunnelsTypeOK
<1>5. \A d \in Active' :
        \/ /\ d \in Active /\ cmd'[d].host = cmd[d].host
           /\ cmd'[d].mem = cmd[d].mem /\ cmd'[d].hand = cmd[d].hand
        \/ /\ cmd'[d].mem = NoRecord /\ cmd'[d].hand = "none"
           /\ d \in Active => cmd'[d].host = cmd[d].host
           /\ d \in Active /\ cmd[d].hand = "dirty" => ~tidy'[cmd[d].host]
  BY <1>1, <1>2, <1>3
<1>6. RecordsInv' /\ AccountInv'
  BY <1>1, <1>3, <1>4, <1>5, Kept
<1> QED
  BY <1>1, <1>3, <1>4, <1>6

LEMMA TimeOutInv ==
  ASSUME Inv, NEW c \in Slot, TimeOut(c)
  PROVE  Inv'
<1>1. /\ UNCHANGED <<setup, running, ssh, saved>> /\ At(c, "wait")
      /\ cmd' = Deserted(cmd, c) /\ Losing(c)
  BY DEF TimeOut, tunnelVars
<1>2. faults' \in 0 .. MaxFaults
  BY InvParts DEF TimeOut, Fault
<1>3. c \in Active /\ Similar(cmd)
  BY <1>1, InvParts, SimilarSame DEF At
<1>4. /\ CommandsFit' /\ WaitInv' /\ TunnelsTypeOK' /\ RecordsInv' /\ AccountInv'
      /\ tidy' \in [Machine -> BOOLEAN]
  BY <1>1, <1>3, DesertedKept
<1> QED
  BY <1>1, <1>2, <1>4, TypeKept, InvParts DEF Inv, TypeInv

LEMMA BreakInv ==
  ASSUME Inv, NEW c \in Slot, Break(c)
  PROVE  Inv'
<1>1. /\ UNCHANGED <<setup, running, ssh, saved>> /\ c \in Active
      /\ cmd' = Deserted(Disturbed, c) /\ Losing(c)
  BY DEF Break, tunnelVars
<1>2. faults' \in 0 .. MaxFaults
  BY InvParts DEF Break, Fault
<1>3. /\ Similar(Disturbed)
      /\ \A d \in Active : Disturbed[d].mem = cmd[d].mem /\ Disturbed[d].hand = cmd[d].hand
  BY InvParts, SimilarDisturbed
<1>4. /\ CommandsFit' /\ WaitInv' /\ TunnelsTypeOK' /\ RecordsInv' /\ AccountInv'
      /\ tidy' \in [Machine -> BOOLEAN]
  BY <1>1, <1>3, DesertedKept
<1> QED
  BY <1>1, <1>2, <1>4, TypeKept, InvParts DEF Inv, TypeInv

LEMMA LoseAnswerInv ==
  ASSUME Inv, NEW c \in Slot, LoseAnswer(c)
  PROVE  Inv'
<1> DEFINE r == [Disturbed[c] EXCEPT !.caller = Lost]
<1>1. /\ UNCHANGED <<setup, running, ssh, saved, tidy>> /\ c \in Active
      /\ cmd' = [Disturbed EXCEPT ![c] = r]
  BY DEF LoseAnswer, tunnelVars
<1>2. faults' \in 0 .. MaxFaults
  BY InvParts DEF LoseAnswer, Fault
<1>3. /\ Similar(Disturbed)
      /\ \A d \in Active : Disturbed[d].mem = cmd[d].mem /\ Disturbed[d].hand = cmd[d].hand
  BY InvParts, SimilarDisturbed
<1>4. /\ Fit(r) /\ r.caller = Lost /\ r.host = cmd[c].host /\ r.plan = cmd[c].plan
      /\ r.mem = cmd[c].mem /\ r.hand = cmd[c].hand
  <2>1. Fit(Disturbed[c])
    BY <1>1, <1>3 DEF Similar
  <2>2. /\ Fit(r) /\ r.caller = Lost /\ r.host = Disturbed[c].host /\ r.plan = Disturbed[c].plan
        /\ r.mem = Disturbed[c].mem /\ r.hand = Disturbed[c].hand
    BY <2>1, FitLost
  <2> QED
    BY <1>1, <1>3, <2>2 DEF Similar
<1> HIDE DEF r
<1>5. cmd'[c] = r /\ \A d \in Slot \ {c} : cmd'[d] = Disturbed[d]
  BY <1>1, <1>3 DEF Similar
<1>6. /\ cmd' \in [Slot -> Commands \cup {NoCommand}]
      /\ \A d \in Slot \ Active : cmd'[d] = NoCommand
  BY <1>1, <1>3, <1>4, <1>5 DEF Similar, Fit
<1>7. \A d \in Active : /\ Fit(cmd'[d]) /\ cmd'[d].plan = cmd[d].plan
                        /\ cmd'[d].caller \in {cmd[d].caller, Lost}
                        /\ cmd'[d].host = cmd[d].host
                        /\ cmd'[d].mem = cmd[d].mem /\ cmd'[d].hand = cmd[d].hand
  BY <1>3, <1>4, <1>5 DEF Similar, Active
<1>8. CommandsFit' /\ WaitInv' /\ Active' = Active
  BY <1>6, <1>7, InvParts, AlikeFit
<1>9. RecordsInv' /\ AccountInv'
  <2>1. UNCHANGED <<setup, ssh, saved>> /\ \A h \in Machine : tidy'[h] => tidy[h]
    BY <1>1
  <2> QED
    BY <1>7, <1>8, <2>1, Kept
<1> QED
  BY <1>1, <1>2, <1>8, <1>9, TypeKept, InvParts DEF Inv, TypeInv, TunnelsTypeOK

LEMMA DieInv ==
  ASSUME Inv, NEW h \in Machine, NEW p \in Tunnel \cup {Service}, Die(h, p)
  PROVE  Inv'
<1> DEFINE M == Mourn(Disturbed, h, p)
<1>1. UNCHANGED <<setup, tidy>> /\ End(h, p) /\ cmd' = M
  BY DEF Die
<1>2. faults' \in 0 .. MaxFaults
  BY InvParts DEF Die, Fault
<1>3. /\ Similar(Disturbed)
      /\ \A d \in Active : Disturbed[d].mem = cmd[d].mem /\ Disturbed[d].hand = cmd[d].hand
  BY InvParts, SimilarDisturbed
<1>4. /\ Similar(M)
      /\ \A d \in Active : /\ M[d].hand = Disturbed[d].hand
                           /\ M[d].mem = IF cmd[d].host = h THEN Buried(Disturbed[d].mem, p)
                                         ELSE Disturbed[d].mem
  BY <1>3, SimilarMourn
<1> HIDE DEF M
<1>5. CommandsFit' /\ WaitInv' /\ Active' = Active
  BY <1>1, <1>4, InvParts, SettleFit
<1>6. \A d \in Active : /\ cmd'[d].host = cmd[d].host /\ cmd'[d].hand = cmd[d].hand
                        /\ cmd'[d].mem = IF cmd[d].host = h THEN Buried(cmd[d].mem, p)
                                         ELSE cmd[d].mem
  BY <1>1, <1>3, <1>4 DEF Similar
<1>7. TunnelsTypeOK' /\ RecordsInv' /\ AccountInv'
  BY <1>1, <1>5, <1>6, Buries
<1> QED
  BY <1>1, <1>2, <1>5, <1>7, TypeKept, InvParts DEF Inv, TypeInv

\* A tunnel that nobody records: no change of the machine is in hand any more.
LEMMA LeakInv ==
  ASSUME Inv, NEW c \in Slot, Leak(c)
  PROVE  Inv'
<1> DEFINE h == cmd[c].host
           t == IF At(c, "tunnel") THEN Local(cmd[c].to, cmd[c].port)
                ELSE Reverse(First(cmd[c].todo))
           r == Failed(Disturbed[c])
<1>1. /\ UNCHANGED <<setup, running, saved>> /\ ssh' = [ssh EXCEPT ![h] = @ \cup {t}]
      /\ cmd' = [Disturbed EXCEPT ![c] = r] /\ tidy' = [tidy EXCEPT ![h] = FALSE]
      /\ unix' = unix
  BY DEF Leak, setup
<1>2. At(c, "tunnel") \/ (At(c, "reverse") /\ cmd[c].todo # {})
  BY DEF Leak
<1>3. faults' \in 0 .. MaxFaults
  BY InvParts DEF Leak, Fault
<1>4. c \in Active /\ ~At(c, "wait") /\ h \in Machine
  BY <1>2, AtFacts, CommandFacts
<1>5. t \in Tunnel
  <2>1. CASE At(c, "tunnel")
    <3>1. cmd[c].to \in Machine /\ cmd[c].port \in Port
      BY <1>4, <2>1, TargetKnown, CommandFacts
    <3> QED
      BY <2>1, <3>1 DEF Tunnel
  <2>2. CASE ~At(c, "tunnel")
    <3>1. First(cmd[c].todo) \in Machine
      BY <1>2, <1>4, <2>2, CommandFacts, LeastIsMember
    <3> QED
      BY <2>2, <3>1 DEF Tunnel
  <2> QED
    BY <2>1, <2>2
<1>6. /\ Similar(Disturbed)
      /\ \A d \in Active : Disturbed[d].mem = cmd[d].mem /\ Disturbed[d].hand = cmd[d].hand
  BY InvParts, SimilarDisturbed
<1>7. /\ Fit(r) /\ r.host = h /\ r.caller = cmd[c].caller /\ r.mem = NoRecord /\ r.hand = "none"
  BY <1>4, <1>6, FitFailed DEF Similar
<1> HIDE DEF r, t
<1>8. /\ CommandsFit' /\ WaitInv' /\ Active' = Active
      /\ cmd'[c] = r /\ \A d \in Slot \ {c} : cmd'[d] = Disturbed[d]
  <2>1. CommandsFit /\ WaitInv
    BY InvParts
  <2> QED
    BY <1>1, <1>4, <1>6, <1>7, <2>1, PutFit, ZenonT(60)
<1>9. /\ ssh' \in [Machine -> SUBSET Tunnel] /\ tidy' \in [Machine -> BOOLEAN] /\ ~tidy'[h]
      /\ \A g \in Machine \ {h} : ssh'[g] = ssh[g] /\ tidy'[g] = tidy[g]
  BY <1>1, <1>4, <1>5, InvParts
<1>10. TunnelsTypeOK'
  BY <1>1, <1>9, InvParts DEF TunnelsTypeOK
<1>11. \A d \in Active \ {c} : /\ cmd'[d].host = cmd[d].host
                              /\ cmd'[d].mem = cmd[d].mem /\ cmd'[d].hand = cmd[d].hand
  BY <1>6, <1>8 DEF Similar, Active
<1>12. RecordsInv'
  <2>1. \A g \in Machine : ssh[g] \subseteq ssh'[g]
    BY <1>1, InvParts
  <2>2. ASSUME NEW d \in Active
        PROVE  Honest(cmd'[d].host, unix, ssh'[cmd'[d].host], cmd'[d].mem)
    <3>1. cmd[d].host \in Machine /\ Honest(cmd[d].host, unix, ssh[cmd[d].host], cmd[d].mem)
      BY CommandFacts DEF Inv, RecordsInv
    <3>2. Honest(cmd[d].host, unix, ssh'[cmd[d].host], cmd[d].mem)
      BY <2>1, <3>1 DEF Honest
    <3> QED
      BY <1>7, <1>8, <1>11, <3>2, NoRecordFacts
  <2>3. \A g \in Machine : Honest(g, unix, ssh'[g], saved'[g])
    BY <1>1, <2>1, HonestMore DEF Inv, RecordsInv
  <2> QED
    BY <1>1, <1>8, <2>2, <2>3 DEF RecordsInv
<1>13. ASSUME NEW g \in Machine, tidy'[g]
       PROVE  /\ \A d, e \in Holding(g)' : d = e
              /\ \A d \in Holding(g)' : ssh'[g] \subseteq Listed(cmd'[d].mem)
              /\ (\A d \in Holding(g)' : cmd'[d].hand = "copy") => ssh'[g] \subseteq Listed(saved[g])
  <2>1. g # h /\ tidy[g] /\ ssh'[g] = ssh[g]
    BY <1>9, <1>13
  <2>2. /\ \A d, e \in Holding(g) : d = e
        /\ \A d \in Holding(g) : ssh[g] \subseteq Listed(cmd[d].mem)
        /\ (\A d \in Holding(g) : cmd[d].hand = "copy") => ssh[g] \subseteq Listed(saved[g])
    BY <2>1 DEF Inv, AccountInv
  <2>3. Holding(g)' = Holding(g) /\ \A d \in Holding(g) : d \in Active \ {c}
    BY <1>7, <1>8, <1>11, <2>1 DEF Holding, h
  <2> QED
    BY <1>11, <2>1, <2>2, <2>3
<1>14. AccountInv'
  BY <1>1, <1>13 DEF AccountInv
<1> QED
  BY <1>1, <1>3, <1>8, <1>9, <1>10, <1>12, <1>14, TypeKept, InvParts DEF Inv, TypeInv

LEMMA BeginInv ==
  ASSUME Inv, NEW h \in Machine, NEW n \in Port, NEW do \in May[h] \cup Beside[h],
         NEW q \in Peers[h] \cup {Nobody}, Begin(h, do[1], do[2], q, n)
  PROVE  Inv'
<1> DEFINE form == do[1]
           verb == do[2]
           alone == Active = {}
           r == Command(h, form, verb, q, n, User, alone)
<1>1. form \in Form /\ verb \in Verb
  OBVIOUS
<1>2. q \in Machine \cup {Nobody} /\ alone \in BOOLEAN /\ User \in Slot \cup {User, Lost}
  OBVIOUS
<1>3. UNCHANGED <<setup, running, ssh, saved, tidy>>
  BY DEF Begin, tunnelVars
<1>4. faults' \in 0 .. MaxFaults
  BY InvParts DEF Begin, Fault
<1>5. PICK c \in Slot : FreeSlot(c) /\ cmd' = [Disturbed EXCEPT ![c] = r]
  BY DEF Begin
<1>6. form = "target" \/ record[h] = Nobody => Knowing(h) = {} \/ q \in Knowing(h)
  BY DEF Begin
<1>7. Fit(r)
  <2> HIDE DEF form, verb, alone
  <2> QED
    BY <1>1, <1>2, <1>6, InvParts, FitCommand
<1>8. r.mem = NoRecord /\ r.hand = "none" /\ r.caller = User
  BY DEF Command
<1> HIDE DEF r
<1>9. /\ Similar(Disturbed)
      /\ \A d \in Active : Disturbed[d].mem = cmd[d].mem /\ Disturbed[d].hand = cmd[d].hand
  BY InvParts, SimilarDisturbed
<1>10. c \in Slot \ Active
  BY <1>5 DEF FreeSlot
<1>11. /\ CommandsFit' /\ WaitInv' /\ Active' = Active \cup {c}
       /\ cmd'[c] = r /\ \A d \in Slot \ {c} : cmd'[d] = Disturbed[d]
  <2>1. CommandsFit /\ WaitInv /\ r.caller \notin Slot
    BY <1>8, InvParts
  <2> QED
    BY <1>5, <1>7, <1>9, <1>10, <2>1, NewFit
<1>12. RecordsInv' /\ AccountInv'
  <2>1. UNCHANGED <<setup, ssh, saved>> /\ \A g \in Machine : tidy'[g] => tidy[g]
    BY <1>3
  <2>2. \A d \in Active : /\ cmd'[d].host = cmd[d].host
                          /\ cmd'[d].mem = cmd[d].mem /\ cmd'[d].hand = cmd[d].hand
    BY <1>9, <1>10, <1>11 DEF Similar, Active
  <2> QED
    BY <1>8, <1>10, <1>11, <2>1, <2>2, Kept
<1> QED
  BY <1>3, <1>4, <1>11, <1>12, TypeKept, InvParts DEF Inv, TypeInv, TunnelsTypeOK

----
LEMMA InitInv == Init => Inv
<1> SUFFICES ASSUME Init PROVE Inv
  OBVIOUS
<1>1. Active = {}
  BY DEF Init, Active
<1>2. NoRecord \in Records /\ \A h, u, S : Honest(h, u, S, NoRecord)
  BY NoRecordFacts
<1>3. TunnelsTypeOK /\ CommandsFit
  BY <1>1, <1>2 DEF Init, TunnelsTypeOK, CommandsFit
<1>4. TypeOK
  <2>1. <<record, modes, unix>> \in Setups
    BY DEF Init
  <2>2. tidy \in [Machine -> BOOLEAN] /\ faults \in 0 .. MaxFaults
    BY DEF Init
  <2> QED
    BY <1>3, <2>1, <2>2 DEF TypeOK, CommandsFit
<1>6. RecordsInv
  BY <1>1, <1>2 DEF Init, RecordsInv
<1>7. AccountInv
  BY DEF Init, AccountInv, Holding, Active
<1>8. WaitInv
  BY <1>1 DEF WaitInv
<1> QED
  BY <1>3, <1>4, <1>6, <1>7, <1>8 DEF Inv, TypeInv

LEMMA NextInv == Inv /\ [Next]_vars => Inv'
<1> SUFFICES ASSUME Inv, [Next]_vars PROVE Inv'
  OBVIOUS
<1>1. CASE UNCHANGED vars
  BY <1>1 DEF vars, setup, tunnelVars, Inv, TypeInv, TypeOK, TunnelsTypeOK, CommandsFit, WaitInv,
              RecordsInv, AccountInv, Active, At, Holding
<1>2. ASSUME NEW h \in Machine, NEW n \in Port, NEW do \in May[h] \cup Beside[h],
             NEW q \in Peers[h] \cup {Nobody}, Begin(h, do[1], do[2], q, n)
      PROVE  Inv'
  BY <1>2, BeginInv
<1>3. ASSUME NEW c \in Slot, Step(c)
      PROVE  Inv'
  BY <1>3, LoadInv, StartInv, OpenReverseInv, OpenLocalInv, ProbeInv, StopInv, HaltInv, SaveInv,
     AskInv, ReturnInv DEF Step
<1>4. ASSUME NEW c \in Slot, TimeOut(c) \/ LoseAnswer(c) \/ Break(c) \/ Leak(c)
      PROVE  Inv'
  BY <1>4, TimeOutInv, LoseAnswerInv, BreakInv, LeakInv
<1>5. ASSUME NEW h \in Machine, NEW p \in Tunnel \cup {Service}, Die(h, p)
      PROVE  Inv'
  BY <1>5, DieInv
<1> QED
  BY <1>1, <1>2, <1>3, <1>4, <1>5 DEF Next, Faults

LEMMA Invariance == Spec => []Inv
BY InitInv, NextInv, PTL DEF Spec

\* TypeOK: every reachable state is well typed, whatever overlaps, fails or is killed.
THEOREM TypeCorrect == Spec => []TypeOK
<1>1. Inv => TypeOK
  BY DEF Inv, TypeInv
<1> QED
  BY <1>1, Invariance, PTL

\* TunnelsAccounted: every tunnel of a machine where no change was lost is in the state file
\* or in the copy of a command between its load and its save.
THEOREM AccountCorrect == Spec => []TunnelsAccounted
<1>1. Inv => TunnelsAccounted
  <2> SUFFICES ASSUME Inv, NEW h \in Machine, tidy[h], NEW t \in ssh[h]
               PROVE  t \in InHands(h) \cup {saved[h][k] : k \in Tunnel}
    BY DEF TunnelsAccounted
  <2>1. /\ \A c \in Holding(h) : ssh[h] \subseteq Listed(cmd[c].mem)
        /\ (\A c \in Holding(h) : cmd[c].hand = "copy") => ssh[h] \subseteq Listed(saved[h])
    BY DEF Inv, AccountInv
  <2>2. CASE Holding(h) = {}
    BY <2>1, <2>2 DEF Listed
  <2>3. ASSUME NEW c \in Holding(h) PROVE t \in InHands(h)
    <3>1. c \in {d \in Active : cmd[d].host = h} /\ t \in {cmd[c].mem[k] : k \in Tunnel}
      BY <2>1, <2>3 DEF Holding, Listed
    <3> QED
      BY <3>1 DEF InHands
  <2> QED
    BY <2>2, <2>3
<1> QED
  BY <1>1, Invariance, PTL

----
(***************************************************************************)
(* What may take a record out of the copy of a command that closes         *)
(* tunnels: that command alone, or its end, which closes nothing.          *)
(***************************************************************************)
KeepsRecords(c) == \A k \in Tunnel : cmd'[c].mem[k] = NoPid => cmd[c].mem[k] = NoPid
ClosesNothing(c) == UNCHANGED <<running, ssh>> /\ cmd'[c].host = cmd[c].host

LEMMA BuriedKeeps ==
  ASSUME NEW m, NEW p, NEW k \in Tunnel, Buried(m, p)[k] = NoPid
  PROVE  m[k] = NoPid
BY DEF Buried

\* A step of another command that is no stop, halt, call or end leaves c as it was.
LEMMA PutElsewhere ==
  ASSUME Inv, NEW c \in Active, NEW d \in Slot \ {c},
         Load(d) \/ Start(d) \/ OpenReverse(d) \/ OpenLocal(d) \/ Probe(d) \/ Save(d)
  PROVE  cmd'[c] = cmd[c]
<1>1. ASSUME NEW r, Put(d, r) PROVE cmd'[c] = cmd[c]
  BY <1>1, InvParts DEF Put, CommandsFit, Active
<1>2. CASE Load(d)
  BY <1>1, <1>2 DEF Load
<1>3. CASE Start(d)
  BY <1>1, <1>3 DEF Start, Fail
<1>4. CASE Probe(d)
  BY <1>1, <1>4 DEF Probe
<1>5. CASE Save(d)
  BY <1>1, <1>5 DEF Save
<1>6. ASSUME NEW t, NEW r, Open(d, t, r) PROVE cmd'[c] = cmd[c]
  BY <1>1, <1>6 DEF Open, Fail
<1>7. CASE OpenReverse(d)
  BY <1>1, <1>6, <1>7 DEF OpenReverse
<1>8. CASE OpenLocal(d)
  BY <1>1, <1>6, <1>8 DEF OpenLocal, Fail
<1> QED
  BY <1>2, <1>3, <1>4, <1>5, <1>7, <1>8

LEMMA StepElsewhere ==
  ASSUME Inv, NEW c \in Active, At(c, "stop"), NEW d \in Slot \ {c}, Step(d)
  PROVE  KeepsRecords(c)
<1>1. CASE Load(d) \/ Start(d) \/ OpenReverse(d) \/ OpenLocal(d) \/ Probe(d) \/ Save(d)
  BY <1>1, PutElsewhere DEF KeepsRecords
<1>2. CASE Ask(d)
  <2>1. CASE cmd[d].to = Nobody
    BY <1>2, <2>1, InvParts DEF Ask, Fail, Put, CommandsFit, Active, KeepsRecords
  <2>2. CASE cmd[d].to # Nobody
    <3> DEFINE r == Command(cmd[d].to, "plain", Asked(d), FirstKnowing(cmd[d].to), "fixed", d,
                            cmd[d].clean)
    <3>1. PICK e \in Slot :
            /\ FreeSlot(e)
            /\ cmd' = [cmd EXCEPT ![d].plan = <<"wait">> \o Tail(@), ![e] = r]
      BY <1>2, <2>2 DEF Ask
    <3> HIDE DEF r
    <3>2. c # e
      BY <3>1 DEF FreeSlot
    <3> QED
      BY <3>1, <3>2, InvParts DEF CommandsFit, Active, KeepsRecords
  <2> QED
    BY <2>1, <2>2
<1>3. CASE Return(d)
  <2>1. d \in Active
    BY <1>3 DEF Return, Ended, At
  <2>2. cmd[d].caller \in Slot => cmd[d].caller # c
    BY <2>1, InvParts DEF WaitInv, At
  <2>3. cmd'[c] = cmd[c]
    BY <1>3, <2>2, InvParts DEF Return, Put, CommandsFit, Active
  <2> QED
    BY <2>3 DEF KeepsRecords
<1>4. CASE Stop(d)
  <2>1. d \in Active /\ cmd[d].hand # "none"
    BY <1>4, AtFacts DEF Stop, Working
  <2>2. CASE Put(d, Onward(cmd[d]))
    BY <2>2, InvParts DEF Put, CommandsFit, Active, KeepsRecords
  <2>3. ASSUME NEW k \in Victims(d),
               \/ cmd' = Removed(d, k)
               \/ cmd' = Mourn(Removed(d, k), cmd[d].host, cmd[d].mem[k])
        PROVE  KeepsRecords(c)
    <3>4. k \in Tunnel /\ c \in Active \ {d}
      BY DEF Victims, Listed
    <3>1. Similar(Removed(d, k)) /\ Removed(d, k)[c] = cmd[c]
      <4>1. /\ Similar(Removed(d, k))
            /\ \A e \in Active \ {d} : Removed(d, k)[e] = cmd[e]
        BY <2>1, <3>4, RemovedFacts
      <4> QED
        BY <3>4, <4>1
    <3>2. CASE cmd' = Removed(d, k)
      BY <3>1, <3>2 DEF KeepsRecords
    <3>3. CASE cmd' = Mourn(Removed(d, k), cmd[d].host, cmd[d].mem[k])
      <4>1. cmd'[c].mem \in {cmd[c].mem, Buried(cmd[c].mem, cmd[d].mem[k])}
        BY <3>1, <3>3, SimilarMourn
      <4> QED
        BY <4>1, BuriedKeeps DEF KeepsRecords
    <3> QED
      BY <2>3, <3>2, <3>3
  <2> QED
    BY <1>4, <2>2, <2>3, StopCases
<1>5. CASE Halt(d)
  <2> DEFINE M == Mourn(cmd, cmd[d].host, Service)
  <2>1. cmd' = [M EXCEPT ![d] = Onward(@)]
    BY <1>5 DEF Halt
  <2>2. Similar(M) /\ M[c].mem \in {cmd[c].mem, Buried(cmd[c].mem, Service)}
    BY InvParts, SimilarSame, SimilarMourn
  <2> HIDE DEF M
  <2>3. cmd'[c].mem \in {cmd[c].mem, Buried(cmd[c].mem, Service)}
    BY <2>1, <2>2 DEF Similar, Active
  <2> QED
    BY <2>3, BuriedKeeps DEF KeepsRecords
<1> QED
  BY <1>1, <1>2, <1>3, <1>4, <1>5 DEF Step

LEMMA FaultElsewhere ==
  ASSUME Inv, NEW c \in Active, At(c, "stop"),
         \/ \E d \in Slot : TimeOut(d) \/ LoseAnswer(d) \/ Break(d) \/ Leak(d)
         \/ \E h \in Machine, p \in Tunnel \cup {Service} : Die(h, p)
         \/ \E h \in Machine, form \in Form, verb \in Verb, q \in Machine \cup {Nobody},
               n \in Port : Begin(h, form, verb, q, n)
  PROVE  KeepsRecords(c) \/ ClosesNothing(c)
<1>1. /\ Similar(Disturbed) /\ Similar(cmd)
      /\ \A d \in Active : Disturbed[d].mem = cmd[d].mem /\ Disturbed[d].hand = cmd[d].hand
  BY InvParts, SimilarDisturbed, SimilarSame
<1>2. Disturbed[c].host = cmd[c].host /\ Disturbed[c].mem = cmd[c].mem /\ c \in Slot
  BY <1>1 DEF Similar, Active
<1>3. ASSUME NEW d \in Slot, TimeOut(d) PROVE KeepsRecords(c)
  <2>1. d \in Active /\ d # c /\ cmd' = Deserted(cmd, d)
    BY <1>3 DEF TimeOut, At
  <2>2. cmd'[c].mem = cmd[c].mem
    BY <1>1, <2>1, InvParts, DesertedFit
  <2> QED
    BY <2>2 DEF KeepsRecords
<1>4. ASSUME NEW d \in Slot, LoseAnswer(d) PROVE ClosesNothing(c)
  <2>1. UNCHANGED <<running, ssh>> /\ cmd' = [Disturbed EXCEPT ![d].caller = Lost]
    BY <1>4 DEF LoseAnswer, tunnelVars
  <2>2. CASE d = c
    <3>1. Fit(Disturbed[c]) /\ cmd'[c] = [Disturbed[c] EXCEPT !.caller = Lost]
      BY <1>1, <1>2, <2>1, <2>2 DEF Similar
    <3>2. [Disturbed[c] EXCEPT !.caller = Lost].host = Disturbed[c].host
      BY <3>1, FitLost
    <3> QED
      BY <1>2, <2>1, <3>1, <3>2 DEF ClosesNothing
  <2>3. CASE d # c
    BY <1>1, <1>2, <2>1, <2>3 DEF Similar, ClosesNothing
  <2> QED
    BY <2>2, <2>3
<1>5. ASSUME NEW d \in Slot, Break(d) PROVE ClosesNothing(c)
  <2>1. UNCHANGED <<running, ssh>> /\ d \in Active /\ cmd' = Deserted(Disturbed, d)
    BY <1>5 DEF Break, tunnelVars
  <2>2. /\ cmd'[d] = Failed(Disturbed[d])
        /\ \A e \in Active \ {d} : cmd'[e].host = cmd[e].host
    BY <1>1, <2>1, InvParts, DesertedFit
  <2>3. cmd'[d].host = cmd[d].host
    BY <1>1, <2>1, <2>2, FitFailed DEF Similar
  <2> QED
    BY <2>1, <2>2, <2>3 DEF ClosesNothing
<1>6. ASSUME NEW d \in Slot, Leak(d) PROVE KeepsRecords(c)
  <2>1. d # c /\ cmd' = [Disturbed EXCEPT ![d] = Failed(@)]
    BY <1>6 DEF Leak, At
  <2>2. cmd'[c] = Disturbed[c]
    BY <1>1, <1>2, <2>1 DEF Similar
  <2> QED
    BY <1>2, <2>2 DEF KeepsRecords
<1>7. ASSUME NEW h \in Machine, NEW p \in Tunnel \cup {Service}, Die(h, p) PROVE KeepsRecords(c)
  <2>1. cmd' = Mourn(Disturbed, h, p)
    BY <1>7 DEF Die
  <2>2. cmd'[c].mem \in {Disturbed[c].mem, Buried(Disturbed[c].mem, p)}
    BY <1>1, <2>1, SimilarMourn
  <2> QED
    BY <1>2, <2>2, BuriedKeeps DEF KeepsRecords
<1>8. ASSUME NEW h \in Machine, NEW form \in Form, NEW verb \in Verb,
             NEW q \in Machine \cup {Nobody}, NEW n \in Port, Begin(h, form, verb, q, n)
      PROVE  KeepsRecords(c)
  <2>1. PICK d \in Slot : FreeSlot(d) /\ \E r : cmd' = [Disturbed EXCEPT ![d] = r]
    BY <1>8 DEF Begin
  <2>2. d # c
    BY <2>1 DEF FreeSlot
  <2>3. cmd'[c] = Disturbed[c]
    BY <1>1, <1>2, <2>1, <2>2 DEF Similar
  <2> QED
    BY <1>2, <2>3 DEF KeepsRecords
<1> QED
  BY <1>3, <1>4, <1>5, <1>6, <1>7, <1>8

\* Stop itself: on Unix the record of a tunnel to the target names that tunnel.
LEMMA StopSpares ==
  ASSUME Inv, NEW c \in Active, cmd[c].host \in unix, cmd[c].form = "target", Stop(c)
  PROVE  /\ running' = running
         /\ \A q \in Machine \ {cmd[c].to} :
              TunnelsTo(cmd[c].host, q) = TunnelsTo(cmd[c].host, q)'
<1> DEFINE h == cmd[c].host
           m == cmd[c].mem
<1>1. c \in Slot /\ h \in Machine /\ Honest(h, unix, ssh[h], m) /\ Fit(cmd[c]) /\ cmd[c].hand # "none"
      /\ Head(cmd[c].plan) = "stop"
  BY CommandFacts, AtFacts DEF Inv, RecordsInv, Stop, Working
<1>2. CASE Put(c, Onward(cmd[c])) /\ UNCHANGED tunnelVars
  <2>1. cmd'[c] = Onward(cmd[c])
    BY <1>1, <1>2, InvParts DEF Put, CommandsFit
  <2>2. cmd'[c].host = h
    BY <1>1, <2>1, FitOnward
  <2> QED
    BY <1>2, <2>2 DEF TunnelsTo, tunnelVars
<1>3. ASSUME NEW k \in Victims(c),
             IF PidAlive(m[k]) THEN cmd' = Mourn(Removed(c, k), h, m[k]) /\ End(h, m[k])
                               ELSE cmd' = Removed(c, k) /\ UNCHANGED tunnelVars
      PROVE  /\ running' = running
             /\ \A q \in Machine \ {cmd[c].to} : TunnelsTo(h, q) = TunnelsTo(h, q)'
  <2>1. k \in Tunnel /\ k.peer = cmd[c].to
    BY DEF Victims
  <2>2. Similar(Removed(c, k))
    BY <1>1, <2>1, RemovedFacts
  <2>3. CASE PidAlive(m[k])
    <3>1. m[k] = k /\ k # Service
      BY <1>1, <2>1, <2>3 DEF Honest, PidAlive
    <3>2. cmd'[c].host = h
      BY <1>3, <2>2, <2>3, SimilarMourn DEF Similar
    <3>3. running' = running /\ ssh' = [ssh EXCEPT ![h] = @ \ {k}]
      BY <1>3, <2>3, <3>1 DEF End
    <3>4. ssh'[h] = ssh[h] \ {k}
      BY <1>1, <3>3, InvParts
    <3> QED
      BY <2>1, <3>2, <3>3, <3>4 DEF TunnelsTo
  <2>4. CASE ~PidAlive(m[k])
    BY <1>3, <2>2, <2>4 DEF Similar, TunnelsTo, tunnelVars
  <2> QED
    BY <2>3, <2>4
<1> QED
  BY <1>1, <1>2, <1>3, StopCases

\* UnixTargetSparesOthers: on a Unix machine a command about one owner's service closes no
\* tunnel to another owner and stops no service, however commands overlap and fail.
THEOREM SparesCorrect == Spec => UnixTargetSparesOthers
<1>1. ASSUME Inv, [Next]_vars, NEW c \in Slot, At(c, "stop") /\ cmd[c].host \in unix
      PROVE  Spares(c)
  <2> SUFFICES ASSUME cmd[c].form = "target",
                      NEW k \in Tunnel, cmd[c].mem[k] # NoPid, cmd'[c].mem[k] = NoPid
               PROVE  /\ running' = running
                      /\ \A q \in Machine \ {cmd[c].to} :
                           TunnelsTo(cmd[c].host, q) = TunnelsTo(cmd[c].host, q)'
    BY DEF Spares
  <2>1. c \in Active
    BY <1>1 DEF At
  <2>2. KeepsRecords(c) \/ ClosesNothing(c) \/ Stop(c)
    <3>1. CASE UNCHANGED vars
      BY <3>1 DEF vars, KeepsRecords
    <3>2. ASSUME NEW h \in Machine, NEW n \in Port, NEW do \in May[h] \cup Beside[h],
                 NEW q \in Peers[h] \cup {Nobody}, Begin(h, do[1], do[2], q, n)
          PROVE  KeepsRecords(c) \/ ClosesNothing(c)
      <4>1. do[1] \in Form /\ do[2] \in Verb /\ q \in Machine \cup {Nobody}
        OBVIOUS
      <4> QED
        BY <1>1, <2>1, <3>2, <4>1, FaultElsewhere
    <3>3. ASSUME NEW d \in Slot, Step(d) PROVE KeepsRecords(c) \/ Stop(c)
      <4>1. CASE d # c
        BY <1>1, <2>1, <3>3, <4>1, StepElsewhere
      <4>2. CASE d = c
        BY <1>1, <3>3, <4>2 DEF Step, Load, Start, OpenReverse, OpenLocal, Probe, Halt, Save, Ask,
                               Return, Ended, At
      <4> QED
        BY <4>1, <4>2
    <3>4. CASE \E d \in Slot : TimeOut(d) \/ LoseAnswer(d) \/ Break(d) \/ Leak(d)
      BY <1>1, <2>1, <3>4, FaultElsewhere
    <3>5. CASE \E h \in Machine, p \in Tunnel \cup {Service} : Die(h, p)
      BY <1>1, <2>1, <3>5, FaultElsewhere
    <3> QED
      BY <1>1, <3>1, <3>2, <3>3, <3>4, <3>5 DEF Next, Faults
  <2>3. ~KeepsRecords(c)
    BY DEF KeepsRecords
  <2>4. CASE ClosesNothing(c)
    BY <2>4 DEF ClosesNothing, TunnelsTo
  <2>5. CASE Stop(c)
    BY <1>1, <2>1, <2>5, StopSpares
  <2> QED
    BY <2>2, <2>3, <2>4, <2>5
<1>2. Inv /\ [Next]_vars => \A c \in Slot : At(c, "stop") /\ cmd[c].host \in unix => Spares(c)
  BY <1>1
<1> QED
  BY <1>2, Invariance, PTL DEF Spec, UnixTargetSparesOthers

----
(***************************************************************************)
(* Commands end, as far as it depends on them.                             *)
(***************************************************************************)
Seen(r) == {k \in Tunnel : r.mem[k] # NoPid /\ (r.form = "target" => k.peer = r.to)}
Inside(r) ==
  CASE Head(r.plan) = "call"    -> 1
    [] Head(r.plan) = "reverse" -> Cardinality(r.todo)
    [] Head(r.plan) = "stop"    -> Cardinality(Seen(r))
    [] OTHER -> 0

\* A command r that gets on becomes s; one that stays has as much before it as it had.
Further(s, r) ==
  \/ Len(s.plan) < Len(r.plan)
  \/ Len(s.plan) = Len(r.plan) /\ Inside(s) < Inside(r)
Stays(s, r) == s.plan = r.plan /\ Inside(s) = Inside(r)

LEMMA WithinIsInside ==
  ASSUME NEW c
  PROVE  WithinStep(c) = Inside(cmd[c]) /\ WithinStep(c)' = Inside(cmd'[c])
BY DEF WithinStep, Inside, Victims, Seen

LEMMA TunnelFinite ==
  ASSUME IsFiniteSet(Machine)
  PROVE  IsFiniteSet(Tunnel)
<1> DEFINE L(n) == {Local(q, n) : q \in Machine}
           R    == {Reverse(q) : q \in Machine}
<1>1. ASSUME NEW n PROVE IsFiniteSet(L(n))
  <2> DEFINE f == [q \in Machine |-> Local(q, n)]
  <2>1. f \in Surjection(Machine, L(n))
    BY DEF Surjection
  <2> HIDE DEF f, L
  <2> QED
    BY <2>1, FS_Surjection
<1>2. IsFiniteSet(R)
  <2> DEFINE f == [q \in Machine |-> Reverse(q)]
  <2>1. f \in Surjection(Machine, R)
    BY DEF Surjection
  <2> HIDE DEF f, R
  <2> QED
    BY <2>1, FS_Surjection
<1>3. Tunnel = (L("fixed") \cup L("spare")) \cup R
  BY DEF Tunnel, Port
<1> HIDE DEF L, R
<1> QED
  BY <1>1, <1>2, <1>3, FS_Union

LEMMA LongerByOne ==
  ASSUME NEW S, NEW x \in S, NEW t \in Seq(S)
  PROVE  Len(<<x>> \o t) = 1 + Len(t)
OBVIOUS

LEMMA PlanLength ==
  ASSUME NEW r, Fit(r), Head(r.plan) \notin {"ok", "failed"}
  PROVE  /\ Len(r.plan) \in Nat /\ Len(r.plan) > 1
         /\ Len(Tail(r.plan)) = Len(r.plan) - 1
         /\ Len(<<"wait">> \o Tail(r.plan)) = Len(r.plan)
<1>1. r.plan \in Seq(Stage) /\ r.plan # <<>> /\ Head(r.plan) = r.plan[1]
      /\ r.plan[Len(r.plan)] \in {"ok", "failed"}
  BY DEF Fit, Orderly
<1> DEFINE p == r.plan
           t == Tail(p)
<1> HIDE DEF p
<1>2. p \in Seq(Stage) /\ p # <<>> /\ Len(p) \in Nat /\ Len(p) # 0
  BY <1>1, LenProperties, EmptySeq DEF p
<1>3. t \in Seq(Stage) /\ Len(t) = Len(p) - 1
  BY <1>2, HeadTailProperties, ZenonT(40)
<1>4. Len(p) # 1
  BY <1>1, <1>2 DEF p
<1> HIDE DEF t
<1>5. Len(<<"wait">> \o t) = 1 + Len(t)
  <2>1. t \in Seq(Stage) /\ "wait" \in Stage
    BY <1>3 DEF Stage
  <2> QED
    BY <2>1, LongerByOne, Zenon
<1> DEFINE a == Len(p)
           b == Len(t)
           w == Len(<<"wait">> \o t)
<1> HIDE DEF a, b, w
<1>6. a \in Nat /\ a # 0 /\ a # 1 /\ b = a - 1 /\ w = 1 + b
  BY <1>2, <1>3, <1>4, <1>5 DEF a, b, w
<1>7. a \in Nat /\ a > 1 /\ b = a - 1 /\ w = a
  BY <1>6
<1> QED
  BY <1>7 DEF a, b, w, p, t

\* What is left once a command has done its step, has all it wanted, or has failed.
Remainder(r) == {Tail(r.plan), <<"ok">>, <<"failed">>}

\* A command that gives up its plan, or takes the next step of it, gets further.
LEMMA ShorterFurther ==
  ASSUME NEW r, Fit(r), Head(r.plan) \notin {"ok", "failed"}, NEW s, s.plan \in Remainder(r)
  PROVE  Further(s, r)
<1> DEFINE a == Len(r.plan)
           b == Len(Tail(r.plan))
           e == Len(s.plan)
<1>1. a \in Nat /\ a > 1 /\ b = a - 1
  BY PlanLength
<1>2. e = b \/ e = 1
  <2>1. CASE s.plan = Tail(r.plan)
    BY <2>1
  <2>2. CASE s.plan = <<"ok">> \/ s.plan = <<"failed">>
    <3>1. Len(<<"ok">>) = 1 /\ Len(<<"failed">>) = 1
      OBVIOUS
    <3> QED
      BY <2>2, <3>1
  <2> QED
    BY <2>1, <2>2 DEF Remainder
<1> HIDE DEF a, b, e
<1>3. e < a
  BY <1>1, <1>2
<1> QED
  BY <1>3 DEF Further, a, e

LEMMA Remainders ==
  ASSUME NEW r
  PROVE  Tail(r.plan) \in Remainder(r) /\ <<"ok">> \in Remainder(r) /\ <<"failed">> \in Remainder(r)
BY DEF Remainder

LEMMA ShorterPlans ==
  ASSUME NEW r \in Commands
  PROVE  Onward(r).plan = Tail(r.plan) /\ Failed(r).plan = <<"failed">>
BY DEF Onward, Failed, Commands

LEMMA FailsFurther ==
  ASSUME Inv, NEW c \in Active, ~Ended(c), Fail(c)
  PROVE  Further(cmd'[c], cmd[c])
<1>1. c \in Slot /\ Fit(cmd[c]) /\ cmd[c] \in Commands /\ Head(cmd[c].plan) \notin {"ok", "failed"}
  BY CommandFacts DEF Ended, At
<1>2. cmd'[c] = Failed(cmd[c])
  BY <1>1, InvParts DEF Fail, Put, CommandsFit
<1>3. cmd'[c].plan = <<"failed">>
  BY <1>1, <1>2, ShorterPlans
<1> QED
  BY <1>1, <1>3, Remainders, ShorterFurther

\* start_tunnel_spec: the command it is about becomes r, but for its copy of the records.
LEMMA OpenFurther ==
  ASSUME Inv, NEW c \in Active, ~Ended(c), NEW t, NEW r \in Commands, Open(c, t, r)
  PROVE  \/ Further(cmd'[c], cmd[c])
         \/ /\ cmd'[c].plan = r.plan /\ cmd'[c].todo = r.todo
<1>1. c \in Slot
  BY CommandFacts
<1>2. ASSUME NEW s, Put(c, s) PROVE cmd'[c] = s
  BY <1>1, <1>2, InvParts DEF Put, CommandsFit
<1>3. ASSUME NEW p, Put(c, [r EXCEPT !.mem[TunnelKey(t)] = p, !.hand = "dirty"])
      PROVE  cmd'[c].plan = r.plan /\ cmd'[c].todo = r.todo
  BY <1>2, <1>3 DEF Commands
<1> QED
  BY <1>2, <1>3, FailsFurther DEF Open

LEMMA MournedOwn ==
  ASSUME NEW cmds, Similar(cmds), NEW c \in Active, NEW p,
         cmd' = Mourn(cmds, cmd[c].host, p)
  PROVE  /\ cmd'[c].plan = cmds[c].plan /\ Same(cmd'[c], cmds[c])
         /\ cmd'[c].mem = Buried(cmds[c].mem, p)
<1> DEFINE M == Mourn(cmds, cmd[c].host, p)
<1>1. Similar(M) /\ M[c].mem = Buried(cmds[c].mem, p)
  BY SimilarMourn
<1> HIDE DEF M
<1>2. cmd' = M
  BY DEF M
<1> QED
  BY <1>1, <1>2 DEF Similar

LEMMA RemovedLeaves ==
  ASSUME NEW c \in Active, NEW cmds, Similar(cmds), NEW p,
         cmd' = cmds \/ cmd' = Mourn(cmds, cmd[c].host, p)
  PROVE  /\ cmd'[c].plan = cmd[c].plan /\ Same(cmd'[c], cmd[c])
         /\ cmd'[c].mem = cmds[c].mem \/ cmd'[c].mem = Buried(cmds[c].mem, p)
<1>1. CASE cmd' = cmds
  BY <1>1 DEF Similar
<1>2. CASE cmd' = Mourn(cmds, cmd[c].host, p)
  <2>1. /\ cmd'[c].plan = cmds[c].plan /\ Same(cmd'[c], cmds[c])
        /\ cmd'[c].mem = Buried(cmds[c].mem, p)
    BY <1>2, MournedOwn
  <2>2. cmds[c].plan = cmd[c].plan /\ Same(cmds[c], cmd[c])
    BY DEF Similar
  <2> QED
    BY <2>1, <2>2
<1> QED
  BY <1>1, <1>2

LEMMA StopFurther ==
  ASSUME IsFiniteSet(Machine), Inv, NEW c \in Slot, Stop(c)
  PROVE  Further(cmd'[c], cmd[c])
<1>1. c \in Active /\ Head(cmd[c].plan) = "stop" /\ cmd[c].hand # "none"
  BY AtFacts DEF Stop, Working
<1>2. Fit(cmd[c]) /\ cmd[c] \in Commands
  BY <1>1, CommandFacts
<1>3. CASE Put(c, Onward(cmd[c]))
  <2>1. cmd'[c] = Onward(cmd[c])
    BY <1>3, InvParts DEF Put, CommandsFit
  <2>2. Head(cmd[c].plan) \notin {"ok", "failed"} /\ cmd'[c].plan = Tail(cmd[c].plan)
    BY <1>1, <1>2, <2>1, ShorterPlans
  <2> QED
    BY <1>2, <2>2, Remainders, ShorterFurther
<1>4. ASSUME NEW k \in Victims(c),
             \/ cmd' = Removed(c, k)
             \/ cmd' = Mourn(Removed(c, k), cmd[c].host, cmd[c].mem[k])
      PROVE  Further(cmd'[c], cmd[c])
  <2> DEFINE m == cmd[c].mem
             R == Removed(c, k)
  <2>1. k \in Tunnel /\ k \in Seen(cmd[c]) /\ m[k] # NoPid
    BY DEF Victims, Seen
  <2>2. /\ Similar(R) /\ R[c].mem = [m EXCEPT ![k] = NoPid] /\ m \in Records
        /\ R[c].plan = cmd[c].plan /\ Same(R[c], cmd[c])
    BY <1>1, <2>1, RemovedFacts, CommandFacts DEF Similar
  <2> HIDE DEF m, R
  <2>3. /\ cmd'[c].plan = cmd[c].plan /\ Same(cmd'[c], cmd[c])
        /\ \/ cmd'[c].mem = [m EXCEPT ![k] = NoPid]
           \/ cmd'[c].mem = Buried([m EXCEPT ![k] = NoPid], m[k])
    <3>1. cmd' = R \/ cmd' = Mourn(R, cmd[c].host, m[k])
      BY <1>4 DEF R, m
    <3>2. c \in Active /\ Similar(R) /\ R[c].mem = [m EXCEPT ![k] = NoPid]
      BY <1>1, <2>2
    <3> DEFINE p == m[k]
               n == [m EXCEPT ![k] = NoPid]
    <3> HIDE TunnelsAssumption, PidAssumption, DelegationAssumption DEF p, n
    <3>3. cmd' = R \/ cmd' = Mourn(R, cmd[c].host, p)
      BY <3>1 DEF p
    <3>4. /\ cmd'[c].plan = cmd[c].plan /\ Same(cmd'[c], cmd[c])
          /\ cmd'[c].mem = R[c].mem \/ cmd'[c].mem = Buried(R[c].mem, p)
      <4> HIDE DEF Same
      <4> QED
        BY <3>2, <3>3, RemovedLeaves
    <3>5. R[c].mem = n
      BY <3>2 DEF n
    <3>6. cmd'[c].mem = n \/ cmd'[c].mem = Buried(n, p)
      BY <3>4, <3>5
    <3> QED
      BY <3>4, <3>6 DEF n, p
  <2>4. Seen(cmd'[c]) = Seen(cmd[c]) \ {k}
    <3>1. \A j \in Tunnel : cmd'[c].mem[j] # NoPid <=> m[j] # NoPid /\ j # k
      <4>1. \A j \in Tunnel : [m EXCEPT ![k] = NoPid][j] = IF j = k THEN NoPid ELSE m[j]
        BY <2>2 DEF Records
      <4> DEFINE n == [m EXCEPT ![k] = NoPid]
      <4>2. \A j \in Tunnel : Buried(n, m[k])[j] # NoPid <=> n[j] # NoPid
        BY <2>1, TunnelsAssumption DEF Buried
      <4> HIDE DEF n
      <4>3. cmd'[c].mem = n \/ cmd'[c].mem = Buried(n, m[k])
        BY <2>3 DEF n
      <4>4. \A j \in Tunnel : n[j] # NoPid <=> m[j] # NoPid /\ j # k
        BY <2>1, <4>1 DEF n
      <4> QED
        BY <4>2, <4>3, <4>4
    <3> QED
      BY <2>3, <3>1 DEF Seen, m
  <2>5. /\ IsFiniteSet(Seen(cmd[c])) /\ Cardinality(Seen(cmd[c])) \in Nat
        /\ Cardinality(Seen(cmd[c]) \ {k}) = Cardinality(Seen(cmd[c])) - 1
    <3>1. IsFiniteSet(Seen(cmd[c]))
      BY TunnelFinite, FS_Subset DEF Seen
    <3> QED
      BY <2>1, <3>1, FS_CardinalityType, FS_RemoveElement
  <2>6. Inside(cmd'[c]) = Cardinality(Seen(cmd[c])) - 1 /\ Inside(cmd[c]) = Cardinality(Seen(cmd[c]))
    BY <1>1, <2>3, <2>4, <2>5 DEF Inside
  <2> QED
    BY <2>3, <2>5, <2>6 DEF Further
<1> QED
  BY <1>3, <1>4, StopCases

\* What a command does itself.
LEMMA OwnSteps ==
  ASSUME IsFiniteSet(Machine), Inv, NEW c \in Active, Step(c) \/ TimeOut(c)
  PROVE  cmd'[c] = NoCommand \/ Further(cmd'[c], cmd[c])
<1>1. c \in Slot /\ Fit(cmd[c]) /\ cmd[c] \in Commands
  BY CommandFacts
<1>2. ASSUME NEW r, Put(c, r) PROVE cmd'[c] = r
  BY <1>1, <1>2, InvParts DEF Put, CommandsFit
<1> DEFINE Goes == Further(cmd'[c], cmd[c])
<1>14. ASSUME ~Ended(c), Put(c, Onward(cmd[c])) PROVE Goes
  <2>1. Head(cmd[c].plan) \notin {"ok", "failed"} /\ cmd'[c].plan = Tail(cmd[c].plan)
    BY <1>1, <1>2, <1>14, ShorterPlans DEF Ended, At
  <2> QED
    BY <1>1, <2>1, Remainders, ShorterFurther
<1>3. CASE Load(c)
  <2>1. Head(cmd[c].plan) = "load"
    BY <1>3 DEF Load, At
  <2>2. cmd'[c] = Onward([cmd[c] EXCEPT !.mem = saved[cmd[c].host], !.hand = "copy"])
    BY <1>2, <1>3 DEF Load
  <2>3. cmd'[c].plan = Tail(cmd[c].plan)
    BY <1>1, <2>2 DEF Onward, Commands
  <2> QED
    BY <1>1, <2>1, <2>3, Remainders, ShorterFurther
<1>4. CASE Start(c)
  <2>1. ~Ended(c) /\ Head(cmd[c].plan) = "start"
    BY <1>4 DEF Start, At, Ended
  <2>2. ASSUME NEW T, Put(c, Onward([cmd[c] EXCEPT !.todo = T])) PROVE Further(cmd'[c], cmd[c])
    <3>1. cmd'[c].plan = Tail(cmd[c].plan)
      BY <1>1, <1>2, <2>2 DEF Onward, Commands
    <3> QED
      BY <1>1, <2>1, <3>1, Remainders, ShorterFurther
  <2> QED
    BY <1>4, <2>1, <2>2, FailsFurther DEF Start
<1>5. CASE OpenReverse(c)
  <2>1. ~Ended(c) /\ Head(cmd[c].plan) = "reverse" /\ cmd[c].todo \subseteq Machine
    BY <1>5, CommandFacts DEF OpenReverse, At, Ended
  <2>2. CASE cmd[c].todo = {}
    BY <1>5, <2>1, <2>2, <1>14 DEF OpenReverse
  <2>3. CASE cmd[c].todo # {}
    <3> DEFINE q == First(cmd[c].todo)
               r == [cmd[c] EXCEPT !.todo = @ \ {q}]
               n == Cardinality(cmd[c].todo)
    <3>1. Open(c, Reverse(q), r)
      BY <1>5, <2>3 DEF OpenReverse
    <3>2. q \in cmd[c].todo
      BY <2>1, <2>3, LeastIsMember
    <3>3. r \in Commands /\ r.plan = cmd[c].plan /\ r.todo = cmd[c].todo \ {q}
      BY <1>1 DEF Commands
    <3>4. IsFiniteSet(cmd[c].todo)
      BY <2>1, FS_Subset
    <3>5. n \in Nat /\ Cardinality(cmd[c].todo \ {q}) = n - 1
      BY <3>2, <3>4, FS_CardinalityType, FS_RemoveElement
    <3> HIDE DEF q, r
    <3>6. ASSUME cmd'[c].plan = r.plan, cmd'[c].todo = r.todo PROVE Further(cmd'[c], cmd[c])
      BY <2>1, <3>3, <3>5, <3>6 DEF Further, Inside
    <3> QED
      BY <2>1, <3>1, <3>3, <3>6, OpenFurther
  <2> QED
    BY <2>2, <2>3
<1>6. CASE OpenLocal(c)
  <2>1. ~Ended(c) /\ Head(cmd[c].plan) = "tunnel"
    BY <1>6 DEF OpenLocal, At, Ended
  <2>2. ASSUME NEW t, Open(c, t, Onward(cmd[c])) PROVE Further(cmd'[c], cmd[c])
    <3>1. Onward(cmd[c]) \in Commands
      BY <1>1, <2>1, PlanEnds DEF Onward, Commands
    <3>2. ASSUME cmd'[c].plan = Onward(cmd[c]).plan PROVE Further(cmd'[c], cmd[c])
      BY <1>1, <2>1, <3>2, ShorterPlans, Remainders, ShorterFurther
    <3> QED
      BY <1>1, <2>1, <2>2, <3>1, <3>2, OpenFurther
  <2> QED
    BY <1>6, <1>14, <2>1, <2>2, FailsFurther DEF OpenLocal
<1>7. CASE Probe(c)
  <2>1. [cmd[c] EXCEPT !.plan = <<"ok">>].plan = <<"ok">>
    BY <1>1 DEF Commands
  <2>2. ~Ended(c) /\ Head(cmd[c].plan) = "probe"
    BY <1>7 DEF Probe, At, Ended
  <2>3. CASE ReverseListener(c)
    <3>1. cmd'[c].plan = <<"ok">>
      BY <1>2, <1>7, <2>1, <2>3 DEF Probe
    <3> QED
      BY <1>1, <2>2, <3>1, Remainders, ShorterFurther
  <2> QED
    BY <1>7, <1>14, <2>2, <2>3 DEF Probe
<1>8. CASE Stop(c)
  BY <1>1, <1>8, StopFurther
<1>9. CASE Halt(c)
  <2> DEFINE M == Mourn(cmd, cmd[c].host, Service)
  <2>1. Similar(M)
    BY InvParts, SimilarSame, SimilarMourn
  <2>2. cmd' = [M EXCEPT ![c] = Onward(@)] /\ Head(cmd[c].plan) = "halt"
    BY <1>9 DEF Halt, At
  <2> HIDE DEF M
  <2>3. M[c] \in Commands /\ M[c].plan = cmd[c].plan /\ cmd'[c] = Onward(M[c])
    BY <1>1, <2>1, <2>2 DEF Similar, Fit
  <2>4. cmd'[c].plan = Tail(cmd[c].plan)
    BY <2>3, ShorterPlans
  <2> QED
    BY <1>1, <2>2, <2>4, Remainders, ShorterFurther
<1>10. CASE Save(c)
  <2>1. Head(cmd[c].plan) = "save"
    BY <1>10 DEF Save, At
  <2>2. cmd'[c] = Onward([cmd[c] EXCEPT !.mem = NoRecord, !.hand = "none"])
    BY <1>2, <1>10 DEF Save
  <2>3. cmd'[c].plan = Tail(cmd[c].plan)
    BY <1>1, <2>2 DEF Onward, Commands
  <2> QED
    BY <1>1, <2>1, <2>3, Remainders, ShorterFurther
<1>11. CASE Ask(c)
  <2>1. ~Ended(c) /\ Head(cmd[c].plan) = "call"
    BY <1>11 DEF Ask, At, Ended
  <2>2. CASE cmd[c].to = Nobody
    BY <1>11, <2>1, <2>2, FailsFurther DEF Ask
  <2>3. CASE cmd[c].to # Nobody
    <3> DEFINE w == <<"wait">> \o Tail(cmd[c].plan)
    <3>1. PICK d \in Slot : FreeSlot(d) /\ \E r : cmd' = [cmd EXCEPT ![c].plan = w, ![d] = r]
      BY <1>11, <2>3 DEF Ask
    <3>2. d # c
      BY <3>1 DEF FreeSlot
    <3>3. Head(w) = "wait" /\ Len(w) = Len(cmd[c].plan) /\ Len(w) \in Nat
      BY <1>1, <2>1, WaitPlan, PlanLength DEF Fit
    <3> HIDE DEF w
    <3>4. cmd'[c].plan = w
      BY <1>1, <3>1, <3>2, InvParts DEF CommandsFit, Commands
    <3>5. Inside(cmd'[c]) = 0 /\ Inside(cmd[c]) = 1
      BY <2>1, <3>3, <3>4 DEF Inside
    <3> QED
      BY <3>3, <3>4, <3>5 DEF Further
  <2> QED
    BY <2>2, <2>3
<1>12. CASE Return(c)
  <2>1. cmd[c].caller \in Slot => cmd[c].caller # c
    BY InvParts DEF WaitInv
  <2> QED
    BY <1>1, <1>2, <1>12, <2>1, InvParts DEF Return, CommandsFit
<1>13. CASE TimeOut(c)
  <2>1. Head(cmd[c].plan) = "wait" /\ cmd' = Deserted(cmd, c)
    BY <1>13 DEF TimeOut, At
  <2>2. cmd'[c] = Failed(cmd[c])
    BY <2>1, InvParts, SimilarSame, DesertedFit
  <2>3. cmd'[c].plan = <<"failed">>
    BY <1>1, <2>2, ShorterPlans
  <2> QED
    BY <1>1, <2>1, <2>3, Remainders, ShorterFurther
<1> QED
  BY <1>3, <1>4, <1>5, <1>6, <1>7, <1>8, <1>9, <1>10, <1>11, <1>12, <1>13 DEF Step

\* What happens elsewhere: a copy of the records may name fewer processes that live, and
\* a command may be marked disturbed or lose whoever waits for it.
LEMMA AlikeStays ==
  ASSUME NEW r, NEW s, s.plan = r.plan, s.todo = r.todo, s.mem = r.mem, s.form = r.form,
         s.to = r.to
  PROVE  Stays(s, r)
BY DEF Stays, Inside, Seen

LEMMA DisturbedStays ==
  ASSUME Inv, NEW c \in Active
  PROVE  Stays(Disturbed[c], cmd[c])
<1>1. Fit(cmd[c]) /\ Disturbed[c] = [cmd[c] EXCEPT !.clean = FALSE]
  BY CommandFacts DEF Disturbed, Active
<1>2. /\ Disturbed[c].plan = cmd[c].plan /\ Disturbed[c].todo = cmd[c].todo
      /\ Disturbed[c].mem = cmd[c].mem /\ Disturbed[c].form = cmd[c].form
      /\ Disturbed[c].to = cmd[c].to
  BY <1>1 DEF Fit, Commands
<1> QED
  BY <1>2, AlikeStays

LEMMA MournStays ==
  ASSUME NEW cmds, Similar(cmds), NEW c \in Active, NEW h, NEW p, p # NoPid
  PROVE  Stays(Mourn(cmds, h, p)[c], cmds[c])
<1> DEFINE s == [cmds[c] EXCEPT !.mem = Buried(cmds[c].mem, p)]
<1>1. Fit(cmds[c]) /\ cmds[c].mem \in Records
  BY DEF Similar, Fit, Commands
<1>2. Mourn(cmds, h, p)[c] \in {s, cmds[c]}
  BY DEF Mourn, Active
<1>3. /\ s.plan = cmds[c].plan /\ s.todo = cmds[c].todo /\ Same(s, cmds[c])
      /\ s.mem = Buried(cmds[c].mem, p)
  BY <1>1, BuriedType, FitMem
<1> HIDE DEF s
<1>4. Seen(s) = Seen(cmds[c])
  <2>1. \A k \in Tunnel : Buried(cmds[c].mem, p)[k] # NoPid <=> cmds[c].mem[k] # NoPid
    BY TunnelsAssumption DEF Buried
  <2> QED
    BY <1>3, <2>1 DEF Seen
<1>5. Stays(s, cmds[c])
  BY <1>3, <1>4 DEF Stays, Inside
<1> QED
  BY <1>2, <1>5 DEF Stays

LEMMA LostStays ==
  ASSUME NEW r \in Commands
  PROVE  Stays([r EXCEPT !.caller = Lost], r)
<1> DEFINE s == [r EXCEPT !.caller = Lost]
<1>1. s.plan = r.plan /\ s.todo = r.todo /\ s.mem = r.mem /\ s.form = r.form /\ s.to = r.to
  BY DEF Commands
<1> HIDE DEF s
<1>2. Stays(s, r)
  BY <1>1, AlikeStays
<1> QED
  BY <1>2 DEF s

LEMMA StaysOn ==
  ASSUME NEW r, NEW s, NEW t, Stays(s, r), Stays(t, s)
  PROVE  Stays(t, r)
BY DEF Stays

\* Another command that is given up: whoever it asked is no longer waited for.
LEMMA DesertedStays ==
  ASSUME Inv, NEW c \in Active, NEW d \in Active \ {c}, NEW cmds, Similar(cmds),
         cmd' = Deserted(cmds, d)
  PROVE  Stays(cmd'[c], cmds[c])
<1>1. c \in Slot /\ cmds[c] \in Commands
  BY DEF Similar, Active, Fit
<1>2. cmd'[c] \in {cmds[c], [cmds[c] EXCEPT !.caller = Lost]}
  BY <1>1 DEF Deserted
<1>3. Stays([cmds[c] EXCEPT !.caller = Lost], cmds[c]) /\ Stays(cmds[c], cmds[c])
  BY <1>1, LostStays DEF Stays
<1> QED
  BY <1>2, <1>3

\* A command that is given up itself.
LEMMA GivenUpFurther ==
  ASSUME Inv, NEW c \in Active, ~Ended(c), NEW r \in Commands, cmd'[c] = Failed(r)
  PROVE  Further(cmd'[c], cmd[c])
<1>1. Fit(cmd[c]) /\ Head(cmd[c].plan) \notin {"ok", "failed"}
  BY CommandFacts DEF Ended, At
<1>2. cmd'[c].plan \in Remainder(cmd[c])
  BY ShorterPlans, Remainders
<1> QED
  BY <1>1, <1>2, ShorterFurther

\* A command whose answer comes gets on, or fails.
LEMMA AnsweredFurther ==
  ASSUME Inv, NEW d \in Slot, Return(d), cmd[d].caller \in Slot
  PROVE  Further(cmd'[cmd[d].caller], cmd[cmd[d].caller])
<1> DEFINE c == cmd[d].caller
<1>1. d \in Active
  BY DEF Return, Ended, At
<1>2. At(c, "wait") /\ c # d /\ c \in Active
  BY <1>1, InvParts DEF WaitInv, At
<1>3. Fit(cmd[c]) /\ cmd[c] \in Commands /\ Head(cmd[c].plan) = "wait"
  BY <1>2, CommandFacts DEF At
<1>4. cmd'[c] \in {Onward(cmd[c]), Failed(cmd[c])}
  BY <1>2, InvParts DEF Return, CommandsFit
<1> HIDE DEF c
<1>5. Onward(cmd[c]).plan = Tail(cmd[c].plan) /\ Failed(cmd[c]).plan = <<"failed">>
  BY <1>3, ShorterPlans
<1>6. cmd'[c].plan \in Remainder(cmd[c])
  BY <1>4, <1>5, Remainders
<1>7. Further(cmd'[c], cmd[c])
  BY <1>3, <1>6, ShorterFurther
<1> QED
  BY <1>7 DEF c

\* What another command does.
LEMMA OthersSteps ==
  ASSUME Inv, NEW c \in Active, NEW d \in Slot \ {c}, Step(d) \/ TimeOut(d)
  PROVE  Stays(cmd'[c], cmd[c]) \/ Further(cmd'[c], cmd[c])
<1>1. c \in Slot
  BY DEF Active
<1>2. ASSUME cmd'[c] = cmd[c] PROVE Stays(cmd'[c], cmd[c])
  BY <1>2 DEF Stays
<1>3. CASE Load(d) \/ Start(d) \/ OpenReverse(d) \/ OpenLocal(d) \/ Probe(d) \/ Save(d)
  BY <1>2, <1>3, PutElsewhere
<1>4. CASE Ask(d)
  <2>1. CASE cmd[d].to = Nobody
    BY <1>1, <1>2, <1>4, <2>1, InvParts DEF Ask, Fail, Put, CommandsFit
  <2>2. CASE cmd[d].to # Nobody
    <3>1. PICK e \in Slot :
            /\ FreeSlot(e)
            /\ \E p, r : cmd' = [cmd EXCEPT ![d].plan = p, ![e] = r]
      BY <1>4, <2>2 DEF Ask
    <3>2. c # e
      BY <3>1 DEF FreeSlot
    <3> QED
      BY <1>1, <1>2, <3>1, <3>2, InvParts DEF CommandsFit
  <2> QED
    BY <2>1, <2>2
<1>5. CASE Return(d)
  <2>1. CASE cmd[d].caller = c
    BY <1>1, <1>5, <2>1, AnsweredFurther
  <2>2. CASE cmd[d].caller # c
    BY <1>1, <1>2, <1>5, <2>2, InvParts DEF Return, Put, CommandsFit
  <2> QED
    BY <2>1, <2>2
<1>6. CASE Stop(d)
  <2>1. d \in Active /\ cmd[d].hand # "none"
    BY <1>6, AtFacts DEF Stop, Working
  <2>2. CASE Put(d, Onward(cmd[d]))
    BY <1>1, <1>2, <2>2, InvParts DEF Put, CommandsFit
  <2>3. ASSUME NEW k \in Victims(d),
               \/ cmd' = Removed(d, k)
               \/ cmd' = Mourn(Removed(d, k), cmd[d].host, cmd[d].mem[k])
        PROVE  Stays(cmd'[c], cmd[c])
    <3>1. k \in Tunnel /\ cmd[d].mem[k] # NoPid /\ c \in Active \ {d}
      BY DEF Victims
    <3>2. Similar(Removed(d, k)) /\ Removed(d, k)[c] = cmd[c]
      <4>1. /\ Similar(Removed(d, k))
            /\ \A e \in Active \ {d} : Removed(d, k)[e] = cmd[e]
        BY <2>1, <3>1, RemovedFacts
      <4> QED
        BY <3>1, <4>1
    <3>3. Stays(Mourn(Removed(d, k), cmd[d].host, cmd[d].mem[k])[c], cmd[c])
      BY <3>1, <3>2, MournStays
    <3> QED
      BY <1>2, <2>3, <3>2, <3>3
  <2> QED
    BY <1>6, <2>2, <2>3, StopCases
<1>7. CASE Halt(d)
  <2> DEFINE M == Mourn(cmd, cmd[d].host, Service)
  <2>1. cmd' = [M EXCEPT ![d] = Onward(@)]
    BY <1>7 DEF Halt
  <2>2. Similar(cmd) /\ Service # NoPid
    BY InvParts, SimilarSame, TunnelsAssumption
  <2>3. Similar(M) /\ Stays(M[c], cmd[c])
    BY <2>2, SimilarMourn, MournStays
  <2> HIDE DEF M
  <2>4. cmd'[c] = M[c]
    BY <1>1, <2>1, <2>3 DEF Similar
  <2> QED
    BY <2>3, <2>4
<1>8. CASE TimeOut(d)
  <2>1. d \in Active \ {c} /\ cmd' = Deserted(cmd, d) /\ Similar(cmd)
    BY <1>8, InvParts, SimilarSame DEF TimeOut, At
  <2> QED
    BY <2>1, DesertedStays
<1> QED
  BY <1>3, <1>4, <1>5, <1>6, <1>7, <1>8 DEF Step

\* Faults and commands given.
LEMMA FaultSteps ==
  ASSUME Inv, NEW c \in Active,
         \/ Faults
         \/ \E h \in Machine, n \in Port :
              \E do \in May[h] \cup Beside[h], q \in Peers[h] \cup {Nobody} :
                Begin(h, do[1], do[2], q, n)
  PROVE  Stays(cmd'[c], cmd[c]) \/ Further(cmd'[c], cmd[c])
<1>1. c \in Slot /\ Similar(Disturbed) /\ Disturbed[c] \in Commands
  <2>1. Similar(Disturbed)
    BY InvParts, SimilarDisturbed
  <2> QED
    BY <2>1 DEF Similar, Active, Fit
<1>2. Stays(Disturbed[c], cmd[c])
  BY DisturbedStays
<1>3. ASSUME NEW d \in Slot, LoseAnswer(d) PROVE Stays(cmd'[c], cmd[c])
  <2>1. cmd' = [Disturbed EXCEPT ![d].caller = Lost]
    BY <1>3 DEF LoseAnswer
  <2>2. cmd'[c] \in {Disturbed[c], [Disturbed[c] EXCEPT !.caller = Lost]}
    BY <1>1, <2>1 DEF Similar
  <2>3. Stays([Disturbed[c] EXCEPT !.caller = Lost], cmd[c])
    BY <1>1, <1>2, LostStays, StaysOn
  <2> QED
    BY <1>2, <2>2, <2>3
<1>4. ASSUME NEW d \in Slot, Break(d) PROVE Stays(cmd'[c], cmd[c]) \/ Further(cmd'[c], cmd[c])
  <2>1. d \in Active /\ ~Ended(d) /\ cmd' = Deserted(Disturbed, d)
    BY <1>4 DEF Break
  <2>2. CASE d = c
    <3>1. cmd'[c] = Failed(Disturbed[c])
      BY <1>1, <2>1, <2>2, InvParts, DesertedFit
    <3> QED
      BY <1>1, <2>1, <2>2, <3>1, GivenUpFurther
  <2>3. CASE d # c
    <3>1. Stays(cmd'[c], Disturbed[c])
      BY <1>1, <2>1, <2>3, DesertedStays
    <3> QED
      BY <1>2, <3>1, StaysOn
  <2> QED
    BY <2>2, <2>3
<1>5. ASSUME NEW d \in Slot, Leak(d) PROVE Stays(cmd'[c], cmd[c]) \/ Further(cmd'[c], cmd[c])
  <2>1. cmd' = [Disturbed EXCEPT ![d] = Failed(@)] /\ ~Ended(d)
    BY <1>5 DEF Leak, At, Ended
  <2>2. CASE d = c
    <3>1. cmd'[c] = Failed(Disturbed[c])
      BY <1>1, <2>1, <2>2 DEF Similar
    <3> QED
      BY <1>1, <2>1, <2>2, <3>1, GivenUpFurther
  <2>3. CASE d # c
    <3>1. cmd'[c] = Disturbed[c]
      BY <1>1, <2>1, <2>3 DEF Similar
    <3> QED
      BY <1>2, <3>1
  <2> QED
    BY <2>2, <2>3
<1>6. ASSUME NEW h \in Machine, NEW p \in Tunnel \cup {Service}, Die(h, p)
      PROVE  Stays(cmd'[c], cmd[c])
  <2>1. cmd' = Mourn(Disturbed, h, p) /\ p # NoPid
    BY <1>6, PidAssumption, TunnelsAssumption DEF Die
  <2>2. Stays(cmd'[c], Disturbed[c])
    BY <1>1, <2>1, MournStays
  <2> QED
    BY <1>2, <2>2, StaysOn
<1>7. ASSUME NEW h \in Machine, NEW n \in Port, NEW do \in May[h] \cup Beside[h],
             NEW q \in Peers[h] \cup {Nobody}, Begin(h, do[1], do[2], q, n)
      PROVE  Stays(cmd'[c], cmd[c])
  <2>1. PICK d \in Slot : FreeSlot(d) /\ \E r : cmd' = [Disturbed EXCEPT ![d] = r]
    BY <1>7 DEF Begin
  <2>2. d # c
    BY <2>1 DEF FreeSlot
  <2>3. cmd'[c] = Disturbed[c]
    BY <1>1, <2>1, <2>2 DEF Similar
  <2> QED
    BY <1>2, <2>3
<1> QED
  BY <1>3, <1>4, <1>5, <1>6, <1>7 DEF Faults

\* On any number of machines, with any commands and faults, every step of a command brings
\* it nearer to its end, and nothing that happens elsewhere sets it back: first by the
\* length of its plan, then by what is left of the step it is at.
THEOREM AdvanceCorrect == IsFiniteSet(Machine) => (Spec => CommandsAdvance)
<1> SUFFICES ASSUME IsFiniteSet(Machine)
             PROVE  Spec => CommandsAdvance
  OBVIOUS
<1>1. ASSUME Inv, [Next]_vars, NEW c \in Active
      PROVE  (Step(c) \/ TimeOut(c) => Nearer(c)) /\ (Nearer(c) \/ Unmoved(c))
  <2>1. /\ Further(cmd'[c], cmd[c]) => Nearer(c)
        /\ Stays(cmd'[c], cmd[c]) => Unmoved(c)
        /\ cmd'[c] = NoCommand => Nearer(c)
    BY WithinIsInside DEF Further, Stays, Nearer, Unmoved
  <2>2. c \in Slot
    BY DEF Active
  <2>3. CASE Step(c) \/ TimeOut(c)
    BY <1>1, <2>1, <2>3, OwnSteps
  <2>4. CASE UNCHANGED vars
    <3>1. cmd' = cmd
      BY <2>4 DEF vars
    <3>2. Stays(cmd'[c], cmd[c])
      BY <3>1 DEF Stays
    <3>3. ~(Step(c) \/ TimeOut(c)) \/ Nearer(c)
      BY <1>1, <2>3
    <3> QED
      BY <2>1, <3>2, <3>3
  <2>5. ASSUME ~(Step(c) \/ TimeOut(c)), Next PROVE Nearer(c) \/ Unmoved(c)
    <3>1. CASE \E d \in Slot \ {c} : Step(d) \/ TimeOut(d)
      BY <1>1, <2>1, <3>1, OthersSteps
    <3>2. CASE ~\E d \in Slot \ {c} : Step(d) \/ TimeOut(d)
      BY <1>1, <2>1, <2>5, <3>2, FaultSteps DEF Next
    <3> QED
      BY <3>1, <3>2
  <2> QED
    BY <1>1, <2>3, <2>4, <2>5
<1>2. Inv /\ [Next]_vars => \A c \in Active : /\ Step(c) \/ TimeOut(c) => Nearer(c)
                                              /\ Nearer(c) \/ Unmoved(c)
  BY <1>1
<1> QED
  BY <1>2, Invariance, PTL DEF Spec, CommandsAdvance
====
