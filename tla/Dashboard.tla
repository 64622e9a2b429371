---- MODULE Dashboard ----
(***************************************************************************)
(* The dashboard's server and its page.  The server takes one connection   *)
(* after another, reads a request and answers it before it accepts the     *)
(* next: a load of the rows is answered from the export cache, an action   *)
(* is run to its end.  The page has at most one load under way, any number *)
(* of actions, and loads the rows again after each.                        *)
(***************************************************************************)
EXTENDS ExportCache, Sequences

CONSTANTS
  Fetch,      \* loads of the page
  Action,     \* services whose buttons are pressed, one at a time
  NoCall, Silent,
  MaxTrouble  \* bound on restarts and on connections on which nothing is sent

Call == Fetch \cup Action

ASSUME DashboardAssumption ==
  /\ Fetch \cap Action = {} /\ {"none", "posted"} \cap Fetch = {}
  /\ {NoCall, Silent} \cap Call = {} /\ NoCall # Silent
  /\ MaxTrouble \in Nat

VARIABLES
  inbox,    \* connections not yet accepted
  serving,  \* the one being served, Silent if nothing comes from it
  silences,
  call,     \* where each call of the page is
  answer,   \* the rows a load was answered
  loading,  \* loadingPorts
  shown,    \* currentRows
  act,      \* what each action waits for: its own answer, then a load
  opens,    \* actions that are by now the open after another action
  busy,     \* busyKey
  outdated  \* the page holds the token of an earlier server

serverVars == <<inbox, serving, silences>>
pageVars   == <<loading, shown, act, opens, busy, outdated>>
cacheVars  == vars
dashVars   == <<cacheVars, serverVars, call, answer, pageVars>>

DashInit ==
  /\ Init
  /\ inbox = <<>> /\ serving = NoCall /\ silences = 0
  /\ call = [c \in Call |-> "none"]
  /\ answer = [f \in Fetch |-> Empty]
  /\ loading = FALSE /\ shown = Empty
  /\ act = [a \in Action |-> "none"] /\ opens = {} /\ busy = NoCall
  /\ outdated = FALSE

----
(* The page. *)

Unused(f)  == call[f] = "none" /\ f = CHOOSE g \in Fetch : call[g] = "none"
Settled(c) == call[c] \in {"ok", "failed"}

\* The calls in C are sent; the answer of call c is consumed.
Send(C, c) ==
  call' = [d \in Call |-> IF d \in C THEN "sent" ELSE IF d = c THEN "none" ELSE call[d]]

\* Faulty variant: a load starts beside another.
MayLoadAlways == TRUE

\* loadPorts gives up if a load is under way.
MayLoad == ~loading

\* The Refresh button, a return to the page, and its first load.
Look(f) ==
  /\ MayLoad /\ Unused(f)
  /\ loading' = TRUE
  /\ Send({f}, NoCall) /\ inbox' = Append(inbox, f)
  /\ UNCHANGED <<cacheVars, serving, silences, answer, shown, act, opens, busy, outdated>>

\* runActionForRow.
Click(a) ==
  /\ act[a] = "none" /\ call[a] = "none"
  /\ act' = [act EXCEPT ![a] = "posted"] /\ busy' = a
  /\ Send({a}, NoCall) /\ inbox' = Append(inbox, a)
  /\ UNCHANGED <<cacheVars, serving, silences, answer, loading, shown, opens, outdated>>

\* Faulty variant: only a success takes the mark off the button.
ActedUnlessFailed(a) ==
  /\ act[a] = "posted" /\ Settled(a)
  /\ Send({}, a)
  /\ act' = [act EXCEPT ![a] = "none"] /\ opens' = opens \ {a}
  /\ busy' = IF call[a] = "ok" THEN NoCall ELSE busy
  /\ UNCHANGED <<cacheVars, serverVars, answer, loading, shown, outdated>>

\* The open of runActionThenOpen; its mark is taken off at once.
ThenOpen(a) ==
  /\ a \notin opens /\ opens' = opens \cup {a}
  /\ act' = [act EXCEPT ![a] = "posted"] /\ busy' = NoCall
  /\ inbox' = Append(inbox, a)

\* The action was answered.  After a success the rows are loaded again, unless a load
\* is under way.
Acted(a) ==
  /\ act[a] = "posted" /\ Settled(a)
  /\ \/ /\ call[a] = "failed" \/ ~MayLoad
        /\ act' = [act EXCEPT ![a] = "none"] /\ opens' = opens \ {a} /\ busy' = NoCall
        /\ Send({}, a)
        /\ UNCHANGED <<inbox, loading>>
     \/ /\ call[a] = "ok" /\ ~MayLoad
        /\ ThenOpen(a) /\ Send({a}, NoCall)
        /\ UNCHANGED loading
     \/ /\ call[a] = "ok" /\ MayLoad
        /\ \E f \in Fetch :
             /\ Unused(f)
             /\ act' = [act EXCEPT ![a] = f]
             /\ Send({f}, a) /\ inbox' = Append(inbox, f)
        /\ loading' = TRUE
        /\ UNCHANGED <<opens, busy>>
  /\ UNCHANGED <<cacheVars, serving, silences, answer, shown, outdated>>

\* The load was answered, and with it ends the action that waited for it.
Loaded(f) ==
  /\ Settled(f) /\ Send({}, f)
  /\ shown' = IF call[f] = "ok" THEN answer[f] ELSE shown
  /\ loading' = FALSE
  /\ act' = [a \in Action |-> IF act[a] = f THEN "none" ELSE act[a]]
  /\ opens' = {a \in opens : act[a] # f}
  /\ busy' = IF act' = act THEN busy ELSE NoCall
  /\ answer' = [answer EXCEPT ![f] = Empty]
  /\ UNCHANGED <<cacheVars, serverVars, outdated>>

\* The same, and the service is opened.
LoadedThenOpen(f, a) ==
  /\ Settled(f) /\ act[a] = f
  /\ ThenOpen(a) /\ Send({a}, f)
  /\ shown' = IF call[f] = "ok" THEN answer[f] ELSE shown
  /\ loading' = FALSE
  /\ answer' = [answer EXCEPT ![f] = Empty]
  /\ UNCHANGED <<cacheVars, serving, silences, outdated>>

\* The user loads the page anew once it has no call under way.
Reload(f) ==
  /\ outdated /\ Unused(f) /\ \A c \in Call : call[c] = "none"
  /\ outdated' = FALSE
  /\ loading' = TRUE /\ shown' = Empty
  /\ Send({f}, NoCall) /\ inbox' = Append(inbox, f)
  /\ UNCHANGED <<cacheVars, serving, silences, answer, act, opens, busy>>

----
(* The server. *)

Trouble == silences + crashes < MaxTrouble

First(c) == request = "none" /\ serving = NoCall /\ inbox # <<>> /\ Head(inbox) = c

Reply(c, verdict) == call' = [call EXCEPT ![c] = verdict]

\* port_rows: the state file may not load; then refresh_exports_if_needed.
TakeLoad(f, t) ==
  /\ First(f)
  /\ RefreshIfNeeded(t)
  /\ inbox' = Tail(inbox) /\ serving' = f
  /\ UNCHANGED <<silences, call, answer, pageVars>>

RefuseLoad(f) ==
  /\ First(f)
  /\ inbox' = Tail(inbox) /\ Reply(f, "failed")
  /\ UNCHANGED <<cacheVars, serving, silences, answer, pageVars>>

AnswerLoad ==
  /\ serving \in Fetch
  /\ Rows
  /\ serving' = NoCall /\ Reply(serving, "ok")
  /\ answer' = [answer EXCEPT ![serving] = Answered]
  /\ UNCHANGED <<inbox, silences, pageVars>>

\* fast_local_exports: the registry may not load.
FailLoad ==
  /\ serving \in Fetch /\ request = "rows" /\ mutex = NoThread /\ exports = Empty
  /\ request' = "none"
  /\ serving' = NoCall /\ Reply(serving, "failed")
  /\ UNCHANGED <<live, memoryVars, file, threadVars, crashes, inbox, silences, answer, pageVars>>

\* require_post_token.
TakeAction(a) ==
  /\ First(a)
  /\ inbox' = Tail(inbox)
  /\ IF outdated THEN Reply(a, "failed") /\ UNCHANGED serving
     ELSE serving' = a /\ UNCHANGED call
  /\ UNCHANGED <<cacheVars, silences, answer, pageVars>>

\* run_action: whatever it does here or on a peer is done when it is answered.
EndAction ==
  /\ serving \in Action
  /\ (\E m \in Machine : Change(m)) \/ UNCHANGED cacheVars
  /\ serving' = NoCall
  /\ Reply(serving, "ok") \/ Reply(serving, "failed")
  /\ UNCHANGED <<inbox, silences, answer, pageVars>>

\* handle_request waits for the first bytes of a request.  (Browsers open connections
\* in advance.)
TakeSilent ==
  /\ request = "none" /\ serving = NoCall
  /\ Trouble /\ silences' = silences + 1
  /\ serving' = Silent
  /\ UNCHANGED <<cacheVars, inbox, call, answer, pageVars>>

HangUp ==
  /\ serving = Silent
  /\ serving' = NoCall
  /\ UNCHANGED <<cacheVars, inbox, silences, call, answer, pageVars>>

----
\* The server starts: the refresh before any request.
Begin(t) == request = "start" /\ RefreshIfNeeded(t) /\ UNCHANGED <<serverVars, call, answer, pageVars>>

Background ==
  /\ Elapse \/ (\E t \in Thread : Refresh(t)) \/ (\E m \in Machine : Change(m))
  /\ UNCHANGED <<serverVars, call, answer, pageVars>>

\* Its calls fail, and the page outlives the server.
ServerRestart ==
  /\ Trouble /\ Restart
  /\ inbox' = <<>> /\ serving' = NoCall /\ outdated' = TRUE
  /\ call' = [c \in Call |-> IF call[c] = "sent" THEN "failed" ELSE call[c]]
  /\ UNCHANGED <<silences, answer, loading, shown, act, opens, busy>>

Page ==
  \/ \E a \in Action : Acted(a)
  \/ \E f \in Fetch : Loaded(f) \/ \E a \in Action : LoadedThenOpen(f, a)

Server ==
  \/ \E t \in Thread : Begin(t) \/ \E f \in Fetch : TakeLoad(f, t)
  \/ \E f \in Fetch : RefuseLoad(f)
  \/ \E a \in Action : TakeAction(a)
  \/ AnswerLoad \/ FailLoad \/ EndAction

DashNext ==
  \/ \E f \in Fetch : Look(f) \/ Reload(f)
  \/ \E a \in Action : Click(a)
  \/ Page \/ Server \/ TakeSilent \/ HangUp \/ Background \/ ServerRestart

DashSpec == DashInit /\ [][DashNext]_dashVars

Aside(A) == A /\ UNCHANGED <<serverVars, call, answer, pageVars>>

\* The server and the page go on by themselves; the refresh threads are not relied
\* on, except to write the file with the mutex in hand.
DashFairSpec ==
  /\ DashSpec
  /\ WF_dashVars(Server)
  /\ WF_dashVars(\E f \in Fetch : Loaded(f))
  /\ \A a \in Action : WF_dashVars(Acted(a))
  /\ WF_dashVars(Aside(\E t \in Thread : Written(t)))

----
DashTypeOK ==
  /\ TypeOK
  /\ inbox \in Seq(Call) /\ serving \in Call \cup {NoCall, Silent}
  /\ silences \in 0 .. MaxTrouble
  /\ call \in [Call -> {"none", "sent", "ok", "failed"}]
  /\ answer \in [Fetch -> Snapshot]
  /\ loading \in BOOLEAN /\ shown \in Snapshot
  /\ act \in [Action -> {"none", "posted"} \cup Fetch]
  /\ opens \subseteq Action /\ busy \in Action \cup {NoCall} /\ outdated \in BOOLEAN

\* The page never shows an older version of a peer's services than it did, whatever
\* answer comes late and however often the server restarts.  (This machine's own rows
\* may go back once, from the registry as it is to the first snapshot of it.)
ShownNeverOlder ==
  [][\A p \in Peer : shown'[p] = 0 \/ shown'[p] >= shown[p]]_dashVars

\* The button that is marked busy is one whose action is under way, and the page waits
\* for a load exactly while there is one: no mark and no guard outlives its call.
MarksAreTrue ==
  /\ busy # NoCall => act[busy] # "none"
  /\ loading <=> \E f \in Fetch : call[f] # "none"

\* The silent connections are closed in the end.
Polite == WF_dashVars(HangUp)

\* Every load and every action of the page ends, though no peer, and not even the local
\* probe, ever answers a refresh, whatever stands before it in the queue, and if the
\* server restarts.
CallsEnd ==
  Polite => []<>~loading /\ \A a \in Action : []<>(act[a] = "none")

\* A refresh thread runs to its end, for every ssh call has a timeout.
ThreadsRun == WF_dashVars(Aside(\E t \in Thread : Refresh(t)))

\* The user comes back to the page again and again, and not every load is refused.
Attended ==
  /\ WF_dashVars(\E f \in Fetch : Look(f))
  /\ SF_dashVars(\E f \in Fetch, t \in Thread : TakeLoad(f, t))
  /\ WF_dashVars(Aside(Elapse))

\* Whoever a refresh has asked answers.
Heard(t) ==
  stage'[t] = "peers" /\ (stage'[t] # stage[t] \/ pending'[t] # pending[t]) => got'[t] # got[t]

\* The page shows in the end what every machine's registry says in the end, if from some
\* time on everybody answers: a refresh that failed, a restart and the loads that the
\* guard dropped are all made up for.
PageCatchesUp ==
  Polite /\ ThreadsRun /\ Attended /\ <>[][\A t \in Thread : Heard(t)]_dashVars
    => <>[](shown = live)
====
