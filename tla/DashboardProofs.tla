---- MODULE DashboardProofs ----
(***************************************************************************)
(* Proofs about Dashboard, for any peers, calls, versions, restarts and    *)
(* silent connections.                                                     *)
(***************************************************************************)
EXTENDS Dashboard, ExportCacheProofs

USE DashboardAssumption

\* What the server and the page do to the cache is what ExportCache lets happen.
LEMMA CacheRefinedStep == [DashNext]_dashVars => [Next]_vars
<1> SUFFICES ASSUME [DashNext]_dashVars PROVE [Next]_vars
  OBVIOUS
<1> USE DEF cacheVars
<1>1. ASSUME NEW f \in Fetch, NEW t \in Thread, TakeLoad(f, t) PROVE Next
  BY <1>1 DEF TakeLoad, Next
<1>2. CASE AnswerLoad
  BY <1>2 DEF AnswerLoad, Next
<1>3. CASE FailLoad
  BY <1>3 DEF FailLoad, Rows, Next
<1>4. CASE EndAction
  BY <1>4 DEF EndAction, Next
<1>5. ASSUME NEW t \in Thread, Begin(t) PROVE Next
  BY <1>5 DEF Begin, Next
<1>6. CASE Background
  BY <1>6 DEF Background, Next
<1>7. CASE ServerRestart
  BY <1>7 DEF ServerRestart, Next
<1>8. ASSUME NEW f \in Fetch, RefuseLoad(f) \/ Look(f) \/ Reload(f) \/ Loaded(f) PROVE UNCHANGED vars
  BY <1>8 DEF RefuseLoad, Look, Reload, Loaded
<1>9. ASSUME NEW a \in Action, TakeAction(a) \/ Click(a) \/ Acted(a) PROVE UNCHANGED vars
  BY <1>9 DEF TakeAction, Click, Acted
<1>10. ASSUME NEW f \in Fetch, NEW a \in Action, LoadedThenOpen(f, a) PROVE UNCHANGED vars
  BY <1>10 DEF LoadedThenOpen
<1>11. CASE TakeSilent \/ HangUp \/ UNCHANGED dashVars
  BY <1>11 DEF TakeSilent, HangUp, dashVars
<1> QED
  BY <1>1, <1>2, <1>3, <1>4, <1>5, <1>6, <1>7, <1>8, <1>9, <1>10, <1>11 DEF DashNext, Page, Server

\* The dashboard implements the cache: whatever is true of ExportCache's behaviours is
\* true of the composition.
THEOREM CacheRefined == DashSpec => Spec
<1>1. DashInit => Init
  BY DEF DashInit
<1> QED
  BY <1>1, CacheRefinedStep, PTL DEF DashSpec, Spec

\* RestartKeepsSnapshot and ExportsNeverOlder, of the composition.
THEOREM DashSnapshotCorrect == DashSpec => []RestartKeepsSnapshot
BY CacheRefined, SnapshotCorrect, PTL

THEOREM DashNeverOlderCorrect == DashSpec => ExportsNeverOlder
BY CacheRefined, NeverOlderCorrect, PTL

LEMMA DashCacheCorrect == DashSpec => []CacheInv
BY CacheRefined, CacheCorrect, PTL

----
(* The queue. *)

Place == {"none", "sent", "ok", "failed"}

\* A call that waits for the server or is served has been sent, and stands there once.
Queued ==
  /\ inbox \in Seq(Call)
  /\ \A i \in 1 .. Len(inbox) : call[inbox[i]] = "sent" /\ serving # inbox[i]
  /\ \A i, j \in 1 .. Len(inbox) : inbox[i] = inbox[j] => i = j
  /\ serving \in Call => call[serving] = "sent"

LEMMA Appended ==
  ASSUME Queued, NEW c \in Call, call[c] # "sent", inbox' = Append(inbox, c), serving' = serving,
         call'[c] = "sent", \A d \in Call : call[d] = "sent" => call'[d] = "sent"
  PROVE  Queued'
<1>1. /\ inbox' \in Seq(Call) /\ Len(inbox') = Len(inbox) + 1
      /\ inbox'[Len(inbox) + 1] = c /\ \A i \in 1 .. Len(inbox) : inbox'[i] = inbox[i]
  BY DEF Queued
<1>2. \A i \in 1 .. Len(inbox) : inbox[i] \in Call /\ inbox[i] # c
  BY DEF Queued
<1>3. serving # c
  BY DEF Queued
<1> QED
  BY <1>1, <1>2, <1>3 DEF Queued

LEMMA Accepted ==
  ASSUME Queued, call \in [Call -> Place], inbox # <<>>, inbox' = Tail(inbox), NEW c, Head(inbox) = c,
         serving \notin Call,
         \/ serving' = c /\ call' = call
         \/ serving' = serving /\ call' = [call EXCEPT ![c] = "failed"]
  PROVE  Queued'
<1>1. Len(inbox) \in Nat /\ Len(inbox) > 0 /\ c = inbox[1] /\ c \in Call /\ call[c] = "sent"
  BY DEF Queued
<1>2. /\ inbox' \in Seq(Call) /\ Len(inbox') = Len(inbox) - 1
      /\ \A i \in 1 .. Len(inbox') : i + 1 \in 1 .. Len(inbox) /\ inbox'[i] = inbox[i + 1]
  BY <1>1 DEF Queued
<1>3. \A i \in 1 .. Len(inbox') : inbox'[i] \in Call /\ inbox'[i] # c
  BY <1>1, <1>2 DEF Queued
<1>4. \A i \in 1 .. Len(inbox') : call'[inbox'[i]] = "sent" /\ serving' # inbox'[i]
  BY <1>1, <1>2, <1>3 DEF Queued
<1>5. \A i, j \in 1 .. Len(inbox') : inbox'[i] = inbox'[j] => i = j
  BY <1>2 DEF Queued
<1> QED
  BY <1>1, <1>2, <1>4, <1>5 DEF Queued

\* A marked button has an action; one that waits for a load has no call of its own.
Marks ==
  /\ busy # NoCall => act[busy] # "none"
  /\ \A a \in Action : act[a] \in Fetch => call[a] = "none"
OneLoad ==
  /\ \A f, g \in Fetch : call[f] # "none" /\ call[g] # "none" => f = g
  /\ loading <=> \E f \in Fetch : call[f] # "none"

LEMMA Sent ==
  ASSUME NEW C, NEW c, call \in [Call -> Place], Send(C, c)
  PROVE  /\ call' \in [Call -> Place]
         /\ \A d \in C \cap Call : call'[d] = "sent"
         /\ \A d \in Call \ C : call'[d] = IF d = c THEN "none" ELSE call[d]
BY DEF Send, Place

LEMMA Replied ==
  ASSUME NEW c \in Call, NEW v \in Place, call \in [Call -> Place], Reply(c, v)
  PROVE  call' \in [Call -> Place] /\ call'[c] = v /\ \A d \in Call \ {c} : call'[d] = call[d]
BY DEF Reply

LEMMA CallFacts == Fetch \subseteq Call /\ Action \subseteq Call
BY DEF Call

PageType ==
  /\ answer \in [Fetch -> Snapshot]
  /\ loading \in BOOLEAN /\ shown \in Snapshot
  /\ act \in [Action -> {"none", "posted"} \cup Fetch]
  /\ opens \subseteq Action /\ busy \in Action \cup {NoCall} /\ outdated \in BOOLEAN

ServerType ==
  /\ inbox \in Seq(Call) /\ serving \in Call \cup {NoCall, Silent}
  /\ silences \in 0 .. MaxTrouble

PageInv == PageType /\ ServerType /\ call \in [Call -> Place] /\ Queued /\ Marks /\ OneLoad

LEMMA PageInit == DashInit => PageInv
<1> SUFFICES ASSUME DashInit PROVE PageInv
  OBVIOUS
<1>1. PageType
  BY MachineFacts DEF DashInit, PageType
<1>2. ServerType /\ Queued
  BY DEF DashInit, ServerType, Queued
<1>3. call \in [Call -> Place] /\ \A c \in Call : call[c] = "none"
  BY DEF DashInit, Place
<1>4. Marks /\ OneLoad
  BY <1>3, CallFacts DEF DashInit, Marks, OneLoad
<1> QED
  BY <1>1, <1>2, <1>3, <1>4 DEF PageInv

\* Nothing the server does to a call makes it come or go.
LEMMA ServerKeeps ==
  ASSUME PageInv, UNCHANGED pageVars, NEW c \in Call, call[c] = "sent",
         NEW v \in {"sent", "ok", "failed"},
         call' \in [Call -> Place], call'[c] = v, \A d \in Call \ {c} : call'[d] = call[d]
  PROVE  Marks' /\ OneLoad'
<1>1. \A d \in Call : call'[d] # "none" <=> call[d] # "none"
  OBVIOUS
<1> QED
  BY <1>1, CallFacts DEF PageInv, Marks, OneLoad, pageVars

LEMMA AnsweredType == TypeOK => Answered \in Snapshot
<1> SUFFICES ASSUME TypeOK PROVE Answered \in Snapshot
  OBVIOUS
<1>1. live[Local] \in 0 .. MaxVersion
  BY MachineFacts DEF TypeOK
<1> QED
  BY <1>1, MachineFacts, SnapshotUpdate DEF Answered, TypeOK

\* A load is sent, for somebody who found none under way.
LEMMA LoadSent ==
  ASSUME PageInv, NEW f \in Fetch, NEW c, c = NoCall \/ (c \in Action /\ call[c] # "sent"),
         \A g \in Fetch : call[g] = "none",
         Send({f}, c), inbox' = Append(inbox, f), loading' = TRUE, serving' = serving,
         silences' = silences
  PROVE  /\ call' \in [Call -> Place] /\ Queued' /\ OneLoad' /\ ServerType'
         /\ \A a \in Action : call'[a] = IF a = c THEN "none" ELSE call[a]
<1>1. f \in Call /\ call[f] = "none" /\ c # f /\ c \notin Fetch
  BY CallFacts
<1>2. /\ call' \in [Call -> Place] /\ call'[f] = "sent"
      /\ \A d \in Call \ {f} : call'[d] = IF d = c THEN "none" ELSE call[d]
  BY <1>1, Sent DEF PageInv
<1>3. \A d \in Call : call[d] = "sent" => call'[d] = "sent"
  BY <1>1, <1>2
<1>4. Queued'
  BY <1>1, <1>2, <1>3, Appended DEF PageInv
<1>5. \A g \in Fetch : call'[g] # "none" <=> g = f
  BY <1>1, <1>2, CallFacts
<1>6. OneLoad'
  BY <1>5 DEF OneLoad
<1>7. ServerType'
  BY <1>4 DEF PageInv, ServerType, Queued
<1>8. \A a \in Action : call'[a] = IF a = c THEN "none" ELSE call[a]
  BY <1>1, <1>2, CallFacts
<1> QED
  BY <1>2, <1>4, <1>6, <1>7, <1>8

\* An answer is consumed.
LEMMA Consumed ==
  ASSUME PageInv, NEW c \in Call, Settled(c), Send({}, c), UNCHANGED serverVars
  PROVE  /\ call' \in [Call -> Place] /\ Queued' /\ ServerType'
         /\ call'[c] = "none" /\ \A d \in Call \ {c} : call'[d] = call[d]
<1>1. /\ call' \in [Call -> Place] /\ call'[c] = "none"
      /\ \A d \in Call \ {c} : call'[d] = call[d]
  BY Sent DEF PageInv
<1>2. call[c] # "sent"
  BY DEF Settled
<1>3. \A i \in 1 .. Len(inbox) : inbox[i] \in Call
  BY DEF PageInv, Queued
<1>4. Queued'
  BY <1>1, <1>2, <1>3 DEF PageInv, Queued, serverVars
<1> QED
  BY <1>1, <1>4 DEF PageInv, ServerType, serverVars

LEMMA PageStep == PageInv /\ TypeOK /\ [DashNext]_dashVars => PageInv'
<1> SUFFICES ASSUME PageInv, TypeOK, [DashNext]_dashVars PROVE PageInv'
  OBVIOUS
<1> USE CallFacts
<1>1. ASSUME NEW f \in Fetch, Look(f) PROVE PageInv'
  <2>1. \A g \in Fetch : call[g] = "none"
    BY <1>1 DEF Look, MayLoad, PageInv, OneLoad
  <2>2. /\ call' \in [Call -> Place] /\ Queued' /\ OneLoad' /\ ServerType'
        /\ \A a \in Action : call'[a] = call[a]
    BY <1>1, <2>1, LoadSent DEF Look
  <2>3. PageType' /\ Marks'
    BY <1>1, <2>2 DEF Look, PageInv, PageType, Marks
  <2> QED
    BY <2>2, <2>3 DEF PageInv
<1>2. ASSUME NEW f \in Fetch, Reload(f) PROVE PageInv'
  <2>1. \A g \in Fetch : call[g] = "none"
    BY <1>2 DEF Reload
  <2>2. /\ call' \in [Call -> Place] /\ Queued' /\ OneLoad' /\ ServerType'
        /\ \A a \in Action : call'[a] = call[a]
    BY <1>2, <2>1, LoadSent DEF Reload
  <2>3. PageType' /\ Marks'
    BY <1>2, <2>2, MachineFacts DEF Reload, PageInv, PageType, Marks
  <2> QED
    BY <2>2, <2>3 DEF PageInv
<1>3. ASSUME NEW a \in Action, Click(a) PROVE PageInv'
  <2>1. /\ call' \in [Call -> Place] /\ call'[a] = "sent"
        /\ \A d \in Call \ {a} : call'[d] = IF d = NoCall THEN "none" ELSE call[d]
    BY <1>3, Sent DEF Click, PageInv
  <2>2. Queued'
    BY <1>3, <2>1, Appended DEF Click, PageInv
  <2>3. PageType' /\ Marks'
    BY <1>3, <2>1 DEF Click, PageInv, PageType, Marks
  <2>4. \A f \in Fetch : call'[f] = call[f]
    BY <2>1
  <2>5. OneLoad'
    BY <1>3, <2>4 DEF Click, PageInv, OneLoad
  <2> QED
    BY <1>3, <2>1, <2>2, <2>3, <2>5 DEF Click, PageInv, ServerType, Queued
<1>4. ASSUME NEW a \in Action, Acted(a) PROVE PageInv'
  <2>1. CASE /\ act' = [act EXCEPT ![a] = "none"] /\ opens' = opens \ {a} /\ busy' = NoCall
             /\ Send({}, a) /\ UNCHANGED <<inbox, loading>>
    <3>1. /\ call' \in [Call -> Place] /\ Queued' /\ ServerType'
          /\ call'[a] = "none" /\ \A d \in Call \ {a} : call'[d] = call[d]
      BY <1>4, <2>1, Consumed DEF Acted, serverVars
    <3>2. PageType' /\ Marks'
      BY <1>4, <2>1, <3>1 DEF Acted, PageInv, PageType, Marks
    <3>3. OneLoad'
      BY <1>4, <2>1, <3>1 DEF PageInv, OneLoad
    <3> QED
      BY <3>1, <3>2, <3>3 DEF PageInv
  <2>2. ASSUME MayLoad, NEW f \in Fetch, act' = [act EXCEPT ![a] = f], Send({f}, a),
               inbox' = Append(inbox, f), loading' = TRUE, UNCHANGED <<opens, busy>>
        PROVE  PageInv'
    <3>1. \A g \in Fetch : call[g] = "none"
      BY <2>2 DEF MayLoad, PageInv, OneLoad
    <3>2. call[a] # "sent" /\ act[a] = "posted" /\ UNCHANGED <<serving, silences, answer, shown, outdated>>
      BY <1>4 DEF Acted, Settled
    <3>3. /\ call' \in [Call -> Place] /\ Queued' /\ OneLoad' /\ ServerType'
          /\ \A b \in Action : call'[b] = IF b = a THEN "none" ELSE call[b]
      BY <2>2, <3>1, <3>2, LoadSent
    <3>4. PageType'
      BY <2>2, <3>2 DEF PageInv, PageType
    <3>6. Marks'
      BY <2>2, <3>2, <3>3 DEF PageInv, PageType, Marks
    <3> QED
      BY <3>3, <3>4, <3>6 DEF PageInv
  <2>3. CASE ThenOpen(a) /\ Send({a}, NoCall) /\ UNCHANGED loading
    <3>1. call[a] # "sent" /\ UNCHANGED <<serving, silences, answer, shown, outdated>>
      BY <1>4 DEF Acted, Settled
    <3>2. /\ call' \in [Call -> Place] /\ call'[a] = "sent"
          /\ \A d \in Call \ {a} : call'[d] = IF d = NoCall THEN "none" ELSE call[d]
      BY <2>3, Sent DEF PageInv
    <3>3. NoCall \notin Call
      OBVIOUS
    <3>4. Queued'
      BY <2>3, <3>1, <3>2, <3>3, Appended DEF ThenOpen, PageInv
    <3>5. \A f \in Fetch : call'[f] = call[f]
      BY <3>2, <3>3
    <3>6. OneLoad'
      BY <2>3, <3>5 DEF PageInv, OneLoad
    <3>7. PageType' /\ Marks'
      BY <2>3, <3>1, <3>2, <3>3 DEF ThenOpen, PageInv, PageType, Marks
    <3>8. ServerType'
      BY <3>1, <3>4 DEF PageInv, ServerType, Queued
    <3> QED
      BY <3>2, <3>4, <3>6, <3>7, <3>8 DEF PageInv
  <2> QED
    BY <1>4, <2>1, <2>2, <2>3 DEF Acted
<1>5. ASSUME NEW f \in Fetch, Loaded(f) PROVE PageInv'
  <2>1. /\ call' \in [Call -> Place] /\ Queued' /\ ServerType'
        /\ call'[f] = "none" /\ \A d \in Call \ {f} : call'[d] = call[d]
    BY <1>5, Consumed DEF Loaded
  <2>2. call[f] # "none"
    BY <1>5 DEF Loaded, Settled
  <2>3. OneLoad'
    BY <1>5, <2>1, <2>2 DEF Loaded, PageInv, OneLoad
  <2>4. PageType' /\ Marks'
    BY <1>5, <2>1, MachineFacts DEF Loaded, PageInv, PageType, Marks
  <2> QED
    BY <2>1, <2>3, <2>4 DEF PageInv
<1>6. ASSUME NEW f \in Fetch, NEW a \in Action, LoadedThenOpen(f, a) PROVE PageInv'
  <2>1. f # a /\ call[f] \notin {"none", "sent"} /\ call[a] # "sent"
    BY <1>6 DEF LoadedThenOpen, Settled, PageInv, Marks
  <2>2. /\ call' \in [Call -> Place] /\ call'[a] = "sent"
        /\ \A d \in Call \ {a} : call'[d] = IF d = f THEN "none" ELSE call[d]
    BY <1>6, Sent DEF LoadedThenOpen, ThenOpen, PageInv
  <2>3. \A d \in Call : call[d] = "sent" => call'[d] = "sent"
    BY <2>1, <2>2
  <2>4. Queued'
    BY <1>6, <2>1, <2>2, <2>3, Appended DEF LoadedThenOpen, ThenOpen, PageInv
  <2>5. \A g \in Fetch : call'[g] = "none"
    BY <2>1, <2>2 DEF PageInv, OneLoad
  <2>6. OneLoad'
    BY <1>6, <2>5 DEF LoadedThenOpen, ThenOpen, OneLoad
  <2>7. PageType' /\ Marks'
    BY <1>6, <2>2, MachineFacts DEF LoadedThenOpen, ThenOpen, PageInv, PageType, Marks
  <2>8. ServerType'
    BY <1>6, <2>4 DEF LoadedThenOpen, ThenOpen, PageInv, ServerType, Queued
  <2> QED
    BY <2>2, <2>4, <2>6, <2>7, <2>8 DEF PageInv
<1>7. ASSUME NEW c \in Call, First(c), inbox' = Tail(inbox), UNCHANGED <<silences, answer, pageVars>>,
             \/ serving' = c /\ call' = call
             \/ serving' = serving /\ call' = [call EXCEPT ![c] = "failed"]
      PROVE  PageInv'
  <2>1. serving \notin Call /\ inbox # <<>> /\ Head(inbox) = c
    BY <1>7 DEF First
  <2>2. call \in [Call -> Place] /\ call[c] = "sent"
    BY <2>1 DEF PageInv, Queued
  <2>3. Queued'
    BY <1>7, <2>1, Accepted DEF PageInv
  <2>4. ServerType'
    BY <1>7, <2>3 DEF PageInv, ServerType, Queued
  <2>5. /\ call' \in [Call -> Place] /\ \A d \in Call \ {c} : call'[d] = call[d]
        /\ call'[c] \in {"sent", "failed"}
    BY <1>7, <2>2 DEF Place
  <2>6. Marks' /\ OneLoad'
    BY <1>7, <2>2, <2>5, ServerKeeps
  <2>7. PageType'
    BY <1>7 DEF PageInv, PageType, pageVars
  <2> QED
    BY <2>3, <2>4, <2>5, <2>6, <2>7 DEF PageInv
<1>8. ASSUME serving \in Call, serving' = NoCall, UNCHANGED <<inbox, silences, pageVars>>,
             NEW v \in {"ok", "failed"}, Reply(serving, v), answer' \in [Fetch -> Snapshot]
      PROVE  PageInv'
  <2>1. call \in [Call -> Place] /\ call[serving] = "sent"
    BY <1>8 DEF PageInv, Queued
  <2>2. /\ call' \in [Call -> Place] /\ call'[serving] = v
        /\ \A d \in Call \ {serving} : call'[d] = call[d]
    BY <1>8, <2>1, Replied DEF Place
  <2>3. \A i \in 1 .. Len(inbox) : inbox[i] \in Call
    BY DEF PageInv, Queued
  <2>4. Queued'
    BY <1>8, <2>2, <2>3 DEF PageInv, Queued
  <2>5. ServerType' /\ PageType'
    BY <1>8 DEF PageInv, ServerType, PageType, pageVars
  <2>6. Marks' /\ OneLoad'
    BY <1>8, <2>1, <2>2, ServerKeeps
  <2> QED
    BY <2>2, <2>4, <2>5, <2>6 DEF PageInv
<1>9. ASSUME UNCHANGED <<inbox, call, answer, pageVars>>, {serving, serving'} \subseteq {NoCall, Silent},
             silences' \in 0 .. MaxTrouble
      PROVE  PageInv'
  <2>1. Queued' /\ ServerType' /\ PageType'
    BY <1>9 DEF PageInv, Queued, ServerType, PageType, pageVars
  <2> QED
    BY <1>9, <2>1 DEF PageInv, Marks, OneLoad, pageVars
<1>10. ASSUME UNCHANGED <<serverVars, call, answer, pageVars>> PROVE PageInv'
  BY <1>10 DEF PageInv, Queued, ServerType, PageType, Marks, OneLoad, pageVars, serverVars
<1>11. CASE ServerRestart
  <2>1. \A c \in Call : call'[c] = IF call[c] = "sent" THEN "failed" ELSE call[c]
    BY <1>11 DEF ServerRestart
  <2>2. call' \in [Call -> Place]
    BY <1>11 DEF ServerRestart, PageInv, Place
  <2>3. OneLoad'
    BY <1>11, <2>1 DEF ServerRestart, PageInv, OneLoad
  <2>4. Queued' /\ ServerType' /\ PageType' /\ Marks'
    BY <1>11 DEF ServerRestart, PageInv, Queued, ServerType, PageType, Marks
  <2> QED
    BY <2>2, <2>3, <2>4 DEF PageInv
<1>12. ASSUME NEW f \in Fetch, NEW t \in Thread, TakeLoad(f, t) PROVE PageInv'
  BY <1>7, <1>12 DEF TakeLoad
<1>13. ASSUME NEW f \in Fetch, RefuseLoad(f) PROVE PageInv'
  BY <1>7, <1>13 DEF RefuseLoad, Reply
<1>14. ASSUME NEW a \in Action, TakeAction(a) PROVE PageInv'
  BY <1>7, <1>14 DEF TakeAction, Reply
<1>15. CASE AnswerLoad
  <2>1. answer' \in [Fetch -> Snapshot]
    BY <1>15, AnsweredType DEF AnswerLoad, PageInv, PageType
  <2> QED
    BY <1>8, <1>15, <2>1 DEF AnswerLoad
<1>16. CASE FailLoad
  BY <1>8, <1>16 DEF FailLoad, PageInv, PageType
<1>17. CASE EndAction
  BY <1>8, <1>17 DEF EndAction, PageInv, PageType
<1>18. CASE TakeSilent
  <2>1. silences' \in 0 .. MaxTrouble
    BY <1>18 DEF TakeSilent, Trouble, PageInv, ServerType, TypeOK
  <2> QED
    BY <1>9, <1>18, <2>1 DEF TakeSilent
<1>19. CASE HangUp
  BY <1>9, <1>19 DEF HangUp, PageInv, ServerType
<1>20. ASSUME NEW t \in Thread, Begin(t) PROVE PageInv'
  BY <1>10, <1>20 DEF Begin
<1>21. CASE Background
  BY <1>10, <1>21 DEF Background
<1>22. CASE UNCHANGED dashVars
  BY <1>10, <1>22 DEF dashVars
<1> QED
  BY <1>1, <1>2, <1>3, <1>4, <1>5, <1>6, <1>11, <1>12, <1>13, <1>14, <1>15, <1>16, <1>17, <1>18,
     <1>19, <1>20, <1>21, <1>22 DEF DashNext, Page, Server

LEMMA PageCorrect == DashSpec => []PageInv
<1>1. CacheInv => TypeOK
  BY DEF CacheInv
<1> QED
  BY <1>1, PageInit, PageStep, DashCacheCorrect, PTL DEF DashSpec

\* DashTypeOK: every variable of the cache, the server and the page has its type.
THEOREM DashTypeCorrect == DashSpec => []DashTypeOK
<1>1. PageInv /\ CacheInv => DashTypeOK
  BY DEF PageInv, PageType, ServerType, Place, CacheInv, DashTypeOK
<1> QED
  BY <1>1, PageCorrect, DashCacheCorrect, PTL

\* MarksAreTrue: no mark on a button and no guard against a second load outlives its call.
THEOREM MarksCorrect == DashSpec => []MarksAreTrue
<1>1. PageInv => MarksAreTrue
  BY DEF PageInv, Marks, OneLoad, MarksAreTrue
<1> QED
  BY <1>1, PageCorrect, PTL

----
(* The rows the page shows. *)

Late(v, s) == \A p \in Peer : v[p] = 0 \/ v[p] >= s[p]

\* Whatever may become the next snapshot says nothing older of a peer than s does.
Behind(s) ==
  /\ \A p \in Peer : s[p] <= live[p]
  /\ Late(exports, s)
  /\ file # Torn => Late(file, s)
  /\ \A t \in Thread : Fetching(t) => Late(got[t], s)

LEMMA EmptyBehind == TypeOK => Behind(Empty)
<1> SUFFICES ASSUME TypeOK PROVE Behind(Empty)
  OBVIOUS
<1>1. \A p \in Peer : Empty[p] = 0
  BY MachineFacts DEF Empty
<1>2. \A p \in Peer : live[p] >= 0 /\ exports[p] >= 0
  BY MachineFacts DEF TypeOK, Snapshot
<1>3. file # Torn => \A p \in Peer : file[p] >= 0
  BY MachineFacts DEF TypeOK, Snapshot
<1>4. \A t \in Thread, p \in Peer : got[t][p] >= 0
  BY MachineFacts DEF TypeOK, Snapshot
<1> QED
  BY <1>1, <1>2, <1>3, <1>4 DEF Behind, Late

\* The cache's steps leave it so.
LEMMA StaysBehind ==
  ASSUME CacheInv, [Next]_vars, NEW s \in Snapshot, Behind(s)
  PROVE  Behind(s)'
<1> USE MachineFacts DEF memoryVars, threadVars
<1>0. TypeOK
  BY DEF CacheInv
<1>1. ASSUME NEW t \in Thread, NEW m \in Machine, Fetching(t),
             got' = [got EXCEPT ![t][m] = live[m]] \/ got' = got,
             \A u \in Thread : Fetching(u)' => Fetching(u), UNCHANGED <<live, exports, file>>
      PROVE  Behind(s)'
  <2>1. \A p \in Peer : got'[t][p] = got[t][p] \/ got'[t][p] = live[p]
    BY <1>0, <1>1 DEF TypeOK, Snapshot
  <2>2. \A u \in Thread \ {t} : got'[u] = got[u]
    BY <1>0, <1>1 DEF TypeOK
  <2>3. \A p \in Peer : live[p] \in Nat /\ s[p] \in Nat
    BY <1>0 DEF TypeOK, Snapshot
  <2>4. Late(got'[t], s)
    BY <1>1, <2>1, <2>3 DEF Behind, Late
  <2> QED
    BY <1>1, <2>2, <2>4 DEF Behind
<1>2. ASSUME UNCHANGED <<exports, file>>, \A p \in Peer : live'[p] >= live[p],
             \A u \in Thread : Fetching(u)' => \/ Fetching(u) /\ got'[u] = got[u]
                                             \/ got'[u] = Empty
      PROVE  Behind(s)'
  <2>1. \A p \in Peer : live[p] \in Nat /\ live'[p] >= live[p] /\ s[p] \in Nat
    BY <1>0, <1>2 DEF TypeOK, Snapshot
  <2>2. Late(Empty, s)
    BY DEF Late, Empty
  <2>3. TypeOK'
    BY <1>0, TypeStep
  <2>4. \A p \in Peer : live'[p] >= s[p]
    BY <2>1, <2>3 DEF Behind, TypeOK
  <2> QED
    BY <1>2, <2>2, <2>4 DEF Behind
<1>3. \A p \in Peer : live[p] >= live[p]
  BY <1>0 DEF TypeOK
<1>4. ASSUME NEW t \in Thread, RefreshIfNeeded(t) PROVE Behind(s)'
  <2>1. \/ UNCHANGED threadVars
        \/ stage' = [stage EXCEPT ![t] = "local"] /\ got' = [got EXCEPT ![t] = Empty]
    BY <1>4 DEF RefreshIfNeeded, Start
  <2>2. \A u \in Thread : Fetching(u)' => \/ Fetching(u) /\ got'[u] = got[u]
                                        \/ got'[u] = Empty
    BY <1>0, <2>1 DEF TypeOK, Fetching
  <2> QED
    BY <1>2, <1>3, <1>4, <2>2 DEF RefreshIfNeeded
<1>5. ASSUME NEW t \in Thread, FetchLocal(t) PROVE Behind(s)'
  <2>1. Fetching(t) /\ \A u \in Thread : Fetching(u)' => Fetching(u)
    BY <1>0, <1>5 DEF FetchLocal, Fetching, TypeOK
  <2> QED
    BY <1>1, <1>5, <2>1 DEF FetchLocal
<1>6. ASSUME NEW t \in Thread, NEW p \in Peer, Answer(t, p) PROVE Behind(s)'
  <2>1. Fetching(t) /\ \A u \in Thread : Fetching(u)' => Fetching(u)
    BY <1>6 DEF Answer, Fetching
  <2> QED
    BY <1>1, <1>6, <2>1 DEF Answer
<1>7. ASSUME NEW t \in Thread, Publish(t) PROVE Behind(s)'
  <2>1. Fetching(t) /\ \A u \in Thread : Fetching(u)' => Fetching(u) /\ got'[u] = got[u]
    BY <1>0, <1>7 DEF Publish, Fetching, TypeOK
  <2>2. CASE UNCHANGED <<exports, file>>
    BY <1>2, <1>3, <1>7, <2>1, <2>2 DEF Publish
  <2>3. CASE exports' = got[t] /\ file' = Torn
    BY <1>7, <2>1, <2>3 DEF Publish, Behind
  <2> QED
    BY <1>7, <2>2, <2>3 DEF Publish
<1>8. ASSUME NEW t \in Thread, Written(t) PROVE Behind(s)'
  <2>1. file' = exports
    BY <1>8 DEF Written, CacheInv, WritesSnapshot
  <2>2. \A u \in Thread : Fetching(u)' => Fetching(u) /\ got'[u] = got[u]
    BY <1>0, <1>8 DEF Written, Fetching, TypeOK
  <2> QED
    BY <1>8, <2>1, <2>2 DEF Written, Behind
<1>9. CASE Rows \/ Elapse \/ UNCHANGED vars
  BY <1>9 DEF Rows, Elapse, vars, Behind, Fetching
<1>10. ASSUME NEW m \in Machine, Change(m) PROVE Behind(s)'
  <2>1. \A p \in Peer : live'[p] >= live[p]
    BY <1>0, <1>10 DEF Change, TypeOK
  <2> QED
    BY <1>2, <1>10, <2>1 DEF Change, Fetching
<1>11. CASE Restart
  <2>1. \A t \in Thread : ~Fetching(t)'
    BY <1>11 DEF Restart, Fetching
  <2>2. Late(Empty, s)
    BY DEF Late, Empty
  <2> QED
    BY <1>11, <2>1, <2>2 DEF Restart, Behind
<1> QED
  BY <1>4, <1>5, <1>6, <1>7, <1>8, <1>9, <1>10, <1>11 DEF Next, Refresh

\* What the page shows, and what it is about to show, is behind; the answer under way is
\* no older than the rows it replaces.
ShownInv ==
  /\ Behind(shown)
  /\ \A f \in Fetch : call[f] = "ok" => Behind(answer[f]) /\ Late(answer[f], shown)

LEMMA ShownInit == DashInit => ShownInv
<1> SUFFICES ASSUME DashInit PROVE ShownInv
  OBVIOUS
<1>1. TypeOK
  BY InitType DEF DashInit
<1> QED
  BY <1>1, EmptyBehind, CallFacts DEF DashInit, ShownInv

\* A step of the cache beside which the page learns nothing new.
LEMMA LearnsNothing ==
  ASSUME ShownInv, PageInv, CacheInv, [Next]_vars, shown' = shown,
         \A f \in Fetch : call'[f] = "ok" => call[f] = "ok" /\ answer'[f] = answer[f]
  PROVE  ShownInv'
<1>1. shown \in Snapshot /\ \A f \in Fetch : answer[f] \in Snapshot
  BY DEF PageInv, PageType
<1>2. \A s \in Snapshot : Behind(s) => Behind(s)'
  BY StaysBehind
<1> QED
  BY <1>1, <1>2 DEF ShownInv, Behind

\* A load is consumed: no other is under way.
LEMMA LearnsAnswer ==
  ASSUME ShownInv, PageInv, CacheInv, UNCHANGED cacheVars, NEW f \in Fetch, Settled(f),
         shown' = IF call[f] = "ok" THEN answer[f] ELSE shown,
         \A g \in Fetch : call'[g] # "ok"
  PROVE  ShownInv' /\ Late(shown', shown)
<1>1. TypeOK /\ shown \in Snapshot
  BY DEF CacheInv, PageInv, PageType
<1>2. Late(shown, shown)
  BY <1>1, MachineFacts DEF Late, Snapshot
<1>3. Behind(shown') /\ Late(shown', shown)
  BY <1>2 DEF ShownInv
<1> QED
  BY <1>3 DEF ShownInv, Behind, Fetching, cacheVars, vars, memoryVars, threadVars

\* The cache answers with what is behind, and with nothing older than what is shown.
LEMMA AnswerBehind ==
  ASSUME CacheInv, mutex = NoThread, NEW s \in Snapshot, Behind(s)
  PROVE  Behind(Answered) /\ Late(Answered, s)
<1>1. TypeOK
  BY DEF CacheInv
<1>2. CASE exports = Empty
  <2>1. \A p \in Peer : Answered[p] = 0
    BY <1>2, MachineFacts, ExportCacheAssumption DEF Answered, Empty
  <2>2. \A p \in Peer : Empty[p] = 0
    BY MachineFacts DEF Empty
  <2> QED
    BY <1>1, <2>1, <2>2, EmptyBehind DEF Behind, Late
<1>3. CASE exports # Empty
  <2>1. Answered = exports /\ (file # Torn => file = exports)
    BY <1>3 DEF Answered, CacheInv, RestartKeepsSnapshot
  <2>2. \A p \in Peer : exports[p] <= live[p] /\ exports[p] >= exports[p]
    BY <1>1, MachineFacts DEF CacheInv, NothingAhead, Within, TypeOK, Snapshot
  <2>3. \A t \in Thread : Fetching(t) => Late(got[t], exports)
    BY MachineFacts DEF CacheInv, FetchedIsNewer, Older, Late
  <2> QED
    BY <2>1, <2>2, <2>3 DEF Behind, Late
<1> QED
  BY <1>2, <1>3

LEMMA ShownStep ==
  ASSUME ShownInv, PageInv, CacheInv, [DashNext]_dashVars
  PROVE  ShownInv' /\ (Late(shown', shown) \/ shown' = Empty)
<1> USE CallFacts DEF pageVars
<1>0. /\ TypeOK /\ shown \in Snapshot /\ \A f \in Fetch : answer[f] \in Snapshot
      /\ [Next]_vars /\ call \in [Call -> Place] /\ answer \in [Fetch -> Snapshot]
  BY CacheRefinedStep DEF CacheInv, PageInv, PageType
<1>1. ASSUME shown' = shown,
             \A f \in Fetch : call'[f] = "ok" => call[f] = "ok" /\ answer'[f] = answer[f]
      PROVE  ShownInv' /\ Late(shown', shown)
  BY <1>0, <1>1, LearnsNothing, MachineFacts DEF Late, Snapshot
<1>2. ASSUME NEW f \in Fetch, Look(f) PROVE ShownInv' /\ Late(shown', shown)
  BY <1>1, <1>2 DEF Look, Send
<1>3. ASSUME NEW f \in Fetch, Reload(f) PROVE ShownInv' /\ shown' = Empty
  <2>1. \A g \in Fetch : call'[g] # "ok"
    BY <1>3 DEF Reload, Send
  <2>2. TypeOK'
    BY <1>0, TypeStep
  <2>3. Behind(Empty)'
    BY <2>2, EmptyBehind, PTL
  <2> QED
    BY <1>3, <2>1, <2>3 DEF Reload, ShownInv, Behind
<1>4. ASSUME NEW a \in Action, Click(a) PROVE ShownInv' /\ Late(shown', shown)
  BY <1>1, <1>4 DEF Click, Send
<1>5. ASSUME NEW a \in Action, Acted(a) PROVE ShownInv' /\ Late(shown', shown)
  <2>1. \A f \in Fetch : call'[f] = "ok" => call[f] = "ok"
    BY <1>5 DEF Acted, Send
  <2> QED
    BY <1>1, <1>5, <2>1 DEF Acted
<1>6. ASSUME NEW f \in Fetch, Settled(f), NEW C, C \cap Fetch = {}, Send(C, f)
      PROVE  \A g \in Fetch : call'[g] # "ok"
  BY <1>6 DEF Send, Settled, PageInv, OneLoad
<1>7. ASSUME NEW f \in Fetch, Loaded(f) PROVE ShownInv' /\ Late(shown', shown)
  <2>1. \A g \in Fetch : call'[g] # "ok"
    BY <1>6, <1>7 DEF Loaded
  <2> QED
    BY <1>7, <2>1, LearnsAnswer DEF Loaded
<1>8. ASSUME NEW f \in Fetch, NEW a \in Action, LoadedThenOpen(f, a)
      PROVE  ShownInv' /\ Late(shown', shown)
  <2>1. {a} \cap Fetch = {}
    OBVIOUS
  <2>2. \A g \in Fetch : call'[g] # "ok"
    BY <1>6, <1>8, <2>1 DEF LoadedThenOpen
  <2> QED
    BY <1>8, <2>2, LearnsAnswer DEF LoadedThenOpen
<1>9. ASSUME NEW c, NEW v, Reply(c, v), v = "failed" \/ c \notin Fetch, UNCHANGED <<answer, shown>>
      PROVE  ShownInv' /\ Late(shown', shown)
  <2>1. \A f \in Fetch : call'[f] = "ok" => call[f] = "ok"
    BY <1>0, <1>9 DEF Reply
  <2> QED
    BY <1>1, <1>9, <2>1
<1>10. ASSUME UNCHANGED <<call, answer, shown>> PROVE ShownInv' /\ Late(shown', shown)
  <2>1. \A f \in Fetch : call'[f] = "ok" => call[f] = "ok" /\ answer'[f] = answer[f]
    BY <1>10
  <2> QED
    BY <1>1, <1>10, <2>1
<1>11. CASE AnswerLoad
  <2>1. /\ mutex = NoThread /\ serving \in Fetch
        /\ UNCHANGED <<live, exports, file, stage, got, shown>>
    BY <1>11 DEF AnswerLoad, Rows, memoryVars, threadVars
  <2>2. Behind(Answered) /\ Late(Answered, shown)
    BY <1>0, <2>1, AnswerBehind DEF ShownInv
  <2>3. answer'[serving] = Answered
    BY <1>0, <1>11 DEF AnswerLoad
  <2>4. \A f \in Fetch \ {serving} : call'[f] = call[f] /\ answer'[f] = answer[f]
    BY <1>0, <1>11 DEF AnswerLoad, Reply
  <2>5. Late(shown, shown)
    BY <1>0, MachineFacts DEF Late, Snapshot
  <2> QED
    BY <2>1, <2>2, <2>3, <2>4, <2>5 DEF ShownInv, Behind, Fetching
<1>12. ASSUME NEW f \in Fetch, NEW t \in Thread, TakeLoad(f, t) PROVE ShownInv' /\ Late(shown', shown)
  BY <1>10, <1>12 DEF TakeLoad
<1>13. ASSUME NEW f \in Fetch, RefuseLoad(f) PROVE ShownInv' /\ Late(shown', shown)
  BY <1>9, <1>13 DEF RefuseLoad
<1>14. ASSUME NEW a \in Action, TakeAction(a) PROVE ShownInv' /\ Late(shown', shown)
  BY <1>9, <1>10, <1>14 DEF TakeAction
<1>15. CASE FailLoad
  BY <1>9, <1>15 DEF FailLoad
<1>16. CASE EndAction
  <2>1. serving \notin Fetch
    BY <1>16 DEF EndAction
  <2> QED
    BY <1>9, <1>16, <2>1 DEF EndAction
<1>17. CASE TakeSilent \/ HangUp \/ Background \/ (\E t \in Thread : Begin(t)) \/ UNCHANGED dashVars
  BY <1>10, <1>17 DEF TakeSilent, HangUp, Background, Begin, dashVars
<1>18. CASE ServerRestart
  <2>1. \A f \in Fetch : call'[f] = "ok" => call[f] = "ok"
    BY <1>18 DEF ServerRestart
  <2> QED
    BY <1>1, <1>18, <2>1 DEF ServerRestart
<1> QED
  BY <1>2, <1>3, <1>4, <1>5, <1>7, <1>8, <1>11, <1>12, <1>13, <1>14, <1>15, <1>16, <1>17, <1>18
     DEF DashNext, Page, Server

LEMMA ShownCorrect == DashSpec => []ShownInv
BY ShownInit, ShownStep, PageCorrect, DashCacheCorrect, PTL DEF DashSpec

\* The page never goes back to an older version of a peer's services (ShownNeverOlder).
THEOREM ShownNeverOlderCorrect == DashSpec => ShownNeverOlder
<1> DEFINE NotBack == \A p \in Peer : shown'[p] = 0 \/ shown'[p] >= shown[p]
<1>1. ShownInv /\ PageInv /\ CacheInv /\ [DashNext]_dashVars => NotBack
  <2>1. \A p \in Peer : Empty[p] = 0
    BY MachineFacts DEF Empty
  <2> QED
    BY <2>1, ShownStep DEF Late
<1> QED
  BY <1>1, ShownCorrect, PageCorrect, DashCacheCorrect, PTL DEF DashSpec, ShownNeverOlder
====
