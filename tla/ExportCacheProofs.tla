---- MODULE ExportCacheProofs ----
(***************************************************************************)
(* Proofs about ExportCache, for any peers, threads, versions and restarts. *)
(***************************************************************************)
EXTENDS ExportCache, TLAPS

USE ExportCacheAssumption

LEMMA MachineFacts == Local \in Machine /\ Peer \subseteq Machine /\ Empty \in Snapshot
BY DEF Machine, Empty, Snapshot

LEMMA SnapshotUpdate ==
  ASSUME NEW s \in Snapshot, NEW m \in Machine, NEW v \in 0 .. MaxVersion
  PROVE  [s EXCEPT ![m] = v] \in Snapshot
BY DEF Snapshot

\* What a thread or a request does keeps types.
LEMMA StartType ==
  ASSUME TypeOK, NEW t \in Thread, Start(t)
  PROVE  /\ refreshing' \in BOOLEAN /\ elapsed' \in BOOLEAN
         /\ stage' \in [Thread -> {"none", "local", "peers", "write"}]
         /\ got' \in [Thread -> Snapshot] /\ pending' \in [Thread -> SUBSET Peer]
BY MachineFacts DEF TypeOK, Start

LEMMA FetchType ==
  ASSUME TypeOK, NEW t \in Thread, NEW m \in Machine,
         got' = [got EXCEPT ![t][m] = live[m]] \/ got' = got
  PROVE  got' \in [Thread -> Snapshot]
<1>1. live[m] \in 0 .. MaxVersion
  BY DEF TypeOK
<1>2. [got[t] EXCEPT ![m] = live[m]] \in Snapshot
  BY <1>1, SnapshotUpdate DEF TypeOK
<1>3. CASE got' = [got EXCEPT ![t][m] = live[m]]
  <2>1. got' = [got EXCEPT ![t] = [got[t] EXCEPT ![m] = live[m]]]
    BY <1>3 DEF TypeOK
  <2> QED
    BY <1>2, <2>1 DEF TypeOK
<1>4. CASE got' = got
  BY <1>4 DEF TypeOK
<1> QED
  BY <1>3, <1>4

LEMMA InitType == Init => TypeOK
<1> SUFFICES ASSUME Init PROVE TypeOK
  OBVIOUS
<1>1. live \in [Machine -> 1 .. MaxVersion]
  BY DEF Init
<1>2. exports \in Snapshot /\ got \in [Thread -> Snapshot]
  BY MachineFacts DEF Init
<1>3. stage \in [Thread -> {"none", "local", "peers", "write"}] /\ pending \in [Thread -> SUBSET Peer]
  BY DEF Init
<1>4. /\ file = Torn /\ refreshing = FALSE /\ elapsed = TRUE /\ mutex = NoThread
      /\ request = "start" /\ crashes = 0
  BY DEF Init
<1>5. crashes \in 0 .. MaxCrashes /\ mutex \in Thread \cup {NoThread} /\ file \in Snapshot \cup {Torn}
  BY <1>4
<1> QED
  BY <1>1, <1>2, <1>3, <1>4, <1>5, Zenon DEF TypeOK

LEMMA TypeStep == TypeOK /\ [Next]_vars => TypeOK'
<1> SUFFICES ASSUME TypeOK, [Next]_vars PROVE TypeOK'
  OBVIOUS
<1> USE DEF memoryVars, threadVars
<1>1. ASSUME NEW t \in Thread, RefreshIfNeeded(t) PROVE TypeOK'
  <2>1. CASE ~refreshing /\ elapsed
    BY <1>1, <2>1, StartType DEF RefreshIfNeeded, TypeOK
  <2>2. CASE ~(~refreshing /\ elapsed)
    BY <1>1, <2>2 DEF RefreshIfNeeded, TypeOK
  <2> QED
    BY <2>1, <2>2
<1>2. ASSUME NEW t \in Thread, FetchLocal(t) PROVE TypeOK'
  <2>1. got' \in [Thread -> Snapshot]
    BY <1>2, FetchType, MachineFacts DEF FetchLocal
  <2> QED
    BY <1>2, <2>1 DEF FetchLocal, TypeOK
<1>3. ASSUME NEW t \in Thread, NEW p \in Peer, Answer(t, p) PROVE TypeOK'
  <2>1. got' \in [Thread -> Snapshot]
    BY <1>3, FetchType, MachineFacts DEF Answer
  <2> QED
    BY <1>3, <2>1 DEF Answer, TypeOK
<1>4. ASSUME NEW t \in Thread, Publish(t) PROVE TypeOK'
  <2>1. stage' \in [Thread -> {"none", "local", "peers", "write"}]
    BY <1>4 DEF Publish, TypeOK
  <2>2. exports' \in Snapshot /\ file' \in Snapshot \cup {Torn} /\ mutex' \in Thread \cup {NoThread}
    BY <1>4 DEF Publish, TypeOK
  <2> QED
    BY <1>4, <2>1, <2>2 DEF Publish, TypeOK
<1>5. ASSUME NEW t \in Thread, Written(t) PROVE TypeOK'
  <2>1. stage' \in [Thread -> {"none", "local", "peers", "write"}]
    BY <1>5 DEF Written, TypeOK
  <2>2. got' \in [Thread -> Snapshot] /\ file' \in Snapshot \cup {Torn}
    BY <1>5, MachineFacts DEF Written, TypeOK
  <2> QED
    BY <1>5, <2>1, <2>2 DEF Written, TypeOK
<1>6. CASE Rows
  BY <1>6 DEF Rows, TypeOK
<1>7. CASE Elapse
  BY <1>7 DEF Elapse, TypeOK
<1>8. ASSUME NEW m \in Machine, Change(m) PROVE TypeOK'
  <2>1. live' \in [Machine -> 1 .. MaxVersion]
    BY <1>8 DEF Change, TypeOK
  <2> QED
    BY <1>8, <2>1 DEF Change, TypeOK
<1>9. CASE Restart
  <2>1. stage' \in [Thread -> {"none", "local", "peers", "write"}] /\ pending' \in [Thread -> SUBSET Peer]
    BY <1>9 DEF Restart
  <2>2. got' \in [Thread -> Snapshot]
    BY <1>9, MachineFacts DEF Restart
  <2>3. exports' \in Snapshot
    BY <1>9, MachineFacts DEF Restart, TypeOK
  <2>5. /\ refreshing' \in BOOLEAN /\ elapsed' \in BOOLEAN /\ mutex' = NoThread
        /\ request' = "start" /\ live' = live /\ file' = file
    BY <1>9 DEF Restart
  <2>4. crashes' \in 0 .. MaxCrashes
    BY <1>9 DEF Restart, TypeOK
  <2> QED
    BY <1>9, <2>1, <2>2, <2>3, <2>4, <2>5 DEF TypeOK
<1>10. CASE UNCHANGED vars
  BY <1>10 DEF vars, TypeOK
<1> QED
  BY <1>1, <1>2, <1>3, <1>4, <1>5, <1>6, <1>7, <1>8, <1>9, <1>10 DEF Next, Refresh

\* The variables of the cache keep their types (TypeOK).
THEOREM TypeCorrect == Spec => []TypeOK
BY InitType, TypeStep, PTL DEF Spec

----
(* What one refresh at a time is good for. *)

Fetching(t) == stage[t] \in {"local", "peers"}

\* A thread that fetches does so under the refreshing flag, and alone.
SingleFlight ==
  \A t \in Thread : Fetching(t) => refreshing /\ \A u \in Thread : Fetching(u) => u = t

\* The thread that writes holds the mutex, and nobody else does.
WriterHolds == \A t \in Thread : stage[t] = "write" <=> mutex = t

\* What is being written is the snapshot in memory.
WritesSnapshot == \A t \in Thread : stage[t] = "write" => file = Torn /\ got[t] = exports

Older(s, v) == \A m \in Machine : s[m] = 0 \/ s[m] >= v[m]
Within(s)   == \A m \in Machine : s[m] <= live[m]

\* What has been fetched was asked for after the snapshot in memory was published, and
\* nothing anywhere is newer than the registry it is of.
FetchedIsNewer == \A t \in Thread : Fetching(t) => Older(got[t], exports)
NothingAhead ==
  /\ Within(exports)
  /\ file # Torn => Within(file)
  /\ \A t \in Thread : Within(got[t])

CacheInv == TypeOK /\ SingleFlight /\ WriterHolds /\ WritesSnapshot /\ RestartKeepsSnapshot
            /\ FetchedIsNewer /\ NothingAhead

LEMMA CacheInit == Init => CacheInv
<1> SUFFICES ASSUME Init PROVE CacheInv
  OBVIOUS
<1>1. TypeOK
  BY InitType
<1>2. NothingAhead
  BY DEF Init, NothingAhead, Within, Empty, Machine
<1>3. ASSUME NEW t \in Thread PROVE stage[t] = "none" /\ mutex # t
  BY DEF Init
<1>4. SingleFlight /\ WriterHolds
  BY <1>3 DEF SingleFlight, WriterHolds, Fetching
<1>5. WritesSnapshot /\ FetchedIsNewer
  BY <1>3 DEF WritesSnapshot, FetchedIsNewer, Fetching
<1> QED
  BY <1>1, <1>2, <1>4, <1>5 DEF CacheInv, RestartKeepsSnapshot, Init

\* Registries may change under what has been fetched.
LEMMA Idle ==
  ASSUME CacheInv, TypeOK', UNCHANGED <<exports, file, mutex, refreshing, stage, got>>,
         \A m \in Machine : live'[m] >= live[m]
  PROVE  CacheInv'
<1>1. SingleFlight' /\ WriterHolds' /\ WritesSnapshot' /\ RestartKeepsSnapshot' /\ FetchedIsNewer'
  BY DEF CacheInv, SingleFlight, WriterHolds, WritesSnapshot, RestartKeepsSnapshot,
     FetchedIsNewer, Fetching, Older
<1>2. ASSUME NEW s \in Snapshot, Within(s) PROVE Within(s)'
  BY <1>2 DEF CacheInv, TypeOK, Within, Snapshot
<1>3. NothingAhead'
  BY <1>2 DEF CacheInv, TypeOK, NothingAhead, Within
<1> QED
  BY <1>1, <1>3 DEF CacheInv

\* One more answer to a thread that fetches.
LEMMA Fetched ==
  ASSUME CacheInv, TypeOK', NEW t \in Thread, NEW m \in Machine, Fetching(t), stage'[t] = "peers",
         \A u \in Thread \ {t} : stage'[u] = stage[u],
         got' = [got EXCEPT ![t][m] = live[m]] \/ got' = got,
         UNCHANGED <<live, exports, file, mutex, refreshing>>
  PROVE  CacheInv'
<1>1. TypeOK
  BY DEF CacheInv
<1>2. \A u \in Thread : (stage'[u] = "write" <=> stage[u] = "write") /\ (Fetching(u)' <=> Fetching(u))
  BY DEF Fetching
<1>3. \A u \in Thread \ {t} : got'[u] = got[u]
  BY <1>1 DEF TypeOK
<1>4. \A n \in Machine : got'[t][n] = got[t][n] \/ got'[t][n] = live[n]
  BY <1>1 DEF TypeOK, Snapshot
<1>5. SingleFlight' /\ WriterHolds' /\ RestartKeepsSnapshot'
  BY <1>2 DEF CacheInv, SingleFlight, WriterHolds, RestartKeepsSnapshot
<1>6. WritesSnapshot'
  BY <1>2, <1>3 DEF CacheInv, WritesSnapshot, Fetching
<1>7. live \in [Machine -> Nat] /\ \A n \in Machine : live[n] >= exports[n]
  BY <1>1 DEF CacheInv, TypeOK, NothingAhead, Within, Snapshot
<1>8. FetchedIsNewer'
  <2>1. Older(got'[t], exports)
    BY <1>4, <1>7 DEF CacheInv, FetchedIsNewer, Older
  <2> QED
    BY <1>2, <1>3, <2>1 DEF CacheInv, FetchedIsNewer, Older
<1>9. NothingAhead'
  <2>1. Within(got'[t])
    BY <1>4, <1>7 DEF CacheInv, NothingAhead, Within
  <2> QED
    BY <1>3, <2>1 DEF CacheInv, NothingAhead, Within
<1> QED
  BY <1>5, <1>6, <1>8, <1>9 DEF CacheInv

LEMMA CacheStep == CacheInv /\ [Next]_vars => CacheInv'
<1> SUFFICES ASSUME CacheInv, [Next]_vars PROVE CacheInv'
  OBVIOUS
<1> USE DEF memoryVars, threadVars
<1>0. TypeOK /\ TypeOK'
  BY TypeStep DEF CacheInv
<1>1. ASSUME NEW t \in Thread, RefreshIfNeeded(t) PROVE CacheInv'
  <2>1. CASE ~refreshing /\ elapsed
    <3>1. /\ Start(t) /\ UNCHANGED <<live, exports, mutex, file>> /\ mutex = NoThread
      BY <1>1, <2>1 DEF RefreshIfNeeded
    <3>2. /\ stage' = [stage EXCEPT ![t] = "local"] /\ got' = [got EXCEPT ![t] = Empty]
          /\ stage[t] = "none" /\ refreshing'
      BY <3>1 DEF Start
    <3>3. \A u \in Thread : ~Fetching(u)
      BY <2>1 DEF CacheInv, SingleFlight
    <3>4. SingleFlight' /\ WriterHolds' /\ WritesSnapshot'
      BY <1>0, <3>1, <3>2, <3>3 DEF CacheInv, SingleFlight, WriterHolds, WritesSnapshot, Fetching, TypeOK
    <3>5. \A m \in Machine : got'[t][m] = 0
      BY <1>0, <3>2 DEF TypeOK, Empty
    <3>6. FetchedIsNewer'
      BY <1>0, <3>1, <3>2, <3>3, <3>5 DEF FetchedIsNewer, Fetching, Older, TypeOK
    <3>7. NothingAhead'
      BY <1>0, <3>1, <3>2, <3>5 DEF CacheInv, NothingAhead, Within, TypeOK
    <3> QED
      BY <1>0, <3>1, <3>4, <3>6, <3>7 DEF CacheInv, RestartKeepsSnapshot
  <2>2. CASE ~(~refreshing /\ elapsed)
    <3>1. UNCHANGED <<live, exports, file, mutex, refreshing, stage, got>>
      BY <1>1, <2>2 DEF RefreshIfNeeded
    <3>2. \A m \in Machine : live'[m] >= live[m]
      BY <1>0, <3>1 DEF TypeOK
    <3> QED
      BY <1>0, <3>1, <3>2, Idle
  <2> QED
    BY <2>1, <2>2
<1>2. ASSUME NEW t \in Thread, FetchLocal(t) PROVE CacheInv'
  <2>1. /\ Fetching(t) /\ stage' = [stage EXCEPT ![t] = "peers"]
        /\ got' = [got EXCEPT ![t][Local] = live[Local]] \/ got' = got
        /\ UNCHANGED <<live, exports, file, mutex, refreshing>>
    BY <1>2 DEF FetchLocal, Fetching
  <2>2. stage'[t] = "peers" /\ \A u \in Thread \ {t} : stage'[u] = stage[u]
    BY <1>0, <2>1 DEF TypeOK
  <2> QED
    BY <1>0, <2>1, <2>2, Fetched, MachineFacts
<1>3. ASSUME NEW t \in Thread, NEW p \in Peer, Answer(t, p) PROVE CacheInv'
  <2>1. /\ Fetching(t) /\ stage' = stage /\ stage[t] = "peers"
        /\ got' = [got EXCEPT ![t][p] = live[p]] \/ got' = got
        /\ UNCHANGED <<live, exports, file, mutex, refreshing>>
    BY <1>3 DEF Answer, Fetching
  <2> QED
    BY <1>0, <2>1, Fetched, MachineFacts
<1>4. ASSUME NEW t \in Thread, Publish(t) PROVE CacheInv'
  <2>1. /\ stage[t] = "peers" /\ mutex = NoThread /\ UNCHANGED <<live, got>>
        /\ Fetching(t)
    BY <1>4 DEF Publish, Fetching
  <2>2. \A u \in Thread \ {t} : ~Fetching(u)
    BY <2>1 DEF CacheInv, SingleFlight
  <2>3. \A u \in Thread : stage[u] # "write"
    BY <2>1 DEF CacheInv, WriterHolds
  <2>4. CASE got[t] = Empty /\ exports # Empty
    <3>1. stage' = [stage EXCEPT ![t] = "none"] /\ UNCHANGED <<exports, file, mutex>>
      BY <1>4, <2>4 DEF Publish
    <3>2. \A u \in Thread : stage'[u] # "write" /\ ~Fetching(u)'
      BY <1>0, <2>2, <2>3, <3>1 DEF TypeOK, Fetching
    <3>3. SingleFlight' /\ WriterHolds' /\ WritesSnapshot' /\ FetchedIsNewer'
      BY <2>1, <3>1, <3>2 DEF SingleFlight, WriterHolds, WritesSnapshot, FetchedIsNewer
    <3> QED
      BY <1>0, <2>1, <3>1, <3>3 DEF CacheInv, RestartKeepsSnapshot, NothingAhead, Within
  <2>5. CASE ~(got[t] = Empty /\ exports # Empty)
    <3>1. /\ stage' = [stage EXCEPT ![t] = "write"]
          /\ exports' = got[t] /\ file' = Torn /\ mutex' = t
      BY <1>4, <2>5 DEF Publish
    <3>2. \A u \in Thread : (stage'[u] = "write" <=> u = t) /\ ~Fetching(u)'
      BY <1>0, <2>2, <2>3, <3>1 DEF TypeOK, Fetching
    <3>3. SingleFlight' /\ WriterHolds' /\ WritesSnapshot' /\ FetchedIsNewer'
      BY <2>1, <3>1, <3>2 DEF SingleFlight, WriterHolds, WritesSnapshot, FetchedIsNewer
    <3>4. NothingAhead'
      BY <2>1, <3>1 DEF CacheInv, NothingAhead, Within
    <3> QED
      BY <1>0, <3>1, <3>3, <3>4 DEF CacheInv, RestartKeepsSnapshot
  <2> QED
    BY <2>4, <2>5
<1>5. ASSUME NEW t \in Thread, Written(t) PROVE CacheInv'
  <2>1. /\ stage[t] = "write" /\ stage' = [stage EXCEPT ![t] = "none"]
        /\ file' = got[t] /\ mutex' = NoThread /\ got' = [got EXCEPT ![t] = Empty]
        /\ UNCHANGED <<live, exports, refreshing>>
    BY <1>5 DEF Written
  <2>2. mutex = t /\ got[t] = exports
    BY <2>1 DEF CacheInv, WriterHolds, WritesSnapshot
  <2>3. \A u \in Thread : stage'[u] # "write" /\ (Fetching(u)' => Fetching(u) /\ got'[u] = got[u])
    BY <1>0, <2>1, <2>2 DEF CacheInv, WriterHolds, TypeOK, Fetching
  <2>4. SingleFlight' /\ WriterHolds' /\ WritesSnapshot' /\ RestartKeepsSnapshot'
    BY <2>1, <2>2, <2>3 DEF CacheInv, SingleFlight, WriterHolds, WritesSnapshot, RestartKeepsSnapshot
  <2>5. FetchedIsNewer'
    BY <2>1, <2>3 DEF CacheInv, FetchedIsNewer, Older
  <2>6. NothingAhead'
    <3>1. Within(Empty)
      BY <1>0 DEF Within, Empty, TypeOK
    <3>2. \A u \in Thread : got'[u] = Empty \/ got'[u] = got[u]
      BY <1>0, <2>1 DEF TypeOK
    <3> QED
      BY <2>1, <3>1, <3>2 DEF CacheInv, NothingAhead, Within
  <2> QED
    BY <1>0, <2>4, <2>5, <2>6 DEF CacheInv
<1>6. CASE Rows \/ Elapse \/ UNCHANGED vars
  <2>1. UNCHANGED <<live, exports, file, mutex, refreshing, stage, got>>
    BY <1>6 DEF Rows, Elapse, vars
  <2>2. \A m \in Machine : live'[m] >= live[m]
    BY <1>0, <2>1 DEF TypeOK
  <2> QED
    BY <1>0, <2>1, <2>2, Idle
<1>7. ASSUME NEW m \in Machine, Change(m) PROVE CacheInv'
  <2>1. UNCHANGED <<exports, file, mutex, refreshing, stage, got>>
    BY <1>7 DEF Change
  <2>2. \A n \in Machine : live'[n] >= live[n]
    BY <1>0, <1>7 DEF Change, TypeOK
  <2> QED
    BY <1>0, <2>1, <2>2, Idle
<1>8. CASE Restart
  <2>1. /\ \A t \in Thread : stage'[t] = "none" /\ got'[t] = Empty
        /\ mutex' = NoThread /\ exports' = (IF file = Torn THEN Empty ELSE file)
        /\ UNCHANGED <<live, file>>
    BY <1>8 DEF Restart
  <2>2. SingleFlight' /\ FetchedIsNewer' /\ WritesSnapshot' /\ WriterHolds'
    BY <2>1 DEF SingleFlight, FetchedIsNewer, WritesSnapshot, WriterHolds, Fetching
  <2>3. NothingAhead'
    <3>1. Within(Empty)
      BY <1>0 DEF Within, Empty, TypeOK
    <3> QED
      BY <2>1, <3>1 DEF CacheInv, NothingAhead, Within
  <2> QED
    BY <1>0, <2>1, <2>2, <2>3 DEF CacheInv, RestartKeepsSnapshot
<1> QED
  BY <1>1, <1>2, <1>3, <1>4, <1>5, <1>6, <1>7, <1>8 DEF Next, Refresh

LEMMA CacheCorrect == Spec => []CacheInv
BY CacheInit, CacheStep, PTL DEF Spec

\* A dashboard that restarts shows what it showed before, unless it was killed in the
\* middle of a write (RestartKeepsSnapshot).
THEOREM SnapshotCorrect == Spec => []RestartKeepsSnapshot
<1>1. CacheInv => RestartKeepsSnapshot
  BY DEF CacheInv
<1> QED
  BY <1>1, CacheCorrect, PTL

\* A step that is no restart replaces no export by an older one.
NoneOlder ==
  crashes' = crashes => \A m \in Machine : exports'[m] = 0 \/ exports'[m] >= exports[m]

LEMMA NoneOlderStep == CacheInv /\ [Next]_vars => NoneOlder
<1> SUFFICES ASSUME CacheInv, [Next]_vars, crashes' = crashes
             PROVE  Older(exports', exports)
  BY DEF NoneOlder, Older
<1>1. TypeOK
  BY DEF CacheInv
<1>2. CASE exports' = exports
  BY <1>1, <1>2 DEF TypeOK, Snapshot, Older
<1>3. ASSUME NEW t \in Thread, Publish(t), exports' # exports PROVE Older(exports', exports)
  BY <1>3 DEF Publish, CacheInv, FetchedIsNewer, Fetching
<1>4. ~Restart
  BY <1>1 DEF Restart, TypeOK
<1>5. exports' = exports \/ \E t \in Thread : Publish(t)
  BY <1>4 DEF Next, Refresh, RefreshIfNeeded, Start, FetchLocal, Answer, Written, Rows, Elapse,
              Change, vars, memoryVars
<1> QED
  BY <1>2, <1>3, <1>5

\* While a dashboard runs, no machine's export is replaced by an older version of it
\* (ExportsNeverOlder).
THEOREM NeverOlderCorrect == Spec => ExportsNeverOlder
BY CacheCorrect, NoneOlderStep, PTL DEF Spec, ExportsNeverOlder, NoneOlder
====
