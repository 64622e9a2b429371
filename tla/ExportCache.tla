---- MODULE ExportCache ----
(***************************************************************************)
(* The dashboard's export cache.  A dashboard process answers one request  *)
(* after another from the snapshot it holds, and lets a background thread  *)
(* fetch a new one from the local registry and, over ssh, from every peer. *)
(* The snapshot, the refreshing flag and the time of the last refresh are  *)
(* behind one mutex; each snapshot is also written to a file, which the    *)
(* process reads once, when it starts.                                     *)
(*                                                                         *)
(* A machine's export is the number of its registry's version, 0 when the  *)
(* snapshot has none of that machine.                                      *)
(***************************************************************************)
EXTENDS Naturals, FiniteSets

CONSTANTS
  Local,        \* this machine
  Peer,         \* the machines asked over ssh
  Thread,       \* threads a refresh may run in, numbered
  NoThread,
  Torn,         \* a file cut short, or none
  MaxVersion,   \* bound on the changes of a registry
  MaxChanged,   \* bound on the machines whose registry changes
  MaxCrashes    \* bound on the dashboard's restarts

ASSUME ExportCacheAssumption ==
  /\ Local \notin Peer
  /\ Thread \subseteq Nat /\ NoThread \notin Thread
  /\ Torn \notin [Peer \cup {Local} -> 0 .. MaxVersion]
  /\ MaxVersion \in Nat \ {0} /\ MaxCrashes \in Nat

VARIABLES
  live,        \* version of every machine's registry
  exports,     \* the snapshot in memory
  file,        \* the one in the file; Torn while, or after, a write is cut short
  refreshing,  \* a refresh is under way
  elapsed,     \* the refresh interval has passed since last_refresh
  mutex,       \* the thread that holds the mutex over a file write
  request,     \* where the request being answered is
  stage,       \* where each refresh thread is
  got,         \* what it fetched so far
  pending,     \* peers it has no answer from yet
  crashes

memoryVars == <<exports, refreshing, elapsed, mutex>>
threadVars == <<stage, got, pending>>
vars == <<live, memoryVars, file, request, threadVars, crashes>>

Machine  == Peer \cup {Local}
Snapshot == [Machine -> 0 .. MaxVersion]
Empty    == [m \in Machine |-> 0]

Init ==
  /\ live = [m \in Machine |-> 1]
  /\ exports = Empty /\ file = Torn
  /\ refreshing = FALSE /\ elapsed = TRUE
  /\ mutex = NoThread
  /\ request = "start"
  /\ stage = [t \in Thread |-> "none"]
  /\ got = [t \in Thread |-> Empty]
  /\ pending = [t \in Thread |-> {}]
  /\ crashes = 0

----
\* A request: refresh_if_needed, then the rows.  serve refreshes once before any.
Start(t) ==
  /\ stage[t] = "none" /\ \A u \in Thread : u < t => stage[u] # "none"
  /\ refreshing' = TRUE /\ elapsed' = FALSE
  /\ stage' = [stage EXCEPT ![t] = "local"]
  /\ got' = [got EXCEPT ![t] = Empty]
  /\ pending' = [pending EXCEPT ![t] = Peer]

\* Faulty variant: only the interval is looked at.
RefreshByInterval(t) ==
  /\ request # "rows" /\ mutex = NoThread
  /\ request' = IF request = "start" THEN "none" ELSE "rows"
  /\ IF elapsed
       THEN Start(t)
       ELSE UNCHANGED <<refreshing, elapsed, threadVars>>
  /\ UNCHANGED <<live, exports, mutex, file, crashes>>

RefreshIfNeeded(t) ==
  /\ request # "rows" /\ mutex = NoThread
  /\ request' = IF request = "start" THEN "none" ELSE "rows"
  /\ IF ~refreshing /\ elapsed
       THEN Start(t)
       ELSE UNCHANGED <<refreshing, elapsed, threadVars>>
  /\ UNCHANGED <<live, exports, mutex, file, crashes>>

\* Faulty variant: the rows wait for the refresh.
RowsAfterRefresh ==
  /\ request = "rows" /\ mutex = NoThread /\ ~refreshing
  /\ request' = "none"
  /\ UNCHANGED <<live, memoryVars, file, threadVars, crashes>>

\* Without a snapshot the rows are those of the local registry.
Answered == IF exports = Empty THEN [Empty EXCEPT ![Local] = live[Local]] ELSE exports

Rows ==
  /\ request = "rows" /\ mutex = NoThread
  /\ request' = "none"
  /\ UNCHANGED <<live, memoryVars, file, threadVars, crashes>>

Elapse ==
  /\ elapsed' = TRUE
  /\ UNCHANGED <<live, exports, refreshing, mutex, file, request, threadVars, crashes>>

----
\* The refresh thread.  The local registry may not load.
FetchLocal(t) ==
  /\ stage[t] = "local"
  /\ stage' = [stage EXCEPT ![t] = "peers"]
  /\ \/ got' = [got EXCEPT ![t][Local] = live[Local]]
     \/ UNCHANGED got
  /\ UNCHANGED <<live, memoryVars, file, request, pending, crashes>>

\* fetch_peer_exports asks all peers at once; each answers, fails or times out.
Answer(t, p) ==
  /\ stage[t] = "peers" /\ p \in pending[t]
  /\ pending' = [pending EXCEPT ![t] = @ \ {p}]
  /\ \/ got' = [got EXCEPT ![t][p] = live[p]]
     \/ UNCHANGED got
  /\ UNCHANGED <<live, memoryVars, file, request, stage, crashes>>

\* Faulty variant: a refresh that got nothing leaves the flag as it is.
PublishUnlessEmpty(t) ==
  /\ stage[t] = "peers" /\ pending[t] = {} /\ mutex = NoThread
  /\ IF got[t] = Empty /\ exports # Empty
       THEN /\ stage' = [stage EXCEPT ![t] = "none"]
            /\ UNCHANGED <<exports, file, mutex, refreshing, elapsed>>
       ELSE /\ refreshing' = FALSE /\ elapsed' = FALSE
            /\ exports' = got[t] /\ file' = Torn /\ mutex' = t
            /\ stage' = [stage EXCEPT ![t] = "write"]
  /\ UNCHANGED <<live, request, got, pending, crashes>>

\* The new snapshot replaces the old one whole, unless it is empty.
Publish(t) ==
  /\ stage[t] = "peers" /\ pending[t] = {} /\ mutex = NoThread
  /\ refreshing' = FALSE /\ elapsed' = FALSE
  /\ IF got[t] = Empty /\ exports # Empty
       THEN /\ stage' = [stage EXCEPT ![t] = "none"]
            /\ UNCHANGED <<exports, file, mutex>>
       ELSE /\ exports' = got[t] /\ file' = Torn /\ mutex' = t
            /\ stage' = [stage EXCEPT ![t] = "write"]
  /\ UNCHANGED <<live, request, got, pending, crashes>>

\* Faulty variant: what is written is read again from the registry.
WriteLater(t) ==
  /\ stage[t] = "write"
  /\ stage' = [stage EXCEPT ![t] = "none"]
  /\ file' = [got[t] EXCEPT ![Local] = live[Local]] /\ mutex' = NoThread
  /\ got' = [got EXCEPT ![t] = Empty]
  /\ UNCHANGED <<live, exports, refreshing, elapsed, request, pending, crashes>>

\* fs::write, with the mutex held from Publish on.
Written(t) ==
  /\ stage[t] = "write"
  /\ stage' = [stage EXCEPT ![t] = "none"]
  /\ file' = got[t] /\ mutex' = NoThread
  /\ got' = [got EXCEPT ![t] = Empty]
  /\ UNCHANGED <<live, exports, refreshing, elapsed, request, pending, crashes>>

----
Change(m) ==
  /\ live[m] < MaxVersion
  /\ live[m] > 1 \/ Cardinality({n \in Machine : live[n] > 1}) < MaxChanged
  /\ live' = [live EXCEPT ![m] = @ + 1]
  /\ UNCHANGED <<memoryVars, file, request, threadVars, crashes>>

\* Faulty variant: the file is taken as it is.
RestartTrusts ==
  /\ crashes < MaxCrashes /\ crashes' = crashes + 1
  /\ exports' = file
  /\ refreshing' = FALSE /\ elapsed' = TRUE /\ mutex' = NoThread
  /\ request' = "start"
  /\ stage' = [t \in Thread |-> "none"]
  /\ got' = [t \in Thread |-> Empty]
  /\ pending' = [t \in Thread |-> {}]
  /\ UNCHANGED <<live, file>>

\* The process ends anywhere and is started again: it loads the file, or nothing
\* if the file does not parse.
Restart ==
  /\ crashes < MaxCrashes /\ crashes' = crashes + 1
  /\ exports' = IF file = Torn THEN Empty ELSE file
  /\ refreshing' = FALSE /\ elapsed' = TRUE /\ mutex' = NoThread
  /\ request' = "start"
  /\ stage' = [t \in Thread |-> "none"]
  /\ got' = [t \in Thread |-> Empty]
  /\ pending' = [t \in Thread |-> {}]
  /\ UNCHANGED <<live, file>>

Refresh(t) ==
  \/ FetchLocal(t) \/ (\E p \in Peer : Answer(t, p)) \/ Publish(t) \/ Written(t)

Next ==
  \/ \E t \in Thread : RefreshIfNeeded(t) \/ Refresh(t)
  \/ Rows \/ Elapse
  \/ \E m \in Machine : Change(m)
  \/ Restart

Spec == Init /\ [][Next]_vars

----
TypeOK ==
  /\ live \in [Machine -> 1 .. MaxVersion]
  /\ exports \in Snapshot
  /\ file \in Snapshot \cup {Torn}
  /\ refreshing \in BOOLEAN /\ elapsed \in BOOLEAN
  /\ mutex \in Thread \cup {NoThread}
  /\ request \in {"start", "none", "rows"}
  /\ stage \in [Thread -> {"none", "local", "peers", "write"}]
  /\ got \in [Thread -> Snapshot]
  /\ pending \in [Thread -> SUBSET Peer]
  /\ crashes \in 0 .. MaxCrashes

\* The page never goes back in time: while the process runs, a machine's export is
\* never replaced by an older version of it.  (One refresh at a time, and each asks
\* after the one before it has published.)
ExportsNeverOlder ==
  [][crashes' = crashes =>
       \A m \in Machine : exports'[m] = 0 \/ exports'[m] >= exports[m]]_vars

\* A restart shows what was shown before: whenever no write is under way the file
\* is the snapshot in memory, unless the process was killed in the middle of one.
RestartKeepsSnapshot ==
  mutex = NoThread => exports = file \/ (file = Torn /\ exports = Empty)

\* What CHANGELOG.md says of peers that time out: their services do not disappear.
PeersStay ==
  [][crashes' = crashes => \A p \in Peer : Answered[p] # 0 => Answered'[p] # 0]_vars
====
