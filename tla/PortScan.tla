---- MODULE PortScan ----
(***************************************************************************)
(* How the ledger's rule is computed: one pass over the services of all    *)
(* exports in the order they are listed, with a set of those seen and a    *)
(* map from owner and port to the first id; and how the rows of the page   *)
(* are picked from the same list by a pass of its own.  Owners are never   *)
(* blank, load_bridge_config sees to that.                                 *)
(***************************************************************************)
EXTENDS SequencesExt

Nothing == [seen |-> {}, first |-> <<>>, refused |-> FALSE]
Key(s) == <<s.owner, s.port>>

\* The first id of each owner and port, s seen after the others.
Noted(first, s) ==
  [k \in DOMAIN first \cup {Key(s)} |-> IF k \in DOMAIN first THEN first[k] ELSE s.id]

\* Faulty variant: what was seen is told by owner and port alone.
ScanByKey(acc, s) ==
  IF acc.refused \/ Key(s) \in {Key(t) : t \in acc.seen} THEN acc
  ELSE [seen |-> acc.seen \cup {s}, first |-> Noted(acc.first, s), refused |-> FALSE]

Scan(acc, s) ==
  IF acc.refused \/ s \in acc.seen THEN acc
  ELSE [seen    |-> acc.seen \cup {s},
        first   |-> Noted(acc.first, s),
        refused |-> Key(s) \in DOMAIN acc.first /\ acc.first[Key(s)] # s.id]

Refused(list) == FoldLeft(Scan, Nothing, list).refused

\* Faulty variant: every listing of a service makes a row.
RowPerListing(acc, s) == Append(acc, s)

\* A row for every service that has none yet.
Row(acc, s) == IF Contains(acc, s) THEN acc ELSE Append(acc, s)

\* The rows, before they are sorted by port and id.
PickRows(list) == FoldLeft(Row, <<>>, list)

\* The lists of the services S, each once or twice.
Listings(S) == SetToSeqs(S) \cup {l \o l : l \in SetToSeqs(S)}
====
