---- MODULE PortScanProofs ----
(***************************************************************************)
(* Proofs about the passes of PortScan, for lists of any length: validate  *)
(* refuses exactly what the ledger's rule forbids, and the page has one    *)
(* row of each service.  A pass is a fold, so what it computes takes an    *)
(* induction along the list.                                               *)
(***************************************************************************)
EXTENDS PortScan, Ports, FiniteSetTheorems, TLAPS

----
(* Induction and folds. *)

\* A set of numbers that is not empty has a least one.
LEMMA LeastNumber ==
  ASSUME NEW T \in SUBSET Nat, T # {}
  PROVE  \E x \in T : \A y \in T : x <= y
<1>1. PICK R : /\ IsWellFoundedOn(R, Nat)
               /\ \A x, y \in Nat : y < x => <<y, x>> \in R
  <2> DEFINE Less == OpToRel(<, Nat)
  <2>1. \A x, y \in Nat : y < x => <<y, x>> \in Less
    BY DEF OpToRel
  <2>2. IsWellFoundedOn(Less, Nat)
    BY NatLessThanWellFounded
  <2> QED
    <3> HIDE DEF Less
    <3> QED
      BY <2>1, <2>2
<1>2. IsWellFoundedOn(R, Nat)
  BY <1>1
<1>3. PICK x \in T : \A y \in T : <<y, x>> \notin R
  BY <1>2, WFMin
<1>4. \A y \in T : y \in Nat /\ x \in Nat /\ ~(y < x)
  BY <1>1, <1>3
<1> QED
  BY <1>4

\* Induction, with a set in place of a predicate.
LEMMA Induction ==
  ASSUME NEW S, 0 \in S, \A n \in Nat : n \in S => n + 1 \in S
  PROVE  \A n \in Nat : n \in S
<1> SUFFICES ASSUME NEW m \in Nat, m \notin S PROVE FALSE
  OBVIOUS
<1> DEFINE T == Nat \ S
<1>1. T \in SUBSET Nat /\ T # {}
  OBVIOUS
<1>2. PICK x \in T : \A y \in T : x <= y
  BY <1>1, LeastNumber
<1>3. x # 0 /\ x - 1 \in Nat /\ x - 1 \notin T
  BY <1>2
<1> QED
  BY <1>3

\* What the recursion of a fold over 1 .. n removes: the last index.
LEMMA LastIndex ==
  ASSUME NEW k \in Nat, NEW s \in SUBSET (1 .. k + 1), k + 1 \in s
  PROVE  Max(s) = k + 1 /\ s \ {k + 1} \in SUBSET (1 .. k)
<1>1. \A x \in s : x \in Nat /\ x <= k + 1
  OBVIOUS
<1>2. \A x \in s : (\A y \in s : x >= y) <=> x = k + 1
  BY <1>1
<1>3. Max(s) = k + 1
  BY <1>2 DEF Max
<1>4. \A x \in s \ {k + 1} : x \in 1 .. k
  OBVIOUS
<1> QED
  BY <1>3, <1>4

\* The recursion that folds a list with Scan, one index after another.
Scans(list, n) ==
  CHOOSE f : f = [s \in SUBSET (1 .. n) |->
                    IF s = {} THEN Nothing ELSE Scan(f[s \ {Max(s)}], list[Max(s)])]

LEMMA ScansExist ==
  ASSUME NEW list, NEW n \in Nat
  PROVE  \E f : f = [s \in SUBSET (1 .. n) |->
                       IF s = {} THEN Nothing ELSE Scan(f[s \ {Max(s)}], list[Max(s)])]
<1> DEFINE Is(k, f) == f = [s \in SUBSET (1 .. k) |->
                              IF s = {} THEN Nothing
                              ELSE Scan(f[s \ {Max(s)}], list[Max(s)])]
           S == {k \in Nat : \E f : Is(k, f)}
<1>1. 0 \in S
  <2> DEFINE f == [s \in SUBSET (1 .. 0) |-> Nothing]
  <2>1. \A s \in SUBSET (1 .. 0) : s = {}
    OBVIOUS
  <2>2. Is(0, f)
    BY <2>1
  <2> QED
    BY <2>2
<1>2. ASSUME NEW k \in Nat, k \in S PROVE k + 1 \in S
  <2>1. PICK g : Is(k, g)
    BY <1>2
  <2> DEFINE h == [s \in SUBSET (1 .. k + 1) |->
                     IF k + 1 \in s THEN Scan(g[s \ {k + 1}], list[k + 1]) ELSE g[s]]
  <2>2. ASSUME NEW s \in SUBSET (1 .. k + 1)
        PROVE  h[s] = IF s = {} THEN Nothing ELSE Scan(h[s \ {Max(s)}], list[Max(s)])
    <3>1. CASE k + 1 \in s
      <4>1. Max(s) = k + 1 /\ s \ {k + 1} \in SUBSET (1 .. k)
        BY <3>1, LastIndex
      <4>2. s \ {k + 1} \in SUBSET (1 .. k + 1) /\ k + 1 \notin s \ {k + 1}
        OBVIOUS
      <4>3. h[s \ {k + 1}] = g[s \ {k + 1}]
        BY <4>2
      <4> QED
        BY <3>1, <4>1, <4>3
    <3>2. CASE k + 1 \notin s
      <4>1. s \in SUBSET (1 .. k) /\ h[s] = g[s]
        BY <3>2
      <4>2. s \ {Max(s)} \in SUBSET (1 .. k + 1) /\ k + 1 \notin s \ {Max(s)}
        BY <3>2
      <4>3. h[s \ {Max(s)}] = g[s \ {Max(s)}]
        BY <4>2
      <4>4. g[s] = IF s = {} THEN Nothing ELSE Scan(g[s \ {Max(s)}], list[Max(s)])
        BY <2>1, <4>1
      <4> QED
        BY <4>1, <4>3, <4>4
    <3> QED
      BY <3>1, <3>2
  <2>3. Is(k + 1, h)
    BY <2>2
  <2> HIDE DEF h, Is
  <2> QED
    BY <2>3
<1>3. n \in S
  <2> HIDE DEF S
  <2> QED
    BY <1>1, <1>2, Induction
<1> QED
  BY <1>3

LEMMA ScanSteps ==
  ASSUME NEW X, NEW list \in Seq(X)
  PROVE  \E acc : /\ acc[0] = Nothing
                  /\ \A k \in 0 .. Len(list) - 1 : acc[k + 1] = Scan(acc[k], list[k + 1])
                  /\ FoldLeft(Scan, Nothing, list) = acc[Len(list)]
<1> DEFINE n == Len(list)
           f == Scans(list, n)
           acc == [k \in 0 .. n |-> f[1 .. k]]
<1>1. n \in Nat /\ DOMAIN list = 1 .. n
  OBVIOUS
<1>2. f = [s \in SUBSET (1 .. n) |->
             IF s = {} THEN Nothing ELSE Scan(f[s \ {Max(s)}], list[Max(s)])]
  BY <1>1, ScansExist DEF Scans
<1>3. FoldLeft(Scan, Nothing, list) = f[1 .. n]
  BY <1>1 DEF FoldLeft, MapThenFoldSet, Scans
<1>4. acc[0] = Nothing
  <2> HIDE DEF f
  <2>1. 1 .. 0 = {} /\ {} \in SUBSET (1 .. n)
    OBVIOUS
  <2>2. f[{}] = Nothing
    BY <1>2, <2>1
  <2> QED
    BY <1>1, <2>1, <2>2
<1>5. ASSUME NEW k \in 0 .. n - 1 PROVE acc[k + 1] = Scan(acc[k], list[k + 1])
  <2> HIDE DEF f
  <2> HIDE DEF n, acc
  <2>1. k \in Nat /\ k + 1 \in 1 .. k + 1 /\ k + 1 <= n
    BY <1>1
  <2>2. 1 .. k + 1 \in SUBSET (1 .. n) /\ 1 .. k + 1 # {}
    BY <1>1, <2>1
  <2>3. (1 .. k + 1) \ {k + 1} = 1 .. k
    BY <2>1
  <2>4. Max(1 .. k + 1) = k + 1
    BY <2>1, LastIndex
  <2>5. f[1 .. k + 1] = Scan(f[(1 .. k + 1) \ {Max(1 .. k + 1)}], list[Max(1 .. k + 1)])
    BY <1>2, <2>2
  <2>6. f[1 .. k + 1] = Scan(f[1 .. k], list[k + 1])
    BY <2>3, <2>4, <2>5
  <2>7. k \in 0 .. n /\ k + 1 \in 0 .. n
    BY <1>1, <2>1
  <2> QED
    BY <2>6, <2>7 DEF acc
<1>6. acc[n] = f[1 .. n]
  BY <1>1
<1> HIDE DEF acc, f
<1> QED
  BY <1>3, <1>4, <1>5, <1>6

\* The recursion that folds a list with Row; what is a parameter of FoldLeft cannot be
\* one of a lemma, so its lemmas are those of Scans with Row in place of Scan.
RowPicks(list, n) ==
  CHOOSE f : f = [s \in SUBSET (1 .. n) |->
                    IF s = {} THEN <<>> ELSE Row(f[s \ {Max(s)}], list[Max(s)])]

LEMMA RowPicksExist ==
  ASSUME NEW list, NEW n \in Nat
  PROVE  \E f : f = [s \in SUBSET (1 .. n) |->
                       IF s = {} THEN <<>> ELSE Row(f[s \ {Max(s)}], list[Max(s)])]
<1> DEFINE Is(k, f) == f = [s \in SUBSET (1 .. k) |->
                              IF s = {} THEN <<>>
                              ELSE Row(f[s \ {Max(s)}], list[Max(s)])]
           S == {k \in Nat : \E f : Is(k, f)}
<1>1. 0 \in S
  <2> DEFINE f == [s \in SUBSET (1 .. 0) |-> <<>>]
  <2>1. \A s \in SUBSET (1 .. 0) : s = {}
    OBVIOUS
  <2>2. Is(0, f)
    BY <2>1
  <2> QED
    BY <2>2
<1>2. ASSUME NEW k \in Nat, k \in S PROVE k + 1 \in S
  <2>1. PICK g : Is(k, g)
    BY <1>2
  <2> DEFINE h == [s \in SUBSET (1 .. k + 1) |->
                     IF k + 1 \in s THEN Row(g[s \ {k + 1}], list[k + 1]) ELSE g[s]]
  <2>2. ASSUME NEW s \in SUBSET (1 .. k + 1)
        PROVE  h[s] = IF s = {} THEN <<>> ELSE Row(h[s \ {Max(s)}], list[Max(s)])
    <3>1. CASE k + 1 \in s
      <4>1. Max(s) = k + 1 /\ s \ {k + 1} \in SUBSET (1 .. k)
        BY <3>1, LastIndex
      <4>2. s \ {k + 1} \in SUBSET (1 .. k + 1) /\ k + 1 \notin s \ {k + 1}
        OBVIOUS
      <4>3. h[s \ {k + 1}] = g[s \ {k + 1}]
        BY <4>2
      <4> QED
        BY <3>1, <4>1, <4>3
    <3>2. CASE k + 1 \notin s
      <4>1. s \in SUBSET (1 .. k) /\ h[s] = g[s]
        BY <3>2
      <4>2. s \ {Max(s)} \in SUBSET (1 .. k + 1) /\ k + 1 \notin s \ {Max(s)}
        BY <3>2
      <4>3. h[s \ {Max(s)}] = g[s \ {Max(s)}]
        BY <4>2
      <4>4. g[s] = IF s = {} THEN <<>> ELSE Row(g[s \ {Max(s)}], list[Max(s)])
        BY <2>1, <4>1
      <4> QED
        BY <4>1, <4>3, <4>4
    <3> QED
      BY <3>1, <3>2
  <2>3. Is(k + 1, h)
    BY <2>2
  <2> HIDE DEF h, Is
  <2> QED
    BY <2>3
<1>3. n \in S
  <2> HIDE DEF S
  <2> QED
    BY <1>1, <1>2, Induction
<1> QED
  BY <1>3

LEMMA RowSteps ==
  ASSUME NEW X, NEW list \in Seq(X)
  PROVE  \E acc : /\ acc[0] = <<>>
                  /\ \A k \in 0 .. Len(list) - 1 : acc[k + 1] = Row(acc[k], list[k + 1])
                  /\ FoldLeft(Row, <<>>, list) = acc[Len(list)]
<1> DEFINE n == Len(list)
           f == RowPicks(list, n)
           acc == [k \in 0 .. n |-> f[1 .. k]]
<1>1. n \in Nat /\ DOMAIN list = 1 .. n
  OBVIOUS
<1>2. f = [s \in SUBSET (1 .. n) |->
             IF s = {} THEN <<>> ELSE Row(f[s \ {Max(s)}], list[Max(s)])]
  BY <1>1, RowPicksExist DEF RowPicks
<1>3. FoldLeft(Row, <<>>, list) = f[1 .. n]
  BY <1>1 DEF FoldLeft, MapThenFoldSet, RowPicks
<1>4. acc[0] = <<>>
  <2> HIDE DEF f
  <2>1. 1 .. 0 = {} /\ {} \in SUBSET (1 .. n)
    OBVIOUS
  <2>2. f[{}] = <<>>
    BY <1>2, <2>1
  <2> QED
    BY <1>1, <2>1, <2>2
<1>5. ASSUME NEW k \in 0 .. n - 1 PROVE acc[k + 1] = Row(acc[k], list[k + 1])
  <2> HIDE DEF f
  <2> HIDE DEF n, acc
  <2>1. k \in Nat /\ k + 1 \in 1 .. k + 1 /\ k + 1 <= n
    BY <1>1
  <2>2. 1 .. k + 1 \in SUBSET (1 .. n) /\ 1 .. k + 1 # {}
    BY <1>1, <2>1
  <2>3. (1 .. k + 1) \ {k + 1} = 1 .. k
    BY <2>1
  <2>4. Max(1 .. k + 1) = k + 1
    BY <2>1, LastIndex
  <2>5. f[1 .. k + 1] = Row(f[(1 .. k + 1) \ {Max(1 .. k + 1)}], list[Max(1 .. k + 1)])
    BY <1>2, <2>2
  <2>6. f[1 .. k + 1] = Row(f[1 .. k], list[k + 1])
    BY <2>3, <2>4, <2>5
  <2>7. k \in 0 .. n /\ k + 1 \in 0 .. n
    BY <1>1, <2>1
  <2> QED
    BY <2>6, <2>7 DEF acc
<1>6. acc[n] = f[1 .. n]
  BY <1>1
<1> HIDE DEF acc, f
<1> QED
  BY <1>3, <1>4, <1>5, <1>6
----
(* The ledger's rule. *)

Items(list) == {list[i] : i \in DOMAIN list}

\* What a pass has come to when it has seen the services P.
Scanned(acc, P) ==
  /\ acc.refused \in BOOLEAN
  /\ acc.refused => Conflicting(P)
  /\ ~acc.refused => /\ acc.seen = P
                     /\ DOMAIN acc.first = {Key(s) : s \in P}
                     /\ \A s \in P : acc.first[Key(s)] = s.id

LEMMA NothingScanned == Scanned(Nothing, {})
BY DEF Scanned, Nothing

LEMMA KeyEqual ==
  ASSUME NEW s, NEW t
  PROVE  Key(s) = Key(t) <=> s.owner = t.owner /\ s.port = t.port
BY DEF Key

LEMMA ScanOne ==
  ASSUME NEW acc, NEW P, NEW s, Scanned(acc, P)
  PROVE  Scanned(Scan(acc, s), P \cup {s})
<1>1. CASE acc.refused
  <2>1. Scan(acc, s) = acc
    BY <1>1 DEF Scan
  <2>2. Conflicting(P \cup {s})
    BY <1>1 DEF Scanned, Conflicting
  <2> QED
    BY <1>1, <2>1, <2>2 DEF Scanned
<1>2. CASE ~acc.refused /\ s \in acc.seen
  <2>1. Scan(acc, s) = acc /\ P \cup {s} = P
    BY <1>2 DEF Scan, Scanned
  <2> QED
    BY <2>1
<1>3. CASE ~acc.refused /\ s \notin acc.seen
  <2> DEFINE new  == Scan(acc, s)
             late == Noted(acc.first, s)
  <2>1. /\ acc.seen = P
        /\ DOMAIN acc.first = {Key(t) : t \in P}
        /\ \A t \in P : acc.first[Key(t)] = t.id
    BY <1>3 DEF Scanned
  <2>2. /\ new.seen = P \cup {s} /\ new.first = late
        /\ new.refused = (Key(s) \in DOMAIN acc.first /\ acc.first[Key(s)] # s.id)
    BY <1>3, <2>1 DEF Scan
  <2> HIDE DEF new, late
  <2>3. new.refused => Conflicting(P \cup {s})
    <3> SUFFICES ASSUME new.refused PROVE Conflicting(P \cup {s})
      OBVIOUS
    <3>1. PICK t \in P : Key(t) = Key(s) /\ t.id # s.id
      BY <2>1, <2>2
    <3> QED
      BY <3>1, KeyEqual DEF Conflicting
  <2>4. DOMAIN late = {Key(t) : t \in P \cup {s}}
    BY <2>1 DEF Noted, late
  <2>5. /\ \A t \in P : late[Key(t)] = t.id
        /\ Key(s) \notin DOMAIN acc.first => late[Key(s)] = s.id
        /\ Key(s) \in DOMAIN acc.first => late[Key(s)] = acc.first[Key(s)]
    BY <2>1 DEF Noted, late
  <2>6. ~new.refused => \A t \in P \cup {s} : late[Key(t)] = t.id
    BY <2>2, <2>5
  <2>7. Scanned(new, P \cup {s})
    BY <2>2, <2>3, <2>4, <2>6 DEF Scanned
  <2> QED
    BY <2>7 DEF new
<1> QED
  BY <1>1, <1>2, <1>3

\* validate_no_port_conflicts refuses a list of services exactly when two of them break
\* the rule, however long the list, in whatever order, and however often it repeats one.
THEOREM PassIsRule ==
  ASSUME NEW X, NEW list \in Seq(X)
  PROVE  Refused(list) <=> Conflicting(Items(list))
<1> DEFINE n == Len(list)
           Upto(k) == {list[i] : i \in 1 .. k}
<1>1. n \in Nat /\ DOMAIN list = 1 .. n /\ Items(list) = Upto(n)
  BY DEF Items
<1>2. PICK acc : /\ acc[0] = Nothing
                 /\ \A k \in 0 .. n - 1 : acc[k + 1] = Scan(acc[k], list[k + 1])
                 /\ FoldLeft(Scan, Nothing, list) = acc[n]
  BY ScanSteps
<1> DEFINE S == {k \in Nat : k <= n => Scanned(acc[k], Upto(k))}
<1>3. 0 \in S
  <2>1. Upto(0) = {}
    OBVIOUS
  <2> QED
    BY <1>2, <2>1, NothingScanned
<1>4. ASSUME NEW k \in Nat, k \in S PROVE k + 1 \in S
  <2> SUFFICES ASSUME k + 1 <= n PROVE Scanned(acc[k + 1], Upto(k + 1))
    OBVIOUS
  <2>1. Scanned(acc[k], Upto(k)) /\ k \in 0 .. n - 1
    BY <1>1, <1>4
  <2>2. Upto(k + 1) = Upto(k) \cup {list[k + 1]}
    <3>1. 1 .. k + 1 = (1 .. k) \cup {k + 1}
      OBVIOUS
    <3> QED
      BY <3>1
  <2> HIDE DEF Upto
  <2> QED
    BY <1>2, <2>1, <2>2, ScanOne
<1>5. n \in S
  <2> HIDE DEF S
  <2> QED
    BY <1>1, <1>3, <1>4, Induction
<1>6. Scanned(acc[n], Items(list))
  BY <1>1, <1>5
<1>7. Refused(list) = acc[n].refused
  BY <1>2 DEF Refused
<1>8. ~acc[n].refused => ~Conflicting(Items(list))
  <2> HIDE DEF n, Upto, S
  <2> SUFFICES ASSUME ~acc[n].refused, NEW s \in Items(list), NEW t \in Items(list),
                      s.owner = t.owner, s.port = t.port
               PROVE  s.id = t.id
    BY DEF Conflicting
  <2>1. Key(s) = Key(t)
    BY KeyEqual
  <2> QED
    BY <1>6, <2>1 DEF Scanned
<1> QED
  BY <1>6, <1>7, <1>8 DEF Scanned
----
(* The rows. *)

\* The rows of the services P: each has one.
Picked(rows, P, X) == rows \in Seq(X) /\ Items(rows) = P /\ IsInjective(rows)

LEMMA NothingPicked == \A X : Picked(<<>>, {}, X)
BY DEF Picked, Items, IsInjective

LEMMA RowOne ==
  ASSUME NEW X, NEW rows, NEW P, NEW s \in X, Picked(rows, P, X)
  PROVE  Picked(Row(rows, s), P \cup {s}, X)
<1>1. rows \in Seq(X) /\ Items(rows) = P /\ IsInjective(rows) /\ DOMAIN rows = 1 .. Len(rows)
  BY DEF Picked
<1>2. Contains(rows, s) <=> s \in P
  BY <1>1 DEF Contains, Items
<1>3. CASE s \in P
  <2>1. Row(rows, s) = rows /\ P \cup {s} = P
    BY <1>2, <1>3 DEF Row
  <2> QED
    BY <2>1
<1>4. CASE s \notin P
  <2> DEFINE new == Append(rows, s)
             n == Len(rows)
  <2>1. Row(rows, s) = new
    BY <1>2, <1>4 DEF Row
  <2>2. /\ new \in Seq(X) /\ n \in Nat /\ DOMAIN new = 1 .. n + 1
        /\ \A i \in 1 .. n : new[i] = rows[i]
        /\ new[n + 1] = s
    BY <1>1
  <2>3. \A i \in 1 .. n : new[i] \in P /\ new[i] # s
    BY <1>1, <1>4, <2>2 DEF Items
  <2>4. Items(new) = P \cup {s}
    <3>1. 1 .. n + 1 = (1 .. n) \cup {n + 1}
      BY <2>2
    <3> HIDE DEF new, n
    <3>2. Items(rows) = {new[i] : i \in 1 .. n}
      BY <1>1, <2>2 DEF Items, n
    <3> QED
      BY <1>1, <2>2, <3>1, <3>2 DEF Items
  <2>5. IsInjective(new)
    <3> SUFFICES ASSUME NEW i \in DOMAIN new, NEW j \in DOMAIN new, new[i] = new[j]
                 PROVE  i = j
      BY DEF IsInjective
    <3>1. CASE i \in 1 .. n /\ j \in 1 .. n
      BY <1>1, <2>2, <3>1 DEF IsInjective
    <3>2. CASE i = n + 1 \/ j = n + 1
      BY <2>2, <2>3, <3>2
    <3> QED
      BY <2>2, <3>1, <3>2
  <2> QED
    BY <2>1, <2>2, <2>4, <2>5 DEF Picked
<1> QED
  BY <1>3, <1>4

\* port_rows_from_exports makes one row of every service it is given and no other row.
THEOREM RowsAreServices ==
  ASSUME NEW X, NEW list \in Seq(X)
  PROVE  Picked(PickRows(list), Items(list), X)
<1> DEFINE n == Len(list)
           Upto(k) == {list[i] : i \in 1 .. k}
<1>1. n \in Nat /\ DOMAIN list = 1 .. n /\ Items(list) = Upto(n)
  BY DEF Items
<1>2. PICK acc : /\ acc[0] = <<>>
                 /\ \A k \in 0 .. n - 1 : acc[k + 1] = Row(acc[k], list[k + 1])
                 /\ FoldLeft(Row, <<>>, list) = acc[n]
  BY RowSteps
<1> DEFINE S == {k \in Nat : k <= n => Picked(acc[k], Upto(k), X)}
<1>3. 0 \in S
  <2>1. Upto(0) = {}
    OBVIOUS
  <2> QED
    BY <1>2, <2>1, NothingPicked
<1>4. ASSUME NEW k \in Nat, k \in S PROVE k + 1 \in S
  <2> SUFFICES ASSUME k + 1 <= n PROVE Picked(acc[k + 1], Upto(k + 1), X)
    OBVIOUS
  <2>1. Picked(acc[k], Upto(k), X) /\ k \in 0 .. n - 1 /\ list[k + 1] \in X
    BY <1>1, <1>4
  <2>2. Upto(k + 1) = Upto(k) \cup {list[k + 1]}
    <3>1. 1 .. k + 1 = (1 .. k) \cup {k + 1}
      OBVIOUS
    <3> QED
      BY <3>1
  <2> HIDE DEF Upto
  <2> QED
    BY <1>2, <2>1, <2>2, RowOne
<1>5. n \in S
  <2> HIDE DEF S
  <2> QED
    BY <1>1, <1>3, <1>4, Induction
<1> QED
  BY <1>1, <1>2, <1>5 DEF PickRows

----
(* The lists of a set. *)

\* A sequence of as many different elements as a finite set has holds all of them.
LEMMA SeqsList ==
  ASSUME NEW S, IsFiniteSet(S), NEW f \in SetToSeqs(S)
  PROVE  f \in Seq(S) /\ Items(f) = S
<1> DEFINE n == Cardinality(S)
<1>1. n \in Nat
  BY FS_CardinalityType
<1>2. f \in [1 .. n -> S] /\ \A i, j \in 1 .. n : i # j => f[i] # f[j]
  BY DEF SetToSeqs
<1>3. IsFiniteSet(1 .. n) /\ Cardinality(1 .. n) = n
  BY <1>1, FS_Interval
<1> HIDE DEF n
<1>4. ASSUME NEW s \in S PROVE s \in Items(f)
  <2> SUFFICES ASSUME s \notin Items(f) PROVE FALSE
    OBVIOUS
  <2>1. f \in [1 .. n -> S \ {s}]
    BY <1>2 DEF Items
  <2>2. IsFiniteSet(S \ {s}) /\ Cardinality(S \ {s}) = n - 1
    BY FS_RemoveElement DEF n
  <2>3. Cardinality(S \ {s}) < Cardinality(1 .. n)
    BY <1>1, <1>3, <2>2
  <2>4. \E x, y \in 1 .. n : x # y /\ f[x] = f[y]
    BY <1>3, <2>1, <2>2, <2>3, FS_PigeonHole
  <2> QED
    BY <1>2, <2>4
<1> QED
  BY <1>1, <1>2, <1>4 DEF Items

LEMMA TwiceList ==
  ASSUME NEW S, NEW l \in Seq(S)
  PROVE  l \o l \in Seq(S) /\ Items(l \o l) = Items(l)
<1> DEFINE n == Len(l)
           d == l \o l
<1>1. /\ n \in Nat /\ DOMAIN l = 1 .. n
      /\ d \in Seq(S) /\ DOMAIN d = 1 .. n + n
      /\ \A i \in 1 .. n : d[i] = l[i]
      /\ \A i \in n + 1 .. n + n : d[i] = l[i - n]
  OBVIOUS
<1> HIDE DEF n, d
<1>2. ASSUME NEW i \in 1 .. n + n PROVE \E j \in 1 .. n : d[i] = l[j]
  <2>1. i \in 1 .. n \/ (i \in n + 1 .. n + n /\ i - n \in 1 .. n)
    BY <1>1
  <2> QED
    BY <1>1, <2>1
<1>3. 1 .. n \subseteq 1 .. n + n
  BY <1>1
<1>4. Items(d) \subseteq Items(l)
  <2>1. \A i \in 1 .. n + n : d[i] \in {l[j] : j \in 1 .. n}
    BY <1>2
  <2> QED
    BY <1>1, <2>1 DEF Items
<1>5. Items(l) \subseteq Items(d)
  BY <1>1, <1>3 DEF Items
<1> QED
  BY <1>1, <1>4, <1>5 DEF d

LEMMA ListingsList ==
  ASSUME NEW S, IsFiniteSet(S), NEW list \in Listings(S)
  PROVE  list \in Seq(S) /\ Items(list) = S
<1>1. CASE list \in SetToSeqs(S)
  BY <1>1, SeqsList
<1>2. ASSUME NEW l \in SetToSeqs(S), list = l \o l
      PROVE  list \in Seq(S) /\ Items(list) = S
  <2>1. l \in Seq(S) /\ Items(l) = S
    BY SeqsList
  <2>2. l \o l \in Seq(S) /\ Items(l \o l) = S
    BY <2>1, TwiceList
  <2> QED
    BY <1>2, <2>2
<1> QED
  BY <1>1, <1>2 DEF Listings
====
