---- MODULE MCPortLedger ----
(***************************************************************************)
(* Instances of PortLedger for TLC.                                        *)
(***************************************************************************)
EXTENDS LedgerScan, TLC

CONSTANTS here, there, x, y, z, low, high, fileX, fileY, fileZ

File(i, o, n) == [id |-> i, owner |-> o, port |-> n]

\* safe_file_stem gives every id here a file of its own.
FilePerId == (x :> fileX) @@ (y :> fileY) @@ (z :> fileZ)

NoProject == [m \in Machine |-> [p \in Path |-> NoFile]]

\* Two services that want one port, and one that does not.
Rivals == [m \in Machine |-> (fileX :> File(x, here, low)) @@ (fileY :> File(y, here, low))
                             @@ (fileZ :> File(z, here, high))]

\* The same beside a machine that records a service of this owner too.
Scattered == [Rivals EXCEPT ![there] = [NoProject[there] EXCEPT ![fileY] = File(y, here, low)]]

AllPeers == [m \in Machine |-> Machine \ {m}]

\* a1 and a2 overlap on this machine.  b1 and c1, one here and one there, do not, and
\* hand services off.
CONSTANTS a1, a2, b1, c1

Registrars == {"register", "unregister", "delete", "rename"}
Commands   == [a \in Actor |-> IF a \in {a1, a2} THEN Registrars
                               ELSE IF a = b1 THEN Op ELSE {"register", "unregister"}]
Places     == [a \in Actor |-> IF a = c1 THEN there ELSE here]

Alike == Permutations({a1, a2})
====
