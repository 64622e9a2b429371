---- MODULE LedgerScan ----
(***************************************************************************)
(* The passes of PortScan over the services that the commands of           *)
(* PortLedger gather, in every order in which the exports and their        *)
(* entries may list them, and listed twice: peers repeat the services they *)
(* have recorded.                                                          *)
(***************************************************************************)
EXTENDS PortLedger, PortScan

Gathered == {services[a] : a \in {b \in Actor : At(b, "peers")}}

\* The pass refuses a list exactly when it breaks the rule, whatever the order and
\* however often peers list the same service.
ScanIsRule ==
  \A S \in Gathered : \A list \in Listings(S) : Refused(list) <=> Conflicting(S)

\* The page never shows an owner's port twice once the list has been accepted, and leaves
\* no service out.
OneRowPerPort ==
  \A S \in Gathered : \A list \in Listings(S) :
    ~Refused(list) =>
      LET rows == PickRows(list)
      IN /\ {rows[i] : i \in DOMAIN rows} = S
         /\ \A i, j \in DOMAIN rows : Key(rows[i]) = Key(rows[j]) => i = j
====
