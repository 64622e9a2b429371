---- MODULE Ports ----
(***************************************************************************)
(* The rule of the port ledger: an owner does not assign one port to two   *)
(* services.                                                               *)
(***************************************************************************)

\* S is a set of services, records with an owner, a port and an id.
Conflicting(S) == \E s, t \in S : s.owner = t.owner /\ s.port = t.port /\ s.id # t.id
====
