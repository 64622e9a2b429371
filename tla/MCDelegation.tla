---- MODULE MCDelegation ----
(***************************************************************************)
(* Instances of Delegation for TLC.  Commands are given on machine 1.      *)
(***************************************************************************)
EXTENDS Delegation, TLC

Star == (1 :> {2, 3}) @@ (2 :> {1}) @@ (3 :> {1})

\* What the registries say: two services of one id, one that machine 1 records, one it
\* shares its id with, one whose owner it learns from another peer.
TwoOwners  == (1 :> Nobody) @@ (2 :> 2) @@ (3 :> 3)
AtTwo      == (1 :> 2) @@ (2 :> 2) @@ (3 :> Nobody)
OwnedHere  == (1 :> 1) @@ (2 :> 2) @@ (3 :> Nobody)
Hearsay    == (1 :> Nobody) @@ (2 :> 3) @@ (3 :> 3)

OnWindows == {<<OwnedHere, {"local"}, {2, 3}>>}
Settings  == OnWindows \cup
  {<<TwoOwners, {"local"}, Machine>>, <<TwoOwners, {"local", "reverse"}, Machine>>,
   <<AtTwo, {"reverse"}, Machine>>, <<Hearsay, {"local"}, Machine>>}

\* There is no remote form of open.
AtOne == [m \in Machine |->
            IF m = 1 THEN (Form \X Verb) \ {<<"remote", "open">>} ELSE {}]
Meanwhile == [m \in Machine |-> IF m = 1 THEN {<<"remote", "up">>} ELSE {}]

Spare == [m \in Machine |-> IF m = 3 THEN Port ELSE {"fixed"}]

\* The hypothesis of the theorems about success holds here.
ASSUME SettingsAgree == OwnersKnown
====
