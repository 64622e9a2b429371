---- MODULE AtomicFile ----
(***************************************************************************)
(* What the callers of State::load and State::save (and of the registry's  *)
(* pair) rely on: a load returns the value saved last, or the default      *)
(* before the first save, and a save replaces that value in one step or,   *)
(* when it fails or its process dies, not at all.                          *)
(***************************************************************************)
CONSTANTS Client, Value, Default, None

VARIABLES
  content,    \* the value in the file
  result      \* what each client's load returned, None when it holds nothing

vars == <<content, result>>

Init == content = Default /\ result = [c \in Client |-> None]

Load(c) ==
  /\ result[c] = None
  /\ result' = [result EXCEPT ![c] = content]
  /\ UNCHANGED content

\* The client works with a value of its own from here on, or its command ends.
Drop(c) == result' = [result EXCEPT ![c] = None] /\ UNCHANGED content

Save(v) == content' = v /\ UNCHANGED result

Next ==
  \/ \E c \in Client : Load(c) \/ Drop(c)
  \/ \E v \in Value : Save(v)

Spec == Init /\ [][Next]_vars
====
