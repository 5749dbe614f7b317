------------------------------ MODULE LeaseMutex ------------------------------
(***************************************************************************)
(* What a lock lease promises to the code it protects: of all the calls    *)
(* that name one key, at most one is inside its protected function.        *)
(***************************************************************************)
CONSTANTS
  Tasks,   \* the calls of runExclusive and runWhenLeader
  KeyOf    \* the lock key each call names

VARIABLE inside    \* the calls whose protected function is running

Init == inside = {}

Enter(t) ==
  /\ \A u \in inside : KeyOf[u] # KeyOf[t]
  /\ inside' = inside \cup {t}

Leave(t) ==
  /\ t \in inside
  /\ inside' = inside \ {t}

Next == \E t \in Tasks : Enter(t) \/ Leave(t)

Spec == Init /\ [][Next]_inside
===============================================================================
