----------------------------- MODULE MCStateStore ------------------------------
(* Small instances of StateStore: a handful of calls about two ids.           *)
EXTENDS StateStore

CONSTANTS putA, putB, dropB, setA, look, s1, s2, idA, idB

MCIdOf == [c \in Calls |-> IF c \in {putB, dropB} THEN idB ELSE idA]
MCKind == [c \in Calls |-> CASE c \in {putA, putB} -> "upsert"
                             [] c = setA -> "update"
                             [] c = dropB -> "remove"
                             [] OTHER -> "read"]

OneStore == [c \in Calls |-> s1]

(* Another process, with a store of its own, registers what this one updates. *)
TwoStores == [c \in Calls |-> IF c = putA THEN s2 ELSE s1]
===============================================================================
