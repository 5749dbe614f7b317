------------------------------- MODULE MCLocks --------------------------------
(* Small instances of Locks.  All tasks contend for one key, which is where   *)
(* everything of interest happens.                                            *)
EXTENDS Locks, TLC

CONSTANTS job, twin, rival, late, again, k1, ownA, ownB, ownC

MCKeys == {k1}
MCKeyOf == [t \in Tasks |-> k1]
MCOwners == {ownA, ownB, ownC}
MCOwnerOf == [t \in Tasks |-> CASE t \in {job, twin} -> ownA
                                [] t = rival -> ownB
                                [] t \in {late, again} -> ownC]

(* Two calls of one manager, one of them as leader, and a call of another    *)
(* renew in time; those of a third manager, one of them as leader, do not:   *)
(* their timers are slower than their leases.                                *)
MixedTtl == [t \in Tasks |-> IF t \in {late, again} THEN 2 ELSE 4]
MixedRenew == [t \in Tasks |-> CASE t = job -> 1 [] t \in {late, again} -> 3 [] OTHER -> 0]
MixedWait == [t \in Tasks |-> IF t \in {rival, again} THEN 3 ELSE 0]
===============================================================================
