------------------------------ MODULE RedisLocks ------------------------------
(***************************************************************************)
(* RedisLockBackend: a lock is a key that holds the id of its owner and     *)
(* expires with its lease; a set beside the locks, the index, names the     *)
(* keys list() looks at.  The two change by separate commands, except in    *)
(* the script that releases.                                                *)
(***************************************************************************)
EXTENDS FiniteSetsExt

CONSTANTS Keys, NoOwner

VARIABLES
  locks,     \* the owner on each lock, or NoOwner
  index,     \* the keys the index names
  listing    \* a call of list(): the keys it has yet to get, and those it has
             \* found unlocked

redis == <<locks, index>>
NotListing == [left |-> {}, stale |-> {}]

RedisInit ==
  /\ locks = [k \in Keys |-> NoOwner]
  /\ index = {}
  /\ listing = NotListing

\* SET NX: the lock is taken only if nobody has it.
Free(k) == locks[k] = NoOwner
SetNx(k, owner) == locks' = [locks EXCEPT ![k] = owner]

Sadd(k) == index' = index \cup {k}

\* Mutant of Owns: release deletes the lock, whoever has it.
OwnsAny(k, owner) == locks[k] # NoOwner

\* The scripts of renew and release do nothing for another owner.
Owns(k, owner) == locks[k] = owner

Release(k, owner) ==
  /\ locks' = [locks EXCEPT ![k] = IF Owns(k, owner) THEN NoOwner ELSE @]
  /\ index' = IF Owns(k, owner) THEN index \ {k} ELSE index

Expire(k) ==
  /\ locks' = [locks EXCEPT ![k] = NoOwner]
  /\ UNCHANGED index

\* list(): SMEMBERS, then GET for each key, then SREM of those without a lock.
List ==
  /\ listing = NotListing
  /\ listing' = [listing EXCEPT !.left = index]
  /\ UNCHANGED redis

ListGet ==
  /\ \E k \in listing.left :
       listing' = [left |-> listing.left \ {k}, stale |-> listing.stale \cup (IF Free(k) THEN {k} ELSE {})]
  /\ UNCHANGED redis

ListDone ==
  /\ listing.left = {} /\ listing.stale # {}
  /\ index' = index \ listing.stale
  /\ listing' = NotListing
  /\ UNCHANGED locks

Listing == List \/ ListGet \/ ListDone
===============================================================================
