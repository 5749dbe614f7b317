------------------------------ MODULE StateStore -------------------------------
(***************************************************************************)
(* MeshStateStore: the table of instance records kept in state.json, its    *)
(* copy in state.backup.json, the queue that serialises the mutations of a  *)
(* store, and the repair of a damaged file by whoever reads it.             *)
(*                                                                         *)
(* A call is one upsert, update, remove or read of a store; it is made at   *)
(* most once, and the record it writes is identified with it.  Stores that  *)
(* share a state directory share the files and nothing else.  An action is  *)
(* one file access: a file is replaced by a rename, so it is read and       *)
(* written whole.  Write errors are left out.                               *)
(***************************************************************************)
EXTENDS Naturals, Sequences

CONSTANTS
  Stores,   \* MeshStateStore objects with the same state directory
  Ids,      \* instance ids
  Calls,    \* calls of their methods
  StoreOf,  \* the store a call is made on
  IdOf,     \* the id it is about
  Kind,     \* "upsert", "update", "remove" or "read"
  Nobody,   \* the record of an id that has none
  Faults    \* may the program die ("crash"), may something damage the end of
            \* the state file ("trailing") or all of it ("garbage")

ASSUME CallsAssumption ==
  /\ StoreOf \in [Calls -> Stores]
  /\ IdOf \in [Calls -> Ids]
  /\ Kind \in [Calls -> {"upsert", "update", "remove", "read"}]
  /\ Nobody \notin Calls
  /\ Faults \subseteq {"crash", "trailing", "garbage"}

VARIABLES
  primary,  \* state.json
  backup,   \* state.backup.json
  queue,    \* the mutations each store has yet to finish, in order
  known,    \* lastKnownGood of each store
  pc,       \* the next file access of each call
  got,      \* the table a call works on
  latest,   \* auxiliary: the last mutation of each id that reached state.json
  overtaken, \* auxiliary: the calls whose table somebody has written over
  meddled   \* auxiliary: has one of them written its table

storeVars == <<primary, backup, queue, known, pc, got, latest, overtaken, meddled>>

Tables == [Ids -> Calls \cup {Nobody}]
NoRecords == [i \in Ids |-> Nobody]

Good(table) == [shape |-> "good", table |-> table]

StoreInit ==
  /\ primary = [shape |-> "absent", table |-> NoRecords]
  /\ backup = primary
  /\ queue = [s \in Stores |-> <<>>]
  /\ known = [s \in Stores |-> NoRecords]
  /\ pc = [c \in Calls |-> "idle"]
  /\ got = [c \in Calls |-> NoRecords]
  /\ latest = [i \in Ids |-> Nobody]
  /\ overtaken = {}
  /\ meddled = FALSE

Mutates(c) == Kind[c] # "read"

Goes(c, from, to) ==
  /\ pc[c] = from
  /\ pc' = [pc EXCEPT ![c] = to]

Takes(c, table) == got' = [got EXCEPT ![c] = table]

Knows(c, table) == known' = [known EXCEPT ![StoreOf[c]] = table]

-------------------------------------------------------------------------------
(* Calls *)

(* runMutation appends a mutation to the queue; a read starts at once.       *)
Call(c) ==
  /\ Goes(c, "idle", "read")
  /\ queue' = [queue EXCEPT ![StoreOf[c]] = IF Mutates(c) THEN Append(@, c) ELSE @]
  /\ UNCHANGED <<primary, backup, known, got, latest, overtaken, meddled>>

(* The mutations of a store run one after the other.                         *)
Turn(c) == Mutates(c) => Head(queue[StoreOf[c]]) = c

(* Two mutations that wait for each other.                                   *)
SameQueue(c, d) == Mutates(c) /\ Mutates(d) /\ StoreOf[c] = StoreOf[d]

(* A call writes the table it has in its hands; so may others, later on, that *)
(* did not wait for it.                                                      *)
Writing == {"rewrite", "rewriteBackup", "restore", "write", "writeBackup"}

Overwrites(c) ==
  /\ meddled' = (meddled \/ c \in overtaken)
  /\ overtaken' = overtaken \cup {d \in Calls \ {c} : pc[d] \in Writing /\ ~ SameQueue(c, d)}

(* What a call does when it has read the table.                              *)
AfterRead(c) == IF Mutates(c) THEN "write" ELSE "done"

-------------------------------------------------------------------------------
(* MeshStateStore.read *)

(* The state file is good.                                                   *)
ReadState(c) ==
  /\ primary.shape = "good"
  /\ Goes(c, "read", AfterRead(c))
  /\ Turn(c)
  /\ Takes(c, primary.table)
  /\ Knows(c, primary.table)
  /\ UNCHANGED <<primary, backup, queue, latest, overtaken, meddled>>

ReadFails(c) ==
  /\ primary.shape # "good"
  /\ Goes(c, "read", "recover")
  /\ Turn(c)
  /\ UNCHANGED <<primary, backup, queue, known, got, latest, overtaken, meddled>>

(* recoverCorruptedState reads the file again and extracts a valid prefix,   *)
(* which is all of it if somebody has repaired it in the meantime.           *)
Recover(c) ==
  \/ /\ primary.shape \in {"good", "trailing"}
     /\ Goes(c, "recover", "rewrite")
     /\ Takes(c, primary.table)
     /\ UNCHANGED <<primary, backup, queue, known, latest, overtaken, meddled>>
  \/ /\ primary.shape \notin {"good", "trailing"}
     /\ Goes(c, "recover", "fallBack")
     /\ UNCHANGED <<primary, backup, queue, known, got, latest, overtaken, meddled>>

Rewrite(c) ==
  /\ Goes(c, "rewrite", "rewriteBackup")
  /\ primary' = Good(got[c])
  /\ Knows(c, got[c])
  /\ Overwrites(c)
  /\ UNCHANGED <<backup, queue, got, latest>>

RewriteBackup(c) ==
  /\ Goes(c, "rewriteBackup", AfterRead(c))
  /\ backup' = Good(got[c])
  /\ Overwrites(c)
  /\ UNCHANGED <<primary, queue, known, got, latest>>

(* The backup is read; without one, what the store knew last.                *)
FallBack(c) ==
  \/ /\ backup.shape = "good"
     /\ Goes(c, "fallBack", "restore")
     /\ Takes(c, backup.table)
     /\ Knows(c, backup.table)
     /\ UNCHANGED <<primary, backup, queue, latest, overtaken, meddled>>
  \/ /\ backup.shape # "good"
     /\ Goes(c, "fallBack", AfterRead(c))
     /\ Takes(c, known[StoreOf[c]])
     /\ UNCHANGED <<primary, backup, queue, known, latest, overtaken, meddled>>

Restore(c) ==
  /\ Goes(c, "restore", AfterRead(c))
  /\ primary' = Good(got[c])
  /\ Overwrites(c)
  /\ UNCHANGED <<backup, queue, known, got, latest>>

-------------------------------------------------------------------------------
(* upsert, update and remove *)

(* The record of its id after call c.                                        *)
Record(c) == IF Kind[c] = "remove" THEN Nobody ELSE c

Applied(c) == [got[c] EXCEPT ![IdOf[c]] = Record(c)]

(* The mutation is over; the next one of its store begins.                   *)
Leaves(c) ==
  /\ queue' = [queue EXCEPT ![StoreOf[c]] = Tail(@)]
  /\ Takes(c, NoRecords)

NothingToUpdate(c) == Kind[c] = "update" /\ got[c][IdOf[c]] = Nobody

Persist(c) ==
  /\ ~ NothingToUpdate(c)
  /\ Goes(c, "write", "writeBackup")
  /\ Takes(c, Applied(c))
  /\ primary' = Good(Applied(c))
  /\ Knows(c, Applied(c))
  /\ Overwrites(c)
  /\ latest' = [latest EXCEPT ![IdOf[c]] = c]
  /\ UNCHANGED <<backup, queue>>

(* Mutant of PersistBackup: the backup is not written; the call returns      *)
(* with its record in one file only.                                         *)
PersistNoBackup(c) ==
  /\ Goes(c, "writeBackup", "done")
  /\ Leaves(c)
  /\ UNCHANGED <<primary, backup, known, latest, overtaken, meddled>>

PersistBackup(c) ==
  /\ Goes(c, "writeBackup", "done")
  /\ backup' = Good(got[c])
  /\ Overwrites(c)
  /\ Leaves(c)
  /\ UNCHANGED <<primary, known, latest>>

(* Mutant of Reject: the rejection is not caught and blocks the queue.       *)
RejectBlocks(c) ==
  /\ NothingToUpdate(c)
  /\ Goes(c, "write", "rejected")
  /\ UNCHANGED <<primary, backup, queue, known, got, latest, overtaken, meddled>>

(* update of an id that has no record.                                       *)
Reject(c) ==
  /\ NothingToUpdate(c)
  /\ Goes(c, "write", "rejected")
  /\ Leaves(c)
  /\ UNCHANGED <<primary, backup, known, latest, overtaken, meddled>>

-------------------------------------------------------------------------------
(* Faults *)

Ended == {"idle", "done", "rejected", "lost"}

(* The process of a store dies in the middle of its calls; another one opens *)
(* the store again.                                                          *)
Crash(s) ==
  /\ "crash" \in Faults
  /\ pc' = [c \in Calls |-> IF StoreOf[c] = s /\ pc[c] \notin Ended THEN "lost" ELSE pc[c]]
  /\ pc' # pc
  /\ queue' = [queue EXCEPT ![s] = <<>>]
  /\ known' = [known EXCEPT ![s] = NoRecords]
  /\ got' = [c \in Calls |-> IF pc'[c] = "lost" THEN NoRecords ELSE got[c]]
  /\ UNCHANGED <<primary, backup, latest, overtaken, meddled>>

Damage(shape) ==
  /\ shape \in Faults
  /\ primary.shape = "good"
  /\ primary' = [primary EXCEPT !.shape = shape]
  /\ UNCHANGED <<backup, queue, known, pc, got, latest, overtaken, meddled>>

-------------------------------------------------------------------------------
Step(c) ==
  \/ ReadState(c) \/ ReadFails(c)
  \/ Recover(c) \/ Rewrite(c) \/ RewriteBackup(c)
  \/ FallBack(c) \/ Restore(c)
  \/ Persist(c) \/ PersistBackup(c) \/ Reject(c)

StoreNext ==
  \/ \E c \in Calls : Call(c) \/ Step(c)
  \/ \E s \in Stores : Crash(s)
  \/ \E shape \in {"trailing", "garbage"} : Damage(shape)

StoreSpec == StoreInit /\ [][StoreNext]_storeVars

(* File accesses end; nobody has to make a call.                             *)
StoreFairSpec == StoreSpec /\ \A c \in Calls : WF_storeVars(Step(c))

-------------------------------------------------------------------------------
(* Properties *)


(* The type invariant; the queue of a store holds its unfinished mutations.  *)
StoreTypeOK ==
  /\ primary \in [shape : {"absent", "good", "trailing", "garbage"}, table : Tables]
  /\ backup \in [shape : {"absent", "good"}, table : Tables]
  /\ queue \in [Stores -> Seq(Calls)]
  /\ known \in [Stores -> Tables]
  /\ pc \in [Calls -> Ended \cup {"read", "recover", "rewrite", "rewriteBackup", "fallBack",
                                  "restore", "write", "writeBackup"}]
  /\ got \in [Calls -> Tables]
  /\ latest \in [Ids -> Calls \cup {Nobody}]
  /\ overtaken \subseteq Calls /\ meddled \in BOOLEAN
  /\ \A s \in Stores : \A k \in 1 .. Len(queue[s]) :
       LET c == queue[s][k] IN StoreOf[c] = s /\ Mutates(c) /\ pc[c] \notin Ended

(* What the next read of store s finds, if nothing interferes.               *)
Readable(s) ==
  IF primary.shape \in {"good", "trailing"} THEN primary.table
  ELSE IF backup.shape = "good" THEN backup.table
  ELSE known[s]

(* "Serializes concurrent upserts without losing records": a mutation that   *)
(* has returned, and was the last one of its id, is what any later read      *)
(* finds, whatever else was in progress or died.                             *)
NothingIsLost ==
  \A c \in Calls, s \in Stores :
    pc[c] = "done" /\ Mutates(c) /\ latest[IdOf[c]] = c => Readable(s)[IdOf[c]] = Record(c)

(* The same, through damages of the state file and crashes, for any number   *)
(* of stores on the directory, until a call writes a table that was written  *)
(* over since it was read by a call it does not wait for: a read that repairs *)
(* a file, or a mutation of another store.  The mutations of one store wait   *)
(* for each other, so they do not do that to each other: what is in the queue, *)
(* and only that, is on its way (StoreTypeOK).                               *)
QueueLosesNothing == StoreTypeOK /\ (~ meddled => NothingIsLost)

(* Every call returns, is rejected or dies with its process: a rejected      *)
(* mutation does not hold up the queue.                                      *)
CallsEnd == \A c \in Calls : pc[c] # "idle" ~> pc[c] \in Ended
===============================================================================
