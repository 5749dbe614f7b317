------------------------- MODULE FileRegistry_proofs -------------------------
(***************************************************************************)
(* The file registry.  What MeshStateStore promises, for every number of    *)
(* stores, calls and ids: the mutations of a store take turns, and what one *)
(* of them has returned is not lost before somebody who does not wait for   *)
(* the others writes an old table.  And what stopAll of MeshProcessSupervisor leaves behind in it,    *)
(* for every number of children and of heartbeats in flight.                *)
(***************************************************************************)
EXTENDS StateStore, Supervisor, TLAPS

-------------------------------------------------------------------------------
(* MeshStateStore *)

States == Ended \cup {"read", "recover", "rewrite", "rewriteBackup", "fallBack",
                      "restore", "write", "writeBackup"}

FileTypes ==
  /\ primary \in [shape : {"absent", "good", "trailing", "garbage"}, table : Tables]
  /\ backup \in [shape : {"absent", "good"}, table : Tables]

StoreTypes ==
  /\ queue \in [Stores -> Seq(Calls)]
  /\ known \in [Stores -> Tables]

CallTypes ==
  /\ pc \in [Calls -> States]
  /\ got \in [Calls -> Tables]
  /\ latest \in [Ids -> Calls \cup {Nobody}]
  /\ overtaken \subseteq Calls /\ meddled \in BOOLEAN

QueueIsAlive ==
  \A s \in Stores : \A k \in 1 .. Len(queue[s]) :
    StoreOf[queue[s][k]] = s /\ Mutates(queue[s][k]) /\ pc[queue[s][k]] \notin Ended

(* A call is in its queue once. *)
OnceInQueue ==
  \A s \in Stores : \A i, j \in 1 .. Len(queue[s]) : queue[s][i] = queue[s][j] => i = j

(* A mutation that has been called and is not over is in its queue. *)
AliveIsQueued ==
  \A c \in Calls : Mutates(c) /\ pc[c] \notin Ended =>
    \E k \in 1 .. Len(queue[StoreOf[c]]) : queue[StoreOf[c]][k] = c

(* A mutation works on the files only while it is the first of its queue. *)
TakesTurns ==
  \A c \in Calls : Mutates(c) /\ pc[c] \notin Ended \cup {"read"} =>
    Head(queue[StoreOf[c]]) = c

OnlyMutationsWrite == \A c \in Calls : pc[c] \in {"write", "writeBackup"} => Mutates(c)

QueueInv ==
  /\ FileTypes /\ StoreTypes /\ CallTypes
  /\ QueueIsAlive /\ OnceInQueue /\ AliveIsQueued /\ TakesTurns /\ OnlyMutationsWrite

LEMMA TypeParts == QueueInv => StoreTypeOK
BY DEF QueueInv, FileTypes, StoreTypes, CallTypes, QueueIsAlive, StoreTypeOK, States

-------------------------------------------------------------------------------
(* Steps *)

LEMMA CallFacts ==
  ASSUME NEW c \in Calls
  PROVE  /\ StoreOf[c] \in Stores /\ IdOf[c] \in Ids
         /\ Record(c) \in Calls \cup {Nobody}
BY CallsAssumption DEF Record

(* A working mutation is in front: whoever is in a queue is in its front.    *)
LEMMA WorksInFront ==
  ASSUME QueueInv, NEW c \in Calls, Mutates(c), pc[c] \notin Ended,
         Turn(c) \/ pc[c] # "read"
  PROVE  /\ queue[StoreOf[c]] \in Seq(Calls)
         /\ queue[StoreOf[c]] # <<>>
         /\ queue[StoreOf[c]][1] = c
<1>1. queue[StoreOf[c]] \in Seq(Calls)
  BY CallFacts DEF QueueInv, StoreTypes
<1>2. Head(queue[StoreOf[c]]) = c
  BY DEF QueueInv, TakesTurns, Turn
<1>3. queue[StoreOf[c]] # <<>>
  BY <1>1 DEF QueueInv, AliveIsQueued
<1>. QED
  BY <1>1, <1>2, <1>3

(* A call goes on: if it is a mutation, it is and stays the first one. *)
LEMMA GoesOn ==
  ASSUME QueueInv, NEW c \in Calls, NEW from \in States, NEW to \in States,
         Goes(c, from, to), from \notin Ended,
         Mutates(c) => to \notin Ended,
         Mutates(c) \/ to \notin {"write", "writeBackup"},
         Turn(c) \/ from # "read",
         UNCHANGED queue, FileTypes', StoreTypes', CallTypes'
  PROVE  QueueInv'
<1>. USE DEF QueueInv, CallTypes, Goes
<1>0. /\ pc'[c] = to
      /\ \A d \in Calls \ {c} : pc'[d] = pc[d]
  OBVIOUS
<1>1. QueueIsAlive'
  <2>. SUFFICES ASSUME NEW s \in Stores, NEW k \in 1 .. Len(queue[s])
                PROVE  /\ StoreOf[queue[s][k]] = s
                       /\ Mutates(queue[s][k])
                       /\ pc'[queue[s][k]] \notin Ended
    BY DEF QueueIsAlive, Mutates
  <2>1. queue[s][k] \in Calls
    BY DEF StoreTypes
  <2>2. /\ StoreOf[queue[s][k]] = s
        /\ Mutates(queue[s][k])
        /\ pc[queue[s][k]] \notin Ended
    BY DEF QueueIsAlive
  <2>. QED
    BY <1>0, <2>1, <2>2
<1>2. OnceInQueue'
  BY DEF OnceInQueue
<1>3. AliveIsQueued'
  BY DEF AliveIsQueued, Mutates
<1>4. TakesTurns'
  BY DEF TakesTurns, Mutates, Turn
<1>5. OnlyMutationsWrite'
  BY DEF OnlyMutationsWrite, Mutates
<1>. QED
  BY <1>1, <1>2, <1>3, <1>4, <1>5

LEMMA TailFacts ==
  ASSUME NEW S, NEW q \in Seq(S), q # <<>>
  PROVE  /\ Tail(q) \in Seq(S)
         /\ Len(Tail(q)) = Len(q) - 1
         /\ \A k \in 1 .. Len(Tail(q)) : Tail(q)[k] = q[k + 1] /\ k + 1 \in 1 .. Len(q)
OBVIOUS

(* A mutation that is over leaves the front of its queue. *)
LEMMA LeavesQueue ==
  ASSUME QueueInv, NEW c \in Calls, Mutates(c), NEW from \in States, NEW to \in Ended,
         Goes(c, from, to), from \notin Ended \cup {"read"}, Leaves(c),
         FileTypes', UNCHANGED <<known, latest>>, overtaken' \subseteq Calls, meddled' \in BOOLEAN
  PROVE  QueueInv'
<1>. DEFINE s == StoreOf[c]
<1>. USE DEF QueueInv, Goes
<1>0. s \in Stores
  BY CallFacts
<1>1. queue[s] \in Seq(Calls) /\ queue[s] # <<>> /\ queue[s][1] = c
  BY WorksInFront
<1>2. /\ queue' = [queue EXCEPT ![s] = Tail(queue[s])]
      /\ queue'[s] = Tail(queue[s])
      /\ \A t \in Stores \ {s} : queue'[t] = queue[t]
  BY <1>0 DEF Leaves, StoreTypes
<1>3. StoreTypes' /\ CallTypes'
  <2>1. queue' \in [Stores -> Seq(Calls)]
    BY <1>0, <1>1, <1>2, TailFacts DEF StoreTypes
  <2>2. got' \in [Calls -> Tables]
    BY DEF Leaves, Takes, CallTypes, NoRecords, Tables
  <2>3. pc' \in [Calls -> States]
    BY DEF CallTypes, States
  <2>. QED
    BY <2>1, <2>2, <2>3 DEF StoreTypes, CallTypes
<1>4. /\ Len(queue'[s]) = Len(queue[s]) - 1
      /\ \A k \in 1 .. Len(queue'[s]) : queue'[s][k] = queue[s][k + 1] /\ k + 1 \in 1 .. Len(queue[s])
  <2>1. /\ Len(Tail(queue[s])) = Len(queue[s]) - 1
        /\ \A k \in 1 .. Len(Tail(queue[s])) :
             Tail(queue[s])[k] = queue[s][k + 1] /\ k + 1 \in 1 .. Len(queue[s])
    BY <1>1, TailFacts
  <2>. QED
    BY <1>2, <2>1
<1>5. pc'[c] = to /\ \A d \in Calls \ {c} : pc'[d] = pc[d]
  BY DEF CallTypes
<1>6. \A k \in 1 .. Len(queue'[s]) : queue'[s][k] # c
  <2>. SUFFICES ASSUME NEW k \in 1 .. Len(queue'[s]), queue[s][k + 1] = queue[s][1]
                PROVE  FALSE
    BY <1>1, <1>4
  <2>1. k + 1 \in 1 .. Len(queue[s]) /\ 1 \in 1 .. Len(queue[s])
    BY <1>1, <1>4
  <2>2. k + 1 = 1
    BY <1>0, <2>1 DEF OnceInQueue
  <2>. QED
    BY <1>1, <2>1, <2>2
<1>7. QueueIsAlive'
  <2>. SUFFICES ASSUME NEW t \in Stores, NEW k \in 1 .. Len(queue'[t])
                PROVE  /\ StoreOf[queue'[t][k]] = t /\ Mutates(queue'[t][k])
                       /\ pc'[queue'[t][k]] \notin Ended
    BY DEF QueueIsAlive, Mutates
  <2>1. CASE t = s
    <3>1. /\ queue'[s][k] = queue[s][k + 1] /\ k + 1 \in 1 .. Len(queue[s])
          /\ queue'[s][k] # c
      BY <1>4, <1>6, <2>1
    <3>2. queue[s][k + 1] \in Calls
      BY <1>1, <3>1
    <3>. QED
      BY <1>0, <1>5, <2>1, <3>1, <3>2 DEF QueueIsAlive
  <2>2. CASE t # s
    <3>1. queue'[t][k] \in Calls /\ queue'[t][k] # c
      BY <1>2, <2>2 DEF QueueIsAlive, StoreTypes
    <3>. QED
      BY <1>2, <1>5, <2>2, <3>1 DEF QueueIsAlive
  <2>. QED
    BY <2>1, <2>2
<1>8. OnceInQueue'
  <2>. SUFFICES ASSUME NEW t \in Stores, NEW i \in 1 .. Len(queue'[t]), NEW j \in 1 .. Len(queue'[t]),
                       queue'[t][i] = queue'[t][j]
                PROVE  i = j
    BY DEF OnceInQueue
  <2>1. CASE t = s
    <3>1. /\ i + 1 \in 1 .. Len(queue[s]) /\ j + 1 \in 1 .. Len(queue[s])
          /\ queue[s][i + 1] = queue[s][j + 1]
      BY <1>4, <2>1
    <3>2. i + 1 = j + 1
      BY <1>0, <3>1 DEF OnceInQueue
    <3>. QED
      BY <3>2
  <2>2. CASE t # s
    BY <1>2, <2>2 DEF OnceInQueue
  <2>. QED
    BY <2>1, <2>2
<1>9. AliveIsQueued'
  <2>. SUFFICES ASSUME NEW d \in Calls, Mutates(d), pc'[d] \notin Ended
                PROVE  \E k \in 1 .. Len(queue'[StoreOf[d]]) : queue'[StoreOf[d]][k] = d
    BY DEF AliveIsQueued, Mutates
  <2>1. d # c /\ pc'[d] = pc[d]
    BY <1>5
  <2>2. PICK j \in 1 .. Len(queue[StoreOf[d]]) : queue[StoreOf[d]][j] = d
    BY <2>1 DEF AliveIsQueued
  <2>3. CASE StoreOf[d] = s
    <3>1. j - 1 \in 1 .. Len(queue'[s])
      BY <1>1, <1>4, <2>1, <2>2, <2>3
    <3>2. queue'[s][j - 1] = queue[s][(j - 1) + 1]
      BY <1>4, <3>1
    <3>3. queue'[s][j - 1] = d
      BY <2>2, <2>3, <3>2
    <3>. QED
      BY <2>3, <3>1, <3>3
  <2>. QED
    BY <1>2, <2>2, <2>3, CallFacts
<1>10. TakesTurns'
  <2>. SUFFICES ASSUME NEW d \in Calls, Mutates(d), pc'[d] \notin Ended \cup {"read"}
                PROVE  Head(queue'[StoreOf[d]]) = d
    BY DEF TakesTurns, Mutates
  <2>1. d # c /\ pc'[d] = pc[d]
    BY <1>5
  <2>2. queue[StoreOf[d]][1] = d
    BY <2>1, WorksInFront
  <2>3. StoreOf[d] # s
    BY <1>1, <2>1, <2>2
  <2>. QED
    BY <1>2, <2>1, <2>3, CallFacts DEF TakesTurns
<1>11. OnlyMutationsWrite'
  BY <1>5 DEF OnlyMutationsWrite, Mutates, Ended
<1>. QED
  BY <1>3, <1>7, <1>8, <1>9, <1>10, <1>11

LEMMA AppendFacts ==
  ASSUME NEW S, NEW q \in Seq(S), NEW x \in S
  PROVE  /\ Append(q, x) \in Seq(S)
         /\ Len(Append(q, x)) = Len(q) + 1
         /\ \A k \in 1 .. Len(q) : Append(q, x)[k] = q[k] /\ k \in 1 .. Len(q) + 1
         /\ Append(q, x)[Len(q) + 1] = x
         /\ q # <<>> => Head(Append(q, x)) = Head(q)
OBVIOUS

(* A mutation that is called joins the end of the queue of its store. *)
LEMMA JoinsQueue ==
  ASSUME QueueInv, NEW c \in Calls, Call(c)
  PROVE  QueueInv'
<1>. DEFINE s == StoreOf[c]
<1>. USE DEF QueueInv, Call, Goes
<1>0. s \in Stores /\ pc[c] = "idle" /\ "idle" \in Ended
  BY CallFacts DEF Ended
<1>1. pc'[c] = "read" /\ pc'[c] \notin Ended /\ \A d \in Calls \ {c} : pc'[d] = pc[d]
  BY DEF CallTypes, Ended
<1>2. FileTypes' /\ CallTypes'
  BY DEF FileTypes, CallTypes, States
<1>5. OnlyMutationsWrite'
  BY <1>1 DEF OnlyMutationsWrite, Mutates
<1>3. CASE ~ Mutates(c)
  <2>1. UNCHANGED queue
    BY <1>0, <1>3 DEF StoreTypes
  <2>2. StoreTypes' /\ OnceInQueue'
    BY <2>1 DEF StoreTypes, OnceInQueue
  <2>3. QueueIsAlive'
    BY <1>0, <1>1, <1>3, <2>1 DEF QueueIsAlive, StoreTypes, Mutates
  <2>4. AliveIsQueued' /\ TakesTurns'
    BY <1>1, <1>3, <2>1 DEF AliveIsQueued, TakesTurns, Mutates
  <2>. QED
    BY <1>2, <1>5, <2>2, <2>3, <2>4
<1>4. CASE Mutates(c)
  <2>1. queue[s] \in Seq(Calls)
    BY <1>0 DEF StoreTypes
  <2>2. /\ queue' = [queue EXCEPT ![s] = Append(queue[s], c)]
        /\ queue'[s] = Append(queue[s], c)
        /\ \A t \in Stores \ {s} : queue'[t] = queue[t]
    BY <1>0, <1>4 DEF StoreTypes
  <2>3. /\ queue'[s] \in Seq(Calls)
        /\ Len(queue'[s]) = Len(queue[s]) + 1
        /\ \A k \in 1 .. Len(queue[s]) : queue'[s][k] = queue[s][k] /\ k \in 1 .. Len(queue'[s])
        /\ queue'[s][Len(queue[s]) + 1] = c
        /\ queue[s] # <<>> => Head(queue'[s]) = Head(queue[s])
    <3>1. /\ Append(queue[s], c) \in Seq(Calls)
          /\ Len(Append(queue[s], c)) = Len(queue[s]) + 1
          /\ \A k \in 1 .. Len(queue[s]) :
               Append(queue[s], c)[k] = queue[s][k] /\ k \in 1 .. Len(queue[s]) + 1
          /\ Append(queue[s], c)[Len(queue[s]) + 1] = c
          /\ queue[s] # <<>> => Head(Append(queue[s], c)) = Head(queue[s])
      BY <2>1, AppendFacts
    <3>. QED
      BY <2>2, <3>1
  <2>4. \A k \in 1 .. Len(queue[s]) : queue[s][k] \in Calls \ {c}
    BY <1>0, <2>1 DEF QueueIsAlive
  <2>5. StoreTypes'
    BY <2>2, <2>3 DEF StoreTypes
  <2>6. \A k \in 1 .. Len(queue'[s]) : k \in 1 .. Len(queue[s]) \/ k = Len(queue[s]) + 1
    BY <2>1, <2>3
  <2>7. QueueIsAlive'
    <3>. SUFFICES ASSUME NEW t \in Stores, NEW k \in 1 .. Len(queue'[t])
                  PROVE  /\ StoreOf[queue'[t][k]] = t /\ Mutates(queue'[t][k])
                         /\ pc'[queue'[t][k]] \notin Ended
      BY DEF QueueIsAlive, Mutates
    <3>1. CASE t = s /\ k \in 1 .. Len(queue[s])
      BY <1>0, <1>1, <2>3, <2>4, <3>1 DEF QueueIsAlive
    <3>2. CASE t = s /\ k = Len(queue[s]) + 1
      BY <1>1, <1>4, <2>3, <3>2
    <3>3. CASE t # s
      <4>1. queue'[t][k] \in Calls /\ queue'[t][k] # c
        BY <1>0, <2>2, <3>3 DEF QueueIsAlive, StoreTypes
      <4>. QED
        BY <1>1, <2>2, <3>3, <4>1 DEF QueueIsAlive
    <3>. QED
      BY <2>6, <3>1, <3>2, <3>3
  <2>8. OnceInQueue'
    <3>. SUFFICES ASSUME NEW t \in Stores, NEW i \in 1 .. Len(queue'[t]),
                         NEW j \in 1 .. Len(queue'[t]), queue'[t][i] = queue'[t][j]
                  PROVE  i = j
      BY DEF OnceInQueue
    <3>1. CASE t # s
      BY <2>2, <3>1 DEF OnceInQueue
    <3>2. CASE t = s
      BY <1>0, <2>3, <2>4, <2>6, <3>2 DEF OnceInQueue
    <3>. QED
      BY <3>1, <3>2
  <2>9. AliveIsQueued'
    <3>. SUFFICES ASSUME NEW d \in Calls, Mutates(d), pc'[d] \notin Ended
                  PROVE  \E k \in 1 .. Len(queue'[StoreOf[d]]) : queue'[StoreOf[d]][k] = d
      BY DEF AliveIsQueued, Mutates
    <3>1. CASE d = c
      <4>1. Len(queue[s]) + 1 \in 1 .. Len(queue'[s])
        BY <2>1, <2>3
      <4>. QED
        BY <2>3, <3>1, <4>1
    <3>2. CASE d # c
      <4>1. PICK k \in 1 .. Len(queue[StoreOf[d]]) : queue[StoreOf[d]][k] = d
        BY <1>1, <3>2 DEF AliveIsQueued
      <4>2. CASE StoreOf[d] = s
        BY <2>3, <4>1, <4>2
      <4>3. CASE StoreOf[d] # s
        BY <2>2, <4>1, <4>3, CallFacts
      <4>. QED
        BY <4>2, <4>3
    <3>. QED
      BY <3>1, <3>2
  <2>10. TakesTurns'
    <3>. SUFFICES ASSUME NEW d \in Calls, Mutates(d), pc'[d] \notin Ended \cup {"read"}
                  PROVE  Head(queue'[StoreOf[d]]) = d
      BY DEF TakesTurns, Mutates
    <3>1. d # c /\ pc'[d] = pc[d]
      BY <1>1
    <3>2. queue[StoreOf[d]] # <<>>
      BY <3>1, WorksInFront
    <3>. QED
      BY <2>2, <2>3, <3>1, <3>2, CallFacts DEF TakesTurns
  <2>. QED
    BY <1>2, <1>5, <2>5, <2>7, <2>8, <2>9, <2>10
<1>. QED
  BY <1>3, <1>4

(* With its process a store loses its queue and every call in it. *)
LEMMA CrashEmpties ==
  ASSUME QueueInv, NEW s \in Stores, Crash(s)
  PROVE  QueueInv'
<1>. USE DEF QueueInv, Crash
<1>1. \A c \in Calls : pc'[c] = IF StoreOf[c] = s /\ pc[c] \notin Ended THEN "lost" ELSE pc[c]
  OBVIOUS
<1>2. FileTypes' /\ StoreTypes' /\ CallTypes'
  <2>1. FileTypes' /\ StoreTypes'
    BY DEF FileTypes, StoreTypes, Tables, NoRecords
  <2>2. pc' \in [Calls -> States]
    BY DEF CallTypes, States, Ended
  <2>3. got' \in [Calls -> Tables]
    BY DEF CallTypes, Tables, NoRecords
  <2>. QED
    BY <2>1, <2>2, <2>3 DEF CallTypes
<1>3. queue'[s] = <<>> /\ \A t \in Stores \ {s} : queue'[t] = queue[t]
  BY DEF StoreTypes
<1>4. QueueIsAlive'
  <2>. SUFFICES ASSUME NEW t \in Stores, NEW k \in 1 .. Len(queue'[t])
                PROVE  /\ StoreOf[queue'[t][k]] = t /\ Mutates(queue'[t][k])
                       /\ pc'[queue'[t][k]] \notin Ended
    BY DEF QueueIsAlive, Mutates
  <2>1. t # s
    BY <1>3
  <2>2. StoreOf[queue'[t][k]] = t /\ Mutates(queue'[t][k]) /\ pc[queue'[t][k]] \notin Ended
    BY <1>3, <2>1 DEF QueueIsAlive
  <2>3. queue'[t][k] \in Calls
    BY <1>2 DEF StoreTypes
  <2>. QED
    BY <1>1, <2>1, <2>2, <2>3
<1>5. OnceInQueue'
  BY <1>3 DEF OnceInQueue
<1>6. \A c \in Calls : pc'[c] \notin Ended => StoreOf[c] # s /\ pc'[c] = pc[c]
  BY <1>1 DEF Ended
<1>7. AliveIsQueued' /\ TakesTurns'
  BY <1>3, <1>6, CallFacts DEF AliveIsQueued, TakesTurns, Mutates
<1>8. OnlyMutationsWrite'
  BY <1>1 DEF OnlyMutationsWrite, Mutates
<1>. QED
  BY <1>2, <1>4, <1>5, <1>7, <1>8

(* The file accesses between being called and being over. *)
LEMMA WorkStep ==
  ASSUME QueueInv, NEW c \in Calls, Step(c)
  PROVE  QueueInv'
<1>. DEFINE Types == FileTypes /\ StoreTypes /\ CallTypes
<1>1. Types
  BY DEF QueueInv
<1>2. AfterRead(c) \in States /\ (Mutates(c) => AfterRead(c) \notin Ended)
  BY DEF AfterRead, States, Ended
<1>13. Mutates(c) \/ AfterRead(c) \notin {"write", "writeBackup"}
  BY DEF AfterRead
<1>14. pc[c] \in {"write", "writeBackup"} => Mutates(c)
  BY DEF QueueInv, OnlyMutationsWrite
<1>3. got[c] \in Tables /\ known[StoreOf[c]] \in Tables
  BY <1>1, CallFacts DEF CallTypes, StoreTypes
<1>4. Applied(c) \in Tables
  BY <1>3, CallFacts DEF Applied, Tables
<1>. DEFINE On == /\ Mutates(c) => pc'[c] \notin Ended
                  /\ Mutates(c) \/ pc'[c] \notin {"write", "writeBackup"}
                  /\ Turn(c) \/ pc[c] # "read"
                  /\ pc[c] \notin Ended
                  /\ pc'[c] \in States
                  /\ Goes(c, pc[c], pc'[c])
                  /\ UNCHANGED queue /\ Types'
<1>5. On => QueueInv'
  <2>1. pc[c] \in States
    BY <1>1 DEF CallTypes
  <2>. QED
    BY <2>1, GoesOn
<1>17. ASSUME NEW from \in {"write", "writeBackup"}, NEW to \in {"done", "rejected"},
              Goes(c, from, to), Leaves(c), Mutates(c),
              FileTypes', UNCHANGED <<known, latest>>, overtaken' \subseteq Calls, meddled' \in BOOLEAN
       PROVE  QueueInv'
  <2>1. from \in States /\ from \notin Ended \cup {"read"} /\ to \in Ended
    BY DEF States, Ended
  <2>. QED
    BY <1>17, <2>1, LeavesQueue
<1>16. CASE Reject(c)
  <2>1. FileTypes'
    BY <1>1, <1>16 DEF Reject, FileTypes
  <2>2. /\ Goes(c, "write", "rejected") /\ Leaves(c)
        /\ UNCHANGED <<known, latest>> /\ overtaken' \subseteq Calls /\ meddled' \in BOOLEAN
    BY <1>1, <1>16 DEF Reject, CallTypes
  <2>3. Mutates(c)
    BY <1>14, <1>16 DEF Reject, Goes
  <2>. QED
    BY <1>17, <2>1, <2>2, <2>3
<1>. USE DEF Goes, Takes, Knows, Overwrites, FileTypes, StoreTypes, CallTypes, Good, States, Ended
<1>6. CASE ReadState(c) \/ ReadFails(c)
  BY <1>1, <1>2, <1>5, <1>6, <1>13 DEF ReadState, ReadFails
<1>7. CASE Recover(c)
  BY <1>1, <1>5, <1>7 DEF Recover
<1>8. CASE Rewrite(c)
  BY <1>1, <1>3, <1>5, <1>8 DEF Rewrite
<1>9. CASE RewriteBackup(c)
  BY <1>1, <1>2, <1>3, <1>5, <1>9, <1>13 DEF RewriteBackup
<1>10. CASE FallBack(c)
  BY <1>1, <1>2, <1>3, <1>5, <1>10, <1>13 DEF FallBack
<1>11. CASE Restore(c)
  BY <1>1, <1>2, <1>3, <1>5, <1>11, <1>13 DEF Restore
<1>12. CASE Persist(c)
  BY <1>1, <1>4, <1>5, <1>12, <1>14 DEF Persist
<1>15. CASE PersistBackup(c)
  <2>1. FileTypes'
    BY <1>1, <1>3, <1>15 DEF PersistBackup
  <2>. QED
    BY <1>1, <1>14, <1>15, <1>17, <2>1 DEF PersistBackup
<1>. QED
  BY <1>6, <1>7, <1>8, <1>9, <1>10, <1>11, <1>12, <1>15, <1>16 DEF Step

LEMMA QueueStep == QueueInv /\ [StoreNext]_storeVars => QueueInv'
<1>. SUFFICES ASSUME QueueInv, [StoreNext]_storeVars PROVE QueueInv'
  OBVIOUS
<1>1. CASE UNCHANGED storeVars
  <2>1. FileTypes' /\ StoreTypes' /\ CallTypes'
    BY <1>1 DEF storeVars, QueueInv, FileTypes, StoreTypes, CallTypes
  <2>2. QueueIsAlive' /\ OnceInQueue'
    BY <1>1 DEF storeVars, QueueInv, QueueIsAlive, OnceInQueue, Mutates
  <2>3. AliveIsQueued' /\ TakesTurns' /\ OnlyMutationsWrite'
    BY <1>1 DEF storeVars, QueueInv, AliveIsQueued, TakesTurns, OnlyMutationsWrite, Mutates
  <2>. QED
    BY <2>1, <2>2, <2>3 DEF QueueInv
<1>2. ASSUME NEW shape \in {"trailing", "garbage"}, Damage(shape) PROVE QueueInv'
  <2>1. FileTypes'
    BY <1>2 DEF Damage, QueueInv, FileTypes
  <2>. QED
    BY <1>2, <2>1 DEF Damage, QueueInv, StoreTypes, CallTypes, QueueIsAlive, OnceInQueue,
                     AliveIsQueued, TakesTurns, OnlyMutationsWrite, Mutates
<1>. QED
  BY <1>1, <1>2, JoinsQueue, WorkStep, CrashEmpties DEF StoreNext

LEMMA QueueInvInit == StoreInit => QueueInv
<1>. SUFFICES ASSUME StoreInit PROVE QueueInv
  OBVIOUS
<1>1. NoRecords \in Tables
  BY DEF NoRecords, Tables
<1>2. FileTypes
  BY <1>1 DEF StoreInit, FileTypes
<1>3. StoreTypes
  BY <1>1 DEF StoreInit, StoreTypes
<1>4. pc \in [Calls -> States]
  BY DEF StoreInit, States, Ended
<1>5. got \in [Calls -> Tables] /\ latest \in [Ids -> Calls \cup {Nobody}]
  BY <1>1 DEF StoreInit
<1>6. CallTypes
  BY <1>4, <1>5 DEF StoreInit, CallTypes
<1>7. QueueIsAlive /\ OnceInQueue /\ AliveIsQueued /\ TakesTurns /\ OnlyMutationsWrite
  BY DEF StoreInit, QueueIsAlive, OnceInQueue, AliveIsQueued, TakesTurns, OnlyMutationsWrite, Ended
<1>. QED
  BY <1>2, <1>3, <1>6, <1>7 DEF QueueInv

(* The mutations of a store take turns: the queue of runMutation, across     *)
(* repairs, rejections and crashes.  With the types it is inductive only     *)
(* together with what the queue is: every mutation under way, once.          *)
THEOREM MutationsTakeTurns == StoreSpec => [](StoreTypeOK /\ TakesTurns)
<1>1. QueueInv => StoreTypeOK /\ TakesTurns
  BY TypeParts DEF QueueInv
<1>. QED
  BY <1>1, QueueInvInit, QueueStep, PTL DEF StoreSpec

-------------------------------------------------------------------------------
(* Nothing is lost *)

(* The mutations whose effect must still be there. *)
Kept == {c \in Calls : pc[c] = "done" /\ Mutates(c) /\ latest[IdOf[c]] = c}

Sound(table) == \A c \in Kept : table[IdOf[c]] = Record(c)

(* A file that can be read, and the table a mutation is about to write. *)
FilesSound ==
  /\ primary.shape \in {"good", "trailing"} => Sound(primary.table)
  /\ backup.shape = "good" => Sound(backup.table)

(* A table in somebody's hands that nobody has written over.                 *)
HandsSound == \A c \in Calls : pc[c] \in Writing /\ c \notin overtaken => Sound(got[c])

(* A mutation that is about to return has its effect in both files' tables. *)
ReturnsSoon ==
  \A c \in Calls : pc[c] = "writeBackup" /\ c \notin overtaken =>
    /\ got[c][IdOf[c]] = Record(c)
    /\ primary.shape \in {"good", "trailing"} => primary.table[IdOf[c]] = Record(c)

(* Nobody has returned before the backup was written. *)
BackupFirst == backup.shape # "good" => Kept = {}

SoundInv == BackupFirst /\ (~ meddled => FilesSound /\ HandsSound /\ ReturnsSoon)

LEMMA SoundMeansKept == SoundInv => (~ meddled => NothingIsLost)
BY DEF SoundInv, BackupFirst, FilesSound, Sound, Kept, NothingIsLost, Readable

(* Of the mutations of one store, one at most works. *)
LEMMA WorksAlone ==
  ASSUME QueueInv, NEW c \in Calls, Step(c), NEW d \in Calls \ {c}, SameQueue(c, d)
  PROVE  pc[d] \notin Writing
<1>1. Head(queue[StoreOf[c]]) = c
  <2>1. pc[c] = "read" => Turn(c)
    BY DEF Step, Goes, ReadState, ReadFails, Recover, Rewrite, RewriteBackup, FallBack, Restore,
           Persist, PersistBackup, Reject
  <2>2. pc[c] \notin Ended
    BY DEF Step, Goes, ReadState, ReadFails, Recover, Rewrite, RewriteBackup, FallBack, Restore,
           Persist, PersistBackup, Reject, Ended
  <2>. QED
    BY <2>1, <2>2 DEF QueueInv, TakesTurns, Turn, SameQueue
<1>. QED
  BY <1>1 DEF QueueInv, TakesTurns, SameQueue, Writing, Ended

(* Whoever writes makes old what the others hold that do not wait for it, and *)
(* those that wait hold nothing; so it is enough to look at the call that    *)
(* takes the step.                                                           *)
Own(c) ==
  /\ pc[c] \in Writing /\ c \notin overtaken => Sound(got[c])
  /\ pc[c] = "writeBackup" /\ c \notin overtaken =>
       /\ got[c][IdOf[c]] = Record(c)
       /\ primary.shape \in {"good", "trailing"} => primary.table[IdOf[c]] = Record(c)

LEMMA OneWorks ==
  ASSUME QueueInv, SoundInv, NEW c \in Calls, Step(c), BackupFirst', meddled => meddled',
         Overwrites(c) \/ (Kept' = Kept /\ UNCHANGED <<primary, overtaken>>),
         ~ meddled' => FilesSound' /\ Own(c)'
  PROVE  SoundInv'
<1>1. \A d \in Calls \ {c} : pc'[d] = pc[d] /\ got'[d] = got[d]
  BY DEF Step, Goes, Takes, Leaves, Knows, ReadState, ReadFails, Recover, Rewrite, RewriteBackup,
         FallBack, Restore, Persist, PersistBackup, Reject, QueueInv, CallTypes
<1>2. CASE Overwrites(c)
  <2>1. \A d \in Calls \ {c} : pc'[d] \in Writing => d \in overtaken'
    BY <1>1, <1>2, WorksAlone DEF Overwrites
  <2>2. "writeBackup" \in Writing
    BY DEF Writing
  <2>. QED
    BY <2>1, <2>2 DEF SoundInv, HandsSound, ReturnsSoon, Own, Record
<1>3. CASE Kept' = Kept /\ UNCHANGED <<primary, overtaken>>
  <2>1. ASSUME ~ meddled'
        PROVE  HandsSound' /\ ReturnsSoon'
    <3>1. HandsSound /\ ReturnsSoon /\ Own(c)'
      BY <2>1 DEF SoundInv
    <3>2. HandsSound'
      BY <1>1, <1>3, <3>1 DEF HandsSound, Own, Sound, Record
    <3>3. ReturnsSoon'
      BY <1>1, <1>3, <3>1 DEF ReturnsSoon, Own, Record
    <3>. QED
      BY <3>2, <3>3
  <2>. QED
    BY <2>1 DEF SoundInv
<1>. QED
  BY <1>2, <1>3

LEMMA CallsKeep ==
  ASSUME QueueInv, SoundInv, NEW c \in Calls, Step(c)
  PROVE  SoundInv'
<1>. USE DEF QueueInv, CallTypes
<1>1. AfterRead(c) \in {"write", "done"} /\ (AfterRead(c) = "done" => ~ Mutates(c))
  BY DEF AfterRead
(* Before the table is written, nothing else is promised or taken back. *)
<1>2. ASSUME pc[c] # "done", pc'[c] = "done" => ~ Mutates(c), UNCHANGED latest,
             \A d \in Calls \ {c} : pc'[d] = pc[d]
      PROVE  Kept' = Kept
  BY <1>2 DEF Kept, Mutates
<1>3. ASSUME Kept' = Kept, UNCHANGED <<primary, backup, overtaken, meddled>>,
             ~ meddled /\ pc'[c] \in Writing => pc'[c] # "writeBackup" /\ Sound(got[c])'
      PROVE  SoundInv'
  <2>1. BackupFirst' /\ (~ meddled' => FilesSound')
    BY <1>3 DEF SoundInv, BackupFirst, FilesSound, Sound, Record
  <2>2. ~ meddled' => Own(c)'
    BY <1>3 DEF Own, Writing
  <2>. QED
    BY <1>3, <2>1, <2>2, OneWorks
<1>4. CASE ReadState(c)
  <2>1. Kept' = Kept
    BY <1>1, <1>2, <1>4 DEF ReadState, Goes
  <2>2. ~ meddled => Sound(got[c])'
    BY <1>4, <2>1 DEF ReadState, Takes, SoundInv, FilesSound, Sound, Record
  <2>. QED
    BY <1>1, <1>3, <1>4, <2>1, <2>2 DEF ReadState, Goes
<1>5. CASE ReadFails(c) \/ Recover(c)
  <2>1. Kept' = Kept
    BY <1>2, <1>5 DEF ReadFails, Recover, Goes
  <2>2. ~ meddled /\ pc'[c] \in Writing => pc'[c] # "writeBackup" /\ Sound(got[c])'
    BY <1>5, <2>1 DEF ReadFails, Recover, Goes, Takes, SoundInv, FilesSound, Sound, Record, Writing
  <2>3. UNCHANGED <<primary, backup, overtaken, meddled>>
    BY <1>5 DEF ReadFails, Recover
  <2>. QED
    BY <1>3, <2>1, <2>2, <2>3
<1>6. CASE FallBack(c)
  <2>1. Kept' = Kept
    BY <1>1, <1>2, <1>6 DEF FallBack, Goes
  <2>2. ~ meddled => Sound(got[c])'
    BY <1>6, <2>1 DEF FallBack, Takes, SoundInv, BackupFirst, FilesSound, Sound, Record
  <2>3. pc'[c] # "writeBackup"
    BY <1>1, <1>6 DEF FallBack, Goes
  <2>. QED
    BY <1>3, <1>6, <2>1, <2>2, <2>3 DEF FallBack
<1>7. CASE Rewrite(c) \/ RewriteBackup(c) \/ Restore(c)
  <2>1. Kept' = Kept
    BY <1>1, <1>2, <1>7 DEF Rewrite, RewriteBackup, Restore, Goes
  <2>2. UNCHANGED got /\ Overwrites(c)
    BY <1>7 DEF Rewrite, RewriteBackup, Restore
  <2>3. ASSUME ~ meddled'
        PROVE  ~ meddled /\ Sound(got[c])
    BY <1>7, <2>2, <2>3 DEF Rewrite, RewriteBackup, Restore, Goes, Overwrites, SoundInv, HandsSound, Writing
  <2>4. pc'[c] # "writeBackup"
    BY <1>1, <1>7 DEF Rewrite, RewriteBackup, Restore, Goes
  <2>5. ~ meddled' => Own(c)'
    BY <2>1, <2>2, <2>3, <2>4 DEF Own, Sound, Record
  <2>6. ~ meddled' => FilesSound'
    BY <1>7, <2>1, <2>2, <2>3 DEF Rewrite, RewriteBackup, Restore, Good, SoundInv, FilesSound, Sound, Record
  <2>7. BackupFirst'
    BY <1>7, <2>1 DEF Rewrite, RewriteBackup, Restore, Good, SoundInv, BackupFirst
  <2>8. meddled => meddled'
    BY <2>2 DEF Overwrites
  <2>. QED
    BY <2>2, <2>5, <2>6, <2>7, <2>8, OneWorks
<1>8. CASE Persist(c)
  <2>1. pc[c] = "write" /\ pc'[c] = "writeBackup" /\ \A d \in Calls \ {c} : pc'[d] = pc[d]
    BY <1>8 DEF Persist, Goes
  <2>2. latest' = [latest EXCEPT ![IdOf[c]] = c] /\ UNCHANGED backup /\ Overwrites(c)
    BY <1>8 DEF Persist
  <2>3. Kept' = {d \in Kept : IdOf[d] # IdOf[c]}
    BY <2>1, <2>2, CallFacts DEF Kept, Mutates
  <2>4. got[c] \in Tables
    OBVIOUS
  <2>5. /\ Applied(c)[IdOf[c]] = Record(c)
        /\ \A i \in Ids \ {IdOf[c]} : Applied(c)[i] = got[c][i]
    BY <2>4, CallFacts DEF Applied, Tables
  <2>6. got'[c] = Applied(c) /\ primary' = Good(Applied(c))
    BY <1>8 DEF Persist, Takes
  <2>7. ASSUME ~ meddled'
        PROVE  ~ meddled /\ \A d \in Kept' : Applied(c)[IdOf[d]] = Record(d)
    <3>1. ~ meddled /\ Sound(got[c])
      BY <2>1, <2>2, <2>7 DEF Overwrites, SoundInv, HandsSound, Writing
    <3>. QED
      BY <2>3, <2>5, <3>1, CallFacts DEF Sound, Kept
  <2>8. ~ meddled' => FilesSound'
    BY <2>2, <2>3, <2>6, <2>7 DEF FilesSound, SoundInv, Sound, Good, Record
  <2>9. ~ meddled' => Sound(got[c])'
    BY <2>6, <2>7 DEF Sound, Record
  <2>10. ~ meddled' => Own(c)'
    BY <2>5, <2>6, <2>9 DEF Own, Good, Record
  <2>11. BackupFirst'
    BY <2>2, <2>3 DEF SoundInv, BackupFirst
  <2>12. meddled => meddled'
    BY <2>2 DEF Overwrites
  <2>. QED
    BY <2>2, <2>8, <2>10, <2>11, <2>12, OneWorks
<1>9. CASE PersistBackup(c)
  <2>1. pc[c] = "writeBackup" /\ pc'[c] = "done" /\ \A d \in Calls \ {c} : pc'[d] = pc[d]
    BY <1>9 DEF PersistBackup, Goes
  <2>2. Kept' \subseteq Kept \cup {c}
    BY <1>9, <2>1 DEF PersistBackup, Kept, Mutates
  <2>3. backup' = Good(got[c]) /\ UNCHANGED primary /\ Overwrites(c)
    BY <1>9 DEF PersistBackup
  <2>4. ASSUME ~ meddled' PROVE FilesSound'
    <3>0. ~ meddled /\ c \notin overtaken
      BY <2>3, <2>4 DEF Overwrites
    <3>1. /\ Sound(got[c])
          /\ got[c][IdOf[c]] = Record(c)
          /\ primary.shape \in {"good", "trailing"} =>
               Sound(primary.table) /\ primary.table[IdOf[c]] = Record(c)
      BY <2>1, <3>0 DEF SoundInv, FilesSound, HandsSound, ReturnsSoon, Writing
    <3>. QED
      BY <2>2, <2>3, <3>1 DEF FilesSound, Sound, Good, Record
  <2>5. BackupFirst'
    BY <2>3 DEF BackupFirst, Good
  <2>6. Own(c)'
    BY <2>1 DEF Own, Writing
  <2>7. meddled => meddled'
    BY <2>3 DEF Overwrites
  <2>. QED
    BY <2>3, <2>4, <2>5, <2>6, <2>7, OneWorks
<1>10. CASE Reject(c)
  <2>1. pc[c] = "write" /\ pc'[c] = "rejected" /\ \A d \in Calls \ {c} : pc'[d] = pc[d]
    BY <1>10 DEF Reject, Goes
  <2>2. Kept' = Kept
    BY <1>10, <2>1 DEF Reject, Kept, Mutates
  <2>. QED
    BY <1>3, <1>10, <2>1, <2>2 DEF Reject, Writing
<1>. QED
  BY <1>4, <1>5, <1>6, <1>7, <1>8, <1>9, <1>10 DEF Step

LEMMA SoundStep == QueueInv /\ SoundInv /\ [StoreNext]_storeVars => SoundInv'
<1>. SUFFICES ASSUME QueueInv, SoundInv, [StoreNext]_storeVars PROVE SoundInv'
  OBVIOUS
<1>. USE DEF QueueInv, CallTypes
<1>1. ASSUME Kept' = Kept, UNCHANGED <<backup, overtaken, meddled, primary>>,
             \A c \in Calls : pc'[c] \in Writing => pc[c] = pc'[c] /\ got'[c] = got[c]
      PROVE  SoundInv'
  <2>1. BackupFirst'
    BY <1>1 DEF SoundInv, BackupFirst
  <2>2. ~ meddled => FilesSound' /\ HandsSound'
    BY <1>1 DEF SoundInv, FilesSound, HandsSound, Sound, Record
  <2>3. ~ meddled => ReturnsSoon'
    BY <1>1 DEF SoundInv, ReturnsSoon, Record, Writing
  <2>. QED
    BY <1>1, <2>1, <2>2, <2>3 DEF SoundInv
<1>2. CASE UNCHANGED storeVars
  <2>1. Kept' = Kept
    BY <1>2 DEF storeVars, Kept, Mutates
  <2>. QED
    BY <1>1, <1>2, <2>1 DEF storeVars
<1>3. ASSUME NEW c \in Calls, Call(c) PROVE SoundInv'
  <2>1. pc[c] = "idle" /\ pc'[c] = "read" /\ \A d \in Calls \ {c} : pc'[d] = pc[d]
    BY <1>3 DEF Call, Goes
  <2>2. Kept' = Kept
    BY <1>3, <2>1 DEF Call, Kept, Mutates
  <2>. QED
    BY <1>1, <1>3, <2>1, <2>2 DEF Call, Writing
<1>4. ASSUME NEW s \in Stores, Crash(s) PROVE SoundInv'
  <2>1. \A c \in Calls : pc'[c] = (IF StoreOf[c] = s /\ pc[c] \notin Ended THEN "lost" ELSE pc[c])
    BY <1>4 DEF Crash
  <2>2. \A c \in Calls : pc'[c] \in Writing => pc[c] = pc'[c] /\ got'[c] = got[c]
    BY <1>4, <2>1 DEF Crash, Writing
  <2>3. Kept' = Kept
    BY <1>4, <2>1 DEF Crash, Kept, Mutates, Ended
  <2>. QED
    BY <1>1, <1>4, <2>2, <2>3 DEF Crash
<1>5. ASSUME NEW shape \in {"trailing", "garbage"}, Damage(shape) PROVE SoundInv'
  <2>1. Kept' = Kept
    BY <1>5 DEF Damage, Kept, Mutates
  <2>2. /\ primary'.table = primary.table /\ primary.shape = "good"
        /\ UNCHANGED <<backup, overtaken, meddled, pc, got>>
    BY <1>5 DEF Damage, FileTypes
  <2>3. BackupFirst'
    BY <2>1, <2>2 DEF SoundInv, BackupFirst
  <2>4. ~ meddled => FilesSound' /\ HandsSound'
    BY <2>1, <2>2 DEF SoundInv, FilesSound, HandsSound, Sound, Record, Mutates
  <2>5. ~ meddled => ReturnsSoon'
    BY <2>2 DEF SoundInv, ReturnsSoon, Record
  <2>. QED
    BY <2>2, <2>3, <2>4, <2>5 DEF SoundInv
<1>. QED
  BY <1>2, <1>3, <1>4, <1>5, CallsKeep DEF StoreNext

(* "Serializes concurrent upserts without losing records": what a mutation   *)
(* has returned is found by any later read, through damages of the state     *)
(* file and crashes, however many stores share the directory, until a call   *)
(* writes a table that a read's repair or another store has written over     *)
(* since it was read; the mutations of one store never do so to each other.  *)
(* The inductive invariant follows the tables that will be written: the file, *)
(* the backup, those in somebody's hands that are not old; each has all that *)
(* was promised, because one mutation at a time works in a queue, and all    *)
(* others who hold a table when it writes are overtaken.                     *)
THEOREM NothingIsLostByTheQueue == StoreSpec => []QueueLosesNothing
<1>1. StoreInit => SoundInv
  <2>. SUFFICES ASSUME StoreInit PROVE SoundInv
    OBVIOUS
  <2>1. Kept = {}
    BY DEF StoreInit, Kept
  <2>. QED
    BY <2>1 DEF StoreInit, SoundInv, BackupFirst, FilesSound, HandsSound, ReturnsSoon, Sound
<1>2. QueueInv /\ SoundInv => QueueLosesNothing
  BY TypeParts, SoundMeansKept DEF QueueLosesNothing
<1>3. QueueInv /\ SoundInv /\ [StoreNext]_storeVars => SoundInv'
  BY SoundStep
<1>. QED
  BY <1>1, <1>2, <1>3, QueueInvInit, QueueStep, PTL DEF StoreSpec

-------------------------------------------------------------------------------
(* MeshProcessSupervisor: its mutations are in the queue of one store.       *)

Entry == [child : Children, status : Statuses, by : Beats \cup Others]

Places == 1 .. Len(mutations)

(* Children are stopped only when all were started, and drained one by one. *)
Phases ==
  /\ main = "running" => stopping = {}
  /\ main # "running" => managed = Children
  /\ main \in {"drainGet", "drainSet"} => at \in stopping \ todo

ExitsOnce == \A c \in Children : handler[c] # "none" => proc[c] = "exited"

(* The exit of a child that is stopped is not taken for a failure: what its  *)
(* handler has queued, or will, removes the record.                          *)
HandlersRemove ==
  /\ \A c \in stopping : handler[c] \in {"none", "unregister", "done"}
  /\ \A k \in Places : mutations[k].by = "exit" =>
       /\ handler[mutations[k].child] = "done"
       /\ mutations[k].child \in stopping => mutations[k].status = "none"

(* A heartbeat that waits for its write has one write in the queue. *)
BeatsWait ==
  /\ \A k \in Places : mutations[k].by \in Beats => beat[mutations[k].child][mutations[k].by] = "set"
  /\ \A j, k \in Places :
       mutations[k].by \in Beats /\ mutations[j].child = mutations[k].child /\ mutations[j].by = mutations[k].by => j = k

Late == main \in {"waiting", "killing", "unregistering", "stopped"}

(* A child that is drained sends no more heartbeats; after the sleep that    *)
(* follows none of those it has sent is on its way.                          *)
BeatsStop ==
  /\ main # "running" => \A c \in stopping \ todo : c \notin beating
  /\ Late => \A c \in stopping : c \notin beating /\ \A b \in Beats : beat[c][b] = "none"

(* From then on whatever is queued for such a child removes its record. *)
QueueRemoves == Late => \A k \in Places : mutations[k].child \in stopping => mutations[k].status = "none"

StopWaits(c) == \E k \in Places : mutations[k].child = c /\ mutations[k].by = "stop"

(* An unregistration is done or in the queue. *)
Unregistered ==
  /\ main = "unregistering" => \A c \in stopping \ todo : record[c] = "none" \/ StopWaits(c)
  /\ main = "stopped" => \A c \in stopping : record[c] = "none"

StopInv ==
  /\ TypeOK /\ Phases /\ ExitsOnce /\ HandlersRemove /\ BeatsWait /\ BeatsStop /\ QueueRemoves /\ Unregistered

-------------------------------------------------------------------------------
(* The queue *)

LEMMA Queues ==
  ASSUME mutations \in Seq(Entry), NEW c \in Children, NEW status \in Statuses,
         NEW by \in Beats \cup Others, Enqueue(c, status, by)
  PROVE  /\ mutations' \in Seq(Entry)
         /\ Len(mutations) + 1 \in Places' /\ Len(mutations) + 1 \notin Places
         /\ mutations'[Len(mutations) + 1] = [child |-> c, status |-> status, by |-> by]
         /\ \A k \in Places : k \in Places' /\ mutations'[k] = mutations[k]
         /\ \A k \in Places' : k \in Places \/ k = Len(mutations) + 1
<1>. DEFINE m == [child |-> c, status |-> status, by |-> by]
<1>1. m \in Entry
  BY DEF Entry
<1>2. mutations' = Append(mutations, m)
  BY DEF Enqueue
<1>. HIDE DEF m
<1>3. /\ mutations' \in Seq(Entry) /\ Len(mutations') = Len(mutations) + 1
      /\ mutations'[Len(mutations) + 1] = m
      /\ \A k \in 1 .. Len(mutations) : mutations'[k] = mutations[k]
  BY <1>1, <1>2
<1>. QED
  BY <1>3 DEF Places, m

LEMMA Dequeues ==
  ASSUME mutations \in Seq(Entry), mutations # <<>>, mutations' = Tail(mutations)
  PROVE  /\ mutations' \in Seq(Entry)
         /\ 1 \in Places /\ Head(mutations) = mutations[1] /\ mutations[1] \in Entry
         /\ \A k \in Places' : k + 1 \in Places /\ k + 1 # 1 /\ mutations'[k] = mutations[k + 1]
         /\ \A k \in Places : k = 1 \/ (k - 1 \in Places' /\ mutations'[k - 1] = mutations[k])
<1>1. /\ mutations' \in Seq(Entry) /\ Len(mutations') = Len(mutations) - 1
      /\ \A k \in 1 .. Len(mutations') : mutations'[k] = mutations[k + 1]
      /\ Len(mutations) \in Nat \ {0} /\ Head(mutations) = mutations[1] /\ mutations[1] \in Entry
  OBVIOUS
<1>. QED
  BY <1>1 DEF Places

LEMMA EntryFacts ==
  ASSUME mutations \in Seq(Entry), NEW k \in Places
  PROVE  /\ mutations[k] \in Entry /\ mutations[k].child \in Children
         /\ mutations[k].status \in Statuses /\ mutations[k].by \in Beats \cup Others
<1>1. mutations[k] \in Entry
  BY DEF Places
<1>. QED
  BY <1>1 DEF Entry

-------------------------------------------------------------------------------
(* Types *)

LEMMA TypeSplit == TypeOK => mutations \in Seq(Entry)
BY DEF TypeOK, Entry

LEMMA BeatTypes ==
  ASSUME TypeOK, NEW c \in Children, NEW b \in Beats, NEW to \in Statuses \cup {"get", "set"},
         beat' = [beat EXCEPT ![c][b] = to]
  PROVE  /\ beat' \in [Children -> [Beats -> Statuses \cup {"get", "set"}]]
         /\ beat'[c][b] = to
         /\ \A d \in Children, a \in Beats : d # c \/ a # b => beat'[d][a] = beat[d][a]
BY DEF TypeOK

LEMMA TypeStep == TypeOK /\ Phases /\ [Next]_vars => TypeOK'
<1>. SUFFICES ASSUME TypeOK, Phases, [Next]_vars PROVE TypeOK'
  OBVIOUS
<1>. USE DEF TypeOK, registry, stop
<1>1. CASE UNCHANGED vars
  BY <1>1 DEF vars
<1>2. CASE Mutate
  <2>. DEFINE m == Head(mutations)
  <2>1. mutations' \in Seq(Entry) /\ m \in Entry
    BY <1>2, TypeSplit, Dequeues DEF Mutate
  <2>2. m.child \in Children /\ m.status \in Statuses
    BY <2>1 DEF Entry
  <2>. HIDE DEF m
  <2>3. record' = [record EXCEPT ![m.child] = m.status] /\ fresh' \subseteq Children
    BY <1>2, <2>2 DEF Mutate, m
  <2>4. beat' \in [Children -> [Beats -> Statuses \cup {"get", "set"}]]
    <3>1. CASE m.by \in Beats
      <4>1. "none" \in Statuses \cup {"get", "set"}
        BY DEF Statuses
      <4>2. beat' = [beat EXCEPT ![m.child][m.by] = "none"]
        BY <1>2, <3>1 DEF Mutate, m
      <4>. QED
        BY <2>2, <3>1, <4>1, <4>2, BeatTypes
    <3>2. CASE m.by \notin Beats
      BY <1>2, <3>2 DEF Mutate, m
    <3>. QED
      BY <3>1, <3>2
  <2>. QED
    BY <1>2, <2>1, <2>2, <2>3, <2>4 DEF Mutate, Entry
<1>3. ASSUME NEW c \in Children, Spawn(c) PROVE TypeOK'
  <2>1. mutations' \in Seq(Entry)
    BY <1>3, TypeSplit, Queues DEF Spawn, Statuses, Others
  <2>. QED
    BY <1>3, <2>1 DEF Spawn, Entry
<1>4. ASSUME NEW c \in Children, Manage(c) \/ Exit(c) \/ Expire(c) PROVE TypeOK'
  BY <1>4 DEF Manage, Exit, Expire, HeartbeatsStop
<1>5. ASSUME NEW c \in Children, Handler(c) PROVE TypeOK'
  <2>1. mutations' \in Seq(Entry)
    BY <1>5, TypeSplit, Queues DEF Handler, ExitUnregister, ExitFailGet, ExitFailSet, Statuses, Others
  <2>. QED
    BY <1>5, <2>1 DEF Handler, ExitUnregister, ExitFailGet, ExitFailSet, Handles, Entry
<1>6. ASSUME NEW c \in Children, NEW b \in Beats,
             BeatSend(c, b) \/ BeatGet(c, b) \/ BeatSet(c, b)
      PROVE  TypeOK'
  <2>1. mutations' \in Seq(Entry)
    <3>1. CASE BeatSet(c, b)
      <4>1. beat[c][b] \in Statuses
        BY <3>1 DEF BeatSet
      <4>. QED
        BY <3>1, <4>1, TypeSplit, Queues DEF BeatSet
    <3>. QED
      BY <1>6, <3>1, TypeSplit DEF BeatSend, BeatGet
  <2>2. beat' \in [Children -> [Beats -> Statuses \cup {"get", "set"}]]
    <3>1. record[c] \in Statuses
      OBVIOUS
    <3>. QED
      BY <1>6, <3>1, BeatTypes DEF BeatSend, BeatGet, BeatSet, BeatBecomes
  <2>. QED
    BY <1>6, <2>1, <2>2 DEF BeatSend, BeatGet, BeatSet, Entry
<1>7. CASE StopAll
  BY <1>7 DEF StopAll
<1>8. ASSUME NEW c \in Children, DrainBegin(c) \/ Unregister(c) PROVE TypeOK'
  <2>1. mutations' \in Seq(Entry)
    BY <1>8, TypeSplit, Queues DEF DrainBegin, Unregister, Statuses, Others
  <2>. QED
    BY <1>8, <2>1 DEF DrainBegin, Unregister, HeartbeatsStop, Entry
<1>9. CASE DrainGet \/ DrainSet
  <2>1. mutations' \in Seq(Entry)
    <3>1. CASE DrainSet
      <4>1. at \in Children
        BY <3>1 DEF DrainSet, Phases
      <4>. QED
        BY <3>1, <4>1, TypeSplit, Queues DEF DrainSet, Statuses, Others
    <3>. QED
      BY <1>9, <3>1, TypeSplit DEF DrainGet
  <2>. QED
    BY <1>9, <2>1 DEF DrainGet, DrainSet, Entry
<1>10. CASE Terminate \/ Kill \/ WaitIsOver \/ Stopped
  BY <1>10 DEF Terminate, Kill, WaitIsOver, Stopped, MainBecomes
<1>. QED
  BY <1>1, <1>2, <1>3, <1>4, <1>5, <1>6, <1>7, <1>8, <1>9, <1>10 DEF Next, Stopping

LEMMA PhasesStep == TypeOK /\ Phases /\ [Next]_vars => Phases'
<1>. SUFFICES ASSUME TypeOK, Phases, [Next]_vars PROVE Phases'
  OBVIOUS
<1>. USE DEF TypeOK, Phases, stop
<1>1. CASE UNCHANGED vars
  BY <1>1 DEF vars
<1>2. ASSUME managed \subseteq managed', managed' \subseteq Children, UNCHANGED stop PROVE Phases'
  BY <1>2
<1>3. CASE Mutate
  BY <1>2, <1>3 DEF Mutate
<1>4. ASSUME NEW c \in Children, Spawn(c) \/ Manage(c) \/ Exit(c) \/ Handler(c) \/ Expire(c)
      PROVE  Phases'
  BY <1>2, <1>4 DEF Spawn, Manage, Exit, Handler, ExitUnregister, ExitFailGet, ExitFailSet, Expire
<1>5. ASSUME NEW c \in Children, NEW b \in Beats,
             BeatSend(c, b) \/ BeatGet(c, b) \/ BeatSet(c, b)
      PROVE  Phases'
  BY <1>2, <1>5 DEF BeatSend, BeatGet, BeatSet
<1>6. CASE StopAll
  BY <1>6 DEF StopAll
<1>7. CASE Stopping
  BY <1>7 DEF Stopping, DrainBegin, Unregister, DrainGet, DrainSet, Terminate, Kill, WaitIsOver,
              Stopped, MainBecomes
<1>. QED
  BY <1>1, <1>3, <1>4, <1>5, <1>6, <1>7 DEF Next

-------------------------------------------------------------------------------
(* The parts of the invariant *)

LEMMA ExitsStep == TypeOK /\ ExitsOnce /\ [Next]_vars => ExitsOnce'
<1>. SUFFICES ASSUME TypeOK, ExitsOnce, [Next]_vars PROVE ExitsOnce'
  OBVIOUS
<1>. USE DEF TypeOK, ExitsOnce
<1>1. CASE UNCHANGED vars
  BY <1>1 DEF vars
<1>2. CASE Mutate \/ StopAll \/ Stopping
  BY <1>2 DEF Mutate, StopAll, Stopping, DrainBegin, Unregister, DrainGet, DrainSet, Terminate, Kill,
              WaitIsOver, Stopped, MainBecomes
<1>3. ASSUME NEW c \in Children, Spawn(c) \/ Manage(c) \/ Exit(c) \/ Handler(c) \/ Expire(c)
      PROVE  ExitsOnce'
  BY <1>3 DEF Spawn, Manage, Exit, Handler, ExitUnregister, ExitFailGet, ExitFailSet, Handles, Expire
<1>4. ASSUME NEW c \in Children, NEW b \in Beats,
             BeatSend(c, b) \/ BeatGet(c, b) \/ BeatSet(c, b)
      PROVE  ExitsOnce'
  BY <1>4 DEF BeatSend, BeatGet, BeatSet
<1>. QED
  BY <1>1, <1>2, <1>3, <1>4 DEF Next

LEMMA HandlersStep ==
  TypeOK /\ Phases /\ ExitsOnce /\ HandlersRemove /\ [Next]_vars => HandlersRemove'
<1>. SUFFICES ASSUME TypeOK, Phases, ExitsOnce, HandlersRemove, [Next]_vars PROVE HandlersRemove'
  OBVIOUS
<1>. USE DEF stop
<1>0. mutations \in Seq(Entry)
  BY TypeSplit
<1>1. ASSUME UNCHANGED <<mutations, handler, stopping>> PROVE HandlersRemove'
  BY <1>1 DEF HandlersRemove, Places
(* An entry is added to the queue that is not an exit handler's. *)
<1>2. ASSUME UNCHANGED <<handler, stopping>>, NEW c \in Children, NEW status \in Statuses,
             NEW by \in (Beats \cup Others) \ {"exit"}, Enqueue(c, status, by)
      PROVE  HandlersRemove'
  <2>. DEFINE m == [child |-> c, status |-> status, by |-> by]
  <2>1. /\ mutations'[Len(mutations) + 1] = m /\ m.by # "exit"
        /\ \A k \in Places : mutations'[k] = mutations[k]
        /\ \A k \in Places' : k \in Places \/ k = Len(mutations) + 1
    BY <1>0, <1>2, Queues
  <2>. HIDE DEF m
  <2>. QED
    BY <1>2, <2>1 DEF HandlersRemove
(* The handler of an exit goes on without the queue. *)
<1>3. ASSUME UNCHANGED <<mutations, stopping>>, NEW c \in Children, handler[c] # "done",
             NEW to, handler' = [handler EXCEPT ![c] = to],
             c \in stopping => to \in {"none", "unregister", "done"}
      PROVE  HandlersRemove'
  <2>1. handler'[c] = to /\ \A d \in Children \ {c} : handler'[d] = handler[d]
    BY <1>3 DEF TypeOK
  <2>2. \A d \in stopping' : handler'[d] \in {"none", "unregister", "done"}
    BY <1>3, <2>1 DEF HandlersRemove, TypeOK
  <2>3. ASSUME NEW k \in Places', mutations'[k].by = "exit"
        PROVE  /\ handler'[mutations'[k].child] = "done"
               /\ mutations'[k].child \in stopping' => mutations'[k].status = "none"
    <3>1. k \in Places /\ mutations'[k] = mutations[k]
      BY <1>3, <2>3 DEF Places
    <3>2. mutations[k].child \in Children /\ handler[mutations[k].child] = "done"
      BY <1>0, <2>3, <3>1, EntryFacts DEF HandlersRemove
    <3>. QED
      BY <1>3, <2>1, <2>3, <3>1, <3>2 DEF HandlersRemove
  <2>. QED
    BY <2>2, <2>3 DEF HandlersRemove
(* The handler of an exit queues its mutation. *)
<1>4. ASSUME UNCHANGED stopping, NEW c \in Children, NEW status \in Statuses,
             handler' = [handler EXCEPT ![c] = "done"], Enqueue(c, status, "exit"),
             c \in stopping => status = "none"
      PROVE  HandlersRemove'
  <2>. DEFINE m == [child |-> c, status |-> status, by |-> "exit"]
  <2>1. handler'[c] = "done" /\ \A d \in Children \ {c} : handler'[d] = handler[d]
    BY <1>4 DEF TypeOK
  <2>2. /\ mutations'[Len(mutations) + 1] = m /\ m.child = c /\ m.status = status
        /\ \A k \in Places : mutations'[k] = mutations[k]
        /\ \A k \in Places' : k \in Places \/ k = Len(mutations) + 1
    BY <1>0, <1>4, Queues DEF Others
  <2>. HIDE DEF m
  <2>3. \A d \in stopping' : handler'[d] \in {"none", "unregister", "done"}
    BY <1>4, <2>1 DEF HandlersRemove, TypeOK
  <2>4. ASSUME NEW k \in Places', mutations'[k].by = "exit"
        PROVE  /\ handler'[mutations'[k].child] = "done"
               /\ mutations'[k].child \in stopping' => mutations'[k].status = "none"
    <3>1. CASE k \in Places
      <4>1. mutations'[k] = mutations[k] /\ mutations[k].child \in Children
        BY <1>0, <2>2, <3>1, EntryFacts
      <4>. QED
        BY <1>4, <2>1, <2>4, <3>1, <4>1 DEF HandlersRemove
    <3>2. CASE k = Len(mutations) + 1
      BY <1>4, <2>1, <2>2, <3>2
    <3>. QED
      BY <2>2, <3>1, <3>2
  <2>. QED
    BY <2>3, <2>4 DEF HandlersRemove
<1>5. CASE UNCHANGED vars
  BY <1>1, <1>5 DEF vars
<1>6. CASE Mutate
  <2>1. \A k \in Places' : k + 1 \in Places /\ mutations'[k] = mutations[k + 1]
    BY <1>0, <1>6, Dequeues DEF Mutate
  <2>2. UNCHANGED <<handler, stopping>>
    BY <1>6 DEF Mutate
  <2>. QED
    BY <2>1, <2>2 DEF HandlersRemove
<1>7. ASSUME NEW c \in Children, Spawn(c) \/ Manage(c) \/ Expire(c) PROVE HandlersRemove'
  <2>1. Spawn(c) => HandlersRemove'
    BY <1>2 DEF Spawn, Statuses, Others
  <2>. QED
    BY <1>1, <1>7, <2>1 DEF Manage, Expire
<1>8. ASSUME NEW c \in Children, Exit(c) PROVE HandlersRemove'
  <2>1. CASE c \in managed
    <3>1. handler[c] # "done"
      BY <1>8 DEF Exit, ExitsOnce
    <3>. QED
      BY <1>3, <1>8, <2>1, <3>1 DEF Exit, Phases
  <2>2. CASE c \notin managed
    BY <1>1, <1>8, <2>2 DEF Exit
  <2>. QED
    BY <2>1, <2>2
<1>9. ASSUME NEW c \in Children, Handler(c) PROVE HandlersRemove'
  <2>1. CASE ExitUnregister(c)
    BY <1>4, <2>1 DEF ExitUnregister, Handles, Statuses
  <2>2. CASE ExitFailGet(c)
    BY <1>3, <2>2 DEF ExitFailGet, Handles, HandlersRemove
  <2>3. CASE ExitFailSet(c)
    BY <1>4, <2>3 DEF ExitFailSet, Handles, Statuses, HandlersRemove
  <2>. QED
    BY <1>9, <2>1, <2>2, <2>3 DEF Handler
<1>10. ASSUME NEW c \in Children, NEW b \in Beats,
              BeatSend(c, b) \/ BeatGet(c, b) \/ BeatSet(c, b)
       PROVE  HandlersRemove'
  <2>1. CASE BeatSet(c, b)
    <3>1. beat[c][b] \in Statuses /\ b # "exit"
      BY <2>1, NamesAssumption DEF BeatSet, TypeOK, Others
    <3>. QED
      BY <1>2, <2>1, <3>1 DEF BeatSet
  <2>. QED
    BY <1>1, <1>10, <2>1 DEF BeatSend, BeatGet
<1>11. CASE StopAll
  <2>1. /\ UNCHANGED <<mutations, handler>>
        /\ stopping' = {c \in Children : handler[c] = "none"}
    BY <1>11 DEF StopAll
  <2>. QED
    BY <2>1 DEF HandlersRemove, Places
<1>12. CASE Stopping
  <2>1. ASSUME NEW c \in Children, Unregister(c) PROVE HandlersRemove'
    BY <1>2, <2>1 DEF Unregister, Statuses, Others
  <2>2. CASE DrainSet
    <3>1. at \in Children
      BY <2>2 DEF DrainSet, Phases, TypeOK
    <3>. QED
      BY <1>2, <2>2, <3>1 DEF DrainSet, Statuses, Others
  <2>. QED
    BY <1>1, <1>12, <2>1, <2>2 DEF Stopping, DrainBegin, DrainGet, Terminate, Kill, WaitIsOver,
                                  Stopped, MainBecomes
<1>. QED
  BY <1>5, <1>6, <1>7, <1>8, <1>9, <1>10, <1>11, <1>12 DEF Next

LEMMA BeatsWaitStep == TypeOK /\ Phases /\ BeatsWait /\ [Next]_vars => BeatsWait'
<1>. SUFFICES ASSUME TypeOK, Phases, BeatsWait, [Next]_vars PROVE BeatsWait'
  OBVIOUS
<1>0. mutations \in Seq(Entry)
  BY TypeSplit
<1>1. ASSUME UNCHANGED <<mutations, beat>> PROVE BeatsWait'
  BY <1>1 DEF BeatsWait, Places
(* An entry is added to the queue that is not a heartbeat's. *)
<1>2. ASSUME UNCHANGED beat, NEW c \in Children, NEW status \in Statuses,
             NEW by \in Others, Enqueue(c, status, by)
      PROVE  BeatsWait'
  <2>. DEFINE m == [child |-> c, status |-> status, by |-> by]
  <2>1. /\ mutations'[Len(mutations) + 1] = m /\ m.by \notin Beats
        /\ \A k \in Places : mutations'[k] = mutations[k]
        /\ \A k \in Places' : k \in Places \/ k = Len(mutations) + 1
    BY <1>0, <1>2, Queues, NamesAssumption
  <2>. HIDE DEF m
  <2>2. \A k \in Places' : mutations'[k].by \in Beats => k \in Places /\ mutations'[k] = mutations[k]
    BY <2>1
  <2>. QED
    BY <1>2, <2>2 DEF BeatsWait
(* A heartbeat goes on, before it waits. *)
<1>3. ASSUME UNCHANGED mutations, NEW c \in Children, NEW b \in Beats, beat[c][b] # "set",
             NEW to \in Statuses \cup {"get", "set"}, beat' = [beat EXCEPT ![c][b] = to]
      PROVE  BeatsWait'
  <2>1. \A d \in Children, a \in Beats : d # c \/ a # b => beat'[d][a] = beat[d][a]
    BY <1>3, BeatTypes
  <2>2. ASSUME NEW k \in Places', mutations'[k].by \in Beats
        PROVE  beat'[mutations'[k].child][mutations'[k].by] = "set"
    <3>1. k \in Places /\ mutations'[k] = mutations[k]
      BY <1>3 DEF Places
    <3>2. mutations[k].child \in Children
      BY <1>0, <3>1, EntryFacts
    <3>. QED
      BY <1>3, <2>1, <2>2, <3>1, <3>2 DEF BeatsWait
  <2>. QED
    BY <1>3, <2>2 DEF BeatsWait, Places
<1>4. CASE Mutate
  <2>. DEFINE m == mutations[1]
  <2>1. /\ m.child \in Children /\ 1 \in Places
        /\ \A k \in Places' : k + 1 \in Places /\ k + 1 # 1 /\ mutations'[k] = mutations[k + 1]
    BY <1>0, <1>4, Dequeues, EntryFacts DEF Mutate
  <2>2. beat' = IF m.by \in Beats THEN [beat EXCEPT ![m.child][m.by] = "none"] ELSE beat
    BY <1>0, <1>4, Dequeues DEF Mutate
  <2>3. \A k \in Places' : mutations'[k].by \in Beats =>
          mutations'[k].child \in Children /\ ~ (mutations'[k].child = m.child /\ mutations'[k].by = m.by)
    BY <1>0, <2>1, EntryFacts DEF BeatsWait
  <2>4. \A d \in Children, a \in Beats : d # m.child \/ a # m.by => beat'[d][a] = beat[d][a]
    <3>1. CASE m.by \in Beats
      BY <2>1, <2>2, <3>1, BeatTypes DEF Statuses
    <3>. QED
      BY <2>2, <3>1
  <2>5. \A k \in Places' : mutations'[k].by \in Beats => beat'[mutations'[k].child][mutations'[k].by] = "set"
    BY <2>1, <2>3, <2>4 DEF BeatsWait
  <2>6. ASSUME NEW j \in Places', NEW k \in Places', mutations'[k].by \in Beats,
               mutations'[j].child = mutations'[k].child, mutations'[j].by = mutations'[k].by
        PROVE  j = k
    <3>1. j + 1 = k + 1
      BY <2>1, <2>6 DEF BeatsWait
    <3>. QED
      BY <3>1 DEF Places
  <2>. QED
    BY <2>5, <2>6 DEF BeatsWait
<1>5. CASE UNCHANGED vars
  BY <1>1, <1>5 DEF vars
<1>6. ASSUME NEW c \in Children, Spawn(c) PROVE BeatsWait'
  BY <1>2, <1>6 DEF Spawn, Statuses, Others
<1>7. ASSUME NEW c \in Children, Manage(c) \/ Exit(c) \/ Expire(c) PROVE BeatsWait'
  BY <1>1, <1>7 DEF Manage, Exit, Expire
<1>8. ASSUME NEW c \in Children, Handler(c) PROVE BeatsWait'
  BY <1>1, <1>2, <1>8 DEF Handler, ExitUnregister, ExitFailGet, ExitFailSet, Statuses, Others
<1>9. ASSUME NEW c \in Children, NEW b \in Beats, BeatSend(c, b) \/ BeatGet(c, b)
      PROVE  BeatsWait'
  <2>1. record[c] \in Statuses
    BY DEF TypeOK
  <2>. QED
    BY <1>3, <1>9, <2>1 DEF BeatSend, BeatGet, BeatBecomes
<1>10. ASSUME NEW c \in Children, NEW b \in Beats, BeatSet(c, b) PROVE BeatsWait'
  <2>. DEFINE m == [child |-> c, status |-> beat[c][b], by |-> b]
  <2>0. beat[c][b] \in Statuses /\ beat[c][b] # "set"
    BY <1>10 DEF BeatSet, TypeOK
  <2>1. /\ mutations'[Len(mutations) + 1] = m /\ m.child = c /\ m.by = b
        /\ \A k \in Places : mutations'[k] = mutations[k]
        /\ \A k \in Places' : k \in Places \/ k = Len(mutations) + 1
    BY <1>0, <1>10, <2>0, Queues DEF BeatSet
  <2>2. /\ beat'[c][b] = "set"
        /\ \A d \in Children, a \in Beats : d # c \/ a # b => beat'[d][a] = beat[d][a]
    BY <1>10, BeatTypes DEF BeatSet, BeatBecomes
  <2>. HIDE DEF m
  <2>3. \A k \in Places : mutations[k].by \in Beats =>
          mutations[k].child \in Children /\ ~ (mutations[k].child = c /\ mutations[k].by = b)
    BY <1>0, <2>0, EntryFacts DEF BeatsWait
  <2>4. \A k \in Places' : mutations'[k].by \in Beats => beat'[mutations'[k].child][mutations'[k].by] = "set"
    BY <2>1, <2>2, <2>3 DEF BeatsWait
  <2>5. ASSUME NEW j \in Places', NEW k \in Places', mutations'[k].by \in Beats,
               mutations'[j].child = mutations'[k].child, mutations'[j].by = mutations'[k].by
        PROVE  j = k
    BY <2>1, <2>3, <2>5 DEF BeatsWait
  <2>. QED
    BY <2>4, <2>5 DEF BeatsWait
<1>11. CASE StopAll
  BY <1>1, <1>11 DEF StopAll
<1>12. CASE Stopping
  <2>1. ASSUME NEW c \in Children, Unregister(c) PROVE BeatsWait'
    BY <1>2, <2>1 DEF Unregister, Statuses, Others
  <2>2. CASE DrainSet
    <3>1. at \in Children
      BY <2>2 DEF DrainSet, Phases, TypeOK
    <3>. QED
      BY <1>2, <2>2, <3>1 DEF DrainSet, Statuses, Others
  <2>. QED
    BY <1>1, <1>12, <2>1, <2>2 DEF Stopping, DrainBegin, DrainGet, Terminate, Kill, WaitIsOver,
                                  Stopped, MainBecomes
<1>. QED
  BY <1>4, <1>5, <1>6, <1>7, <1>8, <1>9, <1>10, <1>11, <1>12 DEF Next

LEMMA BeatsStopStep == TypeOK /\ Phases /\ BeatsStop /\ [Next]_vars => BeatsStop'
<1>. SUFFICES ASSUME TypeOK, Phases, BeatsStop, [Next]_vars PROVE BeatsStop'
  OBVIOUS
<1>. USE DEF stop, HeartbeatsStop
<1>0. mutations \in Seq(Entry)
  BY TypeSplit
<1>1. ASSUME beating' \subseteq beating, UNCHANGED stop,
             \A c \in Children, b \in Beats : beat[c][b] = "none" => beat'[c][b] = "none"
      PROVE  BeatsStop'
  BY <1>1 DEF BeatsStop, Late, TypeOK
<1>2. CASE UNCHANGED vars
  BY <1>1, <1>2 DEF vars
<1>3. CASE Mutate
  <2>. DEFINE m == mutations[1]
  <2>1. /\ m.child \in Children
        /\ beat' = IF m.by \in Beats THEN [beat EXCEPT ![m.child][m.by] = "none"] ELSE beat
    BY <1>0, <1>3, Dequeues, EntryFacts DEF Mutate
  <2>2. \A c \in Children, b \in Beats : beat[c][b] = "none" => beat'[c][b] = "none"
    <3>1. CASE m.by \in Beats
      BY <2>1, <3>1, BeatTypes DEF Statuses
    <3>. QED
      BY <2>1, <3>1
  <2>. QED
    BY <1>1, <1>3, <2>2 DEF Mutate
<1>4. ASSUME NEW c \in Children, Spawn(c) \/ Exit(c) \/ Handler(c) \/ Expire(c) PROVE BeatsStop'
  BY <1>1, <1>4 DEF Spawn, Exit, Handler, ExitUnregister, ExitFailGet, ExitFailSet, Expire
<1>5. ASSUME NEW c \in Children, Manage(c) PROVE BeatsStop'
  <2>1. main' = "running"
    BY <1>5 DEF Manage, Phases
  <2>. QED
    BY <2>1 DEF BeatsStop, Late
<1>6. ASSUME NEW c \in Children, NEW b \in Beats,
             BeatSend(c, b) \/ BeatGet(c, b) \/ BeatSet(c, b)
      PROVE  BeatsStop'
  <2>1. \A d \in Children, a \in Beats : d # c \/ a # b => beat'[d][a] = beat[d][a]
    <3>1. record[c] \in Statuses
      BY DEF TypeOK
    <3>. QED
      BY <1>6, <3>1, BeatTypes DEF BeatSend, BeatGet, BeatSet, BeatBecomes
  <2>2. UNCHANGED <<beating, main, todo, stopping>>
    BY <1>6 DEF BeatSend, BeatGet, BeatSet
  <2>3. Late => c \notin stopping
    BY <1>6 DEF BeatSend, BeatGet, BeatSet, BeatBecomes, BeatsStop
  <2>. QED
    BY <2>1, <2>2, <2>3 DEF BeatsStop, Late, TypeOK
<1>7. CASE StopAll
  BY <1>7 DEF StopAll, BeatsStop, Late
<1>8. ASSUME NEW c \in Children, DrainBegin(c) \/ Unregister(c) PROVE BeatsStop'
  BY <1>8 DEF DrainBegin, Unregister, BeatsStop, Late
<1>9. CASE DrainGet \/ DrainSet
  BY <1>9 DEF DrainGet, DrainSet, BeatsStop, Late
<1>10. CASE Terminate \/ Kill \/ WaitIsOver \/ Stopped
  BY <1>10 DEF Terminate, Kill, WaitIsOver, Stopped, MainBecomes, BeatsStop, Late
<1>. QED
  BY <1>2, <1>3, <1>4, <1>5, <1>6, <1>7, <1>8, <1>9, <1>10 DEF Next, Stopping

LEMMA QueueRemovesStep ==
  TypeOK /\ Phases /\ HandlersRemove /\ BeatsWait /\ BeatsStop /\ QueueRemoves /\ [Next]_vars
  => QueueRemoves'
<1>. SUFFICES ASSUME TypeOK, Phases, HandlersRemove, BeatsWait, BeatsStop, QueueRemoves,
                     [Next]_vars
              PROVE  QueueRemoves'
  OBVIOUS
<1>. USE DEF stop
<1>0. mutations \in Seq(Entry)
  BY TypeSplit
<1>1. ASSUME UNCHANGED <<mutations, stopping>>, Late' => Late PROVE QueueRemoves'
  BY <1>1 DEF QueueRemoves, Places
(* What is added to the queue removes the record, or is not of a child that  *)
(* is stopped.                                                               *)
<1>2. ASSUME UNCHANGED <<main, stopping>>, NEW c \in Children, NEW status \in Statuses,
             NEW by \in Beats \cup Others, Enqueue(c, status, by),
             Late /\ c \in stopping => status = "none"
      PROVE  QueueRemoves'
  <2>. DEFINE m == [child |-> c, status |-> status, by |-> by]
  <2>1. /\ mutations'[Len(mutations) + 1] = m /\ m.child = c /\ m.status = status
        /\ \A k \in Places : mutations'[k] = mutations[k]
        /\ \A k \in Places' : k \in Places \/ k = Len(mutations) + 1
    BY <1>0, <1>2, Queues
  <2>. HIDE DEF m
  <2>. QED
    BY <1>2, <2>1 DEF QueueRemoves, Late
<1>3. CASE UNCHANGED vars
  BY <1>1, <1>3 DEF vars, Late
<1>4. CASE Mutate
  <2>1. \A k \in Places' : k + 1 \in Places /\ mutations'[k] = mutations[k + 1]
    BY <1>0, <1>4, Dequeues DEF Mutate
  <2>. QED
    BY <1>4, <2>1 DEF Mutate, QueueRemoves, Late
<1>5. ASSUME NEW c \in Children, Spawn(c) PROVE QueueRemoves'
  BY <1>5 DEF Spawn, QueueRemoves, Late
<1>6. ASSUME NEW c \in Children, Manage(c) \/ Exit(c) \/ Expire(c) PROVE QueueRemoves'
  BY <1>1, <1>6 DEF Manage, Exit, Expire, Late
<1>7. ASSUME NEW c \in Children, Handler(c) PROVE QueueRemoves'
  <2>1. CASE ExitUnregister(c)
    BY <1>2, <2>1 DEF ExitUnregister, Statuses, Others
  <2>2. CASE ExitFailGet(c)
    BY <1>1, <2>2 DEF ExitFailGet, Late
  <2>3. CASE ExitFailSet(c)
    BY <1>2, <2>3 DEF ExitFailSet, Handles, HandlersRemove, Statuses, Others
  <2>. QED
    BY <1>7, <2>1, <2>2, <2>3 DEF Handler
<1>8. ASSUME NEW c \in Children, NEW b \in Beats,
             BeatSend(c, b) \/ BeatGet(c, b) \/ BeatSet(c, b)
      PROVE  QueueRemoves'
  <2>1. CASE BeatSet(c, b)
    <3>1. beat[c][b] \in Statuses /\ (Late => c \notin stopping)
      BY <2>1 DEF BeatSet, TypeOK, BeatsStop
    <3>. QED
      BY <1>2, <2>1, <3>1 DEF BeatSet
  <2>. QED
    BY <1>1, <1>8, <2>1 DEF BeatSend, BeatGet, Late
<1>9. CASE StopAll
  BY <1>9 DEF StopAll, QueueRemoves, Late
<1>10. ASSUME NEW c \in Children, DrainBegin(c) \/ Unregister(c) PROVE QueueRemoves'
  <2>1. CASE DrainBegin(c)
    BY <2>1 DEF DrainBegin, QueueRemoves, Late
  <2>2. CASE Unregister(c)
    BY <1>2, <2>2 DEF Unregister, Statuses, Others
  <2>. QED
    BY <1>10, <2>1, <2>2
<1>11. CASE DrainGet \/ DrainSet
  BY <1>11 DEF DrainGet, DrainSet, QueueRemoves, Late
(* Nobody but exit handlers has anything left in the queue for them. *)
<1>12. CASE Terminate
  <2>1. /\ UNCHANGED <<mutations, stopping>>
        /\ Answered /\ \A c \in stopping : \A b \in Beats : beat[c][b] = "none"
    BY <1>12 DEF Terminate, MainBecomes
  <2>2. ASSUME NEW k \in Places, mutations[k].child \in stopping PROVE mutations[k].status = "none"
    <3>1. mutations[k].by \in Beats \cup {"exit"}
      BY <1>0, <2>1, EntryFacts DEF Answered, Places, Others
    <3>2. mutations[k].by \notin Beats
      BY <2>1, <2>2 DEF BeatsWait
    <3>. QED
      BY <2>2, <3>1, <3>2 DEF HandlersRemove
  <2>. QED
    BY <2>1, <2>2 DEF QueueRemoves, Places
<1>13. CASE Kill \/ WaitIsOver \/ Stopped
  BY <1>1, <1>13 DEF Kill, WaitIsOver, Stopped, MainBecomes, Late
<1>. QED
  BY <1>3, <1>4, <1>5, <1>6, <1>7, <1>8, <1>9, <1>10, <1>11, <1>12, <1>13 DEF Next, Stopping

LEMMA UnregisteredStep ==
  TypeOK /\ Phases /\ QueueRemoves /\ Unregistered /\ [Next]_vars => Unregistered'
<1>. SUFFICES ASSUME TypeOK, Phases, QueueRemoves, Unregistered, [Next]_vars
              PROVE  Unregistered'
  OBVIOUS
<1>. USE DEF stop, registry
<1>0. mutations \in Seq(Entry)
  BY TypeSplit
<1>1. ASSUME UNCHANGED <<record, stopping, main, todo>>, \A c \in stopping : StopWaits(c) => StopWaits(c)'
      PROVE  Unregistered'
  BY <1>1 DEF Unregistered
<1>2. ASSUME NEW c \in Children, NEW status \in Statuses, NEW by \in Beats \cup Others,
             Enqueue(c, status, by)
      PROVE  \A d \in stopping : StopWaits(d) => StopWaits(d)'
  <2>1. \A k \in Places : k \in Places' /\ mutations'[k] = mutations[k]
    BY <1>0, <1>2, Queues
  <2>. QED
    BY <2>1 DEF StopWaits
<1>3. UNCHANGED mutations => \A d \in stopping : StopWaits(d) => StopWaits(d)'
  BY DEF StopWaits, Places
<1>4. CASE UNCHANGED vars
  BY <1>1, <1>3, <1>4 DEF vars
<1>5. CASE Mutate
  <2>. DEFINE m == mutations[1]
  <2>1. /\ m \in Entry /\ 1 \in Places /\ m.child \in Children
        /\ \A k \in Places : k = 1 \/ (k - 1 \in Places' /\ mutations'[k - 1] = mutations[k])
    BY <1>0, <1>5, Dequeues, EntryFacts DEF Mutate
  <2>2. /\ record' = [record EXCEPT ![m.child] = m.status]
        /\ UNCHANGED <<stopping, main, todo>>
    BY <1>0, <1>5, Dequeues DEF Mutate
  <2>3. Late /\ m.child \in stopping => m.status = "none"
    BY <2>1 DEF QueueRemoves
  <2>4. \A c \in stopping : Late /\ record[c] = "none" => record'[c] = "none"
    BY <2>1, <2>2, <2>3 DEF TypeOK
  <2>5. ASSUME NEW c \in stopping, Late, StopWaits(c) PROVE record'[c] = "none" \/ StopWaits(c)'
    <3>1. PICK k \in Places : mutations[k].child = c /\ mutations[k].by = "stop"
      BY <2>5 DEF StopWaits
    <3>2. CASE k = 1
      BY <2>1, <2>2, <2>3, <2>5, <3>1, <3>2 DEF TypeOK
    <3>3. CASE k # 1
      BY <2>1, <3>1, <3>3 DEF StopWaits
    <3>. QED
      BY <3>2, <3>3
  <2>. QED
    BY <2>2, <2>4, <2>5 DEF Unregistered, Late
<1>6. ASSUME NEW c \in Children, Spawn(c) PROVE Unregistered'
  BY <1>6 DEF Spawn, Unregistered
<1>7. ASSUME NEW c \in Children, Manage(c) \/ Exit(c) \/ Expire(c) PROVE Unregistered'
  BY <1>1, <1>3, <1>7 DEF Manage, Exit, Expire
<1>8. ASSUME NEW c \in Children, Handler(c) PROVE Unregistered'
  <2>1. ExitUnregister(c) \/ ExitFailSet(c) => \A d \in stopping : StopWaits(d) => StopWaits(d)'
    BY <1>2 DEF ExitUnregister, ExitFailSet, Statuses, Others
  <2>. QED
    BY <1>1, <1>3, <1>8, <2>1 DEF Handler, ExitUnregister, ExitFailGet, ExitFailSet
<1>9. ASSUME NEW c \in Children, NEW b \in Beats,
             BeatSend(c, b) \/ BeatGet(c, b) \/ BeatSet(c, b)
      PROVE  Unregistered'
  <2>1. BeatSet(c, b) => \A d \in stopping : StopWaits(d) => StopWaits(d)'
    <3>1. BeatSet(c, b) => beat[c][b] \in Statuses
      BY DEF BeatSet, TypeOK
    <3>. QED
      BY <1>2, <3>1 DEF BeatSet
  <2>. QED
    BY <1>1, <1>3, <1>9, <2>1 DEF BeatSend, BeatGet, BeatSet
<1>10. CASE StopAll
  BY <1>10 DEF StopAll, Unregistered
<1>11. ASSUME NEW c \in Children, DrainBegin(c) PROVE Unregistered'
  BY <1>11 DEF DrainBegin, Unregistered
<1>12. ASSUME NEW c \in Children, Unregister(c) PROVE Unregistered'
  <2>1. Enqueue(c, "none", "stop")
    BY <1>12 DEF Unregister
  <2>2. StopWaits(c)'
    <3>1. /\ Len(mutations) + 1 \in Places'
          /\ mutations'[Len(mutations) + 1] = [child |-> c, status |-> "none", by |-> "stop"]
      BY <1>0, <2>1, Queues DEF Statuses, Others
    <3>. QED
      BY <3>1 DEF StopWaits
  <2>3. \A d \in stopping : StopWaits(d) => StopWaits(d)'
    BY <1>2, <2>1 DEF Statuses, Others
  <2>. QED
    BY <1>12, <2>2, <2>3 DEF Unregister, Unregistered
<1>13. CASE DrainGet \/ DrainSet \/ Terminate \/ Kill
  BY <1>13 DEF DrainGet, DrainSet, Terminate, Kill, MainBecomes, Unregistered
<1>14. CASE WaitIsOver
  BY <1>14 DEF WaitIsOver, MainBecomes, Unregistered
<1>15. CASE Stopped
  <2>1. \A c \in stopping : ~ StopWaits(c)
    BY <1>15 DEF Stopped, Answered, StopWaits, Places
  <2>. QED
    BY <1>15, <2>1 DEF Stopped, MainBecomes, Unregistered
<1>. QED
  BY <1>4, <1>5, <1>6, <1>7, <1>8, <1>9, <1>10, <1>11, <1>12, <1>13, <1>14, <1>15
     DEF Next, Stopping

-------------------------------------------------------------------------------
(* stopAll: when it is over none of the children it stopped has a record.    *)
(* What could bring one back is a heartbeat that had read the record before, *)
(* a drain, a registration or an exit handler: the invariant follows each of *)
(* them through the queue of the store until, when SIGTERM is sent, all that *)
(* is left there for these children are removals.                            *)
THEOREM NoRecordIsLeft == Spec => []StopIsClean
<1>1. Init => StopInv
  <2>. SUFFICES ASSUME Init PROVE StopInv
    OBVIOUS
  <2>1. Places = {}
    BY DEF Init, Places
  <2>2. TypeOK
    BY DEF Init, TypeOK, Statuses
  <2>. QED
    BY <2>1, <2>2 DEF Init, StopInv, Phases, ExitsOnce, HandlersRemove, BeatsWait, BeatsStop,
                      QueueRemoves, Unregistered, Late
<1>2. StopInv /\ [Next]_vars => StopInv'
  BY TypeStep, PhasesStep, ExitsStep, HandlersStep, BeatsWaitStep, BeatsStopStep,
     QueueRemovesStep, UnregisteredStep DEF StopInv
<1>3. StopInv => StopIsClean
  BY DEF StopInv, StopIsClean, Unregistered
<1>. QED
  BY <1>1, <1>2, <1>3, PTL DEF Spec
===============================================================================
