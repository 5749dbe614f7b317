------------------------------- MODULE LogTail -------------------------------
(***************************************************************************)
(* LogTail: LogStore.tail, what `mesh watch' shows of an instance's log     *)
(* when there is no stream to subscribe to.  A timer starts a read every    *)
(* half second whether or not the last one has finished, so that reads of   *)
(* one tail overlap and share its position.                                *)
(***************************************************************************)
EXTENDS Naturals

CONSTANTS
  Polls,      \* bound: the reads that may be under way together
  LogSize     \* bound: chunks the instance writes to its log

VARIABLES
  size,       \* chunks in the file; 0 also if there is none yet
  position,   \* where the next read begins
  poll,       \* each read: where it is, the size it saw and where it began
  shown,      \* the chunks that have been printed
  untailed    \* whether the tail has been closed

tail == <<size, position, poll, shown, untailed>>

idle == [at |-> "idle", stat |-> 0, from |-> 0]

TailInit ==
  /\ size = 0 /\ position = 0
  /\ poll = [p \in Polls |-> idle]
  /\ shown = {} /\ untailed \in BOOLEAN

\* The supervisor appends what the instance prints.
Write == size < LogSize /\ size' = size + 1 /\ UNCHANGED <<position, poll, shown, untailed>>

Stat(p) ==
  /\ poll[p].at = "idle" /\ ~untailed
  /\ poll' = [poll EXCEPT ![p] = [idle EXCEPT !.at = "stat", !.stat = size]]
  /\ UNCHANGED <<size, position, shown, untailed>>

\* Mutant of NothingNew: a short line at the end is left.
NothingMuch(p, at) == poll[p].stat <= at + 1

NothingNew(p, at) == poll[p].stat = at

\* A size below the position is taken for a new file, read from the start.  The
\* program only appends to a log (LogStore.createStream): the read that saw less
\* is one that another has overtaken.
Open(p) ==
  /\ poll[p].at = "stat"
  /\ position' = IF poll[p].stat < position THEN 0 ELSE position
  /\ poll' = [poll EXCEPT ![p] = IF NothingNew(p, position') THEN idle ELSE [@ EXCEPT !.at = "open"]]
  /\ UNCHANGED <<size, shown, untailed>>

\* A buffer for what is new; if another read has got past it, none can be had.
Begin(p) ==
  /\ poll[p].at = "open"
  /\ poll' = [poll EXCEPT ![p] =
       IF @.stat < position THEN idle ELSE [@ EXCEPT !.at = "read", !.from = position]]
  /\ UNCHANGED <<size, position, shown, untailed>>

\* Where the next read begins.
ReadTo(p) == poll[p].stat

Show(p) ==
  /\ poll[p].at = "read"
  /\ position' = ReadTo(p)
  /\ shown' = shown \cup (poll[p].from + 1)..poll[p].stat
  /\ poll' = [poll EXCEPT ![p] = idle]
  /\ UNCHANGED <<size, untailed>>

Untail ==
  /\ ~untailed /\ untailed' = TRUE
  /\ UNCHANGED <<size, position, poll, shown>>

Turn(p) == Stat(p) \/ Open(p) \/ Begin(p) \/ Show(p)
Tailing == Write \/ Untail \/ \E p \in Polls : Turn(p)
=============================================================================
