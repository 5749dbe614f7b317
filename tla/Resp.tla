--------------------------------- MODULE Resp ---------------------------------
(***************************************************************************)
(* Resp: how the Redis connections read replies out of a byte stream that   *)
(* arrives in chunks of any size: RespReader (SimpleRedisClient), one reply  *)
(* each, and RespStreamReader (RedisPubSubConnection), as many as come.     *)
(*                                                                         *)
(* A reply is <<type, number, contents>>.  A stream is a sequence of atoms:  *)
(* a type with its number, CR, LF, and the bytes of a string, which may be   *)
(* CR and LF too.  A read that finds no whole reply waits to be woken.       *)
(***************************************************************************)
EXTENDS Integers, SequencesExt

CONSTANT Conversations    \* the sequences of replies to look at

VARIABLES
  replies,    \* what the server sends
  wire,       \* what of it has not come in
  buffer,     \* what has come in and not been parsed
  values,     \* what read has returned
  waiters,    \* whether a read waits for a chunk
  threw       \* whether read has thrown

resp == <<replies, wire, buffer, values, waiters, threw>>

CrLf == <<<<"cr", 0>>, <<"lf", 0>>>>

RECURSIVE Wire(_)
Wire(r) ==
  <<<<r[1], r[2]>>>> \o CrLf
    \o CASE r[1] = "*" -> FlattenSeq([i \in DOMAIN r[3] |-> Wire(r[3][i])])
         [] r[1] = "$" /\ r[2] >= 0 -> r[3] \o CrLf
         [] OTHER -> <<>>

\* Whether a line, or a string, that ends before `end' has come in with its CRLF.
Whole(b, end) == Len(b) >= end + 1

RECURSIVE TryParse(_, _), Items(_, _, _, _)

\* Whether items of an array are left to be parsed.
More(b, n, o, read) == n > 0

\* The items of an array and the offset after it; {} if not all have come in.
Items(b, n, o, read) ==
  IF More(b, n, o, read)
  THEN UNION {Items(b, n - 1, item.next, Append(read, item.value)) : item \in TryParse(b, o)}
  ELSE {[value |-> <<"*", Len(read), read>>, next |-> o]}

\* The reply at an offset of the buffer and the offset after it; {} if it has
\* not come in whole.
TryParse(b, o) ==
  IF ~Whole(b, o + 1) THEN {}
  ELSE
    LET type == b[o][1]
        n == b[o][2]
    IN CASE type \in {"+", "-", ":"} \/ (type \in {"*", "$"} /\ n = -1) ->
              {[value |-> <<type, n, <<>>>>, next |-> o + 3]}
         [] type = "*" /\ n >= 0 -> Items(b, n, o + 3, <<>>)
         [] type = "$" /\ n >= 0 ->
              IF Whole(b, o + 3 + n)
              THEN {[value |-> <<"$", n, SubSeq(b, o + 3, o + 2 + n)>>, next |-> o + 5 + n]}
              ELSE {}
         [] OTHER -> {}

RespInit(asked) ==
  /\ replies \in asked
  /\ wire = FlattenSeq([i \in DOMAIN replies |-> Wire(replies[i])])
  /\ buffer = <<>> /\ values = <<>> /\ waiters = FALSE /\ threw = FALSE

\* Mutant of Wakes: only the first chunk of a reply wakes the read.
WakesOnce(b) == waiters /\ b # <<>>

\* Whether the read still waits when a chunk has come in: all waiters are woken.
Wakes(b) == FALSE

\* A chunk comes in and wakes the read that waits.
Data ==
  \E k \in 1..Len(wire) :
    /\ buffer' = buffer \o SubSeq(wire, 1, k)
    /\ wire' = SubSeq(wire, k + 1, Len(wire))
    /\ waiters' = Wakes(buffer)
    /\ UNCHANGED <<replies, values, threw>>

\* One turn of read, which waits unless a whole reply has come in.  An error
\* reply is thrown and nothing is read after it: a command has had its reply,
\* and the loop of a subscription ends.
ReadReply ==
  /\ ~waiters /\ ~threw
  /\ \/ /\ TryParse(buffer, 1) = {}
        /\ waiters' = TRUE
        /\ UNCHANGED <<buffer, values, threw>>
     \/ \E parsed \in TryParse(buffer, 1) :
          /\ IF parsed.value[1] = "-"
             THEN threw' = TRUE /\ UNCHANGED <<buffer, values>>
             ELSE /\ buffer' = SubSeq(buffer, parsed.next, Len(buffer))
                  /\ values' = Append(values, parsed.value)
                  /\ UNCHANGED threw
          /\ UNCHANGED waiters
  /\ UNCHANGED <<replies, wire>>
===============================================================================
