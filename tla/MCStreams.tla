------------------------------ MODULE MCStreams ------------------------------
(* Small instances of Watch: a subscriber to everything and one to jobs      *)
(* through the event bus; one log chunk.                                      *)
EXTENDS Watch

CONSTANTS all, bus

wants == [s \in {all, bus} |-> IF s = all THEN {} ELSE {"job"}]
\* Over Redis each has a socket of its own, and one is looked at at a time.
subscribing == [b \in {"memory", "redis", "none"} |-> IF b = "memory" THEN 2 ELSE 1]
kinds == [s \in {all, bus} |-> IF s = all THEN {} ELSE {"event"}]

\* Replies: strings of one byte, of CR, LF and none at all, arrays and an error.
text == <<"$", 1, <<<<"b", 1>>>>>>
breaks == <<"$", 3, CrLf \o <<<<"b", 2>>>>>>
null == <<"$", -1, <<>>>>
number == <<":", 7, <<>>>>
error == <<"-", 0, <<>>>>
message == <<"*", 2, <<text, breaks>>>>
conversations ==
  {<<a>> : a \in {text, null, number, error, <<"+", 0, <<>>>>, <<"*", 0, <<>>>>, <<"*", -1, <<>>>>}}
    \cup {<<<<"*", 2, <<text, number>>>>, message>>, <<<<"*", 1, <<text>>>>, error>>,
          <<<<"*", 2, <<null, <<"*", 1, <<breaks>>>>>>>>>>}
===============================================================================
