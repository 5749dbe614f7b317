-------------------------------- MODULE Watch --------------------------------
(***************************************************************************)
(* Watch: MeshRuntime.watch over Streams and LogTail.  With streaming on,   *)
(* it subscribes; with streaming off it tails the instance's log.  Beside   *)
(* them, the replies that Redis connections read (Resp), which are looked   *)
(* at where there is neither a stream nor a tail.                          *)
(***************************************************************************)
EXTENDS Streams, LogTail, Resp

WatchInit ==
  /\ Init /\ TailInit
  /\ untailed => backend = "none"
  /\ RespInit(IF untailed THEN Conversations ELSE {<<>>})

WatchNext ==
  \/ backend # "none" /\ Next /\ UNCHANGED <<tail, resp>>
  \/ backend = "none" /\ Tailing /\ UNCHANGED <<vars, resp>>
  \/ (Data \/ ReadReply) /\ UNCHANGED <<vars, tail>>

\* The event loop runs the read loops and the reads; timers fire and file
\* operations end.
WatchSpec ==
  /\ WatchInit /\ [][WatchNext]_<<vars, tail, resp>>
  /\ \A s \in Subscribers : WF_subs(Read(s))
  /\ \A p \in Polls : WF_tail(backend = "none" /\ Turn(p))
  /\ WF_resp(ReadReply)

\* What an instance writes is shown, however the reads of a tail overlap, or the
\* tail is closed (LogStore.tail reads from its position and moves it last).
TailCatchesUp == backend = "none" /\ size = LogSize ~> shown = 1..LogSize \/ untailed

\* However a stream is cut into chunks, the replies that have come in are read,
\* whole and in order, up to an error, which throws (RespReader.read and
\* RespStreamReader.read, whose waiters are woken by data).
RepliesAreRead ==
  wire = <<>> ~>
    \/ values = replies
    \/ /\ threw /\ IsStrictPrefix(values, replies)
       /\ replies[Len(values) + 1][1] = "-"
==============================================================================
