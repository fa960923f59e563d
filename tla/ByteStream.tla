-------------------------------- MODULE ByteStream --------------------------------
(***************************************************************************)
(* What the Rio functions promise their callers: a stream of bytes between *)
(* a writer and a reader.  A write is done when the stream has all of it.  *)
(* A read is answered with the next bytes of the stream, as many as asked  *)
(* for or the next line, and with fewer only at the end of the stream; a   *)
(* read that fails may lose bytes, but only fewer than it asked for.       *)
(***************************************************************************)
EXTENDS Integers, Sequences

CONSTANTS
  Sizes,     \* how many bytes a call may ask for
  Newlines   \* which bytes end a line; a byte is its place in the stream

VARIABLES
  asked,     \* how many bytes the writer has asked to write
  sent,      \* how many the stream has taken
  writer,    \* "idle", "writing", "failed" or "closed"
  queue,     \* the bytes taken and not handed to the reader
  handed,    \* the bytes answered to the reader
  request    \* [op |-> "none", want |-> 0] between two reads

vars == <<asked, sent, writer, queue, handed, request>>

NoRequest == [op |-> "none", want |-> 0]

Init ==
  /\ asked = 0 /\ sent = 0 /\ writer = "idle"
  /\ queue = <<>> /\ handed = <<>>
  /\ request = NoRequest

Write(n) ==
  /\ writer = "idle"
  /\ asked' = asked + n
  /\ writer' = "writing"
  /\ UNCHANGED <<sent, queue, handed, request>>

Accept ==
  /\ writer = "writing"
  /\ \E k \in 1 .. asked - sent :
       /\ sent' = sent + k
       /\ queue' = queue \o [j \in 1 .. k |-> sent + j]
  /\ writer' = IF sent' = asked THEN "idle" ELSE "writing"
  /\ UNCHANGED <<asked, handed, request>>

WriteFails ==
  /\ writer = "writing"
  /\ writer' = "failed"
  /\ UNCHANGED <<asked, sent, queue, handed, request>>

Close ==
  /\ writer \in {"idle", "failed"}
  /\ writer' = "closed"
  /\ UNCHANGED <<asked, sent, queue, handed, request>>

Read(op, n) ==
  /\ request = NoRequest
  /\ request' = [op |-> op, want |-> n]
  /\ UNCHANGED <<asked, sent, writer, queue, handed>>

\* The first k bytes are what the request asks for: all the bytes, or one line
\* with room for the 0 behind it.
Complete(k) ==
  IF request.op = "line"
  THEN /\ \A j \in 1 .. k - 1 : queue[j] \notin Newlines
       /\ k = request.want - 1 \/ (k \in 1 .. request.want - 1 /\ queue[k] \in Newlines)
  ELSE k = request.want

\* The stream ends before the request is complete.
Ended(k) ==
  /\ k = Len(queue) /\ writer = "closed"
  /\ \A j \in 0 .. k : ~ Complete(j)

Answer(k) ==
  /\ Complete(k) \/ Ended(k)
  /\ handed' = handed \o SubSeq(queue, 1, k)
  /\ queue' = SubSeq(queue, k + 1, Len(queue))
  /\ request' = NoRequest
  /\ UNCHANGED <<asked, sent, writer>>

\* The reader may end with the failure.
ReadFails(k) ==
  /\ k < request.want
  /\ queue' = SubSeq(queue, k + 1, Len(queue))
  /\ request' \in {NoRequest, [op |-> "exited", want |-> 0]}
  /\ UNCHANGED <<asked, sent, writer, handed>>

Next ==
  \/ \E n \in Sizes : Write(n) \/ Read("bytes", n) \/ Read("line", n)
  \/ Accept \/ WriteFails \/ Close
  \/ /\ request.op \in {"bytes", "line"}
     /\ \E k \in 0 .. Len(queue) : Answer(k) \/ ReadFails(k)

Spec == Init /\ [][Next]_vars
====================================================================================
