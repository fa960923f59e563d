------------------------------------ MODULE Rio ------------------------------------
(***************************************************************************)
(* The Rio package of csapp.c: one process writes to a descriptor with     *)
(* rio_writen, another reads from it, with rio_readn or, through a rio_t,  *)
(* with rio_readnb and rio_readlineb.  Every read(2) and write(2) is a     *)
(* step: it blocks, moves fewer bytes than asked for, is interrupted by a  *)
(* signal, or fails.                                                       *)
(***************************************************************************)
EXTENDS Integers, Sequences, FiniteSetsExt

CONSTANTS
  Length,      \* bytes the writer has; a byte is its place among them
  Newlines,    \* the places of '\n'
  RIO_BUFSIZE, \* 8192 in the code
  PipeSize,    \* what the kernel holds between the two
  MaxRequest,  \* bound on the size a caller asks for
  MaxSignals,  \* bound on the signals whose handlers return
  MaxErrors    \* bound on the errors of read(2) and write(2)

ASSUME RioAssumption ==
  /\ Length \in Nat /\ Newlines \subseteq 1 .. Length
  /\ RIO_BUFSIZE \in Nat \ {0} /\ PipeSize \in Nat \ {0} /\ MaxRequest \in Nat \ {0, 1}
  /\ MaxSignals \in Nat /\ MaxErrors \in Nat

VARIABLES
  buffered,    \* the reader reads through a rio_t
  pipe,        \* the bytes in the kernel
  writer,      \* "idle", "writing", "failed" or "closed"
  bufp,        \* bytes that write(2) has taken: the next one is at bufp + 1
  nleft,       \* bytes that the call to rio_writen has left
  reader,      \* "idle", "readn", "readnb", "readlineb" or "exited"
  want,        \* the n or maxlen of the reader's call
  usrbuf,      \* the bytes that the call has read so far
  handed,      \* the bytes of all the calls that succeeded
  rio_buf, rio_bufptr, rio_cnt,   \* the rio_t; rio_bufptr counts from 0
  signals, errors                 \* how many may still come

env == <<signals, errors>>
rio == <<rio_buf, rio_bufptr, rio_cnt>>
writing == <<writer, bufp, nleft>>
reading == <<reader, want, usrbuf, handed>>
vars == <<buffered, pipe, writing, reading, rio, env>>

\* Open connection, and rio_readinitb.
Init ==
  /\ buffered \in BOOLEAN
  /\ pipe = <<>>
  /\ writer = "idle" /\ bufp = 0 /\ nleft = 0
  /\ reader = "idle" /\ want = 0 /\ usrbuf = <<>> /\ handed = <<>>
  /\ rio_buf = <<>> /\ rio_bufptr = 0 /\ rio_cnt = 0
  /\ signals = MaxSignals /\ errors = MaxErrors

-------------------------------------------------------------------------------
\* The writer's calls.
rio_writen(n) ==
  /\ writer = "idle"
  /\ n <= Length - bufp
  /\ writer' = "writing" /\ nleft' = n
  /\ UNCHANGED <<buffered, pipe, bufp, reading, rio, env>>

\* Mutant: the pointer does not go on behind what was written.
write_again ==
  /\ writer = "writing" /\ reader # "exited"
  /\ \E k \in 1 .. Min({nleft, PipeSize - Len(pipe)}) :
       /\ pipe' = pipe \o [j \in 1 .. k |-> bufp + j]
       /\ bufp' = bufp + (IF k = nleft THEN k ELSE 0)
       /\ nleft' = nleft - k
       /\ writer' = IF k = nleft THEN "idle" ELSE "writing"
  /\ UNCHANGED <<buffered, reading, rio, env>>

\* One write(2), which may take fewer bytes than it is given.
write ==
  /\ writer = "writing" /\ reader # "exited"
  /\ \E k \in 1 .. Min({nleft, PipeSize - Len(pipe)}) :
       /\ pipe' = pipe \o [j \in 1 .. k |-> bufp + j]
       /\ bufp' = bufp + k
       /\ nleft' = nleft - k
       /\ writer' = IF k = nleft THEN "idle" ELSE "writing"
  /\ UNCHANGED <<buffered, reading, rio, env>>

\* A write(2) that blocks is interrupted, and rio_writen calls it again.
write_EINTR ==
  /\ writer = "writing" /\ Len(pipe) = PipeSize
  /\ signals > 0 /\ signals' = signals - 1
  /\ UNCHANGED <<buffered, pipe, writing, reading, rio, errors>>

\* write(2) fails for good, or because nobody can read any more.
write_error ==
  /\ writer = "writing"
  /\ \/ reader = "exited" /\ UNCHANGED errors
     \/ errors > 0 /\ errors' = errors - 1
  /\ writer' = "failed"
  /\ UNCHANGED <<buffered, pipe, bufp, nleft, reading, rio, signals>>

\* The caller closes its end, or Rio_writen ends the process and so closes it.
close ==
  /\ writer \in {"idle", "failed"}
  /\ writer' = "closed"
  /\ UNCHANGED <<buffered, pipe, bufp, nleft, reading, rio, env>>
-------------------------------------------------------------------------------
\* The reader's calls; a line has room for the 0 that ends it.
Call(op, n) ==
  /\ reader = "idle"
  /\ reader' = op /\ want' = n /\ usrbuf' = <<>>
  /\ UNCHANGED <<buffered, pipe, writing, handed, rio, env>>

rio_readn(n) == ~ buffered /\ Call("readn", n)
rio_readnb(n) == buffered /\ Call("readnb", n)
rio_readlineb(n) == buffered /\ n > 1 /\ Call("readlineb", n)

\* The loops end behind a newline, with the buffer full, or with nothing left.
Enough(text) ==
  IF reader = "readlineb"
  THEN text[Len(text)] \in Newlines \/ Len(text) = want - 1
  ELSE Len(text) = want

Return(text) ==
  /\ reader' = "idle" /\ want' = 0 /\ usrbuf' = <<>>
  /\ handed' = handed \o text

\* What a loop does with the bytes of a read.
Store(bytes) ==
  LET text == usrbuf \o bytes IN
  IF Enough(text) THEN Return(text)
  ELSE usrbuf' = text /\ UNCHANGED <<reader, want, handed>>

\* -1: rio_... return it, whatever was read before; Rio_... end the process.
Fail ==
  /\ reader' \in {"idle", "exited"} /\ want' = 0 /\ usrbuf' = <<>>
  /\ UNCHANGED handed

\* The outcomes of a read(2) for which there are no bytes.
AtEnd == pipe = <<>> /\ writer = "closed"

Interrupted ==
  /\ pipe = <<>> /\ writer # "closed"
  /\ signals > 0 /\ signals' = signals - 1
  /\ UNCHANGED errors

ReadError ==
  /\ errors > 0 /\ errors' = errors - 1
  /\ UNCHANGED signals

\* read(2) of up to n bytes.
TakeFromPipe(k) == pipe' = SubSeq(pipe, k + 1, Len(pipe))

\* One read(2) in the loop of rio_readn.
read_unbuffered ==
  /\ reader = "readn"
  /\ \/ \E k \in 1 .. Min({want - Len(usrbuf), Len(pipe)}) :
          TakeFromPipe(k) /\ Store(SubSeq(pipe, 1, k)) /\ UNCHANGED env
     \/ AtEnd /\ Return(usrbuf) /\ UNCHANGED <<pipe, env>>
     \/ Interrupted /\ UNCHANGED <<pipe, reading>>
     \/ ReadError /\ Fail /\ UNCHANGED pipe
  /\ UNCHANGED <<buffered, writing, rio>>

\* Mutant: the end of the stream ends rio_read only, not the loop around it.
refill_on ==
  /\ reader \in {"readnb", "readlineb"} /\ rio_cnt <= 0
  /\ \E k \in 1 .. Min({RIO_BUFSIZE, Len(pipe)}) :
       /\ TakeFromPipe(k)
       /\ rio_buf' = SubSeq(pipe, 1, k) /\ rio_bufptr' = 0 /\ rio_cnt' = k
  /\ UNCHANGED <<buffered, writing, reading, env>>

\* rio_read with nothing left: one read(2) into the internal buffer.
refill ==
  /\ reader \in {"readnb", "readlineb"} /\ rio_cnt <= 0
  /\ \/ \E k \in 1 .. Min({RIO_BUFSIZE, Len(pipe)}) :
          /\ TakeFromPipe(k)
          /\ rio_buf' = SubSeq(pipe, 1, k) /\ rio_bufptr' = 0 /\ rio_cnt' = k
          /\ UNCHANGED <<reading, env>>
     \/ AtEnd /\ rio_cnt' = 0 /\ Return(usrbuf) /\ UNCHANGED <<pipe, rio_buf, rio_bufptr, env>>
     \/ /\ rio_cnt' = -1
        /\ \/ Interrupted /\ UNCHANGED reading
           \/ ReadError /\ Fail
        /\ UNCHANGED <<pipe, rio_buf, rio_bufptr>>
  /\ UNCHANGED <<buffered, writing>>

\* rio_read with bytes left: rio_readnb asks for all that are missing,
\* rio_readlineb for one.
copy ==
  /\ reader \in {"readnb", "readlineb"} /\ rio_cnt > 0
  /\ LET n == IF reader = "readnb" THEN want - Len(usrbuf) ELSE 1
         cnt == Min({n, rio_cnt})
     IN /\ Store(SubSeq(rio_buf, rio_bufptr + 1, rio_bufptr + cnt))
        /\ rio_bufptr' = rio_bufptr + cnt
        /\ rio_cnt' = rio_cnt - cnt
  /\ UNCHANGED <<buffered, pipe, writing, rio_buf, env>>

-------------------------------------------------------------------------------
Writer == write \/ write_EINTR \/ write_error \/ close \/ \E n \in 1 .. MaxRequest : rio_writen(n)

Reader ==
  \/ \E n \in 1 .. MaxRequest : rio_readn(n) \/ rio_readnb(n) \/ rio_readlineb(n)
  \/ read_unbuffered \/ refill \/ copy

Next == Writer \/ Reader

\* The writer writes and at last closes, and the reader reads on.
Spec == Init /\ [][Next]_vars /\ WF_vars(Writer) /\ WF_vars(Reader)

-------------------------------------------------------------------------------
\* What rio_read holds back for the next call.
Unread == SubSeq(rio_buf, rio_bufptr + 1, rio_bufptr + rio_cnt)

RequestOf ==
  CASE reader = "readlineb" -> [op |-> "line", want |-> want]
    [] reader \in {"readn", "readnb"} -> [op |-> "bytes", want |-> want]
    [] reader = "exited" -> [op |-> "exited", want |-> 0]
    [] OTHER -> [op |-> "none", want |-> 0]

Stream == INSTANCE ByteStream WITH
  Sizes <- 1 .. MaxRequest,
  asked <- bufp + nleft, sent <- bufp, request <- RequestOf,
  queue <- usrbuf \o Unread \o pipe

\* "robustly read n bytes", "robustly read a text line": through short counts,
\* interrupted calls and the internal buffer no byte is lost, read twice or out
\* of order, a call has fewer bytes than asked for, or less than a line, only at
\* the end of the stream, and one that fails loses only what it has read itself
\* (csapp.c 518-674).
StreamImplemented == Stream!Spec

\* Every call comes to its end, in spite of signals, with a writer that closes
\* and a reader that reads on (csapp.c 527-674).
CallsReturn ==
  /\ []<>(reader \in {"idle", "exited"})
  /\ []<>(writer # "writing")
====================================================================================
