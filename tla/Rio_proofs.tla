-------------------------------- MODULE Rio_proofs --------------------------------
(***************************************************************************)
(* Proof that the Rio package implements a stream of bytes.                *)
(***************************************************************************)
EXTENDS Rio, SequenceTheorems, TLAPS

Bytes == Seq(Int)

TypeOK ==
  /\ buffered \in BOOLEAN
  /\ pipe \in Bytes /\ usrbuf \in Bytes /\ handed \in Bytes /\ rio_buf \in Bytes
  /\ writer \in {"idle", "writing", "failed", "closed"}
  /\ bufp \in Nat /\ nleft \in Nat
  /\ reader \in {"idle", "readn", "readnb", "readlineb", "exited"}
  /\ want \in Nat
  /\ rio_bufptr \in Nat /\ rio_cnt \in Int

\* What the rio_t has left lies in its buffer, and there is nothing in it
\* unless the reader reads through it.
BufferInv ==
  /\ rio_cnt > 0 => rio_bufptr + rio_cnt <= Len(rio_buf)
  /\ ~ buffered => rio_cnt = 0

\* A call that goes on has not enough yet.
Lacking(text) ==
  /\ Len(text) < want
  /\ reader = "readlineb" =>
       Len(text) < want - 1 /\ \A j \in 1 .. Len(text) : text[j] \notin Newlines

CallInv ==
  /\ reader \in {"idle", "exited"} => want = 0 /\ usrbuf = <<>>
  /\ reader = "readn" => ~ buffered
  /\ reader \in {"readnb", "readlineb"} => buffered
  /\ reader \in {"readn", "readnb", "readlineb"} => Lacking(usrbuf)
  /\ writer = "idle" => nleft = 0

RioInv == TypeOK /\ BufferInv /\ CallInv

-------------------------------------------------------------------------------
\* The smaller of two numbers.
LEMMA MinOfTwo ==
  ASSUME NEW a \in Int, NEW b \in Int
  PROVE  Min({a, b}) = IF a <= b THEN a ELSE b
<1>1. CASE a <= b
  <2>1. \A x \in {a, b} : (\A y \in {a, b} : x <= y) <=> x = a
    BY <1>1
  <2> QED
    BY <1>1, <2>1 DEF Min
<1>2. CASE b < a
  <2>1. \A x \in {a, b} : (\A y \in {a, b} : x <= y) <=> x = b
    BY <1>2
  <2> QED
    BY <1>2, <2>1 DEF Min
<1> QED
  BY <1>1, <1>2

\* A string of bytes cut in two.
LEMMA Cut ==
  ASSUME NEW s \in Bytes, NEW k \in 0 .. Len(s)
  PROVE  /\ SubSeq(s, 1, k) \in Bytes /\ Len(SubSeq(s, 1, k)) = k
         /\ SubSeq(s, k + 1, Len(s)) \in Bytes
         /\ SubSeq(s, 1, k) \o SubSeq(s, k + 1, Len(s)) = s
<1>1. \A i \in 1 .. Len(s) : s[i] \in Int
  BY ElementOfSeq DEF Bytes
<1>2. SubSeq(s, 1, k) \in Bytes /\ Len(SubSeq(s, 1, k)) = k
  BY <1>1, SubSeqProperties DEF Bytes
<1>3. SubSeq(s, k + 1, Len(s)) \in Bytes
  BY <1>1, SubSeqProperties DEF Bytes
<1>4. SubSeq(s, 1, k) \o SubSeq(s, k + 1, Len(s)) = SubSeq(s, 1, Len(s))
  <2>1. Len(s) \in Nat
    BY LenProperties DEF Bytes
  <2>2. 1 \in 1 .. Len(s) + 1 /\ k \in 1 - 1 .. Len(s) /\ Len(s) \in k .. Len(s)
    BY <2>1
  <2> QED
    BY <2>2, ConcatAdjacentSubSeq DEF Bytes
<1>5. SubSeq(s, 1, Len(s)) = s
  BY SubSeqFull DEF Bytes
<1> QED
  BY <1>2, <1>3, <1>4, <1>5

\* Two strings put together and cut again.
LEMMA Joined ==
  ASSUME NEW s \in Bytes, NEW t \in Bytes
  PROVE  /\ s \o t \in Bytes /\ Len(s \o t) = Len(s) + Len(t)
         /\ SubSeq(s \o t, 1, Len(s)) = s
         /\ SubSeq(s \o t, Len(s) + 1, Len(s \o t)) = t
         /\ \A j \in 1 .. Len(s) : (s \o t)[j] = s[j]
<1> DEFINE u == s \o t
<1>1. /\ u \in Bytes /\ Len(u) = Len(s) + Len(t)
      /\ \A i \in 1 .. Len(s) + Len(t) :
           u[i] = IF i <= Len(s) THEN s[i] ELSE t[i - Len(s)]
  BY ConcatProperties DEF Bytes
<1>2. Len(s) \in Nat /\ Len(t) \in Nat
  BY LenProperties DEF Bytes
<1>3. Len(s) \in 0 .. Len(u)
  BY <1>1, <1>2
<1> HIDE DEF u
<1>4. \A i \in 1 .. Len(u) : u[i] \in Int
  BY <1>1, ElementOfSeq DEF Bytes
<1>5. SubSeq(u, 1, Len(s)) = s
  <2>1. /\ SubSeq(u, 1, Len(s)) \in Bytes /\ Len(SubSeq(u, 1, Len(s))) = Len(s)
        /\ \A i \in 1 .. Len(s) : SubSeq(u, 1, Len(s))[i] = u[i]
    BY <1>2, <1>3, <1>4, SubSeqProperties DEF Bytes
  <2>2. \A i \in 1 .. Len(s) : SubSeq(u, 1, Len(s))[i] = s[i]
    BY <1>1, <1>2, <2>1
  <2> QED
    BY <2>1, <2>2, SeqEqual DEF Bytes
<1>6. SubSeq(u, Len(s) + 1, Len(u)) = t
  <2> DEFINE r == SubSeq(u, Len(s) + 1, Len(u))
  <2>1. /\ r \in Bytes /\ Len(r) = Len(t)
        /\ \A i \in 1 .. Len(t) : r[i] = u[Len(s) + i]
    <3> DEFINE m == Len(s) + 1
               n == Len(u)
    <3>1. m \in Int /\ n \in Int /\ n - m + 1 = Len(t) /\ \A i \in m .. n : u[i] \in Int
      BY <1>1, <1>2, <1>4
    <3>2. \A i \in 1 .. Len(t) : m + i - 1 = Len(s) + i
      BY <1>2
    <3>3. IF m <= n THEN Len(t) = n - m + 1 ELSE Len(t) = 0
      BY <1>1, <1>2
    <3> HIDE DEF m, n
    <3>4. /\ SubSeq(u, m, n) \in Seq(Int)
          /\ Len(SubSeq(u, m, n)) = IF m <= n THEN n - m + 1 ELSE 0
          /\ \A i \in 1 .. n - m + 1 : SubSeq(u, m, n)[i] = u[m + i - 1]
      BY <3>1, SubSeqProperties
    <3>5. r = SubSeq(u, m, n)
      BY DEF m, n
    <3> HIDE DEF r
    <3> QED
      BY <3>1, <3>2, <3>3, <3>4, <3>5 DEF Bytes
  <2>2. \A i \in 1 .. Len(t) : r[i] = t[i]
    <3> HIDE DEF r
    <3> SUFFICES ASSUME NEW i \in 1 .. Len(t) PROVE r[i] = t[i]
      OBVIOUS
    <3>1. Len(s) + i \in 1 .. Len(s) + Len(t) /\ ~ (Len(s) + i <= Len(s))
          /\ (Len(s) + i) - Len(s) = i
      BY <1>2
    <3>2. u[Len(s) + i] = t[i]
      BY <1>1, <3>1
    <3> QED
      BY <2>1, <3>2
  <2> HIDE DEF r
  <2>3. r = t
    BY <2>1, <2>2, SeqEqual DEF Bytes
  <2> QED
    BY <2>3 DEF r
<1>7. \A j \in 1 .. Len(s) : u[j] = s[j]
  BY <1>1, <1>2
<1> QED
  BY <1>1, <1>5, <1>6, <1>7 DEF u

\* Moving bytes from the front of what is on its way to the caller's buffer.
LEMMA MovedOn ==
  ASSUME NEW s \in Bytes, NEW t \in Bytes, NEW u \in Bytes
  PROVE  (s \o t) \o u = s \o (t \o u) /\ <<>> \o u = u /\ u \o <<>> = u
<1>1. (s \o t) \o u = s \o (t \o u)
  BY ConcatAssociative, SMTT(30) DEF Bytes
<1>2. <<>> \o u = u /\ u \o <<>> = u
  BY ConcatEmptySeq DEF Bytes
<1> QED
  BY <1>1, <1>2

\* What the rio_t has left.
LEMMA BytesLeft ==
  ASSUME NEW b \in Bytes, NEW p \in Nat, NEW c \in Int, c > 0 => p + c <= Len(b)
  PROVE  /\ SubSeq(b, p + 1, p + c) \in Bytes
         /\ c <= 0 => SubSeq(b, p + 1, p + c) = <<>>
<1>1. CASE c <= 0
  <2>1. SubSeq(b, p + 1, p + c) = <<>>
    BY <1>1, SubSeqEmpty
  <2> QED
    BY <2>1, EmptySeq DEF Bytes
<1>2. CASE c > 0
  <2>1. \A i \in 1 .. Len(b) : b[i] \in Int
    BY ElementOfSeq DEF Bytes
  <2>2. Len(b) \in Nat
    BY LenProperties DEF Bytes
  <2>3. \A i \in p + 1 .. p + c : b[i] \in Int
    BY <1>2, <2>1, <2>2
  <2>4. SubSeq(b, p + 1, p + c) \in Bytes
    BY <2>3, SubSeqProperties DEF Bytes
  <2> QED
    BY <1>2, <2>4
<1> QED
  BY <1>1, <1>2

\* The first k bytes of it, and the others.
LEMMA BytesCopied ==
  ASSUME NEW b \in Bytes, NEW p \in Nat, NEW c \in Int, p + c <= Len(b), NEW k \in 1 .. c
  PROVE  /\ SubSeq(b, p + 1, p + k) \in Bytes /\ Len(SubSeq(b, p + 1, p + k)) = k
         /\ SubSeq(b, p + k + 1, p + c) \in Bytes
         /\ SubSeq(b, p + 1, p + c) =
              SubSeq(b, p + 1, p + k) \o SubSeq(b, p + k + 1, p + c)
<1>1. \A i \in 1 .. Len(b) : b[i] \in Int
  BY ElementOfSeq DEF Bytes
<1>2. Len(b) \in Nat
  BY LenProperties DEF Bytes
<1>3. SubSeq(b, p + 1, p + k) \in Bytes /\ Len(SubSeq(b, p + 1, p + k)) = k
  <2>1. \A i \in p + 1 .. p + k : b[i] \in Int
    BY <1>1, <1>2
  <2> QED
    BY <2>1, SubSeqProperties DEF Bytes
<1>4. SubSeq(b, p + k + 1, p + c) \in Bytes
  <2>1. \A i \in p + k + 1 .. p + c : b[i] \in Int
    BY <1>1, <1>2
  <2> QED
    BY <2>1, SubSeqProperties DEF Bytes
<1>5. /\ p + 1 \in 1 .. Len(b) + 1 /\ p + k \in (p + 1) - 1 .. Len(b)
      /\ p + c \in p + k .. Len(b)
  BY <1>2
<1>6. SubSeq(b, p + 1, p + k) \o SubSeq(b, p + k + 1, p + c) = SubSeq(b, p + 1, p + c)
  BY <1>5, ConcatAdjacentSubSeq DEF Bytes
<1> QED
  BY <1>3, <1>4, <1>6

-------------------------------------------------------------------------------
\* The bytes the writer has got rid of and the reader has not been given.
Queue == usrbuf \o Unread \o pipe

IsDone(text) ==
  IF reader = "readlineb"
  THEN /\ \A j \in 1 .. Len(text) - 1 : text[j] \notin Newlines
       /\ Len(text) = want - 1 \/ (Len(text) \in 1 .. want - 1 /\ text[Len(text)] \in Newlines)
  ELSE Len(text) = want

Calling == reader \in {"readn", "readnb", "readlineb"}

\* A call that returns with what it was asked for, or with less at the end.
LEMMA AnswerImplements ==
  ASSUME NEW text \in Bytes, NEW rest \in Bytes,
         Calling, want \in Nat, want' = 0, reader' = "idle", UNCHANGED writing,
         Queue = text \o rest, Queue' = rest, handed' = handed \o text,
         IsDone(text) \/ (rest = <<>> /\ writer = "closed" /\ Lacking(text))
  PROVE  Stream!Next
<1> DEFINE k == Len(text)
<1>1. k \in Nat /\ Len(rest) \in Nat
  BY LenProperties DEF Bytes
<1>2. /\ Len(Queue) = k + Len(rest)
      /\ SubSeq(Queue, 1, k) = text /\ SubSeq(Queue, k + 1, Len(Queue)) = rest
      /\ \A j \in 1 .. k : Queue[j] = text[j]
  BY Joined
<1>3. RequestOf' = [op |-> "none", want |-> 0]
  BY DEF RequestOf
<1>4. RequestOf = [op |-> IF reader = "readlineb" THEN "line" ELSE "bytes", want |-> want]
  BY DEF RequestOf, Calling
<1>5. UNCHANGED <<bufp, nleft, writer>>
  BY DEF writing
<1>6. CASE IsDone(text)
  <2>1. Stream!Complete(k)
    <3>1. CASE reader = "readlineb"
      <4>1. /\ \A j \in 1 .. k - 1 : Queue[j] \notin Newlines
            /\ k = want - 1 \/ (k \in 1 .. want - 1 /\ Queue[k] \in Newlines)
        BY <1>1, <1>2, <1>6, <3>1 DEF IsDone
      <4> QED
        BY <1>4, <3>1, <4>1 DEF Stream!Complete, Queue
    <3>2. CASE reader # "readlineb"
      BY <1>4, <1>6, <3>2 DEF Stream!Complete, IsDone
    <3> QED
      BY <3>1, <3>2
  <2>2. Stream!Answer(k)
    BY <1>2, <1>3, <1>5, <2>1 DEF Stream!Answer, Stream!NoRequest, Queue
  <2>3. k \in 0 .. Len(Queue) /\ RequestOf.op \in {"bytes", "line"}
    BY <1>1, <1>2, <1>4
  <2> QED
    BY <2>2, <2>3 DEF Stream!Next, Queue
<1>7. CASE rest = <<>> /\ writer = "closed" /\ Lacking(text)
  <2>1. k = Len(Queue)
    BY <1>1, <1>2, <1>7
  <2>2. ASSUME NEW j \in 0 .. k PROVE ~ Stream!Complete(j)
    <3>1. CASE reader = "readlineb"
      <4>1. j < want - 1 /\ \A i \in 1 .. k : Queue[i] \notin Newlines
        BY <1>1, <1>2, <1>7, <3>1 DEF Lacking
      <4> QED
        BY <1>4, <3>1, <4>1 DEF Stream!Complete, Queue
    <3>2. CASE reader # "readlineb"
      <4>1. j < want
        BY <1>1, <1>7 DEF Lacking
      <4> QED
        BY <1>4, <3>2, <4>1 DEF Stream!Complete
    <3> QED
      BY <3>1, <3>2
  <2>3. Stream!Ended(k)
    BY <1>7, <2>1, <2>2 DEF Stream!Ended, Queue
  <2>4. Stream!Answer(k)
    BY <1>2, <1>3, <1>5, <2>3 DEF Stream!Answer, Stream!NoRequest, Queue
  <2>5. k \in 0 .. Len(Queue) /\ RequestOf.op \in {"bytes", "line"}
    BY <1>1, <1>2, <1>4
  <2> QED
    BY <2>4, <2>5 DEF Stream!Next, Queue
<1> QED
  BY <1>6, <1>7

\* A call that fails loses what it has read.
LEMMA FailImplements ==
  ASSUME NEW text \in Bytes, NEW rest \in Bytes,
         Calling, Fail, UNCHANGED writing,
         Queue = text \o rest, Queue' = rest, Len(text) < want
  PROVE  Stream!Next
<1>1. Len(text) \in Nat /\ Len(rest) \in Nat
  BY LenProperties DEF Bytes
<1>2. /\ Len(Queue) = Len(text) + Len(rest)
      /\ SubSeq(Queue, Len(text) + 1, Len(Queue)) = rest
  BY Joined
<1>3. RequestOf' \in {[op |-> "none", want |-> 0], [op |-> "exited", want |-> 0]}
  BY DEF RequestOf, Fail
<1>4. RequestOf = [op |-> IF reader = "readlineb" THEN "line" ELSE "bytes", want |-> want]
  BY DEF RequestOf, Calling
<1>5. Stream!ReadFails(Len(text))
  BY <1>2, <1>3, <1>4 DEF Stream!ReadFails, Stream!NoRequest, Queue, Fail, writing
<1>6. Len(text) \in 0 .. Len(Queue) /\ RequestOf.op \in {"bytes", "line"}
  BY <1>1, <1>2, <1>4
<1> QED
  BY <1>5, <1>6 DEF Stream!Next, Queue

-------------------------------------------------------------------------------
\* The loops store what a read has given, and go on or return.
LEMMA StoreKeeps ==
  ASSUME RioInv, Calling, NEW bytes \in Bytes, Len(bytes) > 0,
         IF reader = "readlineb" THEN Len(bytes) = 1
         ELSE Len(bytes) <= want - Len(usrbuf),
         Store(bytes), UNCHANGED <<buffered, writing>>
  PROVE  /\ usrbuf' \in Bytes /\ handed' \in Bytes /\ want' \in Nat
         /\ reader' \in {"idle", "readn", "readnb", "readlineb", "exited"}
         /\ CallInv'
         /\ \/ /\ usrbuf' = usrbuf \o bytes
               /\ UNCHANGED <<reader, want, handed>>
            \/ /\ IsDone(usrbuf \o bytes)
               /\ reader' = "idle" /\ want' = 0 /\ usrbuf' = <<>>
               /\ handed' = handed \o (usrbuf \o bytes)
<1> DEFINE text == usrbuf \o bytes
<1>1. /\ usrbuf \in Bytes /\ handed \in Bytes /\ want \in Nat /\ Lacking(usrbuf)
      /\ Len(usrbuf) \in Nat /\ Len(bytes) \in Nat
  BY LenProperties DEF RioInv, TypeOK, CallInv, Calling, Bytes
<1>2. /\ text \in Bytes /\ Len(text) = Len(usrbuf) + Len(bytes)
      /\ \A j \in 1 .. Len(usrbuf) : text[j] = usrbuf[j]
  BY <1>1, Joined
<1> HIDE DEF text
<1>3. CASE Enough(text)
  <2>1. /\ reader' = "idle" /\ want' = 0 /\ usrbuf' = <<>>
        /\ handed' = handed \o text
    BY <1>3 DEF Store, Return, text
  <2>2. usrbuf' \in Bytes /\ handed' \in Bytes
    BY <1>1, <1>2, <2>1, Joined, EmptySeq DEF Bytes
  <2>3. IsDone(text)
    <3>1. CASE reader = "readlineb"
      <4>0. Len(bytes) = 1 /\ Len(usrbuf) < want - 1
        BY <1>1, <3>1 DEF Lacking
      <4>1. Len(text) = Len(usrbuf) + 1 /\ Len(text) <= want - 1
        BY <1>1, <1>2, <4>0
      <4>2. \A j \in 1 .. Len(text) - 1 : text[j] \notin Newlines
        BY <1>1, <1>2, <3>1, <4>1 DEF Lacking
      <4> QED
        BY <1>1, <1>3, <3>1, <4>1, <4>2 DEF IsDone, Enough
    <3>2. CASE reader # "readlineb"
      BY <1>3, <3>2 DEF IsDone, Enough
    <3> QED
      BY <3>1, <3>2
  <2>4. CallInv'
    BY <2>1 DEF CallInv, RioInv, writing
  <2> QED
    BY <2>1, <2>2, <2>3, <2>4 DEF text
<1>4. CASE ~ Enough(text)
  <2>1. usrbuf' = text /\ UNCHANGED <<reader, want, handed>>
    BY <1>4 DEF Store, text
  <2>2. Lacking(text)
    <3>1. CASE reader = "readlineb"
      <4>0. Len(bytes) = 1 /\ Len(usrbuf) < want - 1 /\ Len(text) # want - 1
        BY <1>1, <1>4, <3>1 DEF Lacking, Enough
      <4>1. Len(text) = Len(usrbuf) + 1 /\ Len(text) < want - 1
        BY <1>1, <1>2, <4>0
      <4>2. \A j \in 1 .. Len(text) : text[j] \notin Newlines
        BY <1>1, <1>2, <1>4, <3>1, <4>1 DEF Lacking, Enough
      <4> QED
        BY <1>1, <3>1, <4>1, <4>2 DEF Lacking
    <3>2. CASE reader # "readlineb"
      BY <1>1, <1>2, <1>4, <3>2 DEF Lacking, Enough
    <3> QED
      BY <3>1, <3>2
  <2>3. CallInv'
    <3>1. Lacking(usrbuf)'
      BY <2>1, <2>2 DEF Lacking
    <3> QED
      BY <2>1, <3>1 DEF CallInv, RioInv, Calling, writing
  <2> QED
    BY <1>1, <1>2, <2>1, <2>3 DEF RioInv, TypeOK, text
<1> QED
  BY <1>3, <1>4

\* A call that fails or returns leaves the reader between two calls.
LEMMA IdleKeeps ==
  ASSUME RioInv, reader' \in {"idle", "exited"}, want' = 0, usrbuf' = <<>>,
         UNCHANGED writing
  PROVE  usrbuf' \in Bytes /\ want' \in Nat /\ CallInv'
<1>1. usrbuf' \in Bytes
  BY EmptySeq DEF Bytes
<1> QED
  BY <1>1 DEF RioInv, CallInv, writing

\* Every step: it keeps the invariant, and the stream takes it or does not
\* move.
LEMMA WriterStep ==
  ASSUME RioInv, Writer
  PROVE  RioInv' /\ [Stream!Next]_Stream!vars
<1> USE DEF writing, reading, rio, env
<1>1. CASE \E n \in 1 .. MaxRequest : rio_writen(n)
  <2>1. PICK n \in 1 .. MaxRequest : rio_writen(n)
    BY <1>1
  <2>2. RioInv'
    BY <2>1 DEF RioInv, TypeOK, BufferInv, CallInv, Lacking, rio_writen
  <2>3. nleft = 0 /\ bufp \in Nat /\ nleft' = n /\ bufp' = bufp
    BY <2>1 DEF RioInv, TypeOK, CallInv, rio_writen
  <2>4. bufp' + nleft' = (bufp + nleft) + n
    BY <2>3
  <2>5. Stream!Write(n)
    BY <2>1, <2>4 DEF Stream!Write, rio_writen, RequestOf, Unread
  <2> QED
    BY <2>2, <2>5 DEF Stream!Next
<1>2. CASE write
  <2>1. PICK k \in 1 .. Min({nleft, PipeSize - Len(pipe)}) :
          /\ pipe' = pipe \o [j \in 1 .. k |-> bufp + j]
          /\ bufp' = bufp + k /\ nleft' = nleft - k
          /\ writer' = IF k = nleft THEN "idle" ELSE "writing"
    BY <1>2 DEF write
  <2>2. nleft \in Nat /\ bufp \in Nat /\ pipe \in Bytes /\ Len(pipe) \in Nat
    BY LenProperties DEF RioInv, TypeOK, Bytes
  <2>3. k \in 1 .. nleft
    <3>1. PipeSize - Len(pipe) \in Int
      BY <2>2, RioAssumption
    <3>2. Min({nleft, PipeSize - Len(pipe)}) <= nleft
      BY <2>2, <3>1, MinOfTwo
    <3>3. Min({nleft, PipeSize - Len(pipe)}) \in Int
      BY <2>2, <3>1, MinOfTwo
    <3> QED
      BY <2>2, <3>2, <3>3
  <2> DEFINE new == [j \in 1 .. k |-> bufp + j]
  <2>4. new \in Bytes
    BY <2>2, <2>3 DEF Bytes
  <2>5. RioInv'
    <3>1. pipe' \in Bytes
      BY <2>1, <2>2, <2>4, Joined
    <3> QED
      BY <1>2, <2>1, <2>2, <2>3, <3>1 DEF RioInv, TypeOK, BufferInv, CallInv, Lacking, write
  <2>6. Queue' = Queue \o new
    <3>1. usrbuf \o Unread \in Bytes
      <4>1. Unread \in Bytes /\ usrbuf \in Bytes
        BY BytesLeft DEF RioInv, TypeOK, BufferInv, Unread
      <4> QED
        BY <4>1, Joined
    <3>2. (usrbuf \o Unread) \o (pipe \o new) = ((usrbuf \o Unread) \o pipe) \o new
      <4> DEFINE old == usrbuf \o Unread
      <4> HIDE DEF new, old
      <4>1. old \in Bytes /\ pipe \in Bytes /\ new \in Bytes
        BY <2>2, <2>4, <3>1 DEF old
      <4>2. old \o (pipe \o new) = (old \o pipe) \o new
        BY <4>1, MovedOn
      <4> QED
        BY <4>2 DEF old
    <3>3. Queue' = (usrbuf \o Unread) \o (pipe \o new)
      BY <1>2, <2>1 DEF Queue, Unread, write
    <3> QED
      BY <3>2, <3>3 DEF Queue
  <2>7. k \in 1 .. (bufp + nleft) - bufp /\ bufp' + nleft' = bufp + nleft
    BY <2>1, <2>2, <2>3
  <2>8. writer' = IF bufp' = bufp + nleft THEN "idle" ELSE "writing"
    BY <2>1, <2>2, <2>3
  <2>9. Stream!Accept
    BY <1>2, <2>1, <2>6, <2>7, <2>8 DEF Stream!Accept, Queue, write, RequestOf
  <2> QED
    BY <2>5, <2>9 DEF Stream!Next
<1>3. CASE write_EINTR
  BY <1>3 DEF write_EINTR, RioInv, TypeOK, BufferInv, CallInv, Lacking, Stream!vars,
    RequestOf, Unread
<1>4. CASE write_error
  <2>1. RioInv'
    BY <1>4 DEF write_error, RioInv, TypeOK, BufferInv, CallInv, Lacking
  <2>2. Stream!WriteFails
    BY <1>4 DEF write_error, Stream!WriteFails, RequestOf, Unread
  <2> QED
    BY <2>1, <2>2 DEF Stream!Next
<1>5. CASE close
  <2>1. RioInv'
    BY <1>5 DEF close, RioInv, TypeOK, BufferInv, CallInv, Lacking
  <2>2. Stream!Close
    BY <1>5 DEF close, Stream!Close, RequestOf, Unread
  <2> QED
    BY <2>1, <2>2 DEF Stream!Next
<1> QED
  BY <1>1, <1>2, <1>3, <1>4, <1>5 DEF Writer

\* The bytes that are on their way to the reader.
LEMMA QueueParts ==
  ASSUME RioInv
  PROVE  /\ usrbuf \in Bytes /\ Unread \in Bytes /\ pipe \in Bytes
         /\ Queue = usrbuf \o (Unread \o pipe)
         /\ Unread \o pipe \in Bytes
         /\ rio_cnt <= 0 => Unread = <<>>
<1>1. /\ usrbuf \in Bytes /\ Unread \in Bytes /\ pipe \in Bytes
      /\ rio_cnt <= 0 => Unread = <<>>
  BY BytesLeft DEF RioInv, TypeOK, BufferInv, Unread
<1>2. Unread \o pipe \in Bytes
  BY <1>1, Joined
<1>3. (usrbuf \o Unread) \o pipe = usrbuf \o (Unread \o pipe)
  BY <1>1, MovedOn
<1> QED
  BY <1>1, <1>2, <1>3 DEF Queue

\* A read that gives the caller bytes: the loop goes on, or the call returns.
LEMMA StoreImplements ==
  ASSUME RioInv, Calling, NEW bytes \in Bytes, Len(bytes) > 0,
         IF reader = "readlineb" THEN Len(bytes) = 1
         ELSE Len(bytes) <= want - Len(usrbuf),
         Store(bytes), UNCHANGED <<buffered, writing>>,
         Unread \o pipe = bytes \o (Unread' \o pipe'),
         Unread' \in Bytes, pipe' \in Bytes
  PROVE  [Stream!Next]_Stream!vars
<1> DEFINE rest == Unread' \o pipe'
<1>1. rest \in Bytes /\ usrbuf \in Bytes /\ usrbuf \o bytes \in Bytes
  BY Joined, QueueParts
<1>2. Queue = (usrbuf \o bytes) \o rest
  <2> HIDE DEF rest
  <2>1. Queue = usrbuf \o (bytes \o rest)
    BY QueueParts DEF rest
  <2>2. (usrbuf \o bytes) \o rest = usrbuf \o (bytes \o rest)
    BY ONLY <1>1, bytes \in Bytes, MovedOn, SMTT(30)
  <2> QED
    BY <2>1, <2>2
<1>3. Queue' = usrbuf' \o rest
  <2>1. usrbuf' \in Bytes
    BY StoreKeeps
  <2>2. (usrbuf' \o Unread') \o pipe' = usrbuf' \o (Unread' \o pipe')
    BY <2>1, MovedOn
  <2> QED
    BY <2>2 DEF Queue
<1>4. CASE usrbuf' = usrbuf \o bytes /\ UNCHANGED <<reader, want, handed>>
  <2>1. Queue' = Queue
    BY <1>2, <1>3, <1>4
  <2> QED
    BY <1>4, <2>1 DEF Stream!vars, Queue, RequestOf, writing
<1>5. CASE /\ IsDone(usrbuf \o bytes)
           /\ reader' = "idle" /\ want' = 0 /\ usrbuf' = <<>>
           /\ handed' = handed \o (usrbuf \o bytes)
  <2>1. Queue' = rest
    <3> HIDE DEF rest
    <3> QED
      BY <1>1, <1>3, <1>5, MovedOn
  <2>2. want \in Nat
    BY DEF RioInv, TypeOK
  <2> HIDE DEF rest
  <2>3. Stream!Next
    BY <1>1, <1>2, <1>5, <2>1, <2>2, AnswerImplements
  <2> QED
    BY <2>3
<1> QED
  BY <1>4, <1>5, StoreKeeps

\* A read that finds the end, or fails, between two reads of the call.
LEMMA EndImplements ==
  ASSUME RioInv, Calling, Unread = <<>>, Unread' = <<>>, UNCHANGED <<pipe, writing>>,
         (AtEnd /\ Return(usrbuf)) \/ Fail
  PROVE  [Stream!Next]_Stream!vars
<1>1. /\ usrbuf \in Bytes /\ pipe \in Bytes /\ Queue = usrbuf \o pipe
      /\ want \in Nat /\ Lacking(usrbuf)
  <2>1. Unread \o pipe = pipe
    BY QueueParts, MovedOn
  <2> QED
    BY <2>1, QueueParts DEF RioInv, TypeOK, CallInv, Calling
<1>2. usrbuf' = <<>>
  BY DEF Return, Fail
<1>3. Queue' = pipe
  <2>1. <<>> \in Bytes
    BY EmptySeq DEF Bytes
  <2>2. (<<>> \o <<>>) \o pipe = pipe
    BY <1>1, <2>1, MovedOn
  <2> QED
    BY <1>2, <2>2 DEF Queue
<1>4. CASE AtEnd /\ Return(usrbuf)
  BY <1>1, <1>3, <1>4, AnswerImplements DEF AtEnd, Return
<1>5. CASE Fail
  <2>1. Len(usrbuf) < want
    BY <1>1 DEF Lacking
  <2> QED
    BY <1>1, <1>3, <1>5, <2>1, FailImplements
<1> QED
  BY <1>4, <1>5

LEMMA ReaderStep ==
  ASSUME RioInv, Reader
  PROVE  RioInv' /\ [Stream!Next]_Stream!vars
<1> USE DEF reading, rio, env
<1>1. CASE \E n \in 1 .. MaxRequest : rio_readn(n) \/ rio_readnb(n) \/ rio_readlineb(n)
  <2>1. PICK n \in 1 .. MaxRequest, op \in {"readn", "readnb", "readlineb"} :
          /\ Call(op, n)
          /\ op = "readn" => ~ buffered
          /\ op # "readn" => buffered
          /\ op = "readlineb" => n > 1
    BY <1>1 DEF rio_readn, rio_readnb, rio_readlineb
  <2>2. n \in Nat /\ n > 0 /\ MaxRequest \in Nat
    BY RioAssumption
  <2>3. usrbuf' = <<>> /\ <<>> \in Bytes /\ Len(usrbuf') = 0
    BY <2>1, EmptySeq DEF Call, Bytes
  <2>4. RioInv'
    BY <2>1, <2>2, <2>3 DEF RioInv, TypeOK, BufferInv, CallInv, Call, Lacking, writing
  <2>5. usrbuf = <<>> /\ RequestOf = [op |-> "none", want |-> 0]
    BY <2>1 DEF RioInv, CallInv, Call, RequestOf
  <2>6. RequestOf' = [op |-> IF op = "readlineb" THEN "line" ELSE "bytes", want |-> n]
    BY <2>1 DEF RequestOf, Call
  <2>7. Queue' = Queue
    BY <2>1, <2>3, <2>5 DEF Queue, Unread, Call
  <2>8. Stream!Read("bytes", n) \/ Stream!Read("line", n)
    BY <2>1, <2>5, <2>6, <2>7 DEF Stream!Read, Stream!NoRequest, Queue, Call, writing
  <2> QED
    BY <2>4, <2>8 DEF Stream!Next
<1>2. CASE read_unbuffered
  <2>1. /\ reader = "readn" /\ Calling /\ want \in Nat /\ pipe \in Bytes
        /\ rio_cnt = 0 /\ Unread = <<>> /\ Unread' = <<>> /\ <<>> \in Bytes
        /\ UNCHANGED <<buffered, writing, rio>>
    <3>1. rio_cnt = 0 /\ UNCHANGED rio
      BY <1>2 DEF read_unbuffered, RioInv, BufferInv, CallInv
    <3>2. Unread = <<>> /\ <<>> \in Bytes
      BY <3>1, QueueParts, EmptySeq DEF Bytes
    <3>3. Unread' = Unread
      BY <3>1 DEF Unread
    <3> QED
      BY <1>2, <3>1, <3>2, <3>3 DEF read_unbuffered, RioInv, TypeOK, Calling
  <2>2. CASE \E k \in 1 .. Min({want - Len(usrbuf), Len(pipe)}) :
               TakeFromPipe(k) /\ Store(SubSeq(pipe, 1, k))
    <3>1. PICK k \in 1 .. Min({want - Len(usrbuf), Len(pipe)}) :
            TakeFromPipe(k) /\ Store(SubSeq(pipe, 1, k))
      BY <2>2
    <3>2. Len(usrbuf) \in Nat /\ Len(pipe) \in Nat
      BY LenProperties DEF RioInv, TypeOK, Bytes
    <3>3. k \in 1 .. want - Len(usrbuf) /\ k \in 0 .. Len(pipe)
      <4>1. want - Len(usrbuf) \in Int
        BY <2>1, <3>2
      <4>2. Min({want - Len(usrbuf), Len(pipe)}) =
              IF want - Len(usrbuf) <= Len(pipe) THEN want - Len(usrbuf) ELSE Len(pipe)
        BY <3>2, <4>1, MinOfTwo
      <4> QED
        BY <3>2, <4>1, <4>2
    <3> DEFINE bytes == SubSeq(pipe, 1, k)
    <3>4. /\ bytes \in Bytes /\ Len(bytes) = k /\ pipe' \in Bytes
          /\ pipe = bytes \o pipe'
      BY <2>1, <3>1, <3>3, Cut DEF TakeFromPipe
    <3>5. Unread \o pipe = bytes \o (Unread' \o pipe')
      <4>1. Unread \o pipe = pipe /\ Unread' \o pipe' = pipe'
        BY <2>1, <3>4, MovedOn
      <4> QED
        BY <3>4, <4>1
    <3>6. Store(bytes)
      BY <3>1
    <3> HIDE DEF bytes
    <3>7. Len(bytes) > 0 /\ Len(bytes) <= want - Len(usrbuf) /\ reader # "readlineb"
      BY <2>1, <3>2, <3>3, <3>4
    <3>8. [Stream!Next]_Stream!vars
      BY <2>1, <3>4, <3>5, <3>6, <3>7, StoreImplements
    <3>9. /\ usrbuf' \in Bytes /\ handed' \in Bytes /\ want' \in Nat /\ CallInv'
          /\ reader' \in {"idle", "readn", "readnb", "readlineb", "exited"}
      BY <2>1, <3>4, <3>6, <3>7, StoreKeeps
    <3>10. RioInv'
      BY <2>1, <3>4, <3>9 DEF RioInv, TypeOK, BufferInv, writing
    <3> QED
      BY <3>8, <3>10
  <2>3. CASE AtEnd /\ Return(usrbuf) /\ UNCHANGED pipe
    <3>1. [Stream!Next]_Stream!vars
      BY <2>1, <2>3, EndImplements
    <3>2. usrbuf' \in Bytes /\ want' \in Nat /\ CallInv'
      BY <2>1, <2>3, IdleKeeps DEF Return
    <3>3. handed' \in Bytes
      BY <2>3, Joined DEF Return, RioInv, TypeOK
    <3> QED
      BY <2>1, <2>3, <3>1, <3>2, <3>3 DEF RioInv, TypeOK, BufferInv, writing, Return
  <2>4. CASE UNCHANGED <<pipe, reading>>
    BY <2>1, <2>4 DEF RioInv, TypeOK, BufferInv, CallInv, Lacking, writing, Stream!vars,
      RequestOf, Unread
  <2>5. CASE Fail /\ UNCHANGED pipe
    <3>1. [Stream!Next]_Stream!vars
      BY <2>1, <2>5, EndImplements
    <3>2. usrbuf' \in Bytes /\ want' \in Nat /\ CallInv'
      BY <2>1, <2>5, IdleKeeps DEF Fail
    <3> QED
      BY <2>1, <2>5, <3>1, <3>2 DEF RioInv, TypeOK, BufferInv, writing, Fail
  <2> QED
    BY <1>2, <2>2, <2>3, <2>4, <2>5 DEF read_unbuffered
<1>3. CASE refill
  <2>1. /\ Calling /\ pipe \in Bytes /\ buffered /\ Unread = <<>> /\ <<>> \in Bytes
        /\ UNCHANGED <<buffered, writing>>
    BY <1>3, QueueParts, EmptySeq DEF refill, RioInv, TypeOK, CallInv, Calling, Bytes
  <2>2. CASE /\ \E k \in 1 .. Min({RIO_BUFSIZE, Len(pipe)}) :
                  /\ TakeFromPipe(k)
                  /\ rio_buf' = SubSeq(pipe, 1, k) /\ rio_bufptr' = 0 /\ rio_cnt' = k
             /\ UNCHANGED reading
    <3>1. PICK k \in 1 .. Min({RIO_BUFSIZE, Len(pipe)}) :
            /\ TakeFromPipe(k)
            /\ rio_buf' = SubSeq(pipe, 1, k) /\ rio_bufptr' = 0 /\ rio_cnt' = k
      BY <2>2
    <3>2. Len(pipe) \in Nat /\ RIO_BUFSIZE \in Int
      BY <2>1, LenProperties, RioAssumption DEF Bytes
    <3>3. k \in 1 .. Len(pipe)
      <4>1. Min({RIO_BUFSIZE, Len(pipe)}) =
              IF RIO_BUFSIZE <= Len(pipe) THEN RIO_BUFSIZE ELSE Len(pipe)
        BY <3>2, MinOfTwo
      <4> QED
        BY <3>2, <4>1
    <3>4. /\ rio_buf' \in Bytes /\ Len(rio_buf') = k /\ pipe' \in Bytes
          /\ pipe = rio_buf' \o pipe'
      <4>1. k \in 0 .. Len(pipe)
        BY <3>2, <3>3
      <4>2. /\ SubSeq(pipe, 1, k) \in Bytes /\ Len(SubSeq(pipe, 1, k)) = k
            /\ SubSeq(pipe, k + 1, Len(pipe)) \in Bytes
            /\ SubSeq(pipe, 1, k) \o SubSeq(pipe, k + 1, Len(pipe)) = pipe
        BY <2>1, <4>1, Cut
      <4> QED
        BY <3>1, <4>2 DEF TakeFromPipe
    <3>5. Unread' = rio_buf'
      <4>1. Unread' = SubSeq(rio_buf', 0 + 1, 0 + k)
        BY <3>1 DEF Unread
      <4>2. SubSeq(rio_buf', 1, Len(rio_buf')) = rio_buf'
        BY <3>4, SubSeqFull DEF Bytes
      <4> QED
        BY <3>3, <3>4, <4>1, <4>2
    <3>6. Queue' = Queue
      <4>1. usrbuf \in Bytes /\ Queue = usrbuf \o (Unread \o pipe) /\ Unread \o pipe = pipe
        BY <2>1, QueueParts, MovedOn
      <4>2. (usrbuf \o rio_buf') \o pipe' = usrbuf \o (rio_buf' \o pipe')
        BY <3>4, <4>1, MovedOn
      <4>3. Queue' = (usrbuf \o rio_buf') \o pipe'
        BY <2>2, <3>5 DEF Queue
      <4> QED
        BY <3>4, <4>1, <4>2, <4>3
    <3>7. RioInv'
      BY <2>1, <2>2, <3>1, <3>2, <3>3, <3>4
        DEF RioInv, TypeOK, BufferInv, CallInv, Lacking, writing
    <3> QED
      BY <2>1, <2>2, <3>6, <3>7 DEF Stream!vars, Queue, RequestOf, writing
  <2>3. CASE UNCHANGED <<pipe, rio_buf, rio_bufptr>> /\ rio_cnt' \in {0, -1}
    <3>1. Unread' = <<>>
      <4>1. rio_bufptr \in Nat
        BY DEF RioInv, TypeOK
      <4>2. PICK c \in {0, -1} : rio_cnt' = c
        BY <2>3
      <4>3. SubSeq(rio_buf, rio_bufptr + 1, rio_bufptr + c) = <<>>
        <5>1. /\ rio_bufptr + 1 \in Int /\ rio_bufptr + c \in Int
              /\ rio_bufptr + c < rio_bufptr + 1
          BY <4>1
        <5> QED
          BY <5>1, SubSeqEmpty
      <4> QED
        BY <2>3, <4>2, <4>3 DEF Unread
    <3>2. CASE UNCHANGED reading
      BY <2>1, <2>3, <3>1, <3>2 DEF RioInv, TypeOK, BufferInv, CallInv, Lacking, writing,
        Stream!vars, RequestOf
    <3>3. CASE (AtEnd /\ Return(usrbuf)) \/ Fail
      <4>1. [Stream!Next]_Stream!vars
        BY <2>1, <2>3, <3>1, <3>3, EndImplements
      <4>2. usrbuf' \in Bytes /\ want' \in Nat /\ CallInv'
        BY <2>1, <3>3, IdleKeeps DEF Return, Fail
      <4>3. handed' \in Bytes
        BY <3>3, Joined DEF Return, Fail, RioInv, TypeOK
      <4> QED
        BY <2>1, <2>3, <3>3, <4>1, <4>2, <4>3
          DEF RioInv, TypeOK, BufferInv, writing, Return, Fail
    <3> QED
      BY <1>3, <2>3, <3>2, <3>3 DEF refill
  <2> QED
    BY <1>3, <2>2, <2>3 DEF refill
<1>4. CASE copy
  <2> DEFINE n == IF reader = "readnb" THEN want - Len(usrbuf) ELSE 1
             cnt == Min({n, rio_cnt})
             bytes == SubSeq(rio_buf, rio_bufptr + 1, rio_bufptr + cnt)
  <2>1. /\ Calling /\ buffered /\ reader # "readn" /\ want \in Nat /\ Lacking(usrbuf)
        /\ rio_buf \in Bytes /\ pipe \in Bytes /\ Len(usrbuf) \in Nat
        /\ rio_bufptr \in Nat /\ rio_cnt \in Int /\ rio_cnt > 0
        /\ rio_bufptr + rio_cnt <= Len(rio_buf)
    BY <1>4, LenProperties DEF copy, RioInv, TypeOK, BufferInv, CallInv, Calling, Bytes
  <2>2. /\ Store(bytes) /\ rio_bufptr' = rio_bufptr + cnt /\ rio_cnt' = rio_cnt - cnt
        /\ UNCHANGED <<buffered, pipe, writing, rio_buf>>
    BY <1>4 DEF copy
  <2>3. cnt \in 1 .. rio_cnt /\ cnt <= n /\ n \in Int
    <3>1. n \in Int /\ n > 0
      BY <2>1 DEF Lacking
    <3> HIDE DEF n
    <3>2. cnt = IF n <= rio_cnt THEN n ELSE rio_cnt
      BY <2>1, <3>1, MinOfTwo
    <3> QED
      BY <2>1, <3>1, <3>2
  <2> HIDE DEF cnt
  <2>4. /\ bytes \in Bytes /\ Len(bytes) = cnt
        /\ SubSeq(rio_buf, rio_bufptr + cnt + 1, rio_bufptr + rio_cnt) \in Bytes
        /\ Unread = bytes \o SubSeq(rio_buf, rio_bufptr + cnt + 1, rio_bufptr + rio_cnt)
    BY <2>1, <2>3, BytesCopied DEF Unread
  <2>5. Unread' = SubSeq(rio_buf, rio_bufptr + cnt + 1, rio_bufptr + rio_cnt)
    <3>1. rio_bufptr' + 1 = rio_bufptr + cnt + 1 /\ rio_bufptr' + rio_cnt' = rio_bufptr + rio_cnt
      BY <2>1, <2>2, <2>3
    <3> QED
      BY <2>2, <3>1 DEF Unread
  <2> HIDE DEF bytes
  <2>6. Unread \o pipe = bytes \o (Unread' \o pipe')
    <3> DEFINE left == SubSeq(rio_buf, rio_bufptr + cnt + 1, rio_bufptr + rio_cnt)
    <3>1. /\ left \in Bytes /\ Unread' = left /\ pipe' = pipe
          /\ Unread = bytes \o left
      BY <2>2, <2>4, <2>5
    <3> HIDE DEF left
    <3>2. bytes \in Bytes /\ left \in Bytes /\ pipe \in Bytes
      BY <2>1, <2>4, <3>1
    <3>3. (bytes \o left) \o pipe = bytes \o (left \o pipe)
      BY <3>2, MovedOn
    <3> QED
      BY <3>1, <3>3
  <2>7. /\ Len(bytes) > 0
        /\ IF reader = "readlineb" THEN Len(bytes) = 1
           ELSE Len(bytes) <= want - Len(usrbuf)
    BY <2>1, <2>3, <2>4 DEF Calling
  <2>8. [Stream!Next]_Stream!vars
    BY <2>1, <2>2, <2>4, <2>5, <2>6, <2>7, StoreImplements
  <2>9. /\ usrbuf' \in Bytes /\ handed' \in Bytes /\ want' \in Nat /\ CallInv'
        /\ reader' \in {"idle", "readn", "readnb", "readlineb", "exited"}
    BY <2>1, <2>2, <2>4, <2>7, StoreKeeps
  <2>10. /\ rio_bufptr' \in Nat /\ rio_cnt' \in Int
         /\ rio_bufptr' + rio_cnt' <= Len(rio_buf)
    BY <2>1, <2>2, <2>3
  <2>11. RioInv'
    BY <2>1, <2>2, <2>9, <2>10 DEF RioInv, TypeOK, BufferInv, writing
  <2> QED
    BY <2>8, <2>11
<1> QED
  BY <1>1, <1>2, <1>3, <1>4 DEF Reader
-------------------------------------------------------------------------------
\* The Rio package implements the stream of bytes, whatever the bytes, the sizes
\* of the buffer and the pipe, and the short counts, signals and errors
\* (csapp.c 518-674).
THEOREM StreamIsImplemented == Spec => StreamImplemented
<1>1. Init => RioInv /\ Stream!Init
  <2> SUFFICES ASSUME Init PROVE RioInv /\ Stream!Init
    OBVIOUS
  <2>1. <<>> \in Bytes
    BY EmptySeq DEF Bytes
  <2>2. RioInv
    BY <2>1 DEF Init, RioInv, TypeOK, BufferInv, CallInv
  <2>3. Queue = <<>>
    <3>1. Unread = <<>>
      BY <2>2, QueueParts DEF Init
    <3> QED
      BY <2>1, <3>1, MovedOn DEF Queue, Init
  <2> QED
    BY <2>2, <2>3 DEF Init, Stream!Init, Stream!NoRequest, RequestOf, Queue
<1>2. RioInv /\ [Next]_vars => RioInv' /\ [Stream!Next]_Stream!vars
  <2> SUFFICES ASSUME RioInv, [Next]_vars PROVE RioInv' /\ [Stream!Next]_Stream!vars
    OBVIOUS
  <2>1. CASE UNCHANGED vars
    BY <2>1 DEF vars, writing, reading, rio, env, RioInv, TypeOK, BufferInv, CallInv, Lacking,
      Stream!vars, RequestOf, Unread
  <2> QED
    BY <2>1, WriterStep, ReaderStep DEF Next
<1> QED
  BY <1>1, <1>2, PTL DEF Spec, StreamImplemented, Stream!Spec
==================================================================================
