------------------------------- MODULE Command -------------------------------
(***************************************************************************)
(* The messages of the bank simulation (command.h, command.c) and the      *)
(* pipes that carry them (banksim.c).  A message is the record of the five *)
(* fields that cmd_pack lays out in 17 bytes and cmd_unpack reads back;    *)
(* module Packing checks that the byte layout loses nothing, so the pipes  *)
(* carry the records themselves.                                           *)
(***************************************************************************)
EXTENDS Integers, Sequences

CONSTANTS
  AtmCount,      \* number of ATM processes, from the header of the trace
  AccountCount,  \* number of accounts, from the header of the trace
  IntBound,      \* an int ranges over -IntBound .. IntBound-1 (2^31 in the code)
  PipeCapacity   \* messages a pipe holds before write(2) blocks

ASSUME CountsAssumption == AtmCount \in Nat /\ AccountCount \in Nat
ASSUME BoundsAssumption == IntBound \in Nat \ {0} /\ PipeCapacity \in Nat \ {0}

Atms     == 0 .. AtmCount - 1
Accounts == 0 .. AccountCount - 1

\* What storing n in a C int leaves: the build wraps on signed overflow.
Wrap(n) == ((n + IntBound) % (2 * IntBound)) - IntBound
CInt    == -IntBound .. IntBound - 1

OK       == 0
CONNECT  == 1
EXIT     == 2
DEPOSIT  == 3
WITHDRAW == 4
TRANSFER == 5
BALANCE  == 6
NOFUNDS  == 7
ATMUNKN  == 8
ACCUNKN  == 9

\* The command bytes an ATM may forward and the bank serves.
Requests == {CONNECT, EXIT, DEPOSIT, WITHDRAW, TRANSFER, BALANCE}

Commands == [cmd : 0 .. 255, id : CInt, from : CInt, to : CInt, amt : CInt]

Pack(c, i, f, t, a) == [cmd |-> c, id |-> i, from |-> f, to |-> t, amt |-> a]

MsgOk(i, f, t, a)       == Pack(OK, i, f, t, a)
MsgNoFunds(i, f, a)     == Pack(NOFUNDS, i, f, -1, a)
MsgConnect(i)           == Pack(CONNECT, i, -1, -1, -1)
MsgExit(i)              == Pack(EXIT, i, -1, -1, -1)
MsgDeposit(i, t, a)     == Pack(DEPOSIT, i, -1, t, a)
MsgWithdraw(i, f, a)    == Pack(WITHDRAW, i, f, -1, a)
MsgTransfer(i, f, t, a) == Pack(TRANSFER, i, f, t, a)
MsgBalance(i, f)        == Pack(BALANCE, i, f, -1, -1)
MsgAccUnkn(i, t)        == Pack(ACCUNKN, i, -1, t, -1)

VARIABLES
  bankIn,   \* the pipe every ATM writes and the bank reads, oldest first
  replies   \* replies[i]: the pipe from the bank to ATM i

pipes == <<bankIn, replies>>

PipesInit ==
  /\ bankIn = <<>>
  /\ replies = [i \in Atms |-> <<>>]

\* write(2) on a pipe: all 17 bytes or, while the pipe is full, not yet.
\* The parent holds a reading end of every pipe until all its children are
\* gone, so a write never fails with EPIPE.
WriteBank(m) ==
  /\ Len(bankIn) < PipeCapacity
  /\ bankIn' = Append(bankIn, m)

WriteReply(i, m) ==
  /\ Len(replies[i]) < PipeCapacity
  /\ replies' = [replies EXCEPT ![i] = Append(@, m)]

\* read(2): the oldest message; the reader blocks on an empty pipe.  The
\* parent also holds every writing end, so end-of-file is never seen.
ReadBank ==
  /\ bankIn # <<>>
  /\ bankIn' = Tail(bankIn)

ReadReply(i) ==
  /\ replies[i] # <<>>
  /\ replies' = [replies EXCEPT ![i] = Tail(@)]
==============================================================================
