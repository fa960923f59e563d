---------------------------------- MODULE Atm ----------------------------------
(***************************************************************************)
(* The ATM processes (atm.c) and the trace file they all read (trace.c).   *)
(* Every ATM opens the same trace, skips the commands of the others, sends *)
(* its own to the bank and waits for the reply before it reads on.         *)
(*                                                                         *)
(* trace_read_cmd reads into one buffer per ATM.  A last record cut short  *)
(* still counts as read (the result is only compared with 0), and leaves   *)
(* the fields it does not reach as the record before left them.  As every  *)
(* ATM reads every record, the buffer is a function of the position.       *)
(***************************************************************************)
EXTENDS Command

CONSTANTS
  Traces,   \* the trace files: [cmds : Seq(Commands), whole : 1..5], where
            \* whole is how many fields of the last record the file holds
  Faults    \* which system calls may fail: a subset of {"open", "fork"}

TraceFiles == [cmds : Seq(Commands), whole : 1 .. 5]

ASSUME TracesAssumption ==
  /\ Traces \subseteq TraceFiles
  /\ \A f \in Traces : Len(f.cmds) <= 1 => f.whole = 5
ASSUME FaultsAssumption == Faults \subseteq {"open", "fork"}

VARIABLES
  trace,   \* the trace file of this execution
  atmPc,   \* "unforked", "open", "read", "send", "wait", "done" or "failed"
  pos      \* how many records each ATM has read

atmVars == <<trace, atmPc, pos>>

AtmPcs == {"unforked", "open", "read", "send", "wait", "done", "failed"}

AtmInit ==
  /\ trace \in Traces
  /\ atmPc = [i \in Atms |-> "unforked"]
  /\ pos = [i \in Atms |-> 0]

FieldRank == [cmd |-> 1, id |-> 2, from |-> 3, to |-> 4, amt |-> 5]

\* The command buffer after k records of the trace have been read into it.
Buffer(k) ==
  IF k < Len(trace.cmds) \/ trace.whole = 5
  THEN trace.cmds[k]
  ELSE [x \in DOMAIN FieldRank |->
          trace.cmds[IF FieldRank[x] <= trace.whole THEN k ELSE k - 1][x]]

\* The command ATM i has read last, and the one it reads next.
Current(i) == Buffer(pos[i])
Upcoming(i) == Buffer(pos[i] + 1)

AtmAt(i, pc)  == atmPc[i] = pc
AtmGoto(i, pc) == atmPc' = [atmPc EXCEPT ![i] = pc]

TraceOpen(i) ==
  /\ AtmAt(i, "open")
  /\ AtmGoto(i, "read")
  /\ UNCHANGED <<pipes, trace, pos>>

\* The trace could be opened by the parent and is no longer there, or the
\* process is out of descriptors: atm_run returns ERR_BAD_TRACE_FILE.
TraceOpenFails(i) ==
  /\ "open" \in Faults
  /\ AtmAt(i, "open")
  /\ AtmGoto(i, "failed")
  /\ UNCHANGED <<pipes, trace, pos>>

ReadRecord(i) ==
  /\ AtmAt(i, "read")
  /\ pos[i] < Len(trace.cmds)
  /\ pos' = [pos EXCEPT ![i] = @ + 1]
  /\ UNCHANGED <<pipes, trace>>

\* Mutant: an ATM may skip a record of its own.
SkipAnyRecord(i) ==
  /\ ReadRecord(i)
  /\ UNCHANGED atmPc

\* ERR_UNKNOWN_ATM: the record is for another ATM.
SkipRecord(i) ==
  /\ ReadRecord(i)
  /\ Upcoming(i).id # i
  /\ UNCHANGED atmPc

\* Mutant: whatever its own record asks, the ATM forwards it.
TakeAnyRecord(i) ==
  /\ ReadRecord(i)
  /\ Upcoming(i).id = i
  /\ AtmGoto(i, "send")

TakeRecord(i) ==
  /\ ReadRecord(i)
  /\ Upcoming(i).id = i
  /\ Upcoming(i).cmd \in Requests
  /\ AtmGoto(i, "send")

\* ERR_UNKNOWN_CMD ends the process, nothing having been sent.
RejectRecord(i) ==
  /\ ReadRecord(i)
  /\ Upcoming(i).id = i
  /\ Upcoming(i).cmd \notin Requests
  /\ AtmGoto(i, "failed")

EndOfTrace(i) ==
  /\ AtmAt(i, "read")
  /\ pos[i] = Len(trace.cmds)
  /\ AtmGoto(i, "done")
  /\ UNCHANGED <<pipes, trace, pos>>

\* Mutant: the ATM does not wait for the reply.
SendAndGoOn(i) ==
  /\ AtmAt(i, "send")
  /\ WriteBank(Current(i))
  /\ AtmGoto(i, "read")
  /\ UNCHANGED <<replies, trace, pos>>

Send(i) ==
  /\ AtmAt(i, "send")
  /\ WriteBank(Current(i))
  /\ AtmGoto(i, "wait")
  /\ UNCHANGED <<replies, trace, pos>>

\* atm_run goes on after SUCCESS, ERR_NOFUNDS and ERR_UNKNOWN_ACCOUNT; any
\* other reply is ERR_UNKNOWN_CMD and ends the process.
Tolerated == {OK, NOFUNDS, ACCUNKN}

Receive(i) ==
  /\ AtmAt(i, "wait")
  /\ ReadReply(i)
  /\ AtmGoto(i, IF Head(replies[i]).cmd \in Tolerated THEN "read" ELSE "failed")
  /\ UNCHANGED <<bankIn, trace, pos>>

AtmNext(i) ==
  \/ TraceOpen(i) \/ TraceOpenFails(i)
  \/ SkipRecord(i) \/ TakeRecord(i) \/ RejectRecord(i) \/ EndOfTrace(i)
  \/ Send(i) \/ Receive(i)

AtmTypeOK ==
  /\ trace \in Traces
  /\ atmPc \in [Atms -> AtmPcs]
  /\ pos \in [Atms -> 0 .. Len(trace.cmds)]

\* Processes that have exited.
AtmsExited == {i \in Atms : atmPc[i] \in {"done", "failed"}}
==============================================================================
