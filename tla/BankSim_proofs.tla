----------------------------- MODULE BankSim_proofs -----------------------------
(***************************************************************************)
(* Proofs about the bank simulation, for any number of ATMs and accounts,  *)
(* any pipe capacity, any trace files and any set of failing calls: the    *)
(* protocol between the processes first, then that it implements the       *)
(* ledger, then what the bank has served and how it books it.  At the end  *)
(* the bank alone, against any client (module BankAlone).                  *)
(***************************************************************************)
EXTENDS BankSimLedger, BankAlone, FiniteSetTheorems, Sums_proofs, SequenceTheorems

\* The ints the code names are in range.
LEMMA CIntFacts == CInt \subseteq Int /\ 0 \in CInt /\ -1 \in CInt /\ IntBound \in Int
  BY BoundsAssumption DEF CInt

\* What a C int holds after a wrap is a C int again.
LEMMA WrapInRange ==
  ASSUME NEW n \in Int
  PROVE  Wrap(n) \in CInt
  BY BoundsAssumption DEF Wrap, CInt

\* Every message the code builds from ints is a command.
LEMMA PackType ==
  ASSUME NEW c \in 0 .. 255, NEW i \in CInt, NEW f \in CInt, NEW t \in CInt, NEW a \in CInt
  PROVE  Pack(c, i, f, t, a) \in Commands
  BY DEF Pack, Commands

\* What a read leaves in the buffer of an ATM is a command.
LEMMA BufferType ==
  ASSUME trace \in Traces, NEW k \in 1 .. Len(trace.cmds)
  PROVE  Buffer(k) \in Commands
<1>1. trace \in TraceFiles
  BY TracesAssumption
<1>2. trace.cmds \in Seq(Commands) /\ trace.whole \in 1 .. 5
  BY <1>1 DEF TraceFiles
<1>3. CASE k < Len(trace.cmds) \/ trace.whole = 5
  BY <1>2, <1>3 DEF Buffer
<1>4. CASE ~ (k < Len(trace.cmds) \/ trace.whole = 5)
  <2>1. k > 1
    BY <1>2, <1>4, TracesAssumption
  <2>2. trace.cmds[k] \in Commands /\ trace.cmds[k - 1] \in Commands
    BY <1>2, <2>1
  <2>3. Buffer(k) = [x \in DOMAIN FieldRank |->
          trace.cmds[IF FieldRank[x] <= trace.whole THEN k ELSE k - 1][x]]
    BY <1>4 DEF Buffer
  <2>4. DOMAIN FieldRank = {"cmd", "id", "from", "to", "amt"}
    BY DEF FieldRank
  <2> QED
    BY <2>2, <2>3, <2>4 DEF Commands
<1> QED
  BY <1>3, <1>4

-------------------------------------------------------------------------------
\* The types of the pipes, of the bank, of the ATMs and of the parent.
USE DEF RequestOf

\* The programs start with values of the right types.
LEMMA InitType == Init => TypeOK
<1> SUFFICES ASSUME Init PROVE TypeOK
  OBVIOUS
<1>1. MsgOk(0, 0, 0, 0) \in Commands
  BY PackType, CIntFacts DEF MsgOk, OK
<1>2. trace \in TraceFiles
  BY TracesAssumption DEF Init, AtmInit
<1>3. Len(trace.cmds) \in Nat
  BY <1>2 DEF TraceFiles
<1>4. BankTypeOK
  BY <1>1, CIntFacts, CountsAssumption
  DEF Init, PipesInit, BankInit, BankTypeOK, BankPcs
<1>5. AtmTypeOK
  BY <1>3 DEF Init, AtmInit, AtmTypeOK, AtmPcs
<1> QED
  BY <1>4, <1>5, CountsAssumption DEF Init, TypeOK

\* The buffers of the ATMs hold commands once something has been read.
LEMMA CurrentType ==
  ASSUME TypeOK, NEW i \in Atms
  PROVE  /\ Len(trace.cmds) \in Nat
         /\ pos[i] \in 0 .. Len(trace.cmds)
         /\ pos[i] > 0 => Current(i) \in Commands
         /\ pos[i] < Len(trace.cmds) => Upcoming(i) \in Commands
<1>1. trace \in TraceFiles
  BY TracesAssumption DEF TypeOK, AtmTypeOK
<1>2. Len(trace.cmds) \in Nat /\ pos[i] \in 0 .. Len(trace.cmds)
  BY <1>1 DEF TraceFiles, TypeOK, AtmTypeOK
<1> QED
  BY <1>2, BufferType DEF TypeOK, AtmTypeOK, Current, Upcoming

\* A step of an ATM keeps the types.
LEMMA AtmType ==
  ASSUME TypeOK, RequestsUnderWay, NEW i \in Atms, AtmStep(i)
  PROVE  TypeOK'
<1> USE DEF TypeOK, AtmTypeOK, BankTypeOK, AtmStep, AtmGoto, AtmAt, AtmPcs,
            bankVars, parentVars, pipes
<1>0. Len(trace.cmds) \in Nat
  BY CurrentType
<1>1. CASE TraceOpen(i)
  BY <1>1 DEF TraceOpen
<1>2. CASE TraceOpenFails(i)
  BY <1>2 DEF TraceOpenFails
<1>3. CASE ReadRecord(i) /\ (UNCHANGED atmPc \/ AtmGoto(i, "send") \/ AtmGoto(i, "failed"))
  <2>1. pos[i] \in 0 .. Len(trace.cmds) /\ pos[i] + 1 \in 0 .. Len(trace.cmds)
    BY <1>0, <1>3, CurrentType DEF ReadRecord
  <2>2. pos' \in [Atms -> 0 .. Len(trace.cmds)] /\ trace' = trace
    BY <1>3, <2>1 DEF ReadRecord
  <2>3. atmPc' \in [Atms -> AtmPcs]
    BY <1>3
  <2> QED
    BY <1>3, <2>2, <2>3 DEF ReadRecord
<1>4. CASE EndOfTrace(i)
  BY <1>4 DEF EndOfTrace
<1>5. CASE Send(i)
  <2>1. Current(i) \in Commands
    BY <1>5, CurrentType DEF Send, RequestsUnderWay
  <2> QED
    BY <1>5, <2>1 DEF Send, WriteBank
<1>6. CASE Receive(i)
  BY <1>6 DEF Receive, ReadReply
<1> QED
  BY <1>1, <1>2, <1>3, <1>4, <1>5, <1>6
  DEF AtmNext, SkipRecord, TakeRecord, RejectRecord

\* The handler's answers keep the types.
LEMMA AnswerType ==
  ASSUME BankTypeOK, NEW m \in Commands, ValidAtm(bankCmd.id), Answer(m),
         accounts' \in [Accounts -> CInt], atmCnt' \in Int
  PROVE  BankTypeOK'
<1>1. m.cmd \in 0 .. 255 /\ bankCmd.id \in Atms
  BY DEF Commands, ValidAtm
<1>2. [request |-> bankCmd, code |-> m.cmd] \in [request : Commands, code : 0 .. 255]
  BY <1>1 DEF BankTypeOK
<1> QED
  BY <1>1, <1>2 DEF Answer, WriteReply, BankTypeOK, BankPcs

\* The messages the handler builds from a request are commands.
LEMMA ReplyTypes ==
  ASSUME BankTypeOK
  PROVE  /\ \A a \in CInt : MsgOk(0, bankCmd.from, bankCmd.to, a) \in Commands
         /\ MsgOk(0, bankCmd.from, bankCmd.to, bankCmd.amt) \in Commands
         /\ MsgNoFunds(0, bankCmd.from, bankCmd.amt) \in Commands
         /\ MsgAccUnkn(0, bankCmd.to) \in Commands
         /\ MsgAccUnkn(0, bankCmd.from) \in Commands
<1>1. /\ bankCmd.from \in CInt /\ bankCmd.to \in CInt /\ bankCmd.amt \in CInt
      /\ OK \in 0 .. 255 /\ NOFUNDS \in 0 .. 255 /\ ACCUNKN \in 0 .. 255
  BY DEF BankTypeOK, Commands, OK, NOFUNDS, ACCUNKN
<1>2. \A a \in CInt : MsgOk(0, bankCmd.from, bankCmd.to, a) \in Commands
  BY <1>1, PackType, CIntFacts DEF MsgOk
<1>3. MsgNoFunds(0, bankCmd.from, bankCmd.amt) \in Commands
  BY <1>1, PackType, CIntFacts DEF MsgNoFunds
<1>4. MsgAccUnkn(0, bankCmd.to) \in Commands /\ MsgAccUnkn(0, bankCmd.from) \in Commands
  BY <1>1, PackType, CIntFacts DEF MsgAccUnkn
<1> QED
  BY <1>1, <1>2, <1>3, <1>4

\* Crediting and debiting keep the balances ints.
LEMMA BookType ==
  ASSUME NEW book \in [Accounts -> CInt], NEW x \in Accounts, NEW a \in CInt
  PROVE  /\ Credit(book, x, a) \in [Accounts -> CInt]
         /\ Debit(book, x, a) \in [Accounts -> CInt]
<1>1. book[x] \in Int /\ a \in Int
  BY CIntFacts
<1>2. Wrap(book[x] + a) \in CInt
  BY <1>1, WrapInRange
<1>3. Wrap(book[x] - a) \in CInt
  BY <1>1, WrapInRange
<1> QED
  BY <1>2, <1>3 DEF Credit, Debit

\* A step of the bank keeps the types, whoever writes into its pipe: one case
\* for each command.
LEMMA BankType ==
  ASSUME BankTypeOK, BankNext
  PROVE  BankTypeOK'
<1>1. CASE BankOpen
  BY <1>1, CIntFacts, CountsAssumption DEF BankOpen, BankTypeOK, BankPcs, pipes
<1>2. CASE ReadRequest
  BY <1>2 DEF ReadRequest, ReadBank, BankTypeOK, BankPcs
<1>3. CASE Close \/ IgnoreUnknownAtm \/ FailUnknownCommand
  BY <1>3 DEF Close, IgnoreUnknownAtm, FailUnknownCommand, BankTypeOK, BankPcs, pipes
<1>4. /\ accounts \in [Accounts -> CInt] /\ atmCnt \in Int
      /\ bankCmd.amt \in CInt
  BY DEF BankTypeOK, Commands
<1>5. atmCnt - 1 \in Int
  BY <1>4
<1>6. CASE ServeConnect
  BY <1>4, <1>6, AnswerType, ReplyTypes DEF ServeConnect, Serving, Acknowledge
<1>7. CASE ServeExit
  BY <1>4, <1>5, <1>7, AnswerType, ReplyTypes DEF ServeExit, Serving, Acknowledge
<1>8. CASE ServeDeposit
  <2>1. accounts' \in [Accounts -> CInt]
    BY <1>4, <1>8, BookType DEF ServeDeposit, ValidAccount
  <2>2. PICK m \in Commands : Answer(m)
    BY <1>8, ReplyTypes DEF ServeDeposit, Acknowledge
  <2>3. ValidAtm(bankCmd.id) /\ atmCnt' = atmCnt
    BY <1>8 DEF ServeDeposit, Serving
  <2> QED
    BY <1>4, <2>1, <2>2, <2>3, AnswerType
<1>9. CASE ServeWithdraw
  <2>1. accounts' \in [Accounts -> CInt]
    BY <1>4, <1>9, BookType DEF ServeWithdraw, ValidAccount
  <2>2. PICK m \in Commands : Answer(m)
    BY <1>9, ReplyTypes DEF ServeWithdraw, Acknowledge
  <2>3. ValidAtm(bankCmd.id) /\ atmCnt' = atmCnt
    BY <1>9 DEF ServeWithdraw, Serving
  <2> QED
    BY <1>4, <2>1, <2>2, <2>3, AnswerType
<1>10. CASE ServeTransfer
  <2>1. accounts' \in [Accounts -> CInt]
    <3>1. CASE UNCHANGED accounts
      BY <1>4, <3>1
    <3>2. CASE /\ bankCmd.from \in Accounts /\ bankCmd.to \in Accounts
               /\ accounts' = Credit(Debit(accounts, bankCmd.from, bankCmd.amt),
                                      bankCmd.to, bankCmd.amt)
      <4>1. Debit(accounts, bankCmd.from, bankCmd.amt) \in [Accounts -> CInt]
        BY <1>4, <3>2, BookType
      <4> QED
        BY <1>4, <3>2, <4>1, BookType
    <3> QED
      BY <1>10, <3>1, <3>2 DEF ServeTransfer, ValidAccount
  <2>2. PICK m \in Commands : Answer(m)
    BY <1>10, ReplyTypes DEF ServeTransfer, Acknowledge
  <2>3. ValidAtm(bankCmd.id) /\ atmCnt' = atmCnt
    BY <1>10 DEF ServeTransfer, Serving
  <2> QED
    BY <1>4, <2>1, <2>2, <2>3, AnswerType
<1>11. CASE ServeBalance
  <2>1. WordsAt(bankCmd.id) \subseteq CInt
    BY <1>4, HeapAssumption DEF WordsAt, ValidAccount
  <2> QED
    BY <1>4, <1>11, <2>1, AnswerType, ReplyTypes DEF ServeBalance, Serving
<1> QED
  BY <1>1, <1>2, <1>3, <1>6, <1>7, <1>8, <1>9, <1>10, <1>11 DEF BankNext, Serve

\* Forking and waiting keep the types.
LEMMA ParentType ==
  ASSUME TypeOK, Parent
  PROVE  TypeOK'
<1> USE DEF TypeOK, BankTypeOK, AtmTypeOK, AtmGoto, AtmPcs, BankPcs, atmVars, bankVars, pipes
<1>0. AtmCount \in Nat
  BY CountsAssumption
<1>1. CASE ForkAtm
  <2>1. forked + 1 \in 0 .. AtmCount + 1
    BY <1>0, <1>1 DEF ForkAtm
  <2> QED
    BY <1>1, <2>1 DEF ForkAtm
<1>2. CASE ForkBank
  BY <1>0, <1>2 DEF ForkBank
<1>3. CASE ForkFails
  BY <1>0, <1>3 DEF ForkFails
<1>4. CASE Reap \/ WaitWithoutChild
  BY <1>0, <1>4 DEF Reap, WaitWithoutChild, Waiting
<1> QED
  BY <1>1, <1>2, <1>3, <1>4 DEF Parent

-------------------------------------------------------------------------------
\* The protocol invariant, action by action.  Every step but those of ATM i
\* leaves what is under way for i alone.

\* Appending a message of ATM i to the bank's pipe adds its index to the
\* messages of i and to nobody else's.
LEMMA InPipeAfterSend ==
  ASSUME bankIn \in Seq(Commands), NEW m \in Commands, NEW j,
         bankIn' = Append(bankIn, m)
  PROVE  InPipe(j)' = IF m.id = j THEN InPipe(j) \cup {Len(bankIn) + 1} ELSE InPipe(j)
  BY DEF InPipe

\* Taking the oldest message shifts the others.
LEMMA InPipeAfterRead ==
  ASSUME bankIn \in Seq(Commands), bankIn # <<>>, NEW j,
         bankIn' = Tail(bankIn)
  PROVE  InPipe(j)' = {k \in 1 .. Len(bankIn) - 1 : bankIn[k + 1].id = j}
  BY DEF InPipe

\* Nothing is under way when the programs start.
LEMMA InitProtocol == Init => ProtocolInv
<1> SUFFICES ASSUME Init PROVE ProtocolInv
  OBVIOUS
<1>1. TypeOK
  BY InitType
<1>2. DOMAIN bankIn = {}
  BY DEF Init, PipesInit
<1>3. \A i \in Atms : InPipe(i) = {}
  BY <1>2 DEF InPipe
<1> QED
  BY <1>1, <1>2, <1>3
  DEF Init, PipesInit, BankInit, AtmInit, ProtocolInv, RequestsUnderWay,
      NotYetForked, OneOutstanding, AtBank, BankNeverFails

\* An ATM that sends puts its current request under way and waits; nothing else
\* of an ATM touches what is under way.
LEMMA AtmProtocol ==
  ASSUME ProtocolInv, NEW i \in Atms, AtmStep(i)
  PROVE  ProtocolInv'
<1> USE DEF ProtocolInv, AtmStep, bankVars, parentVars
<1>1. TypeOK'
  BY AtmType
<1>2. BankNeverFails'
  BY DEF BankNeverFails
<1>9. NotYetForked'
  <2>1. atmPc[i] # "unforked" /\ \A j \in Atms : j # i => atmPc'[j] = atmPc[j]
    BY DEF AtmNext, TraceOpen, TraceOpenFails, SkipRecord, TakeRecord, RejectRecord,
           ReadRecord, EndOfTrace, Send, Receive, AtmAt, AtmGoto, TypeOK, AtmTypeOK
  <2> QED
    BY <2>1 DEF NotYetForked
<1>3. /\ bankIn \in Seq(Commands) /\ replies \in [Atms -> Seq(Commands)]
      /\ atmPc \in [Atms -> AtmPcs] /\ pos \in [Atms -> 0 .. Len(trace.cmds)]
      /\ Len(trace.cmds) \in Nat
  BY CurrentType DEF TypeOK, BankTypeOK, AtmTypeOK
<1>4. CASE /\ atmPc[i] \notin {"send", "wait"}
           /\ UNCHANGED pipes /\ UNCHANGED trace
           /\ \E pc \in AtmPcs : AtmGoto(i, pc) /\ pc # "wait"
           /\ \A j \in Atms : j # i => pos'[j] = pos[j]
           /\ atmPc'[i] = "send" => pos'[i] > 0 /\ Current(i)'.id = i /\ Current(i)'.cmd \in Requests
  <2>1. \A j \in Atms : j # i => atmPc'[j] = atmPc[j] /\ Current(j)' = Current(j)
    BY <1>3, <1>4 DEF AtmGoto, Current, Buffer
  <2>2. atmPc'[i] # "wait"
    BY <1>3, <1>4 DEF AtmGoto
  <2>3. RequestsUnderWay'
    BY <1>4, <2>1, <2>2 DEF RequestsUnderWay, pipes
  <2>4. OneOutstanding'
    BY <1>4, <2>1, <2>2 DEF OneOutstanding, InPipe, AtBank, pipes
  <2> QED
    BY <1>1, <1>2, <1>9, <2>3, <2>4
<1>5. CASE TraceOpen(i) \/ TraceOpenFails(i) \/ EndOfTrace(i)
  BY <1>3, <1>4, <1>5 DEF TraceOpen, TraceOpenFails, EndOfTrace, AtmAt, AtmGoto, AtmPcs
<1>6. CASE SkipRecord(i) \/ TakeRecord(i) \/ RejectRecord(i)
  <2>1. Current(i)' = Upcoming(i) /\ pos'[i] = pos[i] + 1 /\ trace' = trace
    BY <1>3, <1>6 DEF SkipRecord, TakeRecord, RejectRecord, ReadRecord, Current, Upcoming, Buffer
  <2>2. \A j \in Atms : j # i => pos'[j] = pos[j]
    BY <1>3, <1>6 DEF SkipRecord, TakeRecord, RejectRecord, ReadRecord
  <2>3. /\ atmPc[i] = "read" /\ UNCHANGED pipes
        /\ \E pc \in {"read", "send", "failed"} : AtmGoto(i, pc)
        /\ atmPc'[i] = "send" => Upcoming(i).id = i /\ Upcoming(i).cmd \in Requests
    BY <1>3, <1>6 DEF SkipRecord, TakeRecord, RejectRecord, ReadRecord, AtmAt, AtmGoto
  <2> QED
    BY <1>3, <1>4, <2>1, <2>2, <2>3 DEF AtmPcs
<1>7. CASE Send(i)
  <2>1. /\ atmPc[i] = "send" /\ atmPc' = [atmPc EXCEPT ![i] = "wait"]
        /\ bankIn' = Append(bankIn, Current(i))
        /\ UNCHANGED <<replies, trace, pos, bankPc, bankCmd>>
    BY <1>7 DEF Send, AtmAt, AtmGoto, WriteBank
  <2>2. Current(i) \in Commands /\ Current(i).id = i /\ Current(i).cmd \in Requests
    BY <2>1, CurrentType DEF RequestsUnderWay
  <2>3. \A j \in Atms : Current(j)' = Current(j)
    BY <2>1 DEF Current, Buffer
  <2>4. /\ \A k \in 1 .. Len(bankIn) : bankIn'[k] = bankIn[k]
        /\ bankIn'[Len(bankIn) + 1] = Current(i)
        /\ DOMAIN bankIn' = 1 .. Len(bankIn) + 1
        /\ DOMAIN bankIn = 1 .. Len(bankIn)
    BY <1>3, <2>1, <2>2
  <2>5. RequestsUnderWay'
    BY <1>3, <2>1, <2>2, <2>3, <2>4 DEF RequestsUnderWay
  <2>6. ASSUME NEW j \in Atms
        PROVE  InPipe(j)' = IF j = i THEN InPipe(j) \cup {Len(bankIn) + 1} ELSE InPipe(j)
    BY <1>3, <2>1, <2>2, InPipeAfterSend
  <2>7. InPipe(i) = {} /\ ~ AtBank(i) /\ replies[i] = <<>>
    BY <2>1 DEF OneOutstanding
  <2>8. \A j \in Atms : AtBank(j)' = AtBank(j)
    BY <2>1 DEF AtBank
  <2>9. ASSUME NEW j \in Atms, j # i
        PROVE  OneOutstanding!(j)'
    <3>1. /\ atmPc'[j] = atmPc[j] /\ replies'[j] = replies[j]
          /\ InPipe(j)' = InPipe(j) /\ AtBank(j)' = AtBank(j)
      BY <1>3, <2>1, <2>6, <2>8, <2>9
    <3>2. \A k \in DOMAIN bankIn : k \in DOMAIN bankIn' /\ bankIn'[k] = bankIn[k]
      BY <1>3, <2>4
    <3> QED
      BY <2>1, <2>3, <2>9, <3>1, <3>2 DEF OneOutstanding
  <2>10. OneOutstanding!(i)'
    <3>1. InPipe(i)' = {Len(bankIn) + 1} /\ ~ AtBank(i)' /\ replies'[i] = <<>>
      BY <2>1, <2>6, <2>7, <2>8
    <3>2. Len(bankIn) + 1 \in DOMAIN bankIn'
      BY <1>3, <2>4
    <3> QED
      BY <1>3, <2>1, <2>3, <2>4, <3>1, <3>2
  <2>11. OneOutstanding'
    BY <2>9, <2>10 DEF OneOutstanding
  <2> QED
    BY <1>1, <1>2, <1>9, <2>5, <2>11
<1>8. CASE Receive(i)
  <2>1. /\ atmPc[i] = "wait" /\ replies[i] # <<>>
        /\ \E pc \in {"read", "failed"} : atmPc' = [atmPc EXCEPT ![i] = pc]
        /\ replies' = [replies EXCEPT ![i] = Tail(@)]
        /\ UNCHANGED <<bankIn, trace, pos, bankPc, bankCmd>>
    BY <1>8 DEF Receive, AtmAt, AtmGoto, ReadReply
  <2>2. \A j \in Atms : Current(j)' = Current(j)
    BY <2>1 DEF Current, Buffer
  <2>3. RequestsUnderWay'
    BY <1>3, <2>1, <2>2 DEF RequestsUnderWay
  <2>4. InPipe(i) = {} /\ ~ AtBank(i) /\ Len(replies[i]) = 1
    BY <2>1 DEF OneOutstanding
  <2>5. replies'[i] = <<>> /\ atmPc'[i] # "wait"
    BY <1>3, <2>1, <2>4
  <2>6. \A j \in Atms : j # i => replies'[j] = replies[j] /\ atmPc'[j] = atmPc[j]
    BY <1>3, <2>1
  <2>7. \A j \in Atms : InPipe(j)' = InPipe(j) /\ AtBank(j)' = AtBank(j)
    BY <2>1 DEF InPipe, AtBank
  <2>8. OneOutstanding'
    BY <2>1, <2>2, <2>4, <2>5, <2>6, <2>7 DEF OneOutstanding
  <2> QED
    BY <1>1, <1>2, <1>9, <2>3, <2>8
<1> QED
  BY <1>5, <1>6, <1>7, <1>8 DEF AtmNext

\* The bank takes the oldest request and answers its sender, so that what is
\* under way for each ATM stays at most one message.
LEMMA BankProtocol ==
  ASSUME ProtocolInv, BankStep
  PROVE  ProtocolInv'
<1> USE DEF ProtocolInv, BankStep, atmVars, parentVars
<1>1. TypeOK'
  BY BankType DEF TypeOK, AtmTypeOK
<1>0. NotYetForked'
  <2>1. bankPc # "unforked"
    BY DEF BankNext, BankOpen, ReadRequest, Close, Serve, ServeConnect, ServeExit,
           ServeDeposit, ServeWithdraw, ServeTransfer, ServeBalance, Serving,
           IgnoreUnknownAtm, FailUnknownCommand
  <2> QED
    BY <2>1 DEF NotYetForked
<1>2. /\ bankIn \in Seq(Commands) /\ replies \in [Atms -> Seq(Commands)]
      /\ atmPc \in [Atms -> AtmPcs]
  BY DEF TypeOK, BankTypeOK, AtmTypeOK
<1>3. \A j \in Atms : Current(j)' = Current(j)
  BY DEF Current, Buffer
<1>4. ASSUME UNCHANGED pipes, bankPc' # "serve", bankPc' # "failed", bankPc # "serve"
      PROVE  ProtocolInv'
  <2>1. \A j \in Atms : InPipe(j)' = InPipe(j) /\ ~ AtBank(j)' /\ ~ AtBank(j)
    BY <1>4 DEF InPipe, AtBank, pipes
  <2>2. OneOutstanding'
    BY <1>3, <1>4, <2>1 DEF OneOutstanding, pipes
  <2>3. RequestsUnderWay' /\ BankNeverFails'
    BY <1>3, <1>4 DEF RequestsUnderWay, BankNeverFails, pipes
  <2> QED
    BY <1>0, <1>1, <2>2, <2>3
<1>5. CASE BankOpen \/ Close
  BY <1>4, <1>5 DEF BankOpen, Close
<1>6. CASE IgnoreUnknownAtm \/ FailUnknownCommand
  BY <1>6 DEF IgnoreUnknownAtm, FailUnknownCommand, ValidAtm, BankNeverFails
<1>7. CASE ReadRequest
  <2>1. /\ bankPc = "read" /\ bankPc' = "serve" /\ bankIn # <<>>
        /\ bankIn' = Tail(bankIn) /\ bankCmd' = Head(bankIn)
        /\ UNCHANGED <<replies, atmPc, pos, trace>>
    BY <1>7 DEF ReadRequest, ReadBank
  <2>2. /\ DOMAIN bankIn = 1 .. Len(bankIn) /\ Len(bankIn) \in Nat /\ Len(bankIn) > 0
        /\ bankCmd' = bankIn[1]
        /\ DOMAIN bankIn' = 1 .. Len(bankIn) - 1
        /\ \A k \in 1 .. Len(bankIn) - 1 : bankIn'[k] = bankIn[k + 1]
    BY <1>2, <2>1
  <2>3. RequestsUnderWay' /\ BankNeverFails'
    BY <1>3, <2>1, <2>2 DEF RequestsUnderWay, BankNeverFails
  <2>4. ASSUME NEW j \in Atms
        PROVE  InPipe(j)' = {k \in 1 .. Len(bankIn) - 1 : bankIn[k + 1].id = j}
    BY <1>2, <2>1, InPipeAfterRead
  <2>5. \A j \in Atms : ~ AtBank(j) /\ (AtBank(j)' <=> bankIn[1].id = j)
    BY <2>1, <2>2 DEF AtBank
  <2>6. SUFFICES ASSUME NEW j \in Atms
                 PROVE  OneOutstanding!(j)'
    BY <1>0, <1>1, <2>3 DEF OneOutstanding
  <2>7. CASE InPipe(j) = {}
    <3>1. InPipe(j)' = {} /\ ~ AtBank(j)'
      BY <2>2, <2>4, <2>5, <2>7 DEF InPipe
    <3> QED
      BY <1>3, <2>1, <2>5, <2>7, <3>1 DEF OneOutstanding
  <2>8. ASSUME NEW n \in DOMAIN bankIn, InPipe(j) = {n}, bankIn[n] = Current(j),
               replies[j] = <<>>, atmPc[j] = "wait", n = 1
        PROVE  OneOutstanding!(j)'
    <3>1. InPipe(j)' = {} /\ AtBank(j)' /\ bankCmd' = Current(j)
      BY <2>2, <2>4, <2>5, <2>8 DEF InPipe
    <3> QED
      BY <1>3, <2>1, <2>8, <3>1
  <2>9. ASSUME NEW n \in DOMAIN bankIn, InPipe(j) = {n}, bankIn[n] = Current(j),
               replies[j] = <<>>, atmPc[j] = "wait", n # 1
        PROVE  OneOutstanding!(j)'
    <3>1. n - 1 \in 1 .. Len(bankIn) - 1 /\ (n - 1) + 1 = n
      BY <2>2, <2>9
    <3>2. n - 1 \in DOMAIN bankIn' /\ bankIn'[n - 1] = bankIn[n]
      BY <2>2, <3>1
    <3>3. InPipe(j)' = {n - 1} /\ ~ AtBank(j)'
      <4>1. \A k \in 1 .. Len(bankIn) : bankIn[k].id = j <=> k = n
        BY <2>2, <2>9 DEF InPipe
      <4>2. \A k \in 1 .. Len(bankIn) - 1 : bankIn[k + 1].id = j <=> k = n - 1
        BY <2>2, <3>1, <4>1
      <4>3. 1 \in 1 .. Len(bankIn) /\ bankIn[1].id # j
        BY <2>2, <2>9, <4>1
      <4> QED
        BY <2>4, <2>5, <3>1, <4>2, <4>3
    <3> QED
      BY ONLY <1>3, <2>1, <2>9, <3>2, <3>3
  <2> QED
    BY <2>7, <2>8, <2>9 DEF OneOutstanding
<1>8. CASE Serve /\ ~ IgnoreUnknownAtm /\ ~ FailUnknownCommand
  <2>1. PICK m : Answer(m)
    BY <1>8 DEF Serve, ServeConnect, ServeExit, ServeDeposit, ServeWithdraw,
                ServeTransfer, ServeBalance, Acknowledge
  <2>2. bankPc = "serve"
    BY <1>8 DEF Serve, ServeConnect, ServeExit, ServeDeposit, ServeWithdraw,
                ServeTransfer, ServeBalance, Serving
  <2> DEFINE i == bankCmd.id
  <2>3. i \in Atms
    BY <2>2 DEF BankNeverFails
  <2>4. /\ bankPc' = "read" /\ UNCHANGED <<bankIn, bankCmd, atmPc, pos, trace>>
        /\ replies' = [replies EXCEPT ![i] = Append(@, m)]
    BY <2>1 DEF Answer, WriteReply
  <2>5. RequestsUnderWay' /\ BankNeverFails'
    BY <1>3, <2>4 DEF RequestsUnderWay, BankNeverFails
  <2>6. AtBank(i)
    BY <2>2 DEF AtBank
  <2>7. atmPc[i] = "wait" /\ InPipe(i) = {} /\ replies[i] = <<>>
    BY <2>3, <2>6 DEF OneOutstanding
  <2>8. Len(replies'[i]) = 1 /\ \A j \in Atms : j # i => replies'[j] = replies[j]
    BY <1>2, <2>3, <2>4, <2>7
  <2>9. \A j \in Atms : InPipe(j)' = InPipe(j) /\ ~ AtBank(j)' /\ (j # i => ~ AtBank(j))
    BY <2>4 DEF InPipe, AtBank
  <2>10. OneOutstanding'
    BY <1>3, <2>3, <2>4, <2>7, <2>8, <2>9 DEF OneOutstanding
  <2> QED
    BY <1>0, <1>1, <2>5, <2>10
<1> QED
  BY <1>5, <1>6, <1>7, <1>8 DEF BankNext, Serve

\* A child that is forked, or fails to be, has nothing under way.
LEMMA ParentProtocol ==
  ASSUME ProtocolInv, Parent
  PROVE  ProtocolInv'
<1> USE DEF ProtocolInv, atmVars, bankVars, pipes
<1>1. TypeOK'
  BY ParentType
<1>2. UNCHANGED <<bankIn, replies, bankCmd, trace, pos>>
  BY DEF Parent, ForkAtm, ForkBank, ForkFails, Reap, WaitWithoutChild
<1>3. \A j \in Atms : Current(j)' = Current(j) /\ InPipe(j)' = InPipe(j)
  BY <1>2 DEF Current, Buffer, InPipe
<1>4. forked \in Int /\ atmPc \in [Atms -> AtmPcs] /\ Atms \subseteq Int
  BY DEF TypeOK, AtmTypeOK, Atms
<1>5. CASE ForkAtm
  <2>1. /\ forked \in Atms /\ forked < AtmCount /\ forked' = forked + 1
        /\ atmPc' = [atmPc EXCEPT ![forked] = "open"] /\ bankPc' = bankPc
    BY <1>4, <1>5, CountsAssumption DEF ForkAtm, AtmGoto, Atms, TypeOK
  <2>2. atmPc[forked] = "unforked" /\ atmPc'[forked] = "open"
    BY <1>4, <2>1 DEF NotYetForked
  <2>3. \A j \in Atms : j # forked => atmPc'[j] = atmPc[j]
    BY <1>4, <2>1
  <2>4. NotYetForked'
    BY <1>4, <2>1, <2>3, CountsAssumption DEF NotYetForked
  <2>5. RequestsUnderWay' /\ BankNeverFails'
    BY <1>2, <1>3, <2>1, <2>2, <2>3 DEF RequestsUnderWay, BankNeverFails
  <2>6. \A j \in Atms : AtBank(j)' = AtBank(j)
    BY <1>2, <2>1 DEF AtBank
  <2>7. ASSUME NEW j \in Atms PROVE OneOutstanding!(j)'
    BY <1>2, <1>3, <2>2, <2>3, <2>6 DEF OneOutstanding
  <2>8. OneOutstanding'
    BY <2>7 DEF OneOutstanding
  <2> QED
    BY <1>1, <2>4, <2>5, <2>8
<1>6. CASE ForkBank \/ ForkFails \/ Reap \/ WaitWithoutChild
  <2>1. /\ atmPc' = atmPc /\ forked' \in {forked, forked + 1}
        /\ bankPc' = bankPc \/ (bankPc' = "open" /\ forked = AtmCount /\ forked' = AtmCount + 1)
    BY <1>6 DEF ForkBank, ForkFails, Reap, WaitWithoutChild
  <2>2. bankPc' # bankPc => bankPc = "unforked"
    BY <2>1, CountsAssumption DEF NotYetForked
  <2>3. NotYetForked'
    BY <1>4, <2>1, CountsAssumption DEF NotYetForked
  <2>4. RequestsUnderWay' /\ BankNeverFails'
    BY <1>2, <1>3, <2>1, <2>2 DEF RequestsUnderWay, BankNeverFails
  <2>5. \A j \in Atms : AtBank(j)' = AtBank(j)
    BY <1>2, <2>1, <2>2 DEF AtBank
  <2>6. OneOutstanding'
    BY <1>2, <1>3, <2>1, <2>5 DEF OneOutstanding
  <2> QED
    BY <1>1, <2>3, <2>4, <2>6
<1> QED
  BY <1>5, <1>6 DEF Parent

\* The protocol invariant is inductive.
LEMMA NextProtocol ==
  ASSUME ProtocolInv, [Next]_vars
  PROVE  ProtocolInv'
<1>1. CASE Parent
  BY <1>1, ParentProtocol
<1>2. CASE BankStep
  BY <1>2, BankProtocol
<1>3. CASE \E i \in Atms : AtmStep(i)
  BY <1>3, AtmProtocol
<1>4. CASE UNCHANGED vars
  <2> USE <1>4 DEF vars, pipes, bankVars, atmVars, parentVars, ProtocolInv
  <2>1. TypeOK'
    BY DEF TypeOK, BankTypeOK, AtmTypeOK
  <2>2. \A j \in Atms : Current(j)' = Current(j) /\ InPipe(j)' = InPipe(j)
    BY DEF Current, Buffer, InPipe
  <2>3. NotYetForked' /\ RequestsUnderWay' /\ BankNeverFails'
    BY <2>2 DEF NotYetForked, RequestsUnderWay, BankNeverFails
  <2>4. OneOutstanding'
    BY <2>2 DEF OneOutstanding, AtBank
  <2> QED
    BY <2>1, <2>3, <2>4
<1> QED
  BY <1>1, <1>2, <1>3, <1>4 DEF Next, Terminated

-------------------------------------------------------------------------------
\* Types and request/reply discipline hold in every execution.
THEOREM ProtocolInvariant == Spec => []ProtocolInv
  BY InitProtocol, NextProtocol, PTL DEF Spec

\* Every variable keeps its type in every execution: the balances remain C
\* ints whatever the trace asks, the ATMs never read past their trace.
THEOREM TypeCorrect == Spec => []TypeOK
<1>1. ProtocolInv => TypeOK
  BY DEF ProtocolInv
<1> QED
  BY <1>1, ProtocolInvariant, PTL

\* The protocol between any number of ATMs and the bank is strictly request
\* and reply, for every trace, pipe capacity and set of failing calls
\* (atm.c 77-82, bank.c 249-253).
THEOREM OneOutstandingHolds == Spec => []OneOutstanding
<1>1. ProtocolInv => OneOutstanding
  BY DEF ProtocolInv
<1> QED
  BY <1>1, ProtocolInvariant, PTL

\* No trace file can make the bank give up: the ATMs filter what they send.
THEOREM BankNeverFailsHolds == Spec => []BankNeverFails
<1>1. ProtocolInv => BankNeverFails
  BY DEF ProtocolInv
<1> QED
  BY <1>1, ProtocolInvariant, PTL

-------------------------------------------------------------------------------
\* The funds check.  An int in range is stored as it is.
LEMMA WrapIdentity ==
  ASSUME NEW n \in CInt
  PROVE  Wrap(n) = n
  BY BoundsAssumption DEF Wrap, CInt

\* A debit that is covered subtracts without a wrap.
LEMMA DebitCovered ==
  ASSUME NEW book \in [Accounts -> CInt], NEW f \in Accounts, NEW a \in CInt,
         a >= 0, book[f] >= a
  PROVE  /\ Debit(book, f, a) \in [Accounts -> CInt]
         /\ Debit(book, f, a)[f] = book[f] - a
         /\ \A x \in Accounts : x # f => Debit(book, f, a)[x] = book[x]
<1>1. book[f] - a \in CInt
  BY BoundsAssumption DEF CInt
<1>2. Wrap(book[f] - a) = book[f] - a
  BY <1>1, WrapIdentity
<1> QED
  BY <1>1, <1>2 DEF Debit

\* A credit that fits adds without a wrap.
LEMMA CreditFits ==
  ASSUME NEW book \in [Accounts -> CInt], NEW t \in Accounts, NEW a \in CInt,
         a >= 0, book[t] >= 0, book[t] + a < IntBound
  PROVE  /\ Credit(book, t, a)[t] = book[t] + a
         /\ \A x \in Accounts : x # t => Credit(book, t, a)[x] = book[x]
<1>1. book[t] + a \in CInt
  BY BoundsAssumption DEF CInt
<1>2. Wrap(book[t] + a) = book[t] + a
  BY <1>1, WrapIdentity
<1> QED
  BY <1>2 DEF Credit

\* A credit leaves the other accounts alone.
LEMMA CreditElsewhere ==
  ASSUME NEW book \in [Accounts -> CInt], NEW t \in Accounts, NEW a \in CInt,
         NEW x \in Accounts, x # t
  PROVE  Credit(book, t, a)[x] = book[x]
  BY DEF Credit

\* What happens to the bank is its own step, or nothing but that it is started.
BankMoves ==
  \/ BankNext
  \/ /\ UNCHANGED <<bankCmd, accounts, atmCnt, served>>
     /\ bankPc' = bankPc \/ (bankPc = "unforked" /\ bankPc' = "open")

Serves ==
  \/ ServeConnect \/ ServeExit \/ ServeDeposit \/ ServeWithdraw
  \/ ServeTransfer \/ ServeBalance

\* In the simulation and alone with a client.
LEMMA SimulationMoves == ProtocolInv /\ [Next]_vars => BankMoves
<1> SUFFICES ASSUME ProtocolInv, [Next]_vars PROVE BankMoves
  OBVIOUS
<1>1. CASE BankStep
  BY <1>1 DEF BankStep, BankMoves
<1>2. CASE ForkBank
  BY <1>2, CountsAssumption DEF ForkBank, BankMoves, ProtocolInv, NotYetForked
<1>3. CASE ~ BankStep /\ ~ ForkBank
  BY <1>3 DEF Next, Terminated, Parent, ForkAtm, ForkFails, Reap, WaitWithoutChild,
    AtmStep, vars, bankVars, BankMoves
<1> QED
  BY <1>1, <1>2, <1>3

LEMMA AloneMoves == [AloneNext]_aloneVars => BankMoves
  BY DEF AloneNext, Start, EnvironmentSends, EnvironmentReads, aloneVars, bankVars, BankMoves

\* Before the bank has opened its accounts nothing is booked or served.
BankUnopened ==
  bankPc \in {"unforked", "open"} =>
    accounts = [x \in Accounts |-> 0] /\ served = <<>>

LEMMA UnopenedStep ==
  ASSUME BankUnopened, BankMoves
  PROVE  BankUnopened'
<1>1. CASE BankNext
  <2>1. bankPc' \notin {"unforked", "open"}
    BY <1>1 DEF BankNext, BankOpen, ReadRequest, Close, Serve, ServeConnect, ServeExit,
      ServeDeposit, ServeWithdraw, ServeTransfer, ServeBalance, Serving, Answer, Acknowledge,
      IgnoreUnknownAtm, FailUnknownCommand
  <2> QED
    BY <2>1 DEF BankUnopened
<1> QED
  BY <1>1 DEF BankMoves, BankUnopened

\* No step of anybody overdraws account x unless it credits x with more than
\* fits or has a negative amount: one case for each command of the bank.
LEMMA OverdraftStep ==
  ASSUME BankTypeOK, BankMoves, NEW x \in Accounts, Overdraws(x),
         bankCmd.amt >= 0,
         ~ (bankCmd.to = x /\ accounts[x] + bankCmd.amt >= IntBound)
  PROVE  FALSE
<1> DEFINE f == bankCmd.from  t == bankCmd.to  a == bankCmd.amt
<1>1. /\ accounts \in [Accounts -> CInt] /\ a \in CInt /\ a >= 0
      /\ f \in CInt /\ t \in CInt /\ CInt \subseteq Int
      /\ accounts[x] \in Int /\ accounts[x] >= 0 /\ accounts'[x] < 0
      /\ (t = x => accounts[x] + a < IntBound)
  <2>1. /\ accounts \in [Accounts -> CInt] /\ bankCmd.amt \in CInt
        /\ bankCmd.from \in CInt /\ bankCmd.to \in CInt
    BY DEF BankTypeOK, Commands
  <2>2. accounts[x] \in Int /\ bankCmd.amt \in Int /\ IntBound \in Int
    <3>1. accounts[x] \in CInt
      BY <2>1
    <3> QED
      BY <2>1, <3>1, CIntFacts
  <2>3. accounts[x] >= 0 /\ accounts'[x] < 0
    BY DEF Overdraws
  <2> QED
    BY <2>1, <2>2, <2>3, CIntFacts
<1> HIDE DEF f, t, a
<1>2. accounts' # accounts
  BY <1>1
<1>3. PICK step \in {"open", "deposit", "withdraw", "transfer"} :
        /\ step = "open" => accounts' = [y \in Accounts |-> 0]
        /\ step = "deposit" => t \in Accounts /\ accounts' = Credit(accounts, t, a)
        /\ step = "withdraw" =>
             f \in Accounts /\ accounts[f] >= a /\ accounts' = Debit(accounts, f, a)
        /\ step = "transfer" =>
             /\ f \in Accounts /\ t \in Accounts /\ accounts[f] >= a
             /\ accounts' = Credit(Debit(accounts, f, a), t, a)
  <2>1. CASE BankNext
    <3>1. CASE BankOpen
      BY <3>1 DEF BankOpen
    <3>2. CASE ServeDeposit
      BY <1>2, <3>2 DEF ServeDeposit, ValidAccount, t, a
    <3>3. CASE ServeWithdraw
      BY <1>2, <3>3 DEF ServeWithdraw, ValidAccount, Covers, f, a
    <3>4. CASE ServeTransfer
      BY <1>2, <3>4 DEF ServeTransfer, ValidAccount, Covers, f, t, a
    <3> QED
      BY <1>2, <2>1, <3>1, <3>2, <3>3, <3>4
      DEF BankNext, ReadRequest, Close, Serve, ServeConnect, ServeExit,
          ServeBalance, IgnoreUnknownAtm, FailUnknownCommand
  <2> QED
    BY <1>2, <2>1 DEF BankMoves
<1>4. CASE step = "open"
  BY <1>1, <1>3, <1>4
<1>5. CASE step = "deposit"
  <2>1. CASE x = t
    BY <1>1, <1>3, <1>5, <2>1, CreditFits
  <2>2. CASE x # t
    BY <1>1, <1>3, <1>5, <2>2, CreditElsewhere
  <2> QED
    BY <2>1, <2>2
<1>6. CASE step = "withdraw"
  BY <1>1, <1>3, <1>6, DebitCovered
<1>7. CASE step = "transfer"
  <2> DEFINE book == Debit(accounts, f, a)
  <2>1. /\ book \in [Accounts -> CInt] /\ book[f] = accounts[f] - a
        /\ \A y \in Accounts : y # f => book[y] = accounts[y]
    BY <1>1, <1>3, <1>7, DebitCovered
  <2> HIDE DEF book
  <2>2. f \in Accounts /\ t \in Accounts /\ accounts[f] >= a
        /\ accounts' = Credit(book, t, a)
    BY <1>3, <1>7 DEF book
  <2>3. book[x] >= 0 /\ book[x] <= accounts[x]
    BY <1>1, <2>1, <2>2
  <2>4. CASE x = t
    <3>1. book[t] \in Int /\ a \in Int /\ accounts[t] \in Int /\ IntBound \in Int
      <4>1. book[t] \in CInt /\ accounts[t] \in CInt
        BY <1>1, <2>1, <2>2
      <4> QED
        BY <1>1, <4>1, CIntFacts
    <3>2. book[t] >= 0 /\ book[t] + a < IntBound
      BY <1>1, <2>3, <2>4, <3>1
    <3>3. accounts'[t] = book[t] + a
      BY <1>1, <2>1, <2>2, <3>2, CreditFits
    <3> QED
      BY <1>1, <2>4, <3>1, <3>2, <3>3
  <2>5. CASE x # t
    BY <1>1, <2>1, <2>2, <2>3, <2>5, CreditElsewhere
  <2> QED
    BY <2>4, <2>5
<1> QED
  BY <1>3, <1>4, <1>5, <1>6, <1>7

\* The same as a fact about every account.
LEMMA Solvency ==
  BankTypeOK /\ BankMoves =>
    \A x \in Accounts : Overdraws(x) =>
      \/ bankCmd.amt < 0
      \/ bankCmd.to = x /\ accounts[x] + bankCmd.amt >= IntBound
<1> SUFFICES ASSUME BankTypeOK, BankMoves, NEW x \in Accounts, Overdraws(x),
                    ~ (bankCmd.amt < 0),
                    ~ (bankCmd.to = x /\ accounts[x] + bankCmd.amt >= IntBound)
             PROVE  FALSE
  OBVIOUS
<1>1. bankCmd.amt \in Int
  BY CIntFacts DEF BankTypeOK, Commands
<1>2. bankCmd.amt >= 0
  BY <1>1
<1> QED
  BY <1>2, OverdraftStep

\* No interleaving of ATMs overdraws an account: a balance goes below zero
\* only by a negative amount or by an overflow (bank.c 152, 167, 199-206).
THEOREM NoOverdraftHolds == Spec => NoOverdraft
<1>1. ProtocolInv /\ [Next]_vars =>
        [\A x \in Accounts : Overdraws(x) =>
           \/ bankCmd.amt < 0
           \/ bankCmd.to = x /\ accounts[x] + bankCmd.amt >= IntBound]_accounts
  BY SimulationMoves, Solvency DEF ProtocolInv, TypeOK
<1> QED
  BY <1>1, ProtocolInvariant, PTL DEF Spec, NoOverdraft

-------------------------------------------------------------------------------
\* The parent's waits.  The children are finitely many, so counts compare as
\* the sets do.
LEMMA CountFacts ==
  /\ IsFiniteSet(Atms) /\ Cardinality(Atms) = AtmCount
  /\ \A S \in SUBSET Atms : IsFiniteSet(S) /\ Cardinality(S) \in 0 .. AtmCount
  /\ \A b \in BOOLEAN : Count(b) \in 0 .. 1 /\ (b <=> Count(b) = 1)
<1>1. AtmCount \in Nat
  BY CountsAssumption
<1>2. IsFiniteSet(Atms) /\ Cardinality(Atms) = AtmCount
  BY <1>1, FS_Interval DEF Atms
<1>3. ASSUME NEW S \in SUBSET Atms
      PROVE  IsFiniteSet(S) /\ Cardinality(S) \in 0 .. AtmCount
  <2>1. IsFiniteSet(S) /\ Cardinality(S) <= AtmCount
    BY <1>2, FS_Subset
  <2>2. Cardinality(S) \in Nat
    BY <2>1, FS_CardinalityType
  <2> QED
    BY <1>1, <2>1, <2>2
<1> QED
  BY <1>2, <1>3 DEF Count

\* Only created processes exit; when as many have exited as were created, all have.
LEMMA ExitedFacts ==
  /\ AtmsExited \subseteq AtmsCreated /\ AtmsCreated \subseteq Atms
  /\ BankExited => BankCreated
  /\ Exited \in Nat /\ Created \in Nat
  /\ Exited >= Created => AllExited
  /\ Exited = AtmCount + 1 => AllExited
<1>1. AtmsExited \subseteq AtmsCreated /\ AtmsCreated \subseteq Atms
  BY DEF AtmsExited, AtmsCreated
<1>2. BankExited => BankCreated
  BY DEF BankExited, BankCreated
<1>3. BankExited \in BOOLEAN /\ BankCreated \in BOOLEAN
  BY DEF BankExited, BankCreated
<1>4. AtmCount \in Nat
  BY CountsAssumption
<1>5. /\ Cardinality(AtmsExited) \in 0 .. AtmCount /\ Cardinality(AtmsCreated) \in 0 .. AtmCount
      /\ IsFiniteSet(AtmsCreated) /\ IsFiniteSet(Atms)
      /\ Cardinality(Atms) = AtmCount
      /\ AtmsExited \in SUBSET AtmsCreated /\ AtmsExited \in SUBSET Atms
  BY <1>1, CountFacts
<1>6. /\ Cardinality(AtmsExited) <= Cardinality(AtmsCreated)
      /\ Cardinality(AtmsCreated) = Cardinality(AtmsExited) => AtmsCreated = AtmsExited
      /\ Cardinality(Atms) = Cardinality(AtmsExited) => Atms = AtmsExited
  BY <1>5, FS_Subset
<1>7. /\ Count(BankExited) \in 0 .. 1 /\ Count(BankCreated) \in 0 .. 1
      /\ (BankExited <=> Count(BankExited) = 1) /\ (BankCreated <=> Count(BankCreated) = 1)
  BY <1>3, CountFacts
<1>8. Exited \in Nat /\ Created \in Nat
  BY <1>4, <1>5, <1>7 DEF Exited, Created
<1>9. ASSUME Exited >= Created PROVE AllExited
  <2>1. Count(BankExited) <= Count(BankCreated)
    BY <1>2, <1>7
  <2>2. /\ Cardinality(AtmsExited) = Cardinality(AtmsCreated)
        /\ Count(BankExited) = Count(BankCreated)
    BY <1>4, <1>5, <1>6, <1>7, <1>9, <2>1 DEF Exited, Created
  <2> QED
    BY <1>6, <1>7, <2>2 DEF AllExited
<1>10. ASSUME Exited = AtmCount + 1 PROVE AllExited
  <2>1. Cardinality(AtmsExited) = AtmCount /\ Count(BankExited) = 1
    BY <1>4, <1>5, <1>7, <1>10 DEF Exited
  <2> QED
    BY <1>1, <1>5, <1>6, <1>7, <2>1 DEF AllExited
<1> QED
  BY <1>1, <1>2, <1>8, <1>9, <1>10

\* A step in which nobody who has exited comes back exits no fewer.
LEMMA ExitedGrows ==
  ASSUME AtmsExited \subseteq AtmsExited', BankExited => BankExited'
  PROVE  Exited <= Exited'
<1>1. AtmsExited' \subseteq Atms
  BY DEF AtmsExited
<1>2. /\ IsFiniteSet(AtmsExited') /\ Cardinality(AtmsExited) \in 0 .. AtmCount
      /\ Cardinality(AtmsExited') \in 0 .. AtmCount
  BY <1>1, CountFacts DEF AtmsExited
<1>3. Cardinality(AtmsExited) <= Cardinality(AtmsExited')
  BY <1>2, FS_Subset
<1>4. BankExited \in BOOLEAN /\ BankExited' \in BOOLEAN
  BY DEF BankExited
<1>5. Count(BankExited) \in {0, 1} /\ Count(BankExited') \in {0, 1}
      /\ Count(BankExited) <= Count(BankExited')
  BY <1>4 DEF Count
<1> QED
  BY <1>2, <1>3, <1>5, CountsAssumption DEF Exited

\* The count of waits stays behind the number of children that have exited.
LEMMA ReapStep ==
  ASSUME TypeOK, ReapInv, [Next]_vars
  PROVE  ReapInv'
<1> USE DEF ReapInv
<1>1. waits \in Nat /\ forked \in Nat /\ AtmCount \in Nat
  BY CountsAssumption DEF TypeOK
<1>2. Exited \in Nat /\ Exited' \in Nat
  <2>1. Exited \in Nat
    BY ExitedFacts
  <2>2. AtmsExited' \subseteq Atms
    BY DEF AtmsExited
  <2>3. Cardinality(AtmsExited') \in 0 .. AtmCount
    BY <2>2, CountFacts
  <2>4. Count(BankExited') \in {0, 1}
    BY DEF Count
  <2>5. Exited' = Cardinality(AtmsExited') + Count(BankExited')
    BY DEF Exited
  <2> QED
    BY <1>1, <2>1, <2>3, <2>4, <2>5
<1>3. CASE ForkAtm \/ ForkBank \/ ForkFails
  <2>1. waits = 0 /\ waits' = 0
    BY <1>1, <1>3 DEF ForkAtm, ForkBank, ForkFails
  <2> QED
    BY <1>2, <2>1
<1>4. CASE Reap
  <2>1. Exited' = Exited /\ waits' = waits + 1 /\ waits < Exited /\ forked' = AtmCount + 1
    BY <1>4 DEF Reap, Waiting, bankVars, atmVars, Exited, AtmsExited, BankExited
  <2> QED
    BY <1>1, <1>2, <2>1
<1>5. CASE WaitWithoutChild
  <2>1. UNCHANGED <<atmPc, bankPc>> /\ waits >= Created /\ forked' = AtmCount + 1
    BY <1>5 DEF WaitWithoutChild, Waiting, bankVars, atmVars
  <2>2. AllExited
    <3>1. waits <= Exited => Exited >= Created
      BY <1>1, <1>2, <2>1, ExitedFacts
    <3> QED
      BY <3>1, ExitedFacts
  <2>3. AllExited'
    BY <2>1, <2>2
    DEF AllExited, AtmsCreated, AtmsExited, BankCreated, BankExited
  <2> QED
    BY <2>1, <2>3
<1>6. ASSUME UNCHANGED parentVars, ~ AllExited,
             AtmsExited \subseteq AtmsExited', BankExited => BankExited'
      PROVE  ReapInv'
  <2>1. waits <= Exited /\ Exited <= Exited'
    BY <1>6, ExitedGrows
  <2> QED
    BY <1>1, <1>2, <1>6, <2>1 DEF parentVars
<1>7. ASSUME NEW i \in Atms, AtmStep(i) PROVE ReapInv'
  <2>1. atmPc[i] \notin {"unforked", "done", "failed"} /\ UNCHANGED <<bankPc, parentVars>>
        /\ \A j \in Atms : j # i => atmPc'[j] = atmPc[j]
    BY <1>7 DEF AtmStep, AtmNext, TraceOpen, TraceOpenFails, SkipRecord, TakeRecord,
      RejectRecord, ReadRecord, EndOfTrace, Send, Receive, AtmAt, AtmGoto, TypeOK, AtmTypeOK,
      bankVars
  <2>2. ~ AllExited /\ AtmsExited \subseteq AtmsExited' /\ (BankExited => BankExited')
    BY <2>1 DEF AllExited, AtmsCreated, AtmsExited, BankExited
  <2> QED
    BY <1>6, <2>1, <2>2
<1>8. CASE BankStep
  <2>1. bankPc \notin {"unforked", "closed", "failed"} /\ UNCHANGED <<atmPc, parentVars>>
    BY <1>8 DEF BankStep, BankNext, BankOpen, ReadRequest, Close, Serve, ServeConnect,
      ServeExit, ServeDeposit, ServeWithdraw, ServeTransfer, ServeBalance, Serving,
      IgnoreUnknownAtm, FailUnknownCommand, atmVars
  <2>2. ~ AllExited /\ AtmsExited \subseteq AtmsExited' /\ (BankExited => BankExited')
    BY <2>1 DEF AllExited, AtmsExited, BankCreated, BankExited
  <2> QED
    BY <1>6, <2>1, <2>2
<1>9. CASE UNCHANGED vars
  BY <1>9 DEF vars, parentVars, bankVars, atmVars, Exited, AllExited, AtmsCreated, AtmsExited,
              BankCreated, BankExited
<1> QED
  BY <1>3, <1>4, <1>5, <1>7, <1>8, <1>9 DEF Next, Parent, Terminated

\* The parent outlives all its children, for any number of ATMs, whatever
\* calls fail and in whatever order the children exit (banksim.c 90-97).
THEOREM ParentExitsLastHolds == Spec => []ParentExitsLast
<1>1. Init => ReapInv
  <2> SUFFICES ASSUME Init PROVE ReapInv
    OBVIOUS
  <2>1. waits = 0 /\ Exited \in Nat
    BY ExitedFacts DEF Init
  <2> QED
    BY <2>1 DEF ReapInv
<1>2. TypeOK /\ ReapInv /\ [Next]_vars => ReapInv'
  BY ReapStep
<1>3. ReapInv => ParentExitsLast
  <2> SUFFICES ASSUME ReapInv, waits = AtmCount + 1, waits <= Exited PROVE AllExited
    BY DEF ReapInv, ParentExitsLast, ParentDone
  <2>1. Exited <= AtmCount + 1
    <3>1. Cardinality(AtmsExited) \in 0 .. AtmCount
      BY CountFacts DEF AtmsExited
    <3>2. Count(BankExited) \in {0, 1}
      BY DEF Count
    <3> QED
      BY <3>1, <3>2, CountsAssumption DEF Exited
  <2>2. Exited = AtmCount + 1
    BY <2>1, ExitedFacts, CountsAssumption
  <2> QED
    BY <2>2, ExitedFacts
<1> QED
  BY <1>1, <1>2, <1>3, TypeCorrect, PTL DEF Spec

-------------------------------------------------------------------------------
\* The simulation implements the ledger.

\* The bank answers with a verdict every ATM understands.
RepliesTolerated ==
  \A i \in Atms : \A k \in DOMAIN replies[i] : replies[i][k].cmd \in Tolerated

\* Of a sequence of one element nothing is left behind the head.
LEMMA TailOfOne ==
  ASSUME NEW S, NEW s \in Seq(S), Len(s) = 1
  PROVE  Tail(s) = <<>>
<1>1. s # <<>>
  OBVIOUS
<1>2. Tail(s) \in Seq(S) /\ Len(Tail(s)) = 0
  BY <1>1, HeadTailProperties
<1> QED
  BY <1>2, EmptySeq

\* Storing a sum or a difference of two ints: at most one turn of the wheel.
LEMMA WrapOnce ==
  ASSUME NEW n \in Int, -2 * IntBound <= n, n < 2 * IntBound
  PROVE  Wrap(n) = IF n < -IntBound THEN n + 2 * IntBound
                   ELSE IF n >= IntBound THEN n - 2 * IntBound ELSE n
<1>1. IntBound \in Int /\ IntBound > 0
  BY BoundsAssumption
<1>2. CASE n < -IntBound
  BY <1>1, <1>2 DEF Wrap
<1>3. CASE n >= IntBound
  BY <1>1, <1>3 DEF Wrap
<1>4. CASE n >= -IntBound /\ n < IntBound
  BY <1>1, <1>4 DEF Wrap
<1> QED
  BY <1>1, <1>2, <1>3, <1>4

\* The order a request stands for.
LEMMA OrderFacts ==
  ASSUME NEW c \in Commands, c.cmd \in Requests
  PROVE  /\ OrderOf(c) \in Orders /\ OrderOf(c) # NoOrder
         /\ OrderOf(c).cmd = KindOf(c.cmd)
         /\ OrderOf(c).from = c.from /\ OrderOf(c).to = c.to /\ OrderOf(c).amt = c.amt
<1>1. KindOf(c.cmd) \in {"connect", "exit", "deposit", "withdraw", "transfer", "balance"}
  BY DEF KindOf, Requests, CONNECT, EXIT, DEPOSIT, WITHDRAW, TRANSFER, BALANCE
<1>2. OrderOf(c) \in Orders
  BY <1>1 DEF OrderOf, Orders, Commands
<1>3. OrderOf(c).cmd # "none"
  BY <1>1 DEF OrderOf
<1> QED
  BY <1>2, <1>3 DEF OrderOf, NoOrder

\* The verdicts of the ledger are those three.
LEMMA VerdictFacts ==
  ASSUME NEW code \in Tolerated
  PROVE  VerdictOf(code) \in {"ok", "nofunds", "unknown"}
<1>1. CASE code = OK
  BY <1>1 DEF VerdictOf, OK, NOFUNDS, ACCUNKN
<1>2. CASE code = NOFUNDS
  BY <1>2 DEF VerdictOf, OK, NOFUNDS, ACCUNKN
<1>3. CASE code = ACCUNKN
  BY <1>3 DEF VerdictOf, OK, NOFUNDS, ACCUNKN
<1> QED
  BY <1>1, <1>2, <1>3 DEF Tolerated

\* What the accounts hold once an order is executed, as the ledger puts it.
Booked(o) ==
  [x \in Accounts |->
     Wrap(accounts[x] + L!Share(x, L!Credits(o), o.amt) - L!Share(x, L!Debits(o), o.amt))]

\* The reply that answers a request settles the order of its ATM and leaves
\* the other orders alone.
LEMMA AnswerSettles ==
  ASSUME ProtocolInv, bankPc = "serve", UNCHANGED atmVars, NEW m \in Commands, Answer(m)
  PROVE  /\ bankCmd.id \in Atms /\ bankCmd \in Commands /\ bankCmd.cmd \in Requests
         /\ orders[bankCmd.id] = OrderOf(bankCmd)
         /\ verdicts[bankCmd.id] = "pending"
         /\ orders' = orders
         /\ verdicts' = [verdicts EXCEPT ![bankCmd.id] = VerdictOf(m.cmd)]
<1> DEFINE i == bankCmd.id
<1>1. /\ i \in Atms /\ bankCmd.cmd \in Requests /\ bankCmd \in Commands
      /\ replies \in [Atms -> Seq(Commands)]
  BY DEF ProtocolInv, BankNeverFails, RequestOf, TypeOK, BankTypeOK
<1>2. atmPc[i] = "wait" /\ bankCmd = Current(i) /\ replies[i] = <<>>
  BY <1>1 DEF ProtocolInv, OneOutstanding, AtBank
<1>3. UNCHANGED <<atmPc, trace, pos>>
  BY DEF atmVars
<1>4. orders' = orders
  BY <1>3 DEF orders, Current, Buffer
<1>5. replies' = [replies EXCEPT ![i] = Append(@, m)]
  BY DEF Answer, WriteReply
<1>6. replies'[i] # <<>> /\ Head(replies'[i]) = m
  BY <1>1, <1>2, <1>5
<1>7. \A j \in Atms : j # i => replies'[j] = replies[j]
  BY <1>1, <1>5
<1>8. verdicts' = [verdicts EXCEPT ![i] = VerdictOf(m.cmd)]
  BY <1>1, <1>6, <1>7 DEF verdicts
<1> QED
  BY <1>1, <1>2, <1>4, <1>8 DEF orders, verdicts

\* Executing an order of the ledger, in the terms of the bank.
LEMMA ExecuteBy ==
  ASSUME ProtocolInv, bankPc = "serve", UNCHANGED atmVars, NEW m \in Commands, Answer(m),
         VerdictOf(m.cmd) = L!Outcome(OrderOf(bankCmd)),
         accounts' = IF L!Outcome(OrderOf(bankCmd)) # "ok" THEN accounts
                     ELSE Booked(OrderOf(bankCmd))
  PROVE  bankCmd.id \in Atms /\ L!Execute(bankCmd.id)
<1>1. /\ bankCmd.id \in Atms /\ orders[bankCmd.id] = OrderOf(bankCmd)
      /\ verdicts[bankCmd.id] = "pending" /\ orders' = orders
      /\ verdicts' = [verdicts EXCEPT ![bankCmd.id] = VerdictOf(m.cmd)]
  BY AnswerSettles
<1>2. OrderOf(bankCmd) # L!NoOrder
  BY AnswerSettles, OrderFacts DEF L!NoOrder, NoOrder
<1> QED
  BY <1>1, <1>2 DEF L!Execute, Booked, Wrap

\* An order that names no account leaves the books alone.
LEMMA BookedNothing ==
  ASSUME accounts \in [Accounts -> CInt], NEW o, o.cmd \in {"connect", "exit", "balance"}
  PROVE  Booked(o) = accounts
<1>1. \A x \in Accounts : accounts[x] \in CInt /\ accounts[x] \in Int
  BY CIntFacts
<1>2. L!Credits(o) = {} /\ L!Debits(o) = {}
  BY DEF L!Credits, L!Debits
<1> QED
  BY <1>1, <1>2, WrapIdentity DEF Booked, L!Share

\* The two assignments of a deposit and a withdrawal.
LEMMA BookedOnce ==
  ASSUME accounts \in [Accounts -> CInt], NEW o, o.amt \in CInt
  PROVE  /\ o.cmd = "deposit" /\ o.to \in Accounts =>
              Booked(o) = Credit(accounts, o.to, o.amt)
         /\ o.cmd = "withdraw" /\ o.from \in Accounts =>
              Booked(o) = Debit(accounts, o.from, o.amt)
<1>1. /\ \A x \in Accounts : accounts[x] \in CInt /\ accounts[x] \in Int
      /\ o.amt \in Int
  BY CIntFacts
<1>2. ASSUME o.cmd = "deposit", o.to \in Accounts
      PROVE  Booked(o) = Credit(accounts, o.to, o.amt)
  <2>1. L!Credits(o) = {o.to} /\ L!Debits(o) = {}
    BY <1>2 DEF L!Credits, L!Debits
  <2>2. Booked(o) = [x \in Accounts |-> IF x = o.to THEN Wrap(accounts[x] + o.amt)
                                        ELSE accounts[x]]
    BY <1>1, <2>1, WrapIdentity DEF Booked, L!Share
  <2> QED
    BY <1>2, <2>2 DEF Credit
<1>3. ASSUME o.cmd = "withdraw", o.from \in Accounts
      PROVE  Booked(o) = Debit(accounts, o.from, o.amt)
  <2>1. L!Credits(o) = {} /\ L!Debits(o) = {o.from}
    BY <1>3 DEF L!Credits, L!Debits
  <2>2. Booked(o) = [x \in Accounts |-> IF x = o.from THEN Wrap(accounts[x] - o.amt)
                                        ELSE accounts[x]]
    BY <1>1, <2>1, WrapIdentity DEF Booked, L!Share
  <2> QED
    BY <1>3, <2>2 DEF Debit
<1> QED
  BY <1>2, <1>3

\* A transfer books both halves at once, although the code stores the debit
\* first: from an account to itself the credit undoes the debit, wraps
\* included.
LEMMA BookedTransfer ==
  ASSUME accounts \in [Accounts -> CInt], NEW o, o.amt \in CInt,
         o.cmd = "transfer", o.from \in Accounts, o.to \in Accounts
  PROVE  Booked(o) = Credit(Debit(accounts, o.from, o.amt), o.to, o.amt)
<1> DEFINE f == o.from  t == o.to  a == o.amt  book == Debit(accounts, f, a)
<1>1. L!Credits(o) = {t} /\ L!Debits(o) = {f}
  BY DEF L!Credits, L!Debits
<1>2. \A x \in Accounts : accounts[x] \in CInt /\ accounts[x] \in Int
  BY CIntFacts
<1>3. a \in CInt /\ a \in Int /\ IntBound \in Int /\ IntBound > 0
  <2>1. IntBound \in Int /\ IntBound > 0
    BY BoundsAssumption
  <2> QED
    BY <2>1, CIntFacts
<1>4. CASE f = t
  <2>1. accounts[f] - a \in Int /\ -2 * IntBound <= accounts[f] - a
        /\ accounts[f] - a < 2 * IntBound
    BY <1>2, <1>3 DEF CInt
  <2>2. Wrap(accounts[f] - a) + a \in Int /\ -2 * IntBound <= Wrap(accounts[f] - a) + a
        /\ Wrap(accounts[f] - a) + a < 2 * IntBound
    BY <1>2, <1>3, <2>1, WrapOnce DEF CInt
  <2>3. Wrap(Wrap(accounts[f] - a) + a) = accounts[f]
    BY <1>2, <1>3, <2>1, <2>2, WrapOnce DEF CInt
  <2>4. Credit(book, t, a) = accounts
    BY <1>4, <2>3 DEF Credit, Debit
  <2>5. \A x \in Accounts : Wrap(accounts[x] + L!Share(x, {t}, a) - L!Share(x, {f}, a)) = accounts[x]
    BY <1>2, <1>3, <1>4, WrapIdentity DEF L!Share
  <2> QED
    BY <1>1, <2>4, <2>5 DEF Booked
<1>5. CASE f # t
  <2>1. Booked(o) = [x \in Accounts |->
           IF x = f THEN Wrap(accounts[x] - a)
           ELSE IF x = t THEN Wrap(accounts[x] + a) ELSE accounts[x]]
    BY <1>1, <1>2, <1>3, <1>5, WrapIdentity DEF Booked, L!Share
  <2> QED
    BY <1>5, <2>1 DEF Credit, Debit
<1> QED
  BY <1>4, <1>5

\* Serving a request executes the order of its ATM: the six commands.
LEMMA ServeExecutes ==
  ASSUME ProtocolInv, BankStep, bankPc = "serve"
  PROVE  bankCmd.id \in Atms /\ L!Execute(bankCmd.id)
<1> DEFINE c == bankCmd  o == OrderOf(c)
<1>1. /\ c \in Commands /\ c.cmd \in Requests /\ c.id \in Atms
      /\ accounts \in [Accounts -> CInt] /\ UNCHANGED atmVars
      /\ c.from \in CInt /\ c.to \in CInt /\ c.amt \in CInt
  BY DEF BankStep, ProtocolInv, BankNeverFails, RequestOf, TypeOK, BankTypeOK, Commands
<1>2. /\ o.cmd = KindOf(c.cmd) /\ o.from = c.from /\ o.to = c.to /\ o.amt = c.amt
  BY <1>1, OrderFacts
<1>3. /\ MsgOk(0, c.from, c.to, c.amt) \in Commands
      /\ MsgOk(0, c.from, c.to, c.amt).cmd = OK
      /\ \A a \in CInt : MsgOk(0, c.from, c.to, a) \in Commands
      /\ \A a : MsgOk(0, c.from, c.to, a).cmd = OK
      /\ MsgNoFunds(0, c.from, c.amt) \in Commands
      /\ MsgNoFunds(0, c.from, c.amt).cmd = NOFUNDS
      /\ \A x \in {c.from, c.to} : MsgAccUnkn(0, x) \in Commands
      /\ \A x : MsgAccUnkn(0, x).cmd = ACCUNKN
  BY ReplyTypes DEF ProtocolInv, TypeOK, MsgOk, MsgNoFunds, MsgAccUnkn, Pack
<1>4. VerdictOf(OK) = "ok" /\ VerdictOf(NOFUNDS) = "nofunds" /\ VerdictOf(ACCUNKN) = "unknown"
  BY DEF VerdictOf, OK, NOFUNDS, ACCUNKN
<1>5. /\ KindOf(CONNECT) = "connect" /\ KindOf(EXIT) = "exit"
      /\ KindOf(DEPOSIT) = "deposit" /\ KindOf(WITHDRAW) = "withdraw"
      /\ KindOf(TRANSFER) = "transfer" /\ KindOf(BALANCE) = "balance"
  BY DEF KindOf, CONNECT, EXIT, DEPOSIT, WITHDRAW, TRANSFER, BALANCE
<1>6. ASSUME NEW m \in Commands, Answer(m), VerdictOf(m.cmd) = L!Outcome(o),
             accounts' = IF L!Outcome(o) # "ok" THEN accounts ELSE Booked(o)
      PROVE  c.id \in Atms /\ L!Execute(c.id)
  BY <1>1, <1>6, ExecuteBy
<1>7. CASE ServeConnect \/ ServeExit
  <2>1. o.cmd \in {"connect", "exit"}
    BY <1>2, <1>5, <1>7 DEF ServeConnect, ServeExit, Serving
  <2>2. L!Outcome(o) = "ok" /\ Booked(o) = accounts
    BY <1>1, <2>1, BookedNothing DEF L!Outcome, L!Names, L!Debits, L!Credits
  <2>3. Answer(MsgOk(0, c.from, c.to, c.amt)) /\ UNCHANGED accounts
    BY <1>7 DEF ServeConnect, ServeExit, Acknowledge
  <2> QED
    BY <1>3, <1>4, <1>6, <2>2, <2>3
<1>8. CASE ServeDeposit
  <2>1. o.cmd = "deposit"
    BY <1>2, <1>5, <1>8 DEF ServeDeposit, Serving
  <2>2. /\ L!Outcome(o) = IF c.to \in Accounts THEN "ok" ELSE "unknown"
        /\ c.to \in Accounts => Booked(o) = Credit(accounts, c.to, c.amt)
    BY <1>1, <1>2, <2>1, BookedOnce DEF L!Outcome, L!Names, L!Debits, L!Credits
  <2>3. CASE c.to \in Accounts
    <3>1. Answer(MsgOk(0, c.from, c.to, c.amt)) /\ accounts' = Booked(o)
      BY <1>8, <2>2, <2>3 DEF ServeDeposit, ValidAccount, Acknowledge
    <3> QED
      BY <1>3, <1>4, <1>6, <2>2, <2>3, <3>1
  <2>4. CASE c.to \notin Accounts
    <3>1. Answer(MsgAccUnkn(0, c.to)) /\ UNCHANGED accounts
      BY <1>8, <2>4 DEF ServeDeposit, ValidAccount
    <3> QED
      BY <1>3, <1>4, <1>6, <2>2, <2>4, <3>1
  <2> QED
    BY <2>3, <2>4
<1>9. CASE ServeWithdraw
  <2>1. o.cmd = "withdraw"
    BY <1>2, <1>5, <1>9 DEF ServeWithdraw, Serving
  <2>2. /\ L!Names(o) = {c.from} /\ L!Debits(o) = {c.from}
        /\ c.from \in Accounts => Booked(o) = Debit(accounts, c.from, c.amt)
    BY <1>1, <1>2, <2>1, BookedOnce DEF L!Names, L!Debits, L!Credits
  <2>3. CASE c.from \notin Accounts
    <3>1. Answer(MsgAccUnkn(0, c.to)) /\ UNCHANGED accounts
      BY <1>9, <2>3 DEF ServeWithdraw, ValidAccount
    <3>2. L!Outcome(o) = "unknown"
      BY <2>2, <2>3 DEF L!Outcome
    <3> QED
      BY <1>3, <1>4, <1>6, <3>1, <3>2
  <2>4. CASE c.from \in Accounts /\ ~ Covers(c.from, c.amt)
    <3>1. Answer(MsgNoFunds(0, c.from, c.amt)) /\ UNCHANGED accounts
      BY <1>9, <2>4 DEF ServeWithdraw, ValidAccount
    <3>2. accounts[c.from] < c.amt
      <4>1. accounts[c.from] \in CInt
        BY <1>1, <2>4
      <4>2. accounts[c.from] \in Int /\ c.amt \in Int
        BY <1>1, <4>1, CIntFacts
      <4> QED
        BY <2>4, <4>2 DEF Covers
    <3>3. L!Outcome(o) = "nofunds"
      BY <1>2, <2>2, <2>4, <3>2 DEF L!Outcome
    <3> QED
      BY <1>3, <1>4, <1>6, <3>1, <3>3
  <2>5. CASE c.from \in Accounts /\ Covers(c.from, c.amt)
    <3>1. Answer(MsgOk(0, c.from, c.to, c.amt)) /\ accounts' = Booked(o)
      BY <1>9, <2>2, <2>5 DEF ServeWithdraw, ValidAccount, Acknowledge
    <3>2. ~ (accounts[c.from] < c.amt)
      <4>1. accounts[c.from] \in CInt
        BY <1>1, <2>5
      <4>2. accounts[c.from] \in Int /\ c.amt \in Int
        BY <1>1, <4>1, CIntFacts
      <4> QED
        BY <2>5, <4>2 DEF Covers
    <3>3. L!Outcome(o) = "ok"
      BY <1>2, <2>2, <2>5, <3>2 DEF L!Outcome
    <3> QED
      BY <1>3, <1>4, <1>6, <3>1, <3>3
  <2> QED
    BY <2>3, <2>4, <2>5
<1>10. CASE ServeTransfer
  <2>1. o.cmd = "transfer"
    BY <1>2, <1>5, <1>10 DEF ServeTransfer, Serving
  <2>2. /\ L!Names(o) = {c.from, c.to} /\ L!Debits(o) = {c.from}
        /\ c.from \in Accounts /\ c.to \in Accounts =>
             Booked(o) = Credit(Debit(accounts, c.from, c.amt), c.to, c.amt)
    BY <1>1, <1>2, <2>1, BookedTransfer DEF L!Names, L!Debits, L!Credits
  <2>3. CASE c.from \notin Accounts \/ c.to \notin Accounts
    <3>1. \E x \in {c.from, c.to} : Answer(MsgAccUnkn(0, x)) /\ UNCHANGED accounts
      BY <1>10, <2>3 DEF ServeTransfer, ValidAccount
    <3>2. L!Outcome(o) = "unknown"
      BY <2>2, <2>3 DEF L!Outcome
    <3> QED
      BY <1>3, <1>4, <1>6, <3>1, <3>2
  <2>4. CASE c.from \in Accounts /\ c.to \in Accounts /\ ~ Covers(c.from, c.amt)
    <3>1. Answer(MsgNoFunds(0, c.from, c.amt)) /\ UNCHANGED accounts
      BY <1>10, <2>4 DEF ServeTransfer, ValidAccount
    <3>2. accounts[c.from] < c.amt
      <4>1. accounts[c.from] \in CInt
        BY <1>1, <2>4
      <4>2. accounts[c.from] \in Int /\ c.amt \in Int
        BY <1>1, <4>1, CIntFacts
      <4> QED
        BY <2>4, <4>2 DEF Covers
    <3>3. L!Outcome(o) = "nofunds"
      BY <1>2, <2>2, <2>4, <3>2 DEF L!Outcome
    <3> QED
      BY <1>3, <1>4, <1>6, <3>1, <3>3
  <2>5. CASE c.from \in Accounts /\ c.to \in Accounts /\ Covers(c.from, c.amt)
    <3>1. Answer(MsgOk(0, c.from, c.to, c.amt)) /\ accounts' = Booked(o)
      BY <1>10, <2>2, <2>5 DEF ServeTransfer, ValidAccount, Acknowledge
    <3>2. ~ (accounts[c.from] < c.amt)
      <4>1. accounts[c.from] \in CInt
        BY <1>1, <2>5
      <4>2. accounts[c.from] \in Int /\ c.amt \in Int
        BY <1>1, <4>1, CIntFacts
      <4> QED
        BY <2>5, <4>2 DEF Covers
    <3>3. L!Outcome(o) = "ok"
      BY <1>2, <2>2, <2>5, <3>2 DEF L!Outcome
    <3> QED
      BY <1>3, <1>4, <1>6, <3>1, <3>3
  <2> QED
    BY <2>3, <2>4, <2>5
<1>11. CASE ServeBalance
  <2>1. o.cmd = "balance"
    BY <1>2, <1>5, <1>11 DEF ServeBalance, Serving
  <2>2. /\ L!Outcome(o) = IF c.from \in Accounts THEN "ok" ELSE "unknown"
        /\ Booked(o) = accounts
    BY <1>1, <1>2, <2>1, BookedNothing DEF L!Outcome, L!Names, L!Debits, L!Credits
  <2>3. CASE c.from \in Accounts
    <3>1. WordsAt(c.id) \subseteq CInt
      BY <1>1, HeapAssumption DEF WordsAt, ValidAccount
    <3>2. PICK a \in CInt : Answer(MsgOk(0, c.from, c.to, a))
      BY <1>11, <2>3, <3>1 DEF ServeBalance, ValidAccount
    <3>3. UNCHANGED accounts
      BY <1>11 DEF ServeBalance
    <3> QED
      BY <1>3, <1>4, <1>6, <2>2, <2>3, <3>2, <3>3
  <2>4. CASE c.from \notin Accounts
    <3>1. Answer(MsgAccUnkn(0, c.to)) /\ UNCHANGED accounts
      BY <1>11, <2>4 DEF ServeBalance, ValidAccount
    <3> QED
      BY <1>3, <1>4, <1>6, <2>2, <2>4, <3>1
  <2> QED
    BY <2>3, <2>4
<1>12. ~ IgnoreUnknownAtm /\ ~ FailUnknownCommand
  BY <1>1 DEF IgnoreUnknownAtm, FailUnknownCommand, ValidAtm
<1> QED
  BY <1>1, <1>7, <1>8, <1>9, <1>10, <1>11, <1>12
  DEF BankStep, BankNext, BankOpen, ReadRequest, Close, Serve

-------------------------------------------------------------------------------
\* Orders and verdicts stay while no ATM begins or ends a wait and no reply is
\* written.
LEMMA LedgerUntouched ==
  ASSUME UNCHANGED <<accounts, replies>>,
         \A i \in Atms : (atmPc'[i] = "wait" <=> atmPc[i] = "wait"),
         \A i \in Atms : atmPc[i] = "wait" => Current(i)' = Current(i)
  PROVE  UNCHANGED L!ledger
  BY DEF L!ledger, orders, verdicts, OrderOf

\* An ATM asks when it writes its request and collects when it reads the reply;
\* its other steps are not the ledger's business.
LEMMA AtmImplements ==
  ASSUME ProtocolInv, RepliesTolerated, NEW i \in Atms, AtmStep(i)
  PROVE  [L!LedgerNext]_(L!ledger)
<1> USE DEF AtmStep, bankVars, parentVars
<1>1. /\ atmPc \in [Atms -> AtmPcs] /\ pos \in [Atms -> 0 .. Len(trace.cmds)]
      /\ replies \in [Atms -> Seq(Commands)]
  BY DEF ProtocolInv, TypeOK, AtmTypeOK, BankTypeOK
<1>2. CASE TraceOpen(i) \/ TraceOpenFails(i) \/ SkipRecord(i) \/ TakeRecord(i)
           \/ RejectRecord(i) \/ EndOfTrace(i)
  <2>1. /\ UNCHANGED <<accounts, replies, trace>>
        /\ \A j \in Atms : j # i => pos'[j] = pos[j]
        /\ \A j \in Atms : j # i => atmPc'[j] = atmPc[j]
        /\ atmPc[i] # "wait" /\ atmPc'[i] # "wait"
    BY <1>1, <1>2 DEF TraceOpen, TraceOpenFails, SkipRecord, TakeRecord, RejectRecord,
                      ReadRecord, EndOfTrace, AtmAt, AtmGoto, pipes
  <2>2. \A j \in Atms : atmPc[j] = "wait" => Current(j)' = Current(j)
    BY <2>1 DEF Current, Buffer
  <2> QED
    BY <2>1, <2>2, LedgerUntouched
<1>3. CASE Send(i)
  <2>1. /\ atmPc[i] = "send" /\ atmPc' = [atmPc EXCEPT ![i] = "wait"]
        /\ UNCHANGED <<accounts, replies, trace, pos>>
    BY <1>3 DEF Send, AtmAt, AtmGoto
  <2>2. \A j \in Atms : Current(j)' = Current(j)
    BY <2>1 DEF Current, Buffer
  <2>3. Current(i) \in Commands /\ Current(i).cmd \in Requests
    BY <2>1, CurrentType DEF ProtocolInv, RequestsUnderWay
  <2>4. orders[i] = NoOrder /\ orders' = [orders EXCEPT ![i] = OrderOf(Current(i))]
    BY <1>1, <2>1, <2>2 DEF orders
  <2>5. orders'[i] = OrderOf(Current(i)) /\ OrderOf(Current(i)) \in Orders
    BY <2>3, <2>4, OrderFacts DEF orders
  <2>6. verdicts' = verdicts
    BY <2>1 DEF verdicts
  <2>7. L!Ask(i)
    BY <2>1, <2>4, <2>5, <2>6 DEF L!Ask, L!NoOrder, NoOrder
  <2> QED
    BY <2>7 DEF L!LedgerNext
<1>4. CASE Receive(i)
  <2>1. /\ atmPc[i] = "wait" /\ replies[i] # <<>>
        /\ \E pc \in {"read", "failed"} : atmPc' = [atmPc EXCEPT ![i] = pc]
        /\ replies' = [replies EXCEPT ![i] = Tail(@)]
        /\ UNCHANGED <<accounts, trace, pos>>
    BY <1>4 DEF Receive, AtmAt, AtmGoto, ReadReply
  <2>2. \A j \in Atms : Current(j)' = Current(j)
    BY <2>1 DEF Current, Buffer
  <2>3. Len(replies[i]) = 1
    BY <2>1 DEF ProtocolInv, OneOutstanding
  <2>4. replies'[i] = <<>> /\ \A j \in Atms : j # i => replies'[j] = replies[j]
    <3>1. replies'[i] = Tail(replies[i]) /\ replies[i] \in Seq(Commands)
      BY <1>1, <2>1
    <3>2. replies'[i] = <<>>
      BY <2>3, <3>1, TailOfOne
    <3> QED
      BY <1>1, <2>1, <3>2
  <2>5. verdicts[i] # "pending"
    <3>1. Head(replies[i]).cmd \in Tolerated
      BY <1>1, <2>1, <2>3 DEF RepliesTolerated
    <3>2. VerdictOf(Head(replies[i]).cmd) # "pending"
      BY <3>1, VerdictFacts
    <3> QED
      BY <2>1, <3>2 DEF verdicts
  <2>6. orders' = [orders EXCEPT ![i] = NoOrder]
    BY <1>1, <2>1, <2>2 DEF orders
  <2>7. verdicts' = [verdicts EXCEPT ![i] = "pending"]
    BY <2>4 DEF verdicts
  <2>8. L!Collect(i)
    BY <2>1, <2>5, <2>6, <2>7 DEF L!Collect, L!NoOrder, NoOrder
  <2> QED
    BY <2>8 DEF L!LedgerNext
<1> QED
  BY <1>2, <1>3, <1>4 DEF AtmNext

\* Outside of serving the bank opens, reads or closes; what it serves it
\* answers.
LEMMA BankSteps ==
  ASSUME ProtocolInv, BankStep
  PROVE  \/ /\ bankPc = "serve"
            /\ \/ ServeConnect \/ ServeExit \/ ServeDeposit \/ ServeWithdraw
               \/ ServeTransfer \/ ServeBalance
         \/ bankPc # "serve" /\ (BankOpen \/ ReadRequest \/ Close)
<1>1. ~ IgnoreUnknownAtm /\ ~ FailUnknownCommand
  BY DEF IgnoreUnknownAtm, FailUnknownCommand, ValidAtm, ProtocolInv, BankNeverFails, RequestOf
<1>2. BankOpen \/ ReadRequest \/ Close => bankPc # "serve"
  BY DEF BankOpen, ReadRequest, Close
<1>3. ServeConnect \/ ServeExit \/ ServeDeposit \/ ServeWithdraw \/ ServeTransfer
        \/ ServeBalance => bankPc = "serve"
  BY DEF ServeConnect, ServeExit, ServeDeposit, ServeWithdraw, ServeTransfer, ServeBalance, Serving
<1> QED
  BY <1>1, <1>2, <1>3 DEF BankStep, BankNext, Serve

LEMMA ServeAnswers ==
  ASSUME ProtocolInv, BankStep, bankPc = "serve"
  PROVE  \E m \in Commands : Answer(m) /\ m.cmd \in Tolerated
<1> DEFINE c == bankCmd
<1>1. /\ \A a \in CInt : MsgOk(0, c.from, c.to, a) \in Commands
      /\ MsgOk(0, c.from, c.to, c.amt) \in Commands
      /\ MsgNoFunds(0, c.from, c.amt) \in Commands
      /\ MsgAccUnkn(0, c.to) \in Commands /\ MsgAccUnkn(0, c.from) \in Commands
  BY ReplyTypes DEF ProtocolInv, TypeOK
<1>2. /\ \A f, t, a : MsgOk(0, f, t, a).cmd \in Tolerated
      /\ \A f, a : MsgNoFunds(0, f, a).cmd \in Tolerated
      /\ \A t : MsgAccUnkn(0, t).cmd \in Tolerated
  BY DEF MsgOk, MsgNoFunds, MsgAccUnkn, Pack, Tolerated
<1>3. WordsAt(c.id) \subseteq CInt
  BY HeapAssumption DEF WordsAt, ValidAccount, ProtocolInv, TypeOK, BankTypeOK
<1>4. CASE ServeConnect \/ ServeExit \/ ServeDeposit \/ ServeWithdraw
  BY <1>1, <1>2, <1>4 DEF ServeConnect, ServeExit, ServeDeposit, ServeWithdraw, Acknowledge
<1>5. CASE ServeTransfer
  BY <1>1, <1>2, <1>5 DEF ServeTransfer, Acknowledge
<1>6. CASE ServeBalance
  BY <1>1, <1>2, <1>3, <1>6 DEF ServeBalance
<1> QED
  BY <1>4, <1>5, <1>6, BankSteps

\* The bank's steps other than serving are not the ledger's business, nor are
\* the parent's.
LEMMA BankImplements ==
  ASSUME ProtocolInv, BankUnopened, BankStep
  PROVE  [L!LedgerNext]_(L!ledger)
<1>1. CASE bankPc = "serve"
  BY <1>1, ServeExecutes DEF L!LedgerNext
<1>2. CASE bankPc # "serve"
  <2>1. BankOpen \/ ReadRequest \/ Close
    BY <1>2, BankSteps
  <2>2. UNCHANGED <<accounts, replies, atmPc, trace, pos>>
    BY <2>1 DEF BankStep, BankOpen, ReadRequest, Close, BankUnopened, pipes, atmVars
  <2>3. \A j \in Atms : Current(j)' = Current(j)
    BY <2>2 DEF Current, Buffer
  <2> QED
    BY <2>2, <2>3, LedgerUntouched
<1> QED
  BY <1>1, <1>2

LEMMA ParentImplements ==
  ASSUME ProtocolInv, Parent
  PROVE  UNCHANGED L!ledger
<1>1. UNCHANGED <<accounts, replies, trace, pos>>
  BY DEF Parent, ForkAtm, ForkBank, ForkFails, Reap, WaitWithoutChild, atmVars, bankVars, pipes
<1>2. \A i \in Atms : atmPc'[i] = "wait" <=> atmPc[i] = "wait"
  <2>1. CASE ForkAtm
    <3>1. atmPc \in [Atms -> AtmPcs] /\ atmPc' = [atmPc EXCEPT ![forked] = "open"]
          /\ (forked \in Atms => atmPc[forked] = "unforked")
      BY <2>1 DEF ForkAtm, AtmGoto, ProtocolInv, NotYetForked, TypeOK, AtmTypeOK, Atms
    <3> QED
      BY <3>1
  <2> QED
    BY <2>1 DEF Parent, ForkBank, ForkFails, Reap, WaitWithoutChild, atmVars
<1>3. \A j \in Atms : Current(j)' = Current(j)
  BY <1>1 DEF Current, Buffer
<1> QED
  BY <1>1, <1>2, <1>3, LedgerUntouched

\* Before the bank opens nothing is booked, and it writes no other verdict
\* than the three.
LEMMA NextReplies ==
  ASSUME ProtocolInv, BankUnopened, RepliesTolerated, [Next]_vars
  PROVE  BankUnopened' /\ RepliesTolerated'
<1> USE DEF BankUnopened, RepliesTolerated
<1>1. replies \in [Atms -> Seq(Commands)]
  BY DEF ProtocolInv, TypeOK, BankTypeOK
<1>2. CASE Parent \/ UNCHANGED vars
  <2>1. UNCHANGED <<accounts, served, replies>> /\ (bankPc' = bankPc \/ (bankPc = "unforked"))
    BY <1>2 DEF Parent, ForkAtm, ForkBank, ForkFails, Reap, WaitWithoutChild, atmVars, bankVars,
                pipes, vars, ProtocolInv, NotYetForked, TypeOK
  <2> QED
    BY <2>1
<1>3. ASSUME NEW i \in Atms, AtmStep(i)
      PROVE  BankUnopened' /\ RepliesTolerated'
  <2>1. UNCHANGED <<accounts, served, bankPc>>
    BY <1>3 DEF AtmStep, bankVars
  <2>2. \/ UNCHANGED replies
        \/ replies[i] # <<>> /\ replies' = [replies EXCEPT ![i] = Tail(@)]
    BY <1>3 DEF AtmStep, AtmNext, TraceOpen, TraceOpenFails, SkipRecord, TakeRecord, RejectRecord,
                ReadRecord, EndOfTrace, Send, Receive, ReadReply, pipes
  <2>3. CASE replies[i] # <<>> /\ replies' = [replies EXCEPT ![i] = Tail(@)]
    <3>1. \A j \in Atms : j # i => replies'[j] = replies[j]
      BY <1>1, <2>3
    <3>2. \A k \in DOMAIN replies'[i] : k + 1 \in DOMAIN replies[i] /\ replies'[i][k] = replies[i][k + 1]
      BY <1>1, <2>3
    <3> QED
      BY <2>1, <3>1, <3>2
  <2> QED
    BY <2>1, <2>2, <2>3
<1>4. CASE BankStep /\ bankPc # "serve"
  <2>1. BankOpen \/ ReadRequest \/ Close
    BY <1>4, BankSteps
  <2> QED
    BY <2>1 DEF BankOpen, ReadRequest, Close, pipes
<1>5. CASE BankStep /\ bankPc = "serve"
  <2>1. PICK m : Answer(m) /\ m.cmd \in Tolerated
    BY <1>5, ServeAnswers
  <2>2. bankCmd.id \in Atms /\ bankPc' = "read"
        /\ replies' = [replies EXCEPT ![bankCmd.id] = Append(@, m)]
    BY <1>5, <2>1 DEF Answer, WriteReply, ProtocolInv, BankNeverFails, RequestOf
  <2>3. \A j \in Atms : j # bankCmd.id => replies'[j] = replies[j]
    BY <1>1, <2>2
  <2>4. replies[bankCmd.id] = <<>>
    BY <1>5, <2>2 DEF ProtocolInv, OneOutstanding, AtBank
  <2>5. \A k \in DOMAIN replies'[bankCmd.id] : replies'[bankCmd.id][k] = m
    BY <1>1, <2>2, <2>4
  <2> QED
    BY <2>1, <2>2, <2>3, <2>5
<1> QED
  BY <1>2, <1>3, <1>4, <1>5 DEF Next, Terminated

\* The bank simulation, for any number of ATMs and accounts, any pipe capacity,
\* any width of an int, any trace and any failing calls, executes the
\* transactions of its ATMs atomically, one at a time, each between its
\* request and its reply and with the verdict that follows from the balances
\* at that instant (atm.c, bank.c, banksim.c together).
THEOREM LedgerIsImplemented == Spec => LedgerImplemented
<1>1. Init => ProtocolInv /\ BankUnopened /\ RepliesTolerated
  BY InitProtocol
  DEF Init, BankInit, PipesInit, BankUnopened, RepliesTolerated
<1>2. ProtocolInv /\ BankUnopened /\ RepliesTolerated /\ [Next]_vars
        => ProtocolInv' /\ BankUnopened' /\ RepliesTolerated'
  BY NextProtocol, NextReplies
<1>3. Init => L!LedgerInit
  BY DEF Init, BankInit, PipesInit, AtmInit, L!LedgerInit, orders, verdicts, L!NoOrder, NoOrder
<1>4. ProtocolInv /\ BankUnopened /\ RepliesTolerated /\ [Next]_vars
        => [L!LedgerNext]_(L!ledger)
  <2> SUFFICES ASSUME ProtocolInv, BankUnopened, RepliesTolerated, [Next]_vars
               PROVE  [L!LedgerNext]_(L!ledger)
    OBVIOUS
  <2>1. CASE UNCHANGED vars
    <3>1. UNCHANGED <<accounts, replies, atmPc, trace, pos>>
      BY <2>1 DEF vars, pipes, bankVars, atmVars
    <3> QED
      BY <3>1, LedgerUntouched DEF Current, Buffer
  <2> QED
    BY <2>1, AtmImplements, BankImplements, ParentImplements DEF Next, Terminated
<1> QED
  BY <1>1, <1>2, <1>3, <1>4, PTL DEF Spec, LedgerImplemented, L!LedgerSpec

-------------------------------------------------------------------------------
\* Every command of the bank ends in an answer.
LEMMA ServesAnswer ==
  ASSUME BankTypeOK, Serves
  PROVE  \E m \in Commands : Answer(m)
<1>1. WordsAt(bankCmd.id) \subseteq CInt
  BY HeapAssumption DEF WordsAt, ValidAccount, BankTypeOK
<1>2. CASE ServeConnect \/ ServeExit \/ ServeDeposit \/ ServeWithdraw
  BY <1>2, ReplyTypes DEF ServeConnect, ServeExit, ServeDeposit, ServeWithdraw, Acknowledge
<1>3. CASE ServeTransfer
  BY <1>3, ReplyTypes DEF ServeTransfer, Acknowledge
<1>4. CASE ServeBalance
  BY <1>1, <1>4, ReplyTypes DEF ServeBalance
<1> QED
  BY <1>2, <1>3, <1>4 DEF Serves

\* The history of the bank.  An answer adds one entry at its end; it belongs to
\* the ATM answered.
LEMMA ServedAfterAnswer ==
  ASSUME BankTypeOK, NEW m \in Commands, Answer(m)
  PROVE  LET n == Len(served) + 1  e == [request |-> bankCmd, code |-> m.cmd] IN
         /\ Len(served) \in Nat /\ DOMAIN served = 1 .. Len(served)
         /\ DOMAIN served' = 1 .. n /\ served'[n] = e /\ Len(served') = n
         /\ \A k \in 1 .. Len(served) : served'[k] = served[k]
         /\ \A i : ServedOf(i) \subseteq 1 .. Len(served)
         /\ \A i : ServedOf(i)' = IF i = bankCmd.id THEN ServedOf(i) \cup {n} ELSE ServedOf(i)
<1> DEFINE e == [request |-> bankCmd, code |-> m.cmd]
<1>1. /\ served \in Seq([request : Commands, code : 0 .. 255])
      /\ bankCmd \in Commands /\ m.cmd \in 0 .. 255
  BY DEF BankTypeOK, Commands
<1>2. served' = Append(served, e) /\ e \in [request : Commands, code : 0 .. 255]
  BY <1>1 DEF Answer
<1> HIDE DEF e
<1>3. /\ Len(served) \in Nat /\ DOMAIN served = 1 .. Len(served)
      /\ DOMAIN served' = 1 .. Len(served) + 1 /\ served'[Len(served) + 1] = e
      /\ Len(served') = Len(served) + 1
      /\ \A k \in 1 .. Len(served) : served'[k] = served[k]
  BY <1>1, <1>2
<1>4. e.request = bankCmd
  BY DEF e
<1>5. \A i : ServedOf(i) \subseteq 1 .. Len(served)
  BY <1>3 DEF ServedOf
<1>6. ASSUME NEW i
      PROVE  ServedOf(i)' = IF i = bankCmd.id THEN ServedOf(i) \cup {Len(served) + 1}
                            ELSE ServedOf(i)
  BY <1>3, <1>4 DEF ServedOf
<1> QED
  BY <1>3, <1>5, <1>6 DEF e

\* Nothing but an answer of the bank touches the history, and the ATM answered
\* waits for it.
LEMMA HistoryStep ==
  ASSUME ProtocolInv, [Next]_vars
  PROVE  \/ UNCHANGED served /\ ~ (bankPc = "serve" /\ BankStep)
         \/ /\ BankStep /\ bankPc = "serve" /\ UNCHANGED atmVars
            /\ \E m \in Commands : Answer(m)
<1>1. CASE BankStep /\ bankPc = "serve"
  BY <1>1, ServeAnswers DEF BankStep
<1>2. CASE ~ (BankStep /\ bankPc = "serve")
  <2>1. CASE BankStep
    BY <1>2, <2>1, BankSteps DEF BankOpen, ReadRequest, Close
  <2>2. CASE ~ BankStep
    BY <1>2, <2>2 DEF Next, Terminated, Parent, ForkAtm, ForkBank, ForkFails, Reap,
      WaitWithoutChild, AtmStep, vars, bankVars
  <2> QED
    BY <2>1, <2>2
<1> QED
  BY <1>1, <1>2

\* An answer fills the empty pipe of its ATM and no other.
LEMMA RepliesAfterAnswer ==
  ASSUME ProtocolInv, bankPc = "serve", UNCHANGED atmVars, NEW m \in Commands, Answer(m)
  PROVE  /\ bankCmd.id \in Atms /\ bankCmd = Current(bankCmd.id)
         /\ atmPc[bankCmd.id] = "wait" /\ replies[bankCmd.id] = <<>>
         /\ replies'[bankCmd.id] = <<m>>
         /\ \A j \in Atms : j # bankCmd.id => replies'[j] = replies[j]
         /\ \A j : Current(j)' = Current(j)
<1> DEFINE i == bankCmd.id
<1>1. i \in Atms /\ replies \in [Atms -> Seq(Commands)]
  BY DEF ProtocolInv, BankNeverFails, RequestOf, TypeOK, BankTypeOK
<1>2. atmPc[i] = "wait" /\ bankCmd = Current(i) /\ replies[i] = <<>>
  BY <1>1 DEF ProtocolInv, OneOutstanding, AtBank
<1>3. replies' = [replies EXCEPT ![i] = Append(@, m)]
  BY DEF Answer, WriteReply
<1>4. replies'[i] = <<m>>
  BY <1>1, <1>2, <1>3
<1>5. \A j \in Atms : j # i => replies'[j] = replies[j]
  BY <1>1, <1>3
<1>6. \A j : Current(j)' = Current(j)
  BY DEF atmVars, Current, Buffer
<1> QED
  BY <1>1, <1>2, <1>4, <1>5, <1>6

\* An ATM is served its reply and nobody else's: the latest entry of the
\* history for an ATM with a reply is that reply's request.
LEMMA ReplyStep ==
  ASSUME ProtocolInv, ReplyAnswersCurrent, [Next]_vars
  PROVE  ReplyAnswersCurrent'
<1>1. replies \in [Atms -> Seq(Commands)] /\ atmPc \in [Atms -> AtmPcs]
      /\ pos \in [Atms -> 0 .. Len(trace.cmds)]
  BY DEF ProtocolInv, TypeOK, BankTypeOK, AtmTypeOK
<1>2. CASE UNCHANGED served /\ ~ (bankPc = "serve" /\ BankStep)
  <2>1. \A i \in Atms : ServedOf(i)' = ServedOf(i)
    BY <1>2 DEF ServedOf
  <2>2. SUFFICES ASSUME NEW j \in Atms, replies'[j] # <<>>
                 PROVE  replies'[j] = replies[j] /\ Current(j)' = Current(j)
    BY <1>2, <2>1 DEF ReplyAnswersCurrent
  <2>3. CASE UNCHANGED <<replies, trace, pos>>
    BY <2>3 DEF Current, Buffer
  <2>4. ASSUME NEW i \in Atms, AtmStep(i)
        PROVE  replies'[j] = replies[j] /\ Current(j)' = Current(j)
    <3>1. CASE Receive(i)
      <4>1. replies[i] # <<>> /\ replies' = [replies EXCEPT ![i] = Tail(@)] /\ atmPc[i] = "wait"
            /\ UNCHANGED <<trace, pos>>
        BY <3>1 DEF Receive, ReadReply, AtmAt
      <4>2. Len(replies[i]) = 1 /\ replies[i] \in Seq(Commands)
        BY <1>1, <4>1 DEF ProtocolInv, OneOutstanding
      <4>3. replies'[i] = <<>>
        BY <1>1, <4>1, <4>2, TailOfOne
      <4> QED
        BY <1>1, <2>2, <4>1, <4>3 DEF Current, Buffer
    <3>2. CASE Send(i)
      BY <3>2 DEF Send, Current, Buffer
    <3>3. CASE ~ Receive(i) /\ ~ Send(i)
      <4>1. UNCHANGED <<replies, trace>> /\ atmPc[i] # "wait"
            /\ \A k \in Atms : k # i => pos'[k] = pos[k]
        BY <1>1, <2>4, <3>3 DEF AtmStep, AtmNext, TraceOpen, TraceOpenFails, SkipRecord, TakeRecord,
          RejectRecord, ReadRecord, EndOfTrace, AtmAt, pipes
      <4>2. replies[i] = <<>>
        BY <4>1 DEF ProtocolInv, OneOutstanding
      <4> QED
        BY <2>2, <4>1, <4>2 DEF Current, Buffer
    <3> QED
      BY <3>1, <3>2, <3>3
  <2>5. CASE BankStep
    <3>1. UNCHANGED <<replies, trace, pos>>
      BY <1>2, <2>5, BankSteps DEF BankStep, BankOpen, ReadRequest, Close, pipes, atmVars
    <3> QED
      BY <2>3, <3>1
  <2>6. CASE Parent \/ UNCHANGED vars
    <3>1. UNCHANGED <<replies, trace, pos>>
      BY <2>6 DEF Parent, ForkAtm, ForkBank, ForkFails, Reap, WaitWithoutChild, vars, pipes, atmVars
    <3> QED
      BY <2>3, <3>1
  <2> QED
    BY <2>4, <2>5, <2>6 DEF Next, Terminated
<1>3. CASE /\ BankStep /\ bankPc = "serve" /\ UNCHANGED atmVars
           /\ \E m \in Commands : Answer(m)
  <2>1. PICK m \in Commands : Answer(m)
    BY <1>3
  <2>0. PICK i : i = bankCmd.id
    OBVIOUS
  <2> DEFINE n == Len(served) + 1
  <2>2. /\ i \in Atms /\ bankCmd = Current(i) /\ replies'[i] = <<m>>
        /\ \A j \in Atms : j # i => replies'[j] = replies[j]
        /\ \A j : Current(j)' = Current(j)
    BY <1>3, <2>0, <2>1, RepliesAfterAnswer
  <2>3. /\ Len(served) \in Nat /\ served'[n] = [request |-> bankCmd, code |-> m.cmd]
        /\ \A k \in 1 .. Len(served) : served'[k] = served[k]
        /\ \A j : ServedOf(j) \subseteq 1 .. Len(served)
        /\ \A j : ServedOf(j)' = IF j = i THEN ServedOf(j) \cup {n} ELSE ServedOf(j)
    BY <2>0, <2>1, ServedAfterAnswer DEF ProtocolInv, TypeOK
  <2>4. ASSUME NEW j \in Atms, replies'[j] # <<>>
        PROVE  \E k \in ServedOf(j)' :
                 /\ \A l \in ServedOf(j)' : l <= k
                 /\ served'[k] = [request |-> Current(j)', code |-> Head(replies'[j]).cmd]
    <3>1. CASE j = i
      <4>1. n \in ServedOf(i)' /\ \A l \in ServedOf(i)' : l <= n
        BY <2>3
      <4>2. Head(replies'[i]) = m
        BY <2>2
      <4>3. served'[n] = [request |-> Current(i)', code |-> Head(replies'[i]).cmd]
        BY <2>2, <2>3, <4>2
      <4> QED
        BY <3>1, <4>1, <4>3
    <3>2. CASE j # i
      <4>1. ServedOf(j)' = ServedOf(j) /\ replies'[j] = replies[j] /\ Current(j)' = Current(j)
        BY <2>2, <2>3, <3>2
      <4>2. PICK k \in ServedOf(j) :
               /\ \A l \in ServedOf(j) : l <= k
               /\ served[k] = [request |-> Current(j), code |-> Head(replies[j]).cmd]
        BY <2>4, <4>1 DEF ReplyAnswersCurrent
      <4>3. served'[k] = served[k]
        BY <2>3, <4>2
      <4> QED
        BY <4>1, <4>2, <4>3
    <3> QED
      BY <3>1, <3>2
  <2> QED
    BY <2>4 DEF ReplyAnswersCurrent
<1> QED
  BY <1>2, <1>3, HistoryStep

\* The reply in the pipe of an ATM always answers the command it is executing,
\* never an earlier one, for any number of ATMs and any trace (atm.c 77-82).
THEOREM ReplyAnswersCurrentHolds == Spec => []ReplyAnswersCurrent
<1>1. Init => ReplyAnswersCurrent
  BY DEF Init, PipesInit, ReplyAnswersCurrent
<1>2. ProtocolInv /\ ReplyAnswersCurrent /\ [Next]_vars => ReplyAnswersCurrent'
  BY ReplyStep
<1> QED
  BY <1>1, <1>2, ProtocolInvariant, PTL DEF Spec

-------------------------------------------------------------------------------
\* Counting positions.
LEMMA CountAdd ==
  ASSUME NEW n \in Nat, NEW A \in SUBSET (1 .. n)
  PROVE  /\ IsFiniteSet(A) /\ Cardinality(A) \in Nat
         /\ Cardinality(A \cup {n + 1}) = Cardinality(A) + 1
<1>1. IsFiniteSet(1 .. n)
  BY FS_Interval
<1>2. IsFiniteSet(A)
  BY <1>1, FS_Subset
<1> QED
  BY <1>2, FS_CardinalityType, FS_AddElement

\* The records of an ATM's own, one record further.
LEMMA OwnNext ==
  ASSUME NEW i, NEW n \in Nat
  PROVE  OwnUpTo(i, n + 1) =
           IF Buffer(n + 1).id = i /\ Buffer(n + 1).cmd \in Requests
           THEN OwnUpTo(i, n) \cup {n + 1} ELSE OwnUpTo(i, n)
<1>1. 1 .. n + 1 = (1 .. n) \cup {n + 1}
  OBVIOUS
<1>2. \A p : p \in OwnUpTo(i, n + 1) <=>
        p \in 1 .. n + 1 /\ Buffer(p).id = i /\ Buffer(p).cmd \in Requests
  BY DEF OwnUpTo
<1>3. \A p : p \in OwnUpTo(i, n) <=>
        p \in 1 .. n /\ Buffer(p).id = i /\ Buffer(p).cmd \in Requests
  BY DEF OwnUpTo
<1> QED
  BY <1>1, <1>2, <1>3

\* A step that serves nobody and settles no record of an ATM's own leaves its
\* account of the trace as it is.
LEMMA OrderUntouched ==
  ASSUME NEW i \in Atms, ExecutedInTraceOrder!(i), UNCHANGED <<served, trace>>,
         OwnUpTo(i, Settled(i)') = OwnUpTo(i, Settled(i))
  PROVE  ExecutedInTraceOrder!(i)'
<1>1. \A n : Buffer(n)' = Buffer(n)
  BY DEF Buffer
<1>2. \A n : OwnUpTo(i, n)' = OwnUpTo(i, n)
  BY <1>1 DEF OwnUpTo
<1>3. ServedOf(i)' = ServedOf(i)
  BY DEF ServedOf
<1>4. OwnUpTo(i, Settled(i))' = OwnUpTo(i, Settled(i))
  BY <1>2 DEF OwnUpTo
<1> QED
  BY <1>1, <1>2, <1>3, <1>4

\* What a step of an ATM reads settles at once or is put under way.
LEMMA AtmKeepsOrder ==
  ASSUME ProtocolInv, NEW i \in Atms, AtmStep(i), NEW j \in Atms
  PROVE  UNCHANGED <<served, trace>> /\ OwnUpTo(j, Settled(j)') = OwnUpTo(j, Settled(j))
<1>1. /\ replies \in [Atms -> Seq(Commands)] /\ atmPc \in [Atms -> AtmPcs]
      /\ pos \in [Atms -> 0 .. Len(trace.cmds)] /\ Len(trace.cmds) \in Nat
  BY CurrentType DEF ProtocolInv, TypeOK, BankTypeOK, AtmTypeOK
<1>2. UNCHANGED <<served, trace>>
  BY DEF AtmStep, AtmNext, TraceOpen, TraceOpenFails, SkipRecord, TakeRecord, RejectRecord,
         ReadRecord, EndOfTrace, Send, Receive, bankVars
<1>3. pos[i] \in Nat /\ OwnUpTo(i, pos[i] + 1) =
        IF Upcoming(i).id = i /\ Upcoming(i).cmd \in Requests
        THEN OwnUpTo(i, pos[i]) \cup {pos[i] + 1} ELSE OwnUpTo(i, pos[i])
  <2>1. pos[i] \in Nat
    BY <1>1
  <2> QED
    BY <2>1, OwnNext DEF Upcoming
<1>4. CASE TraceOpen(i) \/ TraceOpenFails(i) \/ EndOfTrace(i)
  <2>1. Settled(j)' = Settled(j)
    BY <1>1, <1>4
    DEF TraceOpen, TraceOpenFails, EndOfTrace, AtmAt, AtmGoto, pipes, Settled, Unserved
  <2> QED
    BY <1>2, <2>1
<1>5. CASE SkipRecord(i) \/ TakeRecord(i) \/ RejectRecord(i)
  <2>1. /\ UNCHANGED replies /\ atmPc[i] = "read" /\ pos' = [pos EXCEPT ![i] = @ + 1]
        /\ \E pc \in {"read", "send", "failed"} :
             /\ atmPc' = [atmPc EXCEPT ![i] = pc]
             /\ pc = "send" <=> (Upcoming(i).id = i /\ Upcoming(i).cmd \in Requests)
    BY <1>1, <1>5 DEF SkipRecord, TakeRecord, RejectRecord, ReadRecord, AtmAt, AtmGoto, pipes
  <2>2. CASE j = i
    <3>1. Settled(i) = pos[i]
      BY <2>1 DEF Settled, Unserved
    <3>2. Settled(i)' = IF Upcoming(i).id = i /\ Upcoming(i).cmd \in Requests
                        THEN pos[i] ELSE pos[i] + 1
      BY <1>1, <1>3, <2>1 DEF Settled, Unserved
    <3> QED
      BY <1>2, <1>3, <2>2, <3>1, <3>2
  <2>3. CASE j # i
    BY <1>1, <1>2, <2>1, <2>3 DEF Settled, Unserved
  <2> QED
    BY <2>2, <2>3
<1>6. CASE Send(i)
  <2>1. atmPc[i] = "send" /\ atmPc' = [atmPc EXCEPT ![i] = "wait"] /\ UNCHANGED <<replies, pos>>
    BY <1>6 DEF Send, AtmAt, AtmGoto
  <2>2. replies[i] = <<>>
    BY <2>1 DEF ProtocolInv, OneOutstanding
  <2>3. Settled(j)' = Settled(j)
    BY <1>1, <2>1, <2>2 DEF Settled, Unserved
  <2> QED
    BY <1>2, <2>3
<1>7. CASE Receive(i)
  <2>1. /\ atmPc[i] = "wait" /\ replies[i] # <<>> /\ UNCHANGED pos
        /\ replies' = [replies EXCEPT ![i] = Tail(@)]
        /\ \E pc \in {"read", "failed"} : atmPc' = [atmPc EXCEPT ![i] = pc]
    BY <1>7 DEF Receive, AtmAt, AtmGoto, ReadReply
  <2>2. Settled(j)' = Settled(j)
    BY <1>1, <2>1 DEF Settled, Unserved
  <2> QED
    BY <1>2, <2>2
<1> QED
  BY <1>2, <1>4, <1>5, <1>6, <1>7 DEF AtmStep, AtmNext

\* An answer settles the record the ATM has under way: one more entry in the
\* history, one more record of its own, both the last of their kind.
LEMMA ServeKeepsOrder ==
  ASSUME ProtocolInv, ExecutedInTraceOrder, BankStep, bankPc = "serve", UNCHANGED atmVars,
         NEW m \in Commands, Answer(m), NEW j \in Atms
  PROVE  ExecutedInTraceOrder!(j)'
<1> DEFINE n == Len(served) + 1
<1>1. PICK i : i = bankCmd.id
  OBVIOUS
<1>2. /\ i \in Atms /\ bankCmd = Current(i) /\ atmPc[i] = "wait" /\ replies[i] = <<>>
      /\ replies'[i] = <<m>>
      /\ \A k \in Atms : k # i => replies'[k] = replies[k]
  BY <1>1, RepliesAfterAnswer
<1>3. /\ Len(served) \in Nat /\ served'[n] = [request |-> bankCmd, code |-> m.cmd]
      /\ \A k \in 1 .. Len(served) : served'[k] = served[k]
      /\ \A k : ServedOf(k) \subseteq 1 .. Len(served)
      /\ \A k : ServedOf(k)' = IF k = i THEN ServedOf(k) \cup {n} ELSE ServedOf(k)
  BY <1>1, ServedAfterAnswer DEF ProtocolInv, TypeOK
<1>4. /\ UNCHANGED <<atmPc, pos, trace>> /\ \A p : Buffer(p)' = Buffer(p)
      /\ \A k, p : OwnUpTo(k, p)' = OwnUpTo(k, p)
  BY DEF atmVars, Buffer, OwnUpTo
<1>5. CASE j # i
  <2>1. /\ Settled(j)' = Settled(j) /\ ServedOf(j)' = ServedOf(j)
        /\ \A k \in ServedOf(j) : served'[k] = served[k]
    BY <1>2, <1>3, <1>4, <1>5 DEF Settled, Unserved
  <2>2. OwnUpTo(j, Settled(j))' = OwnUpTo(j, Settled(j))
    BY <1>4, <2>1 DEF OwnUpTo
  <2> QED
    BY <1>4, <2>1, <2>2 DEF ExecutedInTraceOrder
<1>6. CASE j = i
  <2>1. pos[i] \in Nat /\ pos[i] > 0 /\ Current(i).id = i /\ Current(i).cmd \in Requests
    BY <1>2, CurrentType DEF ProtocolInv, RequestsUnderWay
  <2>2. PICK q \in Nat : pos[i] = q + 1
    <3>1. pos[i] - 1 \in Nat /\ pos[i] = (pos[i] - 1) + 1
      BY <2>1
    <3> QED
      BY <3>1
  <2>3. Settled(i) = q /\ Settled(i)' = q + 1
    BY <1>2, <1>4, <2>2 DEF Settled, Unserved
  <2>4. Buffer(q + 1) = bankCmd /\ bankCmd.id = i /\ bankCmd.cmd \in Requests
    BY <1>2, <2>1, <2>2 DEF Current
  <2>5. OwnUpTo(i, q + 1) = OwnUpTo(i, q) \cup {q + 1} /\ OwnUpTo(i, q) \in SUBSET (1 .. q)
    BY <2>4, OwnNext DEF OwnUpTo
  <2>6. Cardinality(OwnUpTo(i, q + 1)) = Cardinality(OwnUpTo(i, q)) + 1
    BY <2>5, CountAdd
  <2>7. Cardinality(ServedOf(i)') = Cardinality(ServedOf(i)) + 1
    BY <1>3, CountAdd
  <2>8. OwnUpTo(i, Settled(i))' = OwnUpTo(i, q + 1)
    BY <1>4, <2>3 DEF OwnUpTo
  <2>9. /\ Cardinality(ServedOf(i)) = Cardinality(OwnUpTo(i, q))
        /\ \A k \in ServedOf(i) : \E p \in OwnUpTo(i, q) :
             /\ served[k].request = Buffer(p)
             /\ Cardinality(OwnUpTo(i, p)) = Cardinality(ServedOf(i) \cap 1 .. k)
    BY <1>2, <2>3 DEF ExecutedInTraceOrder
  <2>10. ASSUME NEW k \in ServedOf(i)'
         PROVE  \E p \in OwnUpTo(i, q + 1) :
                  /\ served'[k].request = Buffer(p)
                  /\ Cardinality(OwnUpTo(i, p)) = Cardinality(ServedOf(i)' \cap 1 .. k)
    <3>1. CASE k = n
      <4>1. ServedOf(i)' \cap 1 .. k = ServedOf(i)'
        BY <1>3, <3>1
      <4>2. served'[k].request = Buffer(q + 1)
        BY <1>3, <2>4, <3>1
      <4> QED
        BY <2>5, <2>6, <2>7, <2>9, <4>1, <4>2
    <3>2. CASE k # n
      <4>1. k \in ServedOf(i) /\ k \in 1 .. Len(served)
        BY <1>3, <3>2
      <4>2. ServedOf(i)' \cap 1 .. k = ServedOf(i) \cap 1 .. k
        BY <1>3, <4>1
      <4>3. served'[k] = served[k]
        BY <1>3, <4>1
      <4> QED
        BY <2>5, <2>9, <4>1, <4>2, <4>3
    <3> QED
      BY <3>1, <3>2
  <2> QED
    BY <1>4, <1>6, <2>6, <2>7, <2>8, <2>9, <2>10
<1> QED
  BY <1>5, <1>6

LEMMA OrderStep ==
  ASSUME ProtocolInv, ExecutedInTraceOrder, [Next]_vars
  PROVE  ExecutedInTraceOrder'
<1> SUFFICES ASSUME NEW j \in Atms PROVE ExecutedInTraceOrder!(j)'
  BY DEF ExecutedInTraceOrder
<1>1. ExecutedInTraceOrder!(j)
  BY DEF ExecutedInTraceOrder
<1>2. CASE /\ BankStep /\ bankPc = "serve" /\ UNCHANGED atmVars
           /\ \E m \in Commands : Answer(m)
  BY <1>2, ServeKeepsOrder
<1>3. CASE UNCHANGED served /\ ~ (bankPc = "serve" /\ BankStep)
  <2>1. CASE \E i \in Atms : AtmStep(i)
    BY <1>1, <2>1, AtmKeepsOrder, OrderUntouched
  <2>2. CASE BankStep \/ Parent \/ UNCHANGED vars
    <3>1. UNCHANGED <<trace, pos, replies>>
      BY <1>3, <2>2, BankSteps DEF BankStep, BankOpen, ReadRequest, Close, pipes, atmVars,
        Parent, ForkAtm, ForkBank, ForkFails, Reap, WaitWithoutChild, vars
    <3>2. \A i \in Atms : \A pc \in {"send", "wait"} : atmPc'[i] = pc <=> atmPc[i] = pc
      <4>1. CASE ForkAtm
        <5>1. atmPc \in [Atms -> AtmPcs] /\ atmPc' = [atmPc EXCEPT ![forked] = "open"]
              /\ (forked \in Atms => atmPc[forked] = "unforked")
          BY <4>1 DEF ForkAtm, AtmGoto, ProtocolInv, NotYetForked, TypeOK, AtmTypeOK, Atms
        <5> QED
          BY <5>1
      <4> QED
        BY <2>2, <4>1 DEF BankStep, Parent, ForkBank, ForkFails, Reap, WaitWithoutChild, atmVars, vars
    <3>3. Settled(j)' = Settled(j)
      BY <3>1, <3>2 DEF Settled, Unserved
    <3> QED
      BY <1>1, <1>3, <3>1, <3>3, OrderUntouched
  <2> QED
    BY <2>1, <2>2 DEF Next, Terminated
<1> QED
  BY <1>2, <1>3, HistoryStep

\* Every command of every ATM is executed once and in trace order, for any
\* number of ATMs, any interleaving and any trace (atm.c, bank.c).
THEOREM ExecutedInTraceOrderHolds == Spec => []ExecutedInTraceOrder
<1>1. Init => ExecutedInTraceOrder
  <2> SUFFICES ASSUME Init, NEW i \in Atms
               PROVE  /\ ServedOf(i) = {} /\ OwnUpTo(i, Settled(i)) = {}
    BY DEF ExecutedInTraceOrder
  <2>1. ServedOf(i) = {}
    BY DEF Init, BankInit, ServedOf
  <2>2. Settled(i) = 0
    BY DEF Init, AtmInit, Settled, Unserved
  <2> QED
    BY <2>1, <2>2 DEF OwnUpTo
<1>2. ProtocolInv /\ ExecutedInTraceOrder /\ [Next]_vars => ExecutedInTraceOrder'
  BY OrderStep
<1> QED
  BY <1>1, <1>2, ProtocolInvariant, PTL DEF Spec

-------------------------------------------------------------------------------
\* The count of active ATMs.  The inductive invariant: the count is what the
\* EXITs served have left, it is looked at before every request, and once it
\* is zero nothing follows the last EXIT.
CountInv ==
  /\ Cardinality(ExitsServed) + atmCnt = AtmCount
  /\ atmCnt >= 0
  /\ bankPc = "serve" => atmCnt # 0
  /\ bankPc = "closed" => atmCnt = 0
  /\ atmCnt = 0 /\ AtmCount > 0 => Last(served).request.cmd = EXIT
  /\ \A k \in DOMAIN served : served[k].request.id \in Atms

LEMMA CountStep ==
  ASSUME BankTypeOK, BankUnopened, CountInv, BankMoves
  PROVE  CountInv'
<1> USE DEF CountInv
<1>1. AtmCount \in Nat /\ atmCnt \in Int
  BY CountsAssumption DEF BankTypeOK
<1>2. CASE ~ Serves
  <2>1. served' = served /\ ExitsServed' = ExitsServed
    BY <1>2 DEF BankMoves, BankNext, Serve, Serves, BankOpen, ReadRequest, Close,
      IgnoreUnknownAtm, FailUnknownCommand, ExitsServed
  <2>2. CASE BankOpen
    <3>1. served = <<>> /\ atmCnt' = AtmCount /\ bankPc' = "read"
      BY <2>2 DEF BankOpen, BankUnopened
    <3>2. ExitsServed = {} /\ Cardinality(ExitsServed) = 0
      BY <3>1, FS_EmptySet DEF ExitsServed
    <3> QED
      BY <1>1, <2>1, <3>1, <3>2
  <2>3. CASE ReadRequest \/ Close \/ IgnoreUnknownAtm \/ FailUnknownCommand
    BY <2>1, <2>3 DEF ReadRequest, Close, IgnoreUnknownAtm, FailUnknownCommand, Last
  <2>4. CASE ~ BankNext
    BY <2>1, <2>4 DEF BankMoves, Last
  <2> QED
    BY <1>2, <2>2, <2>3, <2>4 DEF BankNext, Serve, Serves
<1>3. CASE Serves
  <2>1. PICK m \in Commands : Answer(m)
    BY <1>3, ServesAnswer
  <2> DEFINE n == Len(served) + 1
  <2>2. /\ Len(served) \in Nat /\ DOMAIN served = 1 .. Len(served)
        /\ DOMAIN served' = 1 .. n /\ Len(served') = n
        /\ served'[n] = [request |-> bankCmd, code |-> m.cmd]
        /\ \A k \in 1 .. Len(served) : served'[k] = served[k]
    BY <2>1, ServedAfterAnswer
  <2>3. bankPc = "serve" /\ bankPc' = "read" /\ bankCmd.id \in Atms
    BY <1>3, <2>1 DEF Answer, Serves, ServeConnect, ServeExit, ServeDeposit, ServeWithdraw,
      ServeTransfer, ServeBalance, Serving, ValidAtm
  <2>4. \A k \in DOMAIN served' : served'[k].request.id \in Atms
    BY <2>2, <2>3
  <2>5. ExitsServed \in SUBSET (1 .. Len(served))
    BY <2>2 DEF ExitsServed
  <2>6. /\ Cardinality(ExitsServed) \in Nat
        /\ Cardinality(ExitsServed \cup {n}) = Cardinality(ExitsServed) + 1
    BY <2>2, <2>5, CountAdd
  <2>7. CASE bankCmd.cmd = EXIT
    <3>1. atmCnt' = atmCnt - 1
      BY <1>3, <2>7 DEF Serves, ServeConnect, ServeDeposit, ServeWithdraw,
        ServeTransfer, ServeBalance, ServeExit, Serving,
        CONNECT, EXIT, DEPOSIT, WITHDRAW, TRANSFER, BALANCE
    <3>2. ExitsServed' = ExitsServed \cup {n}
      BY <2>2, <2>7 DEF ExitsServed
    <3>3. Last(served') = served'[n] /\ served'[n].request.cmd = EXIT
      BY <2>2, <2>7 DEF Last
    <3> QED
      BY <1>1, <2>3, <2>4, <2>6, <3>1, <3>2, <3>3
  <2>8. CASE bankCmd.cmd # EXIT
    <3>1. atmCnt' = atmCnt
      BY <1>3, <2>8 DEF Serves, ServeConnect, ServeDeposit, ServeWithdraw,
        ServeTransfer, ServeBalance, ServeExit, Serving
    <3>2. ExitsServed' = ExitsServed
      BY <2>2, <2>8 DEF ExitsServed
    <3> QED
      BY <1>1, <2>3, <2>4, <2>6, <3>1, <3>2
  <2> QED
    BY <2>7, <2>8
<1> QED
  BY <1>2, <1>3

LEMMA InitCount == BankInit => CountInv
<1> SUFFICES ASSUME BankInit PROVE CountInv
  OBVIOUS
<1>1. ExitsServed = {} /\ Cardinality(ExitsServed) = 0
  BY FS_EmptySet DEF BankInit, ExitsServed
<1> QED
  BY <1>1, CountsAssumption DEF BankInit, CountInv

\* The invariants of the history and of the bank's start, together.
LEMMA CountInvariant == Spec => [](ProtocolInv /\ BankUnopened /\ RepliesTolerated /\ CountInv)
<1>1. Init => ProtocolInv /\ BankUnopened /\ RepliesTolerated
  BY InitProtocol
  DEF Init, BankInit, PipesInit, BankUnopened, RepliesTolerated
<1>2. Init => CountInv
  BY InitCount DEF Init
<1>3. ProtocolInv /\ BankUnopened /\ RepliesTolerated /\ CountInv /\ [Next]_vars
        => ProtocolInv' /\ BankUnopened' /\ RepliesTolerated' /\ CountInv'
  BY NextProtocol, NextReplies, CountStep, SimulationMoves DEF ProtocolInv, TypeOK
<1> QED
  BY <1>1, <1>2, <1>3, PTL DEF Spec

\* The bank closes at its AtmCount-th EXIT and not a request later or sooner,
\* for any number of ATMs and any trace (bank.c 142-147, 248).
THEOREM ClosesAtLastExitHolds == Spec => []ClosesAtLastExit
<1>1. CountInv => ClosesAtLastExit
  BY DEF CountInv, ClosesAtLastExit
<1> QED
  BY <1>1, CountInvariant, PTL

\* On a well-formed trace an EXIT that is served is its ATM's only EXIT, the
\* last of its records, and settled.
LEMMA ServedExit ==
  ASSUME ProtocolInv, CountInv, ExecutedInTraceOrder, WellFormed(trace),
         NEW k \in ExitsServed, NEW i, i = served[k].request.id
  PROVE  /\ i \in Atms /\ k \in ServedOf(i) /\ served[k].request = MsgExit(i)
         /\ \E p \in OwnUpTo(i, Settled(i)) :
              /\ \A j \in DOMAIN trace.cmds : trace.cmds[j].id = i => j <= p
              /\ Cardinality(OwnUpTo(i, p)) = Cardinality(ServedOf(i) \cap 1 .. k)
              /\ \A l \in ExitsServed : served[l].request.id = i =>
                   Cardinality(OwnUpTo(i, p)) = Cardinality(ServedOf(i) \cap 1 .. l)
<1>1. i \in Atms /\ k \in ServedOf(i)
  BY DEF CountInv, ExitsServed, ServedOf
<1>2. /\ pos[i] \in 0 .. Len(trace.cmds) /\ Len(trace.cmds) \in Nat
      /\ DOMAIN trace.cmds = 1 .. Len(trace.cmds)
  <2>1. trace.cmds \in Seq(Commands)
    BY TracesAssumption DEF ProtocolInv, TypeOK, AtmTypeOK, TraceFiles
  <2> QED
    BY <1>1, <2>1, CurrentType DEF ProtocolInv
<1>3. \A q : Buffer(q) = trace.cmds[q]
  BY DEF WellFormed, Buffer
<1>4. PICK e \in DOMAIN trace.cmds :
        /\ trace.cmds[e] = MsgExit(i)
        /\ \A j \in DOMAIN trace.cmds : trace.cmds[j].id = i =>
             j <= e /\ (trace.cmds[j].cmd = EXIT => j = e)
  BY <1>1 DEF WellFormed
<1>5. OwnUpTo(i, Settled(i)) \subseteq DOMAIN trace.cmds
  BY <1>2 DEF OwnUpTo, Settled
<1>6. ASSUME NEW l \in ExitsServed, served[l].request.id = i
      PROVE  /\ e \in OwnUpTo(i, Settled(i)) /\ served[l].request = MsgExit(i)
             /\ Cardinality(OwnUpTo(i, e)) = Cardinality(ServedOf(i) \cap 1 .. l)
  <2>1. l \in ServedOf(i) /\ served[l].request.cmd = EXIT
    BY <1>6 DEF ServedOf, ExitsServed
  <2>2. PICK p \in OwnUpTo(i, Settled(i)) :
          /\ served[l].request = Buffer(p)
          /\ Cardinality(OwnUpTo(i, p)) = Cardinality(ServedOf(i) \cap 1 .. l)
    BY <1>1, <2>1 DEF ExecutedInTraceOrder
  <2>3. p \in DOMAIN trace.cmds /\ trace.cmds[p].id = i /\ trace.cmds[p].cmd = EXIT
    BY <1>3, <1>5, <1>6, <2>1, <2>2
  <2>4. p = e
    BY <1>4, <2>3
  <2> QED
    BY <1>3, <1>4, <2>2, <2>4
<1>7. served[k].request.id = i
  OBVIOUS
<1> QED
  BY <1>1, <1>4, <1>6, <1>7

\* The EXITs served are as many as the ATMs they came from.
LEMMA ExitsCountAtms ==
  ASSUME ProtocolInv, CountInv, ExecutedInTraceOrder, WellFormed(trace)
  PROVE  LET D == {i \in Atms : \E k \in DOMAIN served : served[k].request = MsgExit(i)} IN
         Cardinality(D) = Cardinality(ExitsServed)
<1> DEFINE D == {i \in Atms : \E k \in DOMAIN served : served[k].request = MsgExit(i)}
           f == [k \in ExitsServed |-> served[k].request.id]
<1>1. /\ Len(served) \in Nat /\ DOMAIN served = 1 .. Len(served)
  BY DEF ProtocolInv, TypeOK, BankTypeOK
<1>2. ExitsServed \in SUBSET (1 .. Len(served)) /\ IsFiniteSet(ExitsServed)
  <2>1. ExitsServed \in SUBSET (1 .. Len(served))
    BY <1>1 DEF ExitsServed
  <2> QED
    BY <1>1, <2>1, CountAdd
<1>3. \A i : MsgExit(i).id = i /\ MsgExit(i).cmd = EXIT
  BY DEF MsgExit, Pack
<1>4. f \in [ExitsServed -> D]
  <2>1. ASSUME NEW k \in ExitsServed PROVE f[k] \in D
    <3>1. f[k] \in Atms /\ served[k].request = MsgExit(f[k])
      BY ServedExit
    <3>2. k \in DOMAIN served
      BY DEF ExitsServed
    <3> QED
      BY <3>1, <3>2
  <2> QED
    BY <2>1
<1>5. \A i \in D : \E k \in ExitsServed : f[k] = i
  <2> SUFFICES ASSUME NEW i \in D PROVE \E k \in ExitsServed : f[k] = i
    OBVIOUS
  <2>1. PICK k \in DOMAIN served : served[k].request = MsgExit(i)
    OBVIOUS
  <2>2. k \in ExitsServed
    BY <1>3, <2>1 DEF ExitsServed
  <2> QED
    BY <1>3, <2>1, <2>2
<1>6. ASSUME NEW k \in ExitsServed, NEW l \in ExitsServed, f[k] = f[l], k < l
      PROVE  FALSE
  <2>1. PICK i : i = served[k].request.id
    OBVIOUS
  <2>2. served[l].request.id = i
    BY <1>6, <2>1
  <2>3. Cardinality(ServedOf(i) \cap 1 .. k) = Cardinality(ServedOf(i) \cap 1 .. l)
    BY <2>1, <2>2, ServedExit
  <2>4. l \in ServedOf(i)
    BY <2>2, ServedExit
  <2>5. k \in Nat /\ l \in Nat
    BY <1>1, <1>2
  <2>6. /\ ServedOf(i) \cap 1 .. k \in SUBSET (ServedOf(i) \cap 1 .. l)
        /\ ServedOf(i) \cap 1 .. l \in SUBSET (1 .. l)
    BY <1>6, <2>5
  <2>7. IsFiniteSet(ServedOf(i) \cap 1 .. l)
    BY <2>5, <2>6, CountAdd
  <2>8. ServedOf(i) \cap 1 .. k = ServedOf(i) \cap 1 .. l
    BY <2>3, <2>6, <2>7, FS_Subset
  <2> QED
    BY <1>6, <2>4, <2>5, <2>8
<1>7. f \in Surjection(ExitsServed, D)
  BY <1>4, <1>5 DEF Surjection
<1>8. f \in Injection(ExitsServed, D)
  <2>1. \A k, l \in ExitsServed : f[k] = f[l] => k = l
    <3> SUFFICES ASSUME NEW k \in ExitsServed, NEW l \in ExitsServed, f[k] = f[l], k # l
                 PROVE  FALSE
      OBVIOUS
    <3>1. k \in Int /\ l \in Int
      BY <1>2
    <3>2. k < l \/ l < k
      BY <3>1
    <3> QED
      BY <1>6, <3>2
  <2> QED
    BY <1>4, <2>1 DEF Injection, IsInjective
<1> HIDE DEF D, f
<1>9. Cardinality(D) = Cardinality(ExitsServed)
  BY <1>2, <1>7, <1>8, FS_Surjection
<1> QED
  BY <1>9 DEF D

\* On the traces twriter writes, for any number of ATMs, the bank's count is
\* the number of ATMs that have not left yet, so that it never closes on one
\* that still asks, nor leaves a request unread (bank.c 143, 248).
THEOREM ActiveCountExactHolds == Spec => []ActiveCountExact
<1>1. ProtocolInv /\ CountInv /\ ExecutedInTraceOrder => ActiveCountExact
  <2> SUFFICES ASSUME ProtocolInv, CountInv, ExecutedInTraceOrder, WellFormed(trace)
               PROVE  ActiveCountExact
    BY DEF ActiveCountExact
  <2> DEFINE D == {i \in Atms : \E k \in DOMAIN served : served[k].request = MsgExit(i)}
             A == {i \in Atms : ~ \E k \in DOMAIN served : served[k].request = MsgExit(i)}
  <2>1. Cardinality(D) = Cardinality(ExitsServed)
    BY ExitsCountAtms
  <2>2. D \in SUBSET Atms /\ A \in SUBSET Atms /\ D \cup A = Atms /\ D \cap A = {}
    OBVIOUS
  <2> HIDE DEF D, A
  <2>3. /\ IsFiniteSet(D) /\ IsFiniteSet(A) /\ Cardinality(Atms) = AtmCount
        /\ Cardinality(D) \in Int /\ Cardinality(A) \in Int
    BY <2>2, CountFacts
  <2>4. AtmCount = Cardinality(D) + Cardinality(A)
    <3>1. Cardinality(D \cup A) = Cardinality(D) + Cardinality(A) - Cardinality(D \cap A)
      BY <2>3, FS_Union
    <3>2. Cardinality(D \cap A) = 0
      BY <2>2, FS_EmptySet
    <3>3. Cardinality(D \cup A) = AtmCount
      BY <2>2, <2>3
    <3> QED
      BY <2>3, <3>1, <3>2, <3>3
  <2>5. atmCnt = Cardinality(A)
    BY <2>1, <2>3, <2>4, CountsAssumption DEF CountInv, ProtocolInv, TypeOK, BankTypeOK
  <2>6. ASSUME bankPc = "closed"
        PROVE  bankIn = <<>> /\ \A i \in Atms : ServedOf(i) # {} /\ ~ Unserved(i)
    <3>1. A = {}
      BY <2>3, <2>5, <2>6, FS_EmptySet DEF CountInv
    <3>2. ASSUME NEW i \in Atms
          PROVE  ServedOf(i) # {} /\ ~ Unserved(i)
      <4>1. PICK k \in DOMAIN served : served[k].request = MsgExit(i)
        BY <3>1 DEF A
      <4>2. k \in ExitsServed /\ i = served[k].request.id
        BY <4>1 DEF ExitsServed, MsgExit, Pack
      <4>3. k \in ServedOf(i) /\ \E p \in OwnUpTo(i, Settled(i)) :
              \A j \in DOMAIN trace.cmds : trace.cmds[j].id = i => j <= p
        BY <4>2, ServedExit
      <4>4. ASSUME Unserved(i) PROVE FALSE
        <5>1. pos[i] > 0 /\ Current(i).id = i
          BY <4>4 DEF ProtocolInv, RequestsUnderWay, Unserved
        <5>2. trace.cmds \in Seq(Commands)
          BY TracesAssumption DEF ProtocolInv, TypeOK, AtmTypeOK, TraceFiles
        <5>3. pos[i] \in 1 .. Len(trace.cmds) /\ DOMAIN trace.cmds = 1 .. Len(trace.cmds)
          BY <5>1, <5>2, CurrentType DEF ProtocolInv
        <5>4. trace.cmds[pos[i]].id = i
          BY <5>1 DEF WellFormed, Current, Buffer
        <5>5. PICK p \in OwnUpTo(i, Settled(i)) : pos[i] <= p
          BY <4>3, <5>3, <5>4
        <5>6. Settled(i) = pos[i] - 1
          BY <4>4 DEF Settled
        <5> QED
          BY <5>3, <5>5, <5>6 DEF OwnUpTo
      <4> QED
        BY <4>3, <4>4
    <3>3. ASSUME bankIn # <<>> PROVE FALSE
      <4>1. 1 \in DOMAIN bankIn
        BY <3>3 DEF ProtocolInv, TypeOK, BankTypeOK
      <4>2. PICK i \in Atms : 1 \in InPipe(i)
        BY <4>1 DEF ProtocolInv, RequestsUnderWay, RequestOf, InPipe
      <4>3. Unserved(i)
        BY <4>2 DEF ProtocolInv, OneOutstanding, Unserved
      <4> QED
        BY <3>2, <4>3
    <3> QED
      BY <3>2, <3>3
  <2> QED
    BY <2>5, <2>6 DEF ActiveCountExact, A
<1> QED
  BY <1>1, CountInvariant, ExecutedInTraceOrderHolds, PTL

-------------------------------------------------------------------------------
\* Conservation of money.  The inductive invariant names the turns of the wheel
\* by which the balances have wrapped.
Wheel == 2 * IntBound
Balanced == \E q \in Int : MoneyHeld - BookedMoney = q * Wheel

\* What a book of balances adds up to.
Held(book) == SumTo([k \in 1 .. AccountCount |-> book[k - 1]], AccountCount)

LEMMA MultipleModulo ==
  ASSUME NEW w \in Nat \ {0}, NEW q \in Int
  PROVE  (q * w) % w = 0
  OBVIOUS

\* Storing a value in an account changes the sum by the difference.
LEMMA HeldChange ==
  ASSUME NEW book \in [Accounts -> Int], NEW x \in Accounts, NEW v \in Int
  PROVE  /\ Held([book EXCEPT ![x] = v]) = Held(book) + v - book[x]
         /\ Held(book) \in Int
<1> DEFINE f == [k \in 1 .. AccountCount |-> book[k - 1]]
           g == [k \in 1 .. AccountCount |-> [book EXCEPT ![x] = v][k - 1]]
<1>1. AccountCount \in Nat /\ x + 1 \in 1 .. AccountCount /\ x \in Int
  BY CountsAssumption DEF Accounts
<1>2. \A k \in 1 .. AccountCount : k - 1 \in Accounts
  BY <1>1 DEF Accounts
<1>3. \A k \in 1 .. AccountCount : f[k] \in Int /\ g[k] \in Int
  BY <1>2
<1>4. \A k \in 1 .. AccountCount : k # x + 1 => f[k] = g[k]
  BY <1>1, <1>2
<1>5. f[x + 1] = book[x] /\ g[x + 1] = v
  BY <1>1
<1> HIDE DEF f, g
<1>6. SumTo(g, AccountCount) = SumTo(f, AccountCount) + g[x + 1] - f[x + 1]
  BY <1>1, <1>3, <1>4, SumToChange
<1>7. SumTo(f, AccountCount) \in Int
  BY <1>1, <1>3, SumToInt
<1> QED
  BY <1>5, <1>6, <1>7 DEF Held, f, g

\* A credit adds its amount and a debit takes it away, up to a turn of the wheel.
LEMMA HeldBooking ==
  ASSUME NEW book \in [Accounts -> CInt], NEW x \in Accounts, NEW a \in CInt
  PROVE  /\ \E d \in Int : Held(Credit(book, x, a)) = Held(book) + a + d * Wheel
         /\ \E d \in Int : Held(Debit(book, x, a)) = Held(book) - a + d * Wheel
         /\ Held(book) \in Int
<1>1. /\ book \in [Accounts -> Int] /\ book[x] \in CInt /\ book[x] \in Int /\ a \in Int
      /\ IntBound \in Int /\ IntBound > 0 /\ Wheel \in Int
  <2>1. IntBound \in Int /\ IntBound > 0 /\ Wheel \in Int
    BY BoundsAssumption DEF Wheel
  <2>2. book[x] \in CInt /\ a \in CInt
    OBVIOUS
  <2>3. book \in [Accounts -> Int]
    BY CIntFacts
  <2> QED
    BY <2>1, <2>2, <2>3, CIntFacts
<1>2. ASSUME NEW n \in Int, -2 * IntBound <= n, n < 2 * IntBound
      PROVE  \E d \in Int : Wrap(n) = n + d * Wheel
  <2>1. Wrap(n) = n + (-1) * Wheel \/ Wrap(n) = n + 0 * Wheel \/ Wrap(n) = n + 1 * Wheel
    BY <1>1, <1>2, WrapOnce DEF Wheel
  <2> QED
    BY <2>1
<1>3. /\ -2 * IntBound <= book[x] + a /\ book[x] + a < 2 * IntBound
      /\ -2 * IntBound <= book[x] - a /\ book[x] - a < 2 * IntBound
  BY <1>1 DEF CInt
<1>4. /\ Wrap(book[x] + a) \in Int /\ Wrap(book[x] - a) \in Int /\ Held(book) \in Int
      /\ Held(Credit(book, x, a)) = Held(book) + Wrap(book[x] + a) - book[x]
      /\ Held(Debit(book, x, a)) = Held(book) + Wrap(book[x] - a) - book[x]
  <2>1. book[x] + a \in Int /\ book[x] - a \in Int
    BY <1>1
  <2>2. Wrap(book[x] + a) \in CInt /\ Wrap(book[x] - a) \in CInt
    BY <2>1, WrapInRange
  <2>3. Wrap(book[x] + a) \in Int /\ Wrap(book[x] - a) \in Int
    BY <2>2, CIntFacts
  <2> QED
    BY <1>1, <2>3, HeldChange DEF Credit, Debit
<1>5. PICK d \in Int : Wrap(book[x] + a) = book[x] + a + d * Wheel
  <2> DEFINE n == book[x] + a
  <2>1. n \in Int /\ -2 * IntBound <= n /\ n < 2 * IntBound
    BY <1>1, <1>3
  <2> HIDE DEF n
  <2>2. \E d \in Int : Wrap(n) = n + d * Wheel
    BY <1>2, <2>1
  <2> QED
    BY <2>2 DEF n
<1>6. PICK e \in Int : Wrap(book[x] - a) = book[x] - a + e * Wheel
  <2> DEFINE n == book[x] - a
  <2>1. n \in Int /\ -2 * IntBound <= n /\ n < 2 * IntBound
    BY <1>1, <1>3
  <2> HIDE DEF n
  <2>2. \E c \in Int : Wrap(n) = n + c * Wheel
    BY <1>2, <2>1
  <2> QED
    BY <2>2 DEF n
<1>7. Held(Credit(book, x, a)) = Held(book) + a + d * Wheel
  BY <1>1, <1>4, <1>5
<1>8. Held(Debit(book, x, a)) = Held(book) - a + e * Wheel
  BY <1>1, <1>4, <1>6
<1> QED
  BY <1>4, <1>7, <1>8

\* The history books what the last entry moved.
LEMMA BookedAfterAnswer ==
  ASSUME BankTypeOK, NEW m \in Commands, Answer(m)
  PROVE  /\ BookedMoney \in Int
         /\ External([request |-> bankCmd, code |-> m.cmd]) \in Int
         /\ BookedMoney' = BookedMoney + External([request |-> bankCmd, code |-> m.cmd])
<1> DEFINE e == [request |-> bankCmd, code |-> m.cmd]
           f == [k \in DOMAIN served |-> External(served[k])]
           g == [k \in DOMAIN served' |-> External(served'[k])]
           n == Len(served)
<1>1. /\ n \in Nat /\ DOMAIN served = 1 .. n /\ DOMAIN served' = 1 .. n + 1
      /\ served'[n + 1] = e /\ Len(served') = n + 1
      /\ \A k \in 1 .. n : served'[k] = served[k]
  BY ServedAfterAnswer
<1>2. ASSUME NEW r \in [request : Commands, code : 0 .. 255]
      PROVE  External(r) \in Int
  <2>1. r.request.amt \in CInt
    BY DEF Commands
  <2>2. r.request.amt \in Int
    BY <2>1, CIntFacts
  <2> QED
    BY <2>2 DEF External
<1>3. \A k \in 1 .. n : served[k] \in [request : Commands, code : 0 .. 255]
  <2>1. served \in Seq([request : Commands, code : 0 .. 255])
    BY DEF BankTypeOK
  <2> QED
    BY <2>1, ElementOfSeq
<1>4. e \in [request : Commands, code : 0 .. 255]
  BY DEF BankTypeOK, Commands
<1>5. External(e) \in Int
  BY <1>2, <1>4
<1>6. \A k \in 1 .. n : f[k] \in Int /\ f[k] = g[k]
  BY <1>1, <1>2, <1>3
<1>7. g[n + 1] = External(e)
  BY <1>1
<1>8. BookedMoney = SumTo(f, n) /\ BookedMoney' = SumTo(g, n + 1)
  <2>1. BookedMoney = SumTo(f, Len(served))
    BY DEF BookedMoney
  <2>2. BookedMoney' = SumTo(g, Len(served'))
    BY DEF BookedMoney, External
  <2> QED
    BY <1>1, <2>1, <2>2
<1> HIDE DEF e, f, g, n
<1>9. SumTo(f, n) \in Int
  BY <1>1, <1>6, SumToInt
<1>10. SumTo(g, n + 1) = SumTo(g, n) + g[n + 1]
  BY <1>1, SumToNext
<1>11. SumTo(f, n) = SumTo(g, n)
  BY <1>1, <1>6, SumToAgree
<1> QED
  BY <1>5, <1>7, <1>8, <1>9, <1>10, <1>11 DEF e

\* Every command moves in or out what its entry books, up to turns of the
\* wheel: one case for each command and verdict.
LEMMA ServeConserves ==
  ASSUME BankTypeOK, Serves
  PROVE  \E m \in Commands, d \in Int :
           /\ Answer(m)
           /\ Held(accounts') =
                Held(accounts) + External([request |-> bankCmd, code |-> m.cmd]) + d * Wheel
<1> DEFINE c == bankCmd  E(code) == External([request |-> c, code |-> code])
<1>1. /\ accounts \in [Accounts -> CInt] /\ c.amt \in CInt
  BY DEF BankTypeOK, Commands
<1>2. Wheel \in Int /\ c.amt \in Int /\ Held(accounts) \in Int
  <2>1. accounts \in [Accounts -> Int]
    BY <1>1, CIntFacts
  <2>2. Held(accounts) \in Int
    <3>1. AccountCount \in Nat /\ \A k \in 1 .. AccountCount : accounts[k - 1] \in Int
      BY <2>1, CountsAssumption DEF Accounts
    <3> DEFINE f == [k \in 1 .. AccountCount |-> accounts[k - 1]]
    <3>2. \A k \in 1 .. AccountCount : f[k] \in Int
      BY <3>1
    <3> HIDE DEF f
    <3>3. SumTo(f, AccountCount) \in Int
      BY <3>1, <3>2, SumToInt
    <3> QED
      BY <3>3 DEF Held, f
  <2>3. Wheel \in Int
    BY BoundsAssumption DEF Wheel
  <2>4. c.amt \in Int
    BY <1>1, CIntFacts
  <2> QED
    BY <2>2, <2>3, <2>4
<1>3. /\ MsgOk(0, c.from, c.to, c.amt) \in Commands
      /\ MsgOk(0, c.from, c.to, c.amt).cmd = OK
      /\ \A a \in CInt : MsgOk(0, c.from, c.to, a) \in Commands
      /\ \A a : MsgOk(0, c.from, c.to, a).cmd = OK
      /\ MsgNoFunds(0, c.from, c.amt) \in Commands
      /\ MsgNoFunds(0, c.from, c.amt).cmd = NOFUNDS
      /\ \A x \in {c.from, c.to} : MsgAccUnkn(0, x) \in Commands
      /\ \A x : MsgAccUnkn(0, x).cmd = ACCUNKN
  BY ReplyTypes DEF MsgOk, MsgNoFunds, MsgAccUnkn, Pack
<1>4. /\ E(NOFUNDS) = 0 /\ E(ACCUNKN) = 0
      /\ c.cmd = DEPOSIT => E(OK) = c.amt
      /\ c.cmd = WITHDRAW => E(OK) = -c.amt
      /\ c.cmd \notin {DEPOSIT, WITHDRAW} => E(OK) = 0
  BY DEF External, OK, NOFUNDS, ACCUNKN, DEPOSIT, WITHDRAW
<1>5. ASSUME NEW m \in Commands, Answer(m), E(m.cmd) = 0, UNCHANGED accounts
      PROVE  \E d \in Int : Held(accounts') = Held(accounts) + E(m.cmd) + d * Wheel
  <2>1. Held(accounts') = Held(accounts) + E(m.cmd) + 0 * Wheel
    BY <1>2, <1>5
  <2> QED
    BY <2>1
<1>6. CASE ServeConnect \/ ServeExit
  <2>1. Answer(MsgOk(0, c.from, c.to, c.amt)) /\ UNCHANGED accounts /\ E(OK) = 0
    BY <1>4, <1>6 DEF ServeConnect, ServeExit, Acknowledge, Serving, CONNECT, EXIT, DEPOSIT, WITHDRAW
  <2> QED
    BY <1>3, <1>5, <2>1
<1>7. CASE ServeBalance
  <2>1. WordsAt(c.id) \subseteq CInt
    BY <1>1, HeapAssumption DEF WordsAt, ValidAccount
  <2>2. UNCHANGED accounts /\ E(OK) = 0
    BY <1>4, <1>7 DEF ServeBalance, Serving, BALANCE, DEPOSIT, WITHDRAW
  <2>3. \/ Answer(MsgAccUnkn(0, c.to))
        \/ \E a \in CInt : Answer(MsgOk(0, c.from, c.to, a))
    BY <1>7, <2>1 DEF ServeBalance
  <2>4. PICK m \in Commands : Answer(m) /\ E(m.cmd) = 0
    BY ONLY <1>3, <1>4, <2>2, <2>3
  <2>5. \E d \in Int : Held(accounts') = Held(accounts) + E(m.cmd) + d * Wheel
    BY <1>5, <2>2, <2>4
  <2> QED
    BY <2>4, <2>5
<1>8. CASE ServeDeposit
  <2>1. CASE c.to \in Accounts
    <3>1. /\ Answer(MsgOk(0, c.from, c.to, c.amt)) /\ E(OK) = c.amt
          /\ accounts' = Credit(accounts, c.to, c.amt)
      BY <1>4, <1>8, <2>1 DEF ServeDeposit, ValidAccount, Acknowledge, Serving
    <3>2. \E d \in Int : Held(accounts') = Held(accounts) + E(OK) + d * Wheel
      BY <1>1, <2>1, <3>1, HeldBooking
    <3> QED
      BY <1>3, <3>1, <3>2
  <2>2. CASE c.to \notin Accounts
    <3>1. Answer(MsgAccUnkn(0, c.to)) /\ UNCHANGED accounts
      BY <1>8, <2>2 DEF ServeDeposit, ValidAccount
    <3> QED
      BY <1>3, <1>4, <1>5, <3>1
  <2> QED
    BY <2>1, <2>2
<1>9. CASE ServeWithdraw
  <2>1. CASE c.from \in Accounts /\ Covers(c.from, c.amt)
    <3>1. /\ Answer(MsgOk(0, c.from, c.to, c.amt)) /\ E(OK) = -c.amt
          /\ accounts' = Debit(accounts, c.from, c.amt)
      BY <1>4, <1>9, <2>1 DEF ServeWithdraw, ValidAccount, Acknowledge, Serving
    <3>2. PICK d \in Int : Held(accounts') = Held(accounts) - c.amt + d * Wheel
      BY <1>1, <2>1, <3>1, HeldBooking
    <3>3. Held(accounts') = Held(accounts) + E(OK) + d * Wheel
      BY <1>2, <3>1, <3>2
    <3> QED
      BY <1>3, <3>1, <3>3
  <2>2. CASE ~ (c.from \in Accounts /\ Covers(c.from, c.amt))
    <3>1. /\ Answer(MsgNoFunds(0, c.from, c.amt)) \/ Answer(MsgAccUnkn(0, c.to))
          /\ UNCHANGED accounts
      BY <1>9, <2>2 DEF ServeWithdraw, ValidAccount
    <3> QED
      BY <1>3, <1>4, <1>5, <3>1
  <2> QED
    BY <2>1, <2>2
<1>10. CASE ServeTransfer
  <2>1. CASE c.from \in Accounts /\ c.to \in Accounts /\ Covers(c.from, c.amt)
    <3> DEFINE book == Debit(accounts, c.from, c.amt)
    <3>1. /\ Answer(MsgOk(0, c.from, c.to, c.amt)) /\ E(OK) = 0
          /\ accounts' = Credit(book, c.to, c.amt)
      BY <1>4, <1>10, <2>1 DEF ServeTransfer, ValidAccount, Acknowledge, Serving,
        TRANSFER, DEPOSIT, WITHDRAW
    <3>2. book \in [Accounts -> CInt]
      BY <1>1, <2>1, BookType
    <3>3. PICK d \in Int : Held(book) = Held(accounts) - c.amt + d * Wheel
      BY <1>1, <2>1, HeldBooking
    <3>4. PICK e \in Int : Held(accounts') = Held(book) + c.amt + e * Wheel
      BY <1>1, <2>1, <3>1, <3>2, HeldBooking
    <3> HIDE DEF book
    <3>5. Held(accounts') = Held(accounts) + E(OK) + (d + e) * Wheel
      BY <1>2, <3>1, <3>3, <3>4
    <3>6. d + e \in Int
      OBVIOUS
    <3> QED
      BY <1>3, <3>1, <3>5, <3>6
  <2>2. CASE ~ (c.from \in Accounts /\ c.to \in Accounts /\ Covers(c.from, c.amt))
    <3>1. /\ \/ Answer(MsgNoFunds(0, c.from, c.amt)) \/ Answer(MsgAccUnkn(0, c.to))
             \/ Answer(MsgAccUnkn(0, c.from))
          /\ UNCHANGED accounts
      BY <1>10, <2>2 DEF ServeTransfer, ValidAccount
    <3> QED
      BY <1>3, <1>4, <1>5, <3>1
  <2> QED
    BY <2>1, <2>2
<1> QED
  BY <1>6, <1>7, <1>8, <1>9, <1>10 DEF Serves

LEMMA BalanceStep ==
  ASSUME BankTypeOK, BankUnopened, Balanced, BankMoves
  PROVE  Balanced'
<1>1. MoneyHeld = Held(accounts) /\ MoneyHeld' = Held(accounts')
  BY DEF MoneyHeld, Held
<1>2. CASE ~ Serves
  <2>1. UNCHANGED <<accounts, served>>
    BY <1>2 DEF BankMoves, BankNext, Serve, Serves, BankOpen, ReadRequest, Close,
      IgnoreUnknownAtm, FailUnknownCommand, BankUnopened
  <2> QED
    BY <2>1 DEF Balanced, MoneyHeld, BookedMoney, External
<1>3. CASE Serves
  <2>1. PICK m \in Commands, d \in Int :
          /\ Answer(m)
          /\ Held(accounts') =
               Held(accounts) + External([request |-> bankCmd, code |-> m.cmd]) + d * Wheel
    BY <1>3, ServeConserves
  <2> DEFINE x == External([request |-> bankCmd, code |-> m.cmd])
  <2>2. BookedMoney \in Int /\ x \in Int /\ BookedMoney' = BookedMoney + x
    BY <2>1, BookedAfterAnswer
  <2>3. PICK q \in Int : Held(accounts) - BookedMoney = q * Wheel
    BY <1>1 DEF Balanced
  <2>4. Held(accounts) \in Int /\ Wheel \in Int
    <3>1. accounts \in [Accounts -> CInt] /\ AccountCount \in Nat
      BY CountsAssumption DEF BankTypeOK
    <3> DEFINE f == [k \in 1 .. AccountCount |-> accounts[k - 1]]
    <3>2. accounts \in [Accounts -> Int]
      BY <3>1, CIntFacts
    <3>3. \A k \in 1 .. AccountCount : f[k] \in Int
      BY <3>1, <3>2 DEF Accounts
    <3> HIDE DEF f
    <3>4. SumTo(f, AccountCount) \in Int
      BY <3>1, <3>3, SumToInt
    <3>5. Held(accounts) \in Int
      BY <3>4 DEF Held, f
    <3>6. Wheel \in Int
      BY BoundsAssumption DEF Wheel
    <3> QED
      BY <3>5, <3>6
  <2> HIDE DEF x
  <2>5. Held(accounts') = Held(accounts) + x + d * Wheel
    BY <2>1 DEF x
  <2>6. Held(accounts') - BookedMoney' = (q + d) * Wheel
    BY <2>2, <2>3, <2>4, <2>5
  <2>7. q + d \in Int
    OBVIOUS
  <2> QED
    BY <1>1, <2>6, <2>7 DEF Balanced, Wheel
<1> QED
  BY <1>2, <1>3

\* A bank that has not started holds nothing and has booked nothing.
LEMMA InitBalanced == BankInit => Balanced
<1> SUFFICES ASSUME BankInit PROVE MoneyHeld - BookedMoney = 0 * Wheel
  BY DEF Balanced
<1>1. served = <<>> /\ Len(served) = 0 /\ AccountCount \in Nat /\ Wheel \in Int
  BY CountsAssumption, BoundsAssumption DEF BankInit, Wheel
<1>2. BookedMoney = 0
  BY <1>1, SumToNext DEF BookedMoney
<1> DEFINE f == [k \in 1 .. AccountCount |-> accounts[k - 1]]
           S == {n \in Nat : n <= AccountCount => SumTo(f, n) = 0}
<1>3. \A k \in 1 .. AccountCount : f[k] = 0
  BY <1>1 DEF BankInit, Accounts
<1>4. MoneyHeld = SumTo(f, AccountCount)
  BY DEF MoneyHeld
<1> HIDE DEF f
<1>5. 0 \in S
  BY SumToNext
<1>6. ASSUME NEW n \in Nat, n \in S
      PROVE  n + 1 \in S
  <2>1. CASE n + 1 <= AccountCount
    <3>1. f[n + 1] = 0 /\ SumTo(f, n) = 0
      BY <1>1, <1>3, <1>6, <2>1
    <3>2. SumTo(f, n + 1) = 0
      BY <3>1, SumToNext
    <3> QED
      BY <3>2
  <2>2. CASE ~ (n + 1 <= AccountCount)
    BY <2>2
  <2> QED
    BY <2>1, <2>2
<1>7. AccountCount \in S
  <2> HIDE DEF S
  <2> QED
    BY <1>1, <1>5, <1>6, NatInductionOnSets
<1>8. MoneyHeld = 0
  BY <1>1, <1>4, <1>7
<1> QED
  BY <1>1, <1>2, <1>8

LEMMA BalancedConserves == Balanced => Conservation
<1> SUFFICES ASSUME NEW q \in Int, MoneyHeld - BookedMoney = q * Wheel
             PROVE  (MoneyHeld - BookedMoney) % Wheel = 0
  BY DEF Balanced, Conservation, Wheel
<1>1. Wheel \in Nat \ {0}
  BY BoundsAssumption DEF Wheel
<1> QED
  BY <1>1, MultipleModulo

\* Money is conserved, for any number of ATMs, accounts and transactions, up to
\* the wrap of an int (bank.c 150-212).
THEOREM ConservationHolds == Spec => []Conservation
<1>1. Init => Balanced
  BY InitBalanced DEF Init
<1>2. ProtocolInv /\ BankUnopened /\ Balanced /\ [Next]_vars => Balanced'
  BY BalanceStep, SimulationMoves DEF ProtocolInv, TypeOK
<1> QED
  BY <1>1, <1>2, BalancedConserves, CountInvariant, PTL DEF Spec

-------------------------------------------------------------------------------
\* The bank alone, against any client: the order of its answers, and then what
\* holds of the bank in the simulation.

\* The messages written are those read and those in the pipe, in their order;
\* the last one read is in the bank's hands until it is served.
QueueInv ==
  /\ sent \in Seq(Inputs) /\ bankIn \in Seq(Inputs)
  /\ served \in Seq([request : Inputs, code : Nat])
  /\ Len(bankIn) + InHand <= Len(sent)
  /\ \A k \in 1 .. Len(bankIn) : bankIn[k] = sent[Len(sent) - Len(bankIn) + k]
  /\ bankPc = "serve" => bankCmd = sent[Len(sent) - Len(bankIn)]

LEMMA InitQueue == AloneInit => QueueInv /\ FirstComeFirstServed
<1> SUFFICES ASSUME AloneInit PROVE QueueInv /\ FirstComeFirstServed
  OBVIOUS
<1>1. bankIn = <<>> /\ served = <<>> /\ sent = <<>> /\ bankPc = "unforked"
  BY DEF AloneInit, PipesInit, BankInit
<1>2. InHand = 0 /\ Len(sent) = 0 /\ Len(bankIn) = 0 /\ Len(served) = 0
  BY <1>1 DEF InHand
<1>3. Handled = 0
  BY <1>2 DEF Handled
<1>4. FromKnownAtm = {}
  BY <1>3 DEF FromKnownAtm
<1>5. FirstComeFirstServed
  BY <1>2, <1>4, FS_EmptySet DEF FirstComeFirstServed
<1>6. QueueInv
  BY <1>1, <1>2 DEF QueueInv
<1> QED
  BY <1>5, <1>6

\* What a step of the bank or of its environment does to the messages.
NothingMoves ==
  /\ UNCHANGED <<sent, bankIn, served, bankCmd>>
  /\ InHand' = InHand /\ (bankPc' = "serve" => bankPc = "serve")
Enters ==
  /\ \E m \in Inputs : sent' = Append(sent, m) /\ bankIn' = Append(bankIn, m)
  /\ UNCHANGED <<served, bankPc, bankCmd>>
IsRead ==
  /\ bankPc = "read" /\ bankPc' = "serve" /\ bankIn # <<>>
  /\ bankCmd' = Head(bankIn) /\ bankIn' = Tail(bankIn)
  /\ UNCHANGED <<served, sent>>
IsServed ==
  /\ bankPc = "serve" /\ bankPc' = "read" /\ UNCHANGED <<sent, bankIn, bankCmd>>
  /\ \/ /\ bankCmd.id \in Atms
        /\ \E c \in Nat : served' = Append(served, [request |-> bankCmd, code |-> c])
     \/ bankCmd.id \notin Atms /\ UNCHANGED served

LEMMA AloneAnswers ==
  ASSUME Serve, ~ (IgnoreUnknownAtm \/ FailUnknownCommand)
  PROVE  /\ bankPc = "serve" /\ bankCmd.id \in Atms
         /\ \E m : m.cmd \in Nat /\ Answer(m)
<1>1. /\ \A f, t, a : MsgOk(0, f, t, a).cmd \in Nat
      /\ \A f, a : MsgNoFunds(0, f, a).cmd \in Nat
      /\ \A t : MsgAccUnkn(0, t).cmd \in Nat
  BY DEF MsgOk, MsgNoFunds, MsgAccUnkn, Pack,
    OK, NOFUNDS, ACCUNKN
<1>2. CASE ServeConnect \/ ServeExit \/ ServeDeposit \/ ServeWithdraw
  BY <1>1, <1>2, Zenon DEF ServeConnect, ServeExit, ServeDeposit,
    ServeWithdraw, Acknowledge, Serving, ValidAtm
<1>3. CASE ServeTransfer
  BY <1>1, <1>3, Zenon DEF ServeTransfer, Acknowledge, Serving, ValidAtm
<1>4. CASE ServeBalance
  BY <1>1, <1>4, Zenon DEF ServeBalance, Serving, ValidAtm
<1> QED
  BY <1>2, <1>3, <1>4 DEF Serve

LEMMA QueueStep ==
  ASSUME [AloneNext]_aloneVars
  PROVE  NothingMoves \/ Enters \/ IsRead \/ IsServed
<1>1. CASE UNCHANGED aloneVars
  BY <1>1 DEF aloneVars, pipes, bankVars, InHand, NothingMoves
<1>2. CASE Start \/ EnvironmentReads
           \/ ((BankOpen \/ Close) /\ UNCHANGED sent)
  BY <1>2 DEF Start, EnvironmentReads, BankOpen, Close,
    pipes, bankVars, InHand, NothingMoves
<1>3. CASE EnvironmentSends
  BY <1>3 DEF EnvironmentSends, WriteBank, bankVars, Enters
<1>4. CASE ReadRequest /\ UNCHANGED sent
  BY <1>4 DEF ReadRequest, ReadBank, IsRead
<1>5. CASE Serve /\ UNCHANGED sent
  <2>1. CASE IgnoreUnknownAtm
    BY <1>5, <2>1 DEF IgnoreUnknownAtm, ValidAtm, pipes, IsServed
  <2>2. CASE FailUnknownCommand
    BY <1>5, <2>2 DEF FailUnknownCommand, pipes, InHand, NothingMoves
  <2>3. CASE ~ (IgnoreUnknownAtm \/ FailUnknownCommand)
    BY <1>5, <2>3, AloneAnswers DEF Answer, IsServed
  <2> QED
    BY <2>1, <2>2, <2>3
<1> QED
  BY <1>1, <1>2, <1>3, <1>4, <1>5 DEF AloneNext, BankNext

\* What the sequences are, in numbers.
LEMMA QueueFacts ==
  ASSUME QueueInv
  PROVE  /\ Len(sent) \in Nat /\ Len(bankIn) \in Nat /\ Len(served) \in Nat
         /\ InHand \in {0, 1} /\ Handled \in Nat
         /\ Handled = Len(sent) - Len(bankIn) - InHand
         /\ Len(bankIn) + InHand <= Len(sent)
         /\ bankPc = "serve" => InHand = 1
         /\ bankPc = "read" => InHand = 0
<1>1. Len(sent) \in Nat /\ Len(bankIn) \in Nat /\ Len(served) \in Nat
  BY DEF QueueInv
<1>2. InHand \in {0, 1} /\ Len(bankIn) + InHand <= Len(sent)
  BY DEF QueueInv, InHand
<1>3. /\ bankPc = "serve" => InHand = 1
      /\ bankPc = "read" => InHand = 0
  BY DEF InHand
<1>4. Handled = Len(sent) - Len(bankIn) - InHand
  BY DEF Handled
<1> HIDE DEF InHand
<1>5. Handled \in Nat
  BY <1>1, <1>2, <1>4
<1> QED
  BY <1>1, <1>2, <1>3, <1>4, <1>5

LEMMA QueueKept ==
  ASSUME QueueInv, [AloneNext]_aloneVars
  PROVE  QueueInv'
<1>1. CASE NothingMoves
  BY <1>1 DEF NothingMoves, QueueInv
<1>2. CASE Enters
  <2>1. PICK m \in Inputs : sent' = Append(sent, m) /\ bankIn' = Append(bankIn, m)
    BY <1>2 DEF Enters
  <2>2. /\ sent \in Seq(Inputs) /\ bankIn \in Seq(Inputs)
        /\ \A k \in 1 .. Len(bankIn) : bankIn[k] = sent[Len(sent) - Len(bankIn) + k]
    BY DEF QueueInv
  <2>3. /\ sent' \in Seq(Inputs) /\ bankIn' \in Seq(Inputs)
        /\ Len(sent') = Len(sent) + 1 /\ Len(bankIn') = Len(bankIn) + 1
        /\ \A k \in 1 .. Len(sent) : sent'[k] = sent[k]
        /\ \A k \in 1 .. Len(bankIn) : bankIn'[k] = bankIn[k]
        /\ sent'[Len(sent) + 1] = m /\ bankIn'[Len(bankIn) + 1] = m
    BY <2>1, <2>2
  <2>4. UNCHANGED <<served, bankPc, bankCmd>> /\ InHand' = InHand
    BY <1>2 DEF Enters, InHand
  <2> DEFINE n == Len(sent)  b == Len(bankIn)
  <2>5. /\ n \in Nat /\ b \in Nat /\ b <= n /\ b + InHand <= n
        /\ bankPc = "serve" => b + 1 <= n
    BY QueueFacts
  <2>6. Len(bankIn') + InHand' <= Len(sent')
    <3>1. b + 1 + InHand <= n + 1
      <4> HIDE DEF n, b
      <4> QED
        BY <2>5, QueueFacts
    <3> QED
      BY <2>3, <2>4, <3>1
  <2>7. ASSUME NEW k \in 1 .. b + 1 PROVE bankIn'[k] = sent'[n - b + k]
    <3>1. CASE k = b + 1
      <4>1. n - b + k = n + 1
        BY ONLY <2>5, <3>1
      <4> QED
        BY <2>3, <3>1, <4>1
    <3>2. CASE k # b + 1
      <4> HIDE DEF n, b
      <4>1. k \in 1 .. b /\ n - b + k \in 1 .. n
        BY <2>5, <3>2
      <4> USE DEF n, b
      <4> QED
        BY <2>2, <2>3, <4>1
    <3> QED
      BY <3>1, <3>2
  <2>8. Len(sent') - Len(bankIn') = n - b
    <3>1. n + 1 - (b + 1) = n - b
      BY ONLY <2>5
    <3> QED
      BY <2>3, <3>1
  <2>9. ASSUME bankPc' = "serve" PROVE bankCmd' = sent'[n - b]
    <3>1. n - b \in 1 .. n
      <4> HIDE DEF n, b
      <4> QED
        BY <2>4, <2>5, <2>9
    <3> QED
      BY <2>3, <2>4, <2>9, <3>1 DEF QueueInv
  <2>10. served' \in Seq([request : Inputs, code : Nat])
    BY <2>4 DEF QueueInv
  <2> QED
    BY <2>3, <2>6, <2>7, <2>8, <2>9, <2>10 DEF QueueInv
<1>3. CASE IsRead
  <2>1. /\ sent \in Seq(Inputs) /\ bankIn \in Seq(Inputs) /\ bankIn # <<>>
        /\ \A k \in 1 .. Len(bankIn) : bankIn[k] = sent[Len(sent) - Len(bankIn) + k]
        /\ bankIn' = Tail(bankIn) /\ bankCmd' = Head(bankIn)
    BY <1>3 DEF QueueInv, IsRead
  <2>2. /\ bankIn' \in Seq(Inputs) /\ Len(bankIn') = Len(bankIn) - 1 /\ Len(bankIn) >= 1
        /\ \A k \in 1 .. Len(bankIn) - 1 : bankIn'[k] = bankIn[k + 1]
        /\ bankCmd' = bankIn[1]
    BY <2>1
  <2>3. sent' = sent /\ served' = served /\ InHand' = 1 /\ InHand = 0
    BY <1>3 DEF IsRead, InHand
  <2> DEFINE n == Len(sent)  b == Len(bankIn)
  <2>4. n \in Nat /\ b \in Nat /\ b <= n /\ b >= 1
    BY <2>2, <2>3, QueueFacts
  <2>5. Len(bankIn') + InHand' <= Len(sent')
    <3>1. b - 1 + 1 <= n
      BY ONLY <2>4
    <3> QED
      BY <2>2, <2>3, <3>1
  <2>6. ASSUME NEW k \in 1 .. b - 1 PROVE bankIn'[k] = sent[n - (b - 1) + k]
    <3>1. k + 1 \in 1 .. b /\ n - (b - 1) + k = n - b + (k + 1)
      BY ONLY <2>4
    <3> QED
      BY <2>1, <2>2, <3>1
  <2>7. bankCmd' = sent[n - (b - 1)]
    <3>1. 1 \in 1 .. b /\ n - (b - 1) = n - b + 1
      BY ONLY <2>4
    <3> QED
      BY <2>1, <2>2, <3>1
  <2>8. served' \in Seq([request : Inputs, code : Nat])
    BY <2>3 DEF QueueInv
  <2> QED
    BY <2>1, <2>2, <2>3, <2>5, <2>6, <2>7, <2>8 DEF QueueInv
<1>4. CASE IsServed
  <2>1. sent' = sent /\ bankIn' = bankIn /\ InHand' = 0
    BY <1>4 DEF IsServed, InHand
  <2>2. bankCmd \in Inputs
    <3>1. Len(sent) - Len(bankIn) \in 1 .. Len(sent)
      BY <1>4, QueueFacts DEF IsServed
    <3> QED
      BY <1>4, <3>1 DEF IsServed, QueueInv
  <2>3. served' \in Seq([request : Inputs, code : Nat])
    <3>1. served \in Seq([request : Inputs, code : Nat])
      BY DEF QueueInv
    <3>2. CASE UNCHANGED served
      BY <3>1, <3>2
    <3>3. ASSUME NEW c \in Nat, served' = Append(served, [request |-> bankCmd, code |-> c])
          PROVE  served' \in Seq([request : Inputs, code : Nat])
      <4>1. [request |-> bankCmd, code |-> c] \in [request : Inputs, code : Nat]
        BY <2>2
      <4> QED
        BY <3>1, <3>3, <4>1, AppendProperties
    <3> QED
      BY <1>4, <3>2, <3>3 DEF IsServed
  <2>4. Len(bankIn') + InHand' <= Len(sent')
    BY <2>1, QueueFacts
  <2> QED
    BY <1>4, <2>1, <2>3, <2>4 DEF QueueInv, IsServed
<1> QED
  BY <1>1, <1>2, <1>3, <1>4, QueueStep

\* What is to be answered stays the same until another message is handled.
LEMMA OrderOfArrival ==
  ASSUME QueueInv, FirstComeFirstServed, [AloneNext]_aloneVars
  PROVE  FirstComeFirstServed'
<1> DEFINE n == Handled
           A == FromKnownAtm
<1>1. /\ \A k : k \in A <=> k \in 1 .. n /\ sent[k].id \in Atms
      /\ \A k : k \in A' <=> k \in 1 .. n' /\ sent'[k].id \in Atms
  <2>1. Atms' = Atms
    BY DEF Atms
  <2> QED
    BY <2>1 DEF FromKnownAtm
<1>2. /\ Len(served) = Cardinality(A)
      /\ \A k \in A : served[Cardinality(A \cap 1 .. k)].request = sent[k]
  BY DEF FirstComeFirstServed
<1>3. ASSUME /\ Len(served') = Cardinality(A')
             /\ \A k \in A' : served'[Cardinality(A' \cap 1 .. k)].request = sent'[k]
      PROVE  FirstComeFirstServed'
  BY <1>3 DEF FirstComeFirstServed
<1>4. n \in Nat /\ A \in SUBSET (1 .. n)
  BY <1>1, QueueFacts
<1> HIDE DEF n, A
<1>5. CASE NothingMoves \/ Enters \/ IsRead
  <2>1. n' = n
    <3>1. CASE NothingMoves
      BY <3>1 DEF NothingMoves, n, Handled
    <3>2. CASE Enters
      <4>1. Len(sent') = Len(sent) + 1 /\ Len(bankIn') = Len(bankIn) + 1
        BY <3>2 DEF Enters, QueueInv
      <4>2. InHand' = InHand
        BY <3>2 DEF Enters, InHand
      <4> DEFINE s == Len(sent)  b == Len(bankIn)
      <4>3. s + 1 - (b + 1) - InHand = s - b - InHand
        <5> HIDE DEF s, b
        <5> QED
          BY QueueFacts DEF s, b
      <4> QED
        BY <4>1, <4>2, <4>3 DEF n, Handled
    <3>3. CASE IsRead
      <4>1. /\ Len(bankIn') = Len(bankIn) - 1 /\ sent' = sent
            /\ InHand' = 1 /\ InHand = 0
        BY <3>3 DEF IsRead, QueueInv, InHand
      <4> DEFINE s == Len(sent)  b == Len(bankIn)
      <4>2. s \in Nat /\ b \in Nat
        BY QueueFacts
      <4>3. s - (b - 1) - 1 = s - b - 0
        BY ONLY <4>2
      <4> QED
        BY <4>1, <4>3 DEF n, Handled
    <3> QED
      BY <1>5, <3>1, <3>2, <3>3
  <2>2. \A k \in 1 .. n : sent'[k] = sent[k]
    <3>1. CASE Enters
      <4>1. \A k \in 1 .. Len(sent) : sent'[k] = sent[k]
        BY <3>1 DEF Enters, QueueInv
      <4>2. \A k \in 1 .. n : k \in 1 .. Len(sent)
        BY <1>4, QueueFacts DEF n
      <4> QED
        BY <4>1, <4>2
    <3> QED
      BY <1>5, <3>1 DEF NothingMoves, IsRead
  <2>3. A' = A
    BY <1>1, <2>1, <2>2
  <2>4. served' = served
    BY <1>5 DEF NothingMoves, Enters, IsRead
  <2> QED
    BY <1>1, <1>2, <1>3, <2>2, <2>3, <2>4
<1>6. CASE IsServed
  <2>1. sent' = sent /\ bankIn' = bankIn /\ bankCmd = sent[Len(sent) - Len(bankIn)]
    BY <1>6 DEF IsServed, QueueInv
  <2>2. n' = n + 1 /\ n + 1 = Len(sent) - Len(bankIn)
    <3>1. InHand' = 0 /\ InHand = 1
      BY <1>6 DEF IsServed, InHand
    <3>2. n = Len(sent) - Len(bankIn) - 1 /\ n' = Len(sent) - Len(bankIn) - 0
      BY <2>1, <3>1 DEF n, Handled
    <3> QED
      BY <3>2, QueueFacts
  <2>3. \A k : k \in A' <=> k \in A \/ (k = n + 1 /\ bankCmd.id \in Atms)
    <3>1. 1 .. n + 1 = (1 .. n) \cup {n + 1}
      BY <1>4
    <3> QED
      BY <1>1, <2>1, <2>2, <3>1
  <2>4. CASE bankCmd.id \notin Atms
    <3>1. A' = A /\ served' = served
      BY <1>6, <2>3, <2>4 DEF IsServed
    <3> QED
      BY <1>2, <1>3, <2>1, <3>1
  <2>5. ASSUME NEW c \in Nat, bankCmd.id \in Atms,
               served' = Append(served, [request |-> bankCmd, code |-> c])
        PROVE  FirstComeFirstServed'
    <3> DEFINE e == [request |-> bankCmd, code |-> c]
    <3>1. A' = A \cup {n + 1}
      BY <2>3, <2>5
    <3>2. Cardinality(A) \in Nat /\ Cardinality(A \cup {n + 1}) = Cardinality(A) + 1
      BY <1>4, CountAdd
    <3>3. /\ Len(served') = Len(served) + 1 /\ served'[Len(served) + 1] = e
          /\ \A k \in 1 .. Len(served) : served'[k] = served[k]
      <4> HIDE DEF e
      <4>1. served \in Seq([request : Inputs, code : Nat])
        BY DEF QueueInv
      <4>2. served' = Append(served, e)
        BY <2>5 DEF e
      <4> QED
        BY <4>1, <4>2
    <3>4. ASSUME NEW k \in A'
          PROVE  served'[Cardinality(A' \cap 1 .. k)].request = sent'[k]
      <4>1. CASE k = n + 1
        <5>1. A' \cap 1 .. k = A \cup {n + 1}
          <6>1. A \cup {n + 1} \subseteq 1 .. n + 1
            <7>1. 1 .. n \subseteq 1 .. n + 1 /\ n + 1 \in 1 .. n + 1
              BY <1>4
            <7> QED
              BY <1>4, <7>1
          <6> QED
            BY <3>1, <4>1, <6>1
        <5>2. served'[Cardinality(A' \cap 1 .. k)] = e
          BY <1>2, <3>2, <3>3, <5>1
        <5> QED
          BY <2>1, <2>2, <4>1, <5>2
      <4>2. CASE k # n + 1
        <5>1. k \in A /\ k \in 1 .. n
          BY <1>4, <3>1, <4>2
        <5>2. A' \cap 1 .. k = A \cap 1 .. k
          BY <1>4, <3>1, <5>1
        <5>3. Cardinality(A \cap 1 .. k) \in 1 .. Cardinality(A)
          <6> DEFINE B == A \cap 1 .. k
          <6>1. B \subseteq A /\ k \in B /\ B \in SUBSET (1 .. n)
            BY <1>4, <5>1
          <6>2. IsFiniteSet(A) /\ IsFiniteSet(B) /\ Cardinality(B) \in Nat
            BY <1>4, <6>1, CountAdd
          <6>3. Cardinality(B) <= Cardinality(A)
            BY <6>1, <6>2, FS_Subset
          <6>4. Cardinality(B) # 0
            BY <6>1, <6>2, FS_EmptySet
          <6> HIDE DEF B
          <6>5. Cardinality(B) \in 1 .. Cardinality(A)
            BY <3>2, <6>2, <6>3, <6>4
          <6> QED
            BY <6>5 DEF B
        <5>4. served'[Cardinality(A \cap 1 .. k)] = served[Cardinality(A \cap 1 .. k)]
          BY <1>2, <3>3, <5>3
        <5> QED
          BY <1>2, <2>1, <5>1, <5>2, <5>4
      <4> QED
        BY <4>1, <4>2
    <3>5. Len(served') = Cardinality(A')
      BY <1>2, <3>1, <3>2, <3>3
    <3> QED
      BY <1>3, <3>4, <3>5
  <2> QED
    BY <1>6, <2>4, <2>5 DEF IsServed
<1> QED
  BY <1>5, <1>6, QueueStep

\* Whatever a client writes into its pipe, the bank answers the requests of known
\* ATMs once each and in the order of their arrival (bank.c 120-266).
THEOREM FirstComeFirstServedHolds == AloneSpec => []FirstComeFirstServed
<1> QED
  BY InitQueue, QueueKept, OrderOfArrival, PTL DEF AloneSpec

\* What is true of the bank in the simulation is true of it with any client.
AloneInv == BankTypeOK /\ BankUnopened /\ CountInv /\ Balanced

LEMMA AloneInvariant == AloneSpec => []AloneInv
<1>1. AloneInit => AloneInv
  <2> SUFFICES ASSUME AloneInit PROVE AloneInv
    OBVIOUS
  <2>1. BankTypeOK
    <3>1. MsgOk(0, 0, 0, 0) \in Commands
      BY CIntFacts, PackType DEF MsgOk, OK
    <3> QED
      BY <3>1, CIntFacts, CountsAssumption
      DEF AloneInit, PipesInit, BankInit, BankTypeOK, BankPcs
  <2>2. BankUnopened
    BY DEF AloneInit, BankInit, BankUnopened
  <2> QED
    BY <2>1, <2>2, InitCount, InitBalanced DEF AloneInit, AloneInv
<1>2. AloneInv /\ [AloneNext]_aloneVars => AloneInv'
  <2> SUFFICES ASSUME AloneInv, [AloneNext]_aloneVars PROVE AloneInv'
    OBVIOUS
  <2>1. BankTypeOK'
    <3>0. BankTypeOK
      BY DEF AloneInv
    <3>1. CASE BankNext
      BY <3>0, <3>1, BankType
    <3>2. CASE EnvironmentSends
      BY <3>0, <3>2, InputsAssumption DEF EnvironmentSends, WriteBank, BankTypeOK, bankVars
    <3>3. CASE EnvironmentReads
      BY <3>0, <3>3 DEF EnvironmentReads, ReadReply, BankTypeOK, bankVars
    <3>4. CASE Start \/ UNCHANGED aloneVars
      BY <3>0, <3>4 DEF Start, aloneVars, pipes, bankVars, BankTypeOK, BankPcs
    <3> QED
      BY <3>1, <3>2, <3>3, <3>4 DEF AloneNext
  <2> QED
    BY <2>1, AloneMoves, UnopenedStep, CountStep, BalanceStep DEF AloneInv
<1> QED
  BY <1>1, <1>2, PTL DEF AloneSpec

\* Whatever a client writes, also negative amounts and amounts that overflow,
\* money is conserved up to the wrap of an int (bank.c 150-212).
THEOREM AloneConserves == AloneSpec => []Conservation
<1>1. AloneInv => Conservation
  BY BalancedConserves DEF AloneInv
<1> QED
  BY <1>1, AloneInvariant, PTL

\* Whatever a client writes, the bank closes at its AtmCount-th EXIT (bank.c
\* 142-147, 248).
THEOREM AloneClosesAtLastExit == AloneSpec => []ClosesAtLastExit
<1>1. AloneInv => ClosesAtLastExit
  BY DEF AloneInv, CountInv, ClosesAtLastExit
<1> QED
  BY <1>1, AloneInvariant, PTL

\* Whatever a client writes, a balance goes below zero only by a negative amount
\* or by an overflow (bank.c 152, 167, 199-206).
THEOREM AloneNoOverdraft == AloneSpec => NoOverdraft
<1>1. AloneInv /\ [AloneNext]_aloneVars =>
        [\A x \in Accounts : Overdraws(x) =>
           \/ bankCmd.amt < 0
           \/ bankCmd.to = x /\ accounts[x] + bankCmd.amt >= IntBound]_accounts
  BY AloneMoves, Solvency DEF AloneInv
<1> QED
  BY <1>1, AloneInvariant, PTL DEF AloneSpec, NoOverdraft
===============================================================================
