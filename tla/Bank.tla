--------------------------------- MODULE Bank ---------------------------------
(***************************************************************************)
(* The bank process (bank.c): bank_open, the run_bank loop and the bank()  *)
(* handler.  One action reads a request (the read in run_bank), one action *)
(* per command serves it: the update of the balances and the write of the  *)
(* reply, which blocks while the reply pipe is full.                       *)
(***************************************************************************)
EXTENDS Command, FiniteSets, SequencesExt, Sums

CONSTANT
  HeapWords   \* what reading past the end of the accounts array may yield

ASSUME HeapAssumption == HeapWords \subseteq CInt /\ HeapWords # {}

VARIABLES
  bankPc,    \* "unforked", "open", "read", "serve", "closed" or "failed"
  bankCmd,   \* the command buffer of run_bank
  accounts,  \* the balances
  atmCnt,    \* the ATMs run_bank believes active
  served     \* history: the requests answered, each with the reply's code

bankVars == <<bankPc, bankCmd, accounts, atmCnt, served>>

BankPcs == {"unforked", "open", "read", "serve", "closed", "failed"}

BankInit ==
  /\ bankPc = "unforked"
  /\ bankCmd = MsgOk(0, 0, 0, 0)
  /\ accounts = [x \in Accounts |-> 0]
  /\ atmCnt = AtmCount
  /\ served = <<>>

BankOpen ==
  /\ bankPc = "open"
  /\ accounts' = [x \in Accounts |-> 0]
  /\ atmCnt' = AtmCount
  /\ bankPc' = "read"
  /\ UNCHANGED <<pipes, bankCmd, served>>

ReadRequest ==
  /\ bankPc = "read"
  /\ atmCnt # 0
  /\ ReadBank
  /\ bankCmd' = Head(bankIn)
  /\ bankPc' = "serve"
  /\ UNCHANGED <<replies, accounts, atmCnt, served>>

\* The bank stops reading for good once its count of active ATMs is zero.
Close ==
  /\ bankPc = "read"
  /\ atmCnt = 0
  /\ bankPc' = "closed"
  /\ UNCHANGED <<pipes, bankCmd, accounts, atmCnt, served>>

-------------------------------------------------------------------------------
\* Mutant: the last ATM is taken for an unknown one.
ValidAtmButLast(i) == i >= 0 /\ i < AtmCount - 1

ValidAtm(i)     == i \in Atms
ValidAccount(x) == x \in Accounts

Serving(c) == bankPc = "serve" /\ bankCmd.cmd = c /\ ValidAtm(bankCmd.id)

Answer(m) ==
  /\ WriteReply(bankCmd.id, m)
  /\ served' = Append(served, [request |-> bankCmd, code |-> m.cmd])
  /\ bankPc' = "read"
  /\ UNCHANGED <<bankIn, bankCmd>>

Acknowledge == Answer(MsgOk(0, bankCmd.from, bankCmd.to, bankCmd.amt))

\* Mutants: a balance read before the debit is stored, the wrong sign, and a
\* funds check that forgets the amount.
CreditStale(book, x, a)     == [book EXCEPT ![x] = Wrap(accounts[x] + a)]
DebitAsCredit(book, x, a)   == [book EXCEPT ![x] = Wrap(@ + a)]
CoversAny(x, a)             == accounts[x] >= 0

Credit(book, x, a) == [book EXCEPT ![x] = Wrap(@ + a)]
Debit(book, x, a)  == [book EXCEPT ![x] = Wrap(@ - a)]
Covers(x, a)       == accounts[x] >= a

ServeConnect ==
  /\ Serving(CONNECT)
  /\ Acknowledge
  /\ UNCHANGED <<accounts, atmCnt>>

\* Mutant: the EXIT is answered but not counted.
ServeExitUncounted ==
  /\ Serving(EXIT)
  /\ Acknowledge
  /\ UNCHANGED <<accounts, atmCnt>>

ServeExit ==
  /\ Serving(EXIT)
  /\ atmCnt' = atmCnt - 1
  /\ Acknowledge
  /\ UNCHANGED accounts

ServeDeposit ==
  /\ Serving(DEPOSIT)
  /\ \/ /\ ValidAccount(bankCmd.to)
        /\ accounts' = Credit(accounts, bankCmd.to, bankCmd.amt)
        /\ Acknowledge
     \/ /\ ~ ValidAccount(bankCmd.to)
        /\ Answer(MsgAccUnkn(0, bankCmd.to))
        /\ UNCHANGED accounts
  /\ UNCHANGED atmCnt

\* An unknown account is reported by the unused "to" field, as the code does.
ServeWithdraw ==
  /\ Serving(WITHDRAW)
  /\ \/ /\ ValidAccount(bankCmd.from)
        /\ Covers(bankCmd.from, bankCmd.amt)
        /\ accounts' = Debit(accounts, bankCmd.from, bankCmd.amt)
        /\ Acknowledge
     \/ /\ ValidAccount(bankCmd.from)
        /\ ~ Covers(bankCmd.from, bankCmd.amt)
        /\ Answer(MsgNoFunds(0, bankCmd.from, bankCmd.amt))
        /\ UNCHANGED accounts
     \/ /\ ~ ValidAccount(bankCmd.from)
        /\ Answer(MsgAccUnkn(0, bankCmd.to))
        /\ UNCHANGED accounts
  /\ UNCHANGED atmCnt

\* The debit is stored before the credit reads its account, so a transfer
\* from an account to itself leaves the balance alone.
ServeTransfer ==
  /\ Serving(TRANSFER)
  /\ LET f == bankCmd.from  t == bankCmd.to  a == bankCmd.amt IN
       \/ /\ ~ ValidAccount(f)
          /\ Answer(MsgAccUnkn(0, f))
          /\ UNCHANGED accounts
       \/ /\ ValidAccount(f) /\ ~ ValidAccount(t)
          /\ Answer(MsgAccUnkn(0, t))
          /\ UNCHANGED accounts
       \/ /\ ValidAccount(f) /\ ValidAccount(t)
          /\ ~ Covers(f, a)
          /\ Answer(MsgNoFunds(0, f, a))
          /\ UNCHANGED accounts
       \/ /\ ValidAccount(f) /\ ValidAccount(t)
          /\ Covers(f, a)
          /\ accounts' = Credit(Debit(accounts, f, a), t, a)
          /\ Acknowledge
  /\ UNCHANGED atmCnt

\* accounts[k] in C: the balance, or, past the array, some word of the heap.
WordsAt(k) == IF ValidAccount(k) THEN {accounts[k]} ELSE HeapWords

\* The balance reported is the one at the index of the ATM.
ServeBalance ==
  /\ Serving(BALANCE)
  /\ \/ /\ ~ ValidAccount(bankCmd.from)
        /\ Answer(MsgAccUnkn(0, bankCmd.to))
     \/ /\ ValidAccount(bankCmd.from)
        /\ \E a \in WordsAt(bankCmd.id) :
             Answer(MsgOk(0, bankCmd.from, bankCmd.to, a))
  /\ UNCHANGED <<accounts, atmCnt>>

\* ERR_UNKNOWN_ATM: run_bank ignores the message; no reply is written.
IgnoreUnknownAtm ==
  /\ bankPc = "serve"
  /\ ~ ValidAtm(bankCmd.id)
  /\ bankPc' = "read"
  /\ UNCHANGED <<pipes, bankCmd, accounts, atmCnt, served>>

\* ERR_UNKNOWN_CMD: run_bank returns the error and the process exits.
FailUnknownCommand ==
  /\ bankPc = "serve"
  /\ ValidAtm(bankCmd.id)
  /\ bankCmd.cmd \notin Requests
  /\ bankPc' = "failed"
  /\ UNCHANGED <<pipes, bankCmd, accounts, atmCnt, served>>

Serve ==
  \/ ServeConnect \/ ServeExit \/ ServeDeposit \/ ServeWithdraw
  \/ ServeTransfer \/ ServeBalance \/ IgnoreUnknownAtm \/ FailUnknownCommand

BankNext == BankOpen \/ ReadRequest \/ Close \/ Serve

-------------------------------------------------------------------------------
BankTypeOK ==
  /\ bankIn \in Seq(Commands)
  /\ replies \in [Atms -> Seq(Commands)]
  /\ bankPc \in BankPcs
  /\ bankCmd \in Commands
  /\ accounts \in [Accounts -> CInt]
  /\ atmCnt \in Int
  /\ served \in Seq([request : Commands, code : 0 .. 255])

-------------------------------------------------------------------------------
\* What an answered request moved into the bank from outside.
External(e) ==
  IF e.code # OK THEN 0
  ELSE IF e.request.cmd = DEPOSIT THEN e.request.amt
  ELSE IF e.request.cmd = WITHDRAW THEN -e.request.amt
  ELSE 0

BookedMoney == SumTo([k \in DOMAIN served |-> External(served[k])], Len(served))
MoneyHeld   == SumTo([k \in 1 .. AccountCount |-> accounts[k - 1]], AccountCount)

\* Money is neither made nor lost: whatever the order in which the requests
\* of the ATMs are served, the balances add up to the deposits minus the
\* withdrawals that were answered OK, modulo the wrap of an int (bank.c
\* 150-212; a transfer, also one from an account to itself, moves nothing in
\* or out).
Conservation ==
  (MoneyHeld - BookedMoney) % (2 * IntBound) = 0

Overdraws(x) == accounts[x] >= 0 /\ accounts'[x] < 0

\* The funds check works for both accounts of a transfer and for both of two
\* ATMs after the same money: a step that takes an account below zero is one
\* with a negative amount, or a credit that overflows the balance (bank.c
\* 152, 167, 199-206).
NoOverdraft ==
  [][\A x \in Accounts : Overdraws(x) =>
       \/ bankCmd.amt < 0
       \/ bankCmd.to = x /\ accounts[x] + bankCmd.amt >= IntBound]_accounts

\* Where in the history requests of ATM i stand, and the EXITs of all.
ServedOf(i) == {k \in DOMAIN served : served[k].request.id = i}
ExitsServed == {k \in DOMAIN served : served[k].request.cmd = EXIT}

\* The bank closes after exactly as many EXITs as there are ATMs, not one
\* request sooner or later; it does not look which ATMs they came from
\* (bank.c 142-147, 248).
ClosesAtLastExit ==
  /\ Cardinality(ExitsServed) + atmCnt = AtmCount
  /\ bankPc = "closed" /\ AtmCount > 0 => Last(served).request.cmd = EXIT
  /\ atmCnt >= 0
==============================================================================
