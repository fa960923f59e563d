----------------------------- MODULE BankSimLedger -----------------------------
(***************************************************************************)
(* The simulation implements the atomic ledger: an order is under way from *)
(* the write of an ATM until its read of the reply, and is executed in the *)
(* step in which the bank updates the balances and writes the reply.       *)
(***************************************************************************)
EXTENDS BankSim

KindOf(c) ==
  CASE c = CONNECT  -> "connect"  [] c = EXIT     -> "exit"
    [] c = DEPOSIT  -> "deposit"  [] c = WITHDRAW -> "withdraw"
    [] c = TRANSFER -> "transfer" [] c = BALANCE  -> "balance"

VerdictOf(code) ==
  CASE code = OK -> "ok" [] code = NOFUNDS -> "nofunds" [] code = ACCUNKN -> "unknown"

OrderOf(c) == [cmd |-> KindOf(c.cmd), from |-> c.from, to |-> c.to, amt |-> c.amt]

Orders == [cmd : {"connect", "exit", "deposit", "withdraw", "transfer", "balance"},
           from : CInt, to : CInt, amt : CInt]

NoOrder == [cmd |-> "none"]

orders ==
  [i \in Atms |-> IF atmPc[i] = "wait" THEN OrderOf(Current(i)) ELSE NoOrder]

verdicts ==
  [i \in Atms |-> IF replies[i] = <<>> THEN "pending"
                  ELSE VerdictOf(Head(replies[i]).cmd)]

L == INSTANCE Ledger WITH
       Clients <- Atms, Books <- Accounts,
       balance <- accounts, order <- orders, verdict <- verdicts

\* Whatever the interleaving of the ATMs, every one of them sees its
\* transactions executed atomically, each at one instant between its request
\* and its reply, with the verdict that follows from the balances at that
\* instant (atm.c, bank.c, banksim.c together).
LedgerImplemented == L!LedgerSpec

-------------------------------------------------------------------------------
\* A trace of the kind twriter.c writes: every ATM gets one EXIT, as its
\* last command, and nothing in the trace is unknown or cut short.
WellFormed(f) ==
  /\ f.whole = 5
  /\ \A k \in DOMAIN f.cmds : f.cmds[k].cmd \in Requests
  /\ \A i \in Atms : \E k \in DOMAIN f.cmds :
       /\ f.cmds[k] = MsgExit(i)
       /\ \A j \in DOMAIN f.cmds : f.cmds[j].id = i =>
            j <= k /\ (f.cmds[j].cmd = EXIT => j = k)

\* On such a trace the bank's counter is exact: it is the number of ATMs
\* whose EXIT is not served yet, so that the bank closes only when no ATM
\* will send again; and a closed bank leaves no request unread (bank.c 143,
\* 248).
ActiveCountExact ==
  WellFormed(trace) =>
    /\ atmCnt = Cardinality({i \in Atms :
                  ~ \E k \in DOMAIN served : served[k].request = MsgExit(i)})
    /\ bankPc = "closed" =>
         bankIn = <<>> /\ \A i \in Atms : ServedOf(i) # {} /\ ~ Unserved(i)

\* Every process of the simulation runs to its end on a well-formed trace:
\* the ATMs reach the end of the trace, the bank closes, the parent reaps
\* them all and exits.
Completion ==
  WellFormed(trace) =>
    <>[](ParentDone /\ bankPc = "closed" /\ \A i \in Atms : atmPc[i] = "done")

\* The comment on run_bank: "It stops when there are no active atms."
\* An ATM process that has exited is not active.
BankStopsWithoutAtms ==
  (AtmsExited = Atms /\ BankCreated) ~> BankExited

\* A reply to BALANCE tells the balance of the account the request names in
\* its "from" field (command.h 49, 63-64; bank.c 222-225).
BalanceOfTheAccountAsked ==
  [][\A i \in Atms :
       bankPc = "serve" /\ bankCmd.cmd = BALANCE /\ bankCmd.id = i
         /\ replies'[i] # replies[i] /\ Last(replies'[i]).cmd = OK
       => Last(replies'[i]).amt = accounts[bankCmd.from]]_<<replies, bankPc>>
==============================================================================
