-------------------------------- MODULE Ledger --------------------------------
(***************************************************************************)
(* What the bank simulation promises its ATMs, without processes or pipes: *)
(* a shared ledger.  An ATM asks, the ledger executes the request in one   *)
(* atomic step, the ATM collects the verdict.                              *)
(***************************************************************************)
EXTENDS Integers

CONSTANTS Clients, Books, IntBound, Orders

NoOrder == [cmd |-> "none"]
Verdicts == {"ok", "nofunds", "unknown"}

VARIABLES
  balance,   \* balance[x]: what account x holds
  order,     \* order[i]: the request of client i under way, or NoOrder
  verdict    \* verdict[i]: its outcome, "pending" until it is executed

ledger == <<balance, order, verdict>>

LedgerInit ==
  /\ balance = [x \in Books |-> 0]
  /\ order = [i \in Clients |-> NoOrder]
  /\ verdict = [i \in Clients |-> "pending"]

Ask(i) ==
  /\ order[i] = NoOrder
  /\ order'[i] \in Orders
  /\ order' = [order EXCEPT ![i] = order'[i]]
  /\ UNCHANGED <<balance, verdict>>

\* The accounts an order debits and credits, by kind.
Debits(o)  == IF o.cmd \in {"withdraw", "transfer"} THEN {o.from} ELSE {}
Credits(o) == IF o.cmd \in {"deposit", "transfer"} THEN {o.to} ELSE {}
Names(o)   == Debits(o) \cup Credits(o) \cup (IF o.cmd = "balance" THEN {o.from} ELSE {})

Outcome(o) ==
  IF ~ (Names(o) \subseteq Books) THEN "unknown"
  ELSE IF \E x \in Debits(o) : balance[x] < o.amt THEN "nofunds"
  ELSE "ok"

Share(x, xs, a) == IF x \in xs THEN a ELSE 0

Execute(i) ==
  /\ order[i] # NoOrder
  /\ verdict[i] = "pending"
  /\ LET o == order[i] IN
       /\ verdict' = [verdict EXCEPT ![i] = Outcome(o)]
       /\ balance' =
            IF Outcome(o) # "ok" THEN balance
            ELSE [x \in Books |->
                    ((balance[x] + Share(x, Credits(o), o.amt)
                        - Share(x, Debits(o), o.amt) + IntBound)
                      % (2 * IntBound)) - IntBound]
  /\ UNCHANGED order

Collect(i) ==
  /\ verdict[i] # "pending"
  /\ order' = [order EXCEPT ![i] = NoOrder]
  /\ verdict' = [verdict EXCEPT ![i] = "pending"]
  /\ UNCHANGED balance

LedgerNext == \E i \in Clients : Ask(i) \/ Execute(i) \/ Collect(i)

LedgerSpec == LedgerInit /\ [][LedgerNext]_ledger
===============================================================================
