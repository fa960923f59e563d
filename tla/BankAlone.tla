------------------------------- MODULE BankAlone -------------------------------
(***************************************************************************)
(* The bank alone, with an environment that writes any message into its    *)
(* pipe: this reaches the branches of bank() that guard against unknown    *)
(* ATMs and unknown commands, which atm() never sends.                     *)
(***************************************************************************)
EXTENDS Bank

CONSTANTS
  Inputs,    \* the messages the environment may write
  MaxSent    \* bound on their number

ASSUME InputsAssumption == Inputs \subseteq Commands

VARIABLE sent   \* history: all messages written to the bank

aloneVars == <<pipes, bankVars, sent>>

AloneInit == PipesInit /\ BankInit /\ sent = <<>>

Start ==
  /\ bankPc = "unforked"
  /\ bankPc' = "open"
  /\ UNCHANGED <<pipes, bankCmd, accounts, atmCnt, served, sent>>

EnvironmentSends ==
  /\ Len(sent) < MaxSent
  /\ bankPc \notin {"unforked", "open"}
  /\ \E m \in Inputs : WriteBank(m) /\ sent' = Append(sent, m)
  /\ UNCHANGED <<replies, bankVars>>

EnvironmentReads ==
  /\ \E i \in Atms : ReadReply(i)
  /\ UNCHANGED <<bankIn, bankVars, sent>>

AloneNext ==
  \/ Start
  \/ EnvironmentSends
  \/ EnvironmentReads
  \/ BankNext /\ UNCHANGED sent

AloneSpec == AloneInit /\ [][AloneNext]_aloneVars

\* How many messages the bank has in hand, and how many it is through with; one
\* of an unknown command it never is.
InHand  == IF bankPc \in {"serve", "failed"} THEN 1 ELSE 0
Handled == Len(sent) - Len(bankIn) - InHand

\* Those of them that call for an answer.
FromKnownAtm == {k \in 1 .. Handled : sent[k].id \in Atms}

\* The bank answers every request of a known ATM with a known command exactly
\* once, first come first served, and answers nothing else: as many requests
\* are served as were to be, and the n-th one served is the n-th of them.  An
\* unknown ATM is skipped, an unknown command is the last message read (bank.c
\* 120-266).
FirstComeFirstServed ==
  /\ Len(served) = Cardinality(FromKnownAtm)
  /\ \A k \in FromKnownAtm :
       served[Cardinality(FromKnownAtm \cap 1 .. k)].request = sent[k]
==============================================================================
