-------------------------------- MODULE BankSim --------------------------------
(***************************************************************************)
(* The whole simulation (banksim.c): the parent forks the ATMs one by one  *)
(* and then the bank, and waits for atm_count + 1 children.  Children run  *)
(* as soon as they are forked.  The pipes are those of module Command.     *)
(***************************************************************************)
EXTENDS Bank, Atm

VARIABLES
  forked,   \* how many fork() calls the parent has made
  waits     \* how many wait() calls have returned

parentVars == <<forked, waits>>
vars == <<pipes, bankVars, atmVars, parentVars>>

Init ==
  /\ PipesInit
  /\ BankInit
  /\ AtmInit
  /\ forked = 0
  /\ waits = 0

\* The loop forks ATM 0, 1, ...; the last fork makes the bank.
ForkAtm ==
  /\ forked < AtmCount
  /\ forked' = forked + 1
  /\ AtmGoto(forked, "open")
  /\ UNCHANGED <<pipes, bankVars, trace, pos, waits>>

ForkBank ==
  /\ forked = AtmCount
  /\ forked' = forked + 1
  /\ bankPc' = "open"
  /\ UNCHANGED <<pipes, bankCmd, accounts, atmCnt, served, atmVars, waits>>

\* fork() returns -1: the parent goes on without that child.
ForkFails ==
  /\ "fork" \in Faults
  /\ forked <= AtmCount
  /\ forked' = forked + 1
  /\ UNCHANGED <<pipes, bankVars, atmVars, waits>>

AtmsCreated == {i \in Atms : atmPc[i] # "unforked"}
BankExited == bankPc \in {"closed", "failed"}
BankCreated == bankPc # "unforked"
Count(b) == IF b THEN 1 ELSE 0
Created == Cardinality(AtmsCreated) + Count(BankCreated)
Exited == Cardinality(AtmsExited) + Count(BankExited)

\* Mutant: one wait() too many.
WaitingOnceMore == forked = AtmCount + 1 /\ waits <= AtmCount + 1

Waiting == forked = AtmCount + 1 /\ waits < AtmCount + 1

\* Mutant: wait() returns although the child it counts still runs.
ReapEarly ==
  /\ Waiting
  /\ waits <= Exited
  /\ waits' = waits + 1
  /\ UNCHANGED <<pipes, bankVars, atmVars, forked>>

\* wait() reaps a child that has exited ...
Reap ==
  /\ Waiting
  /\ waits < Exited
  /\ waits' = waits + 1
  /\ UNCHANGED <<pipes, bankVars, atmVars, forked>>

\* ... or returns -1 at once when the parent has no children left.
WaitWithoutChild ==
  /\ Waiting
  /\ waits >= Created
  /\ waits' = waits + 1
  /\ UNCHANGED <<pipes, bankVars, atmVars, forked>>

Parent == ForkAtm \/ ForkBank \/ ForkFails \/ Reap \/ WaitWithoutChild

ParentDone == waits = AtmCount + 1

\* The simulation is over; everything else that stops is a deadlock.
Terminated ==
  /\ ParentDone
  /\ UNCHANGED vars

BankStep == BankNext /\ UNCHANGED <<atmVars, parentVars>>
AtmStep(i) == AtmNext(i) /\ UNCHANGED <<bankVars, parentVars>>

Next ==
  \/ Parent
  \/ BankStep
  \/ \E i \in Atms : AtmStep(i)
  \/ Terminated

Spec == Init /\ [][Next]_vars

\* The operating system runs every process that can take a step.
FairSpec ==
  /\ Spec
  /\ WF_vars(Parent)
  /\ WF_vars(BankStep)
  /\ \A i \in Atms : WF_vars(AtmStep(i))

-------------------------------------------------------------------------------
\* The processes stay at known points of the code and the values are C values:
\* balances do not leave the range of an int.
TypeOK ==
  /\ BankTypeOK
  /\ AtmTypeOK
  /\ forked \in 0 .. AtmCount + 1
  /\ waits \in 0 .. AtmCount + 1

-------------------------------------------------------------------------------
\* Where a request of ATM i can be once it is sent.
InPipe(i)   == {k \in DOMAIN bankIn : bankIn[k].id = i}
AtBank(i)   == bankPc = "serve" /\ bankCmd.id = i

\* The protocol is strictly request and reply: what ATM i has sent and not
\* seen answered is one message, its current command in the bank's pipe or
\* in the bank's hands, or one reply in its own pipe; an ATM that is not
\* waiting has nothing under way.  So no ATM can read the reply to an
\* earlier request, and no pipe holds more than one message per ATM
\* (atm.c 77-82, bank.c 249-253).
OneOutstanding ==
  \A i \in Atms :
    /\ atmPc[i] # "wait" => InPipe(i) = {} /\ ~ AtBank(i) /\ replies[i] = <<>>
    /\ atmPc[i] = "wait" =>
         \/ /\ \E k \in DOMAIN bankIn :
                 InPipe(i) = {k} /\ bankIn[k] = Current(i)
            /\ ~ AtBank(i) /\ replies[i] = <<>>
         \/ InPipe(i) = {} /\ AtBank(i) /\ bankCmd = Current(i) /\ replies[i] = <<>>
         \/ InPipe(i) = {} /\ ~ AtBank(i) /\ Len(replies[i]) = 1

\* A process the parent has not come to yet does not run.
NotYetForked ==
  /\ \A i \in Atms : i >= forked => atmPc[i] = "unforked"
  /\ forked <= AtmCount => bankPc = "unforked"

\* What is under way on the bank's side are requests an ATM of the simulation
\* could have made; and an ATM sends and awaits only its own command.
RequestOf(c) == c.id \in Atms /\ c.cmd \in Requests

RequestsUnderWay ==
  /\ \A k \in DOMAIN bankIn : RequestOf(bankIn[k])
  /\ bankPc = "serve" => RequestOf(bankCmd)
  /\ \A i \in Atms : atmPc[i] \in {"send", "wait"} =>
       pos[i] > 0 /\ Current(i).id = i /\ Current(i).cmd \in Requests

\* The reply an ATM is about to read answers the command it is executing:
\* the last request of that ATM which the bank served is its current one.
ReplyAnswersCurrent ==
  \A i \in Atms : replies[i] # <<>> =>
    \E k \in ServedOf(i) :
      /\ \A j \in ServedOf(i) : j <= k
      /\ served[k] = [request |-> Current(i), code |-> Head(replies[i]).cmd]

Unserved(i) == atmPc[i] = "send" \/ (atmPc[i] = "wait" /\ replies[i] = <<>>)

\* The records among the first n of the trace that ATM i forwards.
OwnUpTo(i, n) == {p \in 1 .. n : Buffer(p).id = i /\ Buffer(p).cmd \in Requests}

\* How many records ATM i has read, without the one still under way.
Settled(i) == IF Unserved(i) THEN pos[i] - 1 ELSE pos[i]

\* Every ATM's commands are executed exactly once and in trace order,
\* whatever the interleaving of the processes: as many requests are served
\* for ATM i as it has records in the trace up to where it has read, without
\* the one still under way, and the n-th one served is its n-th record.
ExecutedInTraceOrder ==
  \A i \in Atms :
    /\ Cardinality(ServedOf(i)) = Cardinality(OwnUpTo(i, Settled(i)))
    /\ \A k \in ServedOf(i) : \E p \in OwnUpTo(i, Settled(i)) :
         /\ served[k].request = Buffer(p)
         /\ Cardinality(OwnUpTo(i, p)) = Cardinality(ServedOf(i) \cap 1 .. k)

\* The defensive branches of bank() (unknown ATM, unknown command) are never
\* needed: atm() filters what it forwards (atm.c 69-105), so run_bank ends
\* only by its count of active ATMs reaching zero.
BankNeverFails ==
  /\ bankPc # "failed"
  /\ bankPc = "serve" => RequestOf(bankCmd)

\* The inductive invariant behind the two.
ProtocolInv ==
  TypeOK /\ NotYetForked /\ RequestsUnderWay /\ OneOutstanding /\ BankNeverFails

AllExited == AtmsCreated = AtmsExited /\ (BankCreated => BankExited)

\* The parent exits last: the loop of atm_count + 1 waits outlives every
\* child, also when a fork failed and wait() finds no child (banksim.c 90-95).
ParentExitsLast == ParentDone => AllExited

\* The inductive invariant behind it: the parent has reaped no more children
\* than have exited, unless none is left.
ReapInv ==
  /\ waits > 0 => forked = AtmCount + 1
  /\ waits <= Exited \/ AllExited
==============================================================================
