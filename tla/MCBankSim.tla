------------------------------- MODULE MCBankSim -------------------------------
(***************************************************************************)
(* Trace files for model checking the simulation.                          *)
(***************************************************************************)
EXTENDS BankSimLedger

\* The byte layout of messages and headers, for ints of four two-bit bytes.
Bytes == INSTANCE Packing WITH ByteBits <- 2
ASSUME LayoutAssumption == Bytes!MessageSurvives /\ Bytes!CountsSurvive

MCHeapWords == {-3, 7}

Whole(cmds) == [cmds |-> cmds, whole |-> 5]

Connects == [i \in 1 .. AtmCount |-> MsgConnect(i - 1)]
Exits    == [i \in 1 .. AtmCount |-> MsgExit(i - 1)]
\* The starter deposits, by each ATM in turn.
Starters == [x \in 1 .. AccountCount |-> MsgDeposit((x - 1) % AtmCount, x - 1, 5)]

\* One transaction as twriter draws it; 3 fits a starter balance of 5 once.
Transactions ==
  {MsgTransfer(i, f, t, 3) : i \in Atms, f \in Accounts, t \in Accounts}
    \cup {MsgWithdraw(i, f, 3) : i \in Atms, f \in Accounts}
    \cup {MsgBalance(i, f) : i \in Atms, f \in Accounts}

\* Contenders of the other ATM for the same money.
Contenders == {MsgTransfer(1, 0, 1, 3), MsgWithdraw(1, 0, 3), MsgBalance(1, 0)}

\* The files of twriter with two transactions after the starter deposits.
TwriterTraces ==
  {Whole(Connects \o Starters \o <<x, y>> \o Exits) :
     x \in Transactions, y \in Contenders}

\* Files twriter never writes: no EXIT, an EXIT too many, commands after the
\* EXIT, unknown commands, foreign ATMs and accounts, records cut short.
OddTraces ==
  { Whole(<<>>),
    Whole(<<MsgConnect(0), MsgConnect(1), MsgDeposit(0, 0, 4)>>),
    Whole(<<MsgExit(0), MsgExit(0), MsgDeposit(1, 0, 4), MsgExit(1)>>),
    Whole(<<MsgExit(0), MsgDeposit(0, 0, 4), MsgExit(1), MsgDeposit(1, 0, 3)>>),
    Whole(<<MsgDeposit(0, 0, 4), Pack(200, 0, 1, 1, 1), MsgExit(0), MsgExit(1)>>),
    Whole(<<MsgConnect(7), MsgDeposit(0, -1, 4), MsgWithdraw(1, 6, 1),
            MsgTransfer(1, 0, 5, 0), MsgTransfer(0, 5, 0, 0), MsgBalance(1, 4),
            MsgExit(0), MsgExit(1)>>),
    Whole(<<MsgWithdraw(1, 0, 2), MsgDeposit(0, 0, 6), MsgDeposit(1, 0, 6),
            MsgDeposit(1, 0, -4), MsgExit(1), MsgExit(0)>>) }
  \cup
  { [cmds |-> <<MsgDeposit(0, 0, 4), MsgTransfer(1, 0, 0, 1), MsgExit(1),
                MsgTransfer(0, 0, 0, 2)>>, whole |-> n] : n \in 1 .. 4 }

\* A trace file with one damaged record: its ATM gives up there.
DamagedTrace ==
  {Whole(Connects \o <<MsgDeposit(0, 0, 4), Pack(200, 1, 0, 0, 1)>> \o Exits)}
==============================================================================
