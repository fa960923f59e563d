--------------------------------- MODULE MCBank ---------------------------------
(***************************************************************************)
(* Requests of two ATMs and of unknown ones, with amounts that overflow.   *)
(***************************************************************************)
EXTENDS BankAlone

MCHeapWords == {-3}

MCInputs ==
  { MsgConnect(1), MsgExit(0), MsgExit(1), MsgConnect(2), Pack(200, 0, 0, 0, 0),
    MsgDeposit(0, 0, 3), MsgDeposit(0, 1, 3), MsgWithdraw(1, 0, 2),
    MsgWithdraw(0, 0, -1), MsgTransfer(0, 0, 0, 2), MsgTransfer(1, 0, 1, 1),
    MsgTransfer(1, -1, 0, 1), MsgBalance(1, 0), MsgWithdraw(0, 1, 1), MsgBalance(0, 1) }
==============================================================================
