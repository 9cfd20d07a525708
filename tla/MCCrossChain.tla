---------------------------- MODULE MCCrossChain ----------------------------
(***************************************************************************)
(* One swap between two chains, with the time periods in the order of the  *)
(* real ones: lock time + margin < minimum bond time < maximum bond time.  *)
(***************************************************************************)
EXTENDS SwapStatus

CONSTANTS here, there

TheSwap ==
  [ salt |-> 0, amount |-> 3, fee |-> 1, expireTs |-> 7,
    inChain |-> here, inToken |-> 1, outChain |-> there, outToken |-> 1,
    feeWaived |-> FALSE, toContract |-> FALSE,
    forCore |-> 0, coreAmount |-> 0, share |-> 0, poolToShare |-> 0 ]

OneSwap == {TheSwap}

=============================================================================
