----------------------------- MODULE MCEncoding -----------------------------
(***************************************************************************)
(* Words of 8 bits with one digit and a half of precision, and all header  *)
(* bits.  Token 248 pays with BNB, 244 with SOL and 240 with BTC.          *)
(***************************************************************************)
EXTENDS SwapEncoding

CONSTANTS here, there

Edges == {0, 1, 9, 10, 11, 99, 100, 101, 109, 110, 190, 191, 255}

AnyWord ==
  [ amount : {4000}, fee : {1}, header : SUBSET HeaderBits,
    inChain : {here}, inToken : {1, 240, 244, 248, 252},
    outChain : {there}, outToken : {1, 190, 191},
    data1 : {0, 1, 100, 255}, data2 : Edges ]

AnyRequest ==
  [ amount : {4000}, fee : {1}, header : SUBSET HeaderBits,
    inChain : {here}, inToken : {1}, outChain : {there}, outToken : {1},
    forCore : {All, 0, 1, 2, 21, 198, 199, 200, 202, 221, 1999, 2000, 2001},
    price : {0, 1, 100, 101, 1000}, poolToShare : {255, 256, 511, 512},
    share : {0, 1, 9, 10, 99, 100, 101, 999, 1000, 1001} ]

=============================================================================
