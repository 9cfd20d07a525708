-------------------------------- MODULE MCCalls -------------------------------
(***************************************************************************)
(* Every kind of signer, typed and plain texts, and every chain whose      *)
(* contract object builds and parses transactions itself, once as the      *)
(* initial chain and once as the target chain of a swap.                   *)
(***************************************************************************)
EXTENDS AdaptorCalls

Sw(id, in, out, plain) ==
  [id |-> id, inChain |-> in, outChain |-> out, nonTyped |-> plain,
   inToken |-> 1, outToken |-> 2]

MCSwaps == {Sw(1, "ethers", "solana", FALSE), Sw(2, "solana", "ethers", TRUE),
            Sw(3, "sui", "aptos", TRUE), Sw(4, "aptos", "sui", TRUE),
            Sw(5, "starknet", "tron", FALSE), Sw(6, "tron", "starknet", TRUE),
            Sw(7, "ckb", "ethers", TRUE), Sw(8, "ethers", "ckb", TRUE)}

Addr(form) == [form |-> form, head |-> form, tail |-> "rest"]
MCRecipients == {Addr("ethers"), Addr("solana"), Addr("move"), Addr("tron"), Addr("ckb")}

MCPoolOf == [p \in Providers |-> IF p = "lp" THEN 2 ELSE 3]

=============================================================================
