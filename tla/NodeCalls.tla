------------------------------ MODULE NodeCalls ------------------------------
(***************************************************************************)
(* What a page or a relayer does through the failover adaptor of a chain:  *)
(* it sends a transaction, in the way that the wallet of the chain does,   *)
(* and waits for it; or it fetches the events of a contract, range after   *)
(* range.                                                                  *)
(*                                                                         *)
(* A poll of the wait is taken as one request; that a call to several      *)
(* nodes ends is what CallEnds says.                                       *)
(***************************************************************************)
EXTENDS Failover, EventRanges, TransactionWait

CONSTANTS
  Kinds,          \* of adaptors; "events" stands for the fetching of events
  MaxBlock        \* bound on the blocks asked for

vars == <<callVars, rangeVars, waitVars>>

\* How the wallet of a chain calls the nodes, and who signs: on Solana and Sui
\* the client of the node that is asked.  The client of Tron and the account of
\* Starknet have a node of their own, the wallet of Bitcoin posts to one address.
WayOf(k) ==
  CASE k = "events" -> "send"
    [] k = "ethers" -> "broadcast"
    [] k \in {"tron", "bitcoin", "starknet"} -> "single"
    [] OTHER -> "client"
SignsOf(k) == IF k \in {"solana", "sui"} THEN "perNode" ELSE "once"

\* The confirmations that wait() of a wallet asks for; no wallet gives a time.
WalletWaits(k) ==
  CASE k = "solana" -> {1}
    [] k \in {"ton", "ckb"} -> {0}
    [] OTHER -> {0, 1, 2}

Init ==
  /\ WaitInit(Kinds)
  /\ CallInit({WayOf(kind)}) /\ signs = SignsOf(kind)
  /\ fromBlock = 0 /\ toBlock \in (IF kind = "events" THEN 0 .. MaxBlock ELSE {0})
  /\ RangesInit

\* A transaction is sent once; what a page does after a failure is up to it.
Send ==
  /\ kind # "events" /\ outcome.is = "none"
  /\ StartCall
  /\ UNCHANGED <<rangeVars, waitVars>>

\* getLogs for the next range.
AskForLogs ==
  /\ kind = "events" /\ fetching = "open" /\ outcome.is = "none"
  /\ StartCall
  /\ UNCHANGED <<rangeVars, waitVars>>

LogsCome ==
  /\ kind = "events"
  /\ \/ outcome.is = "resolved" /\ FetchRange
     \/ outcome.is = "rejected" /\ FetchFails
  /\ outcome' = Of("none")
  /\ UNCHANGED <<way, signs, request, gaveUp, current, age, total, accepted, waitVars>>

\* wait() of the wallet, or waitForTransaction with a time.  A bound: it is
\* followed after a call that the first node has answered at once only, since
\* nothing that other requests come to matters to it.
AnsweredAtOnce ==
  /\ outcome.is = "resolved" /\ total = 0
  /\ \A n \in Nodes \ {outcome.node} : request[n] = "unasked"

Wait ==
  /\ kind \in Polled \union {"sui"} /\ AnsweredAtOnce
  /\ \/ \E c \in WalletWaits(kind) : StartWait(c, FALSE)
     \/ \E c \in {0, 1, 2} : StartWait(c, TRUE)
  /\ UNCHANGED <<callVars, rangeVars>>

Next ==
  \/ Send \/ AskForLogs \/ LogsCome \/ Wait
  \/ CallNext /\ UNCHANGED <<rangeVars, waitVars>>
  \/ WaitNext /\ UNCHANGED <<callVars, rangeVars>>

Spec == Init /\ [][Next]_vars /\ CallFairness /\ WaitFairness

-----------------------------------------------------------------------------
\* Properties

\* Nothing hangs: a call to several nodes ends, and so does a wait.
NothingHangs == CallEnds /\ WaitEnds

=============================================================================
