--------------------------- MODULE TransactionWait ---------------------------
(***************************************************************************)
(* waitForTransaction of the adaptors: a node is asked for a transaction   *)
(* at once and at every interval until it is found, whether or not the     *)
(* poll before has been answered, or until the time given, if one is given.*)
(* Each poll is a function of its own, whose errors are caught or not.     *)
(*                                                                         *)
(* An error inside a poll does not reject the promise that is waited for.  *)
(***************************************************************************)
EXTENDS Naturals, FiniteSets

CONSTANTS
  MaxPolls,       \* bounds: on the polls at the same time,
  MaxLapses,      \* on polls that fail or that a node behind the others answers,
  MaxHeight       \* on the blocks

ASSUME PollsAssumption == MaxPolls \in Nat \ {0}

VARIABLES
  kind,           \* of the adaptor, throughout
  decodable,      \* whether _wrapTonTx can read the transaction, throughout
  wanted,         \* the confirmations asked for, 0 for undefined
  timer,          \* whether a time is given, and is not over
  status, block,  \* of the transaction: "nowhere", "pending", "included" in a block
  height,         \* of the chain
  deepest,        \* history: the most confirmations it has had
  polls,          \* under way
  interval,       \* whether the interval is set
  result,         \* of the promise; "idle" before there is one
  raced,          \* history: whether a reorganisation fell into the poll that found it
  lapses

waitVars == <<kind, decodable, wanted, timer, status, block, height, deepest,
              polls, interval, result, raced, lapses>>

Polled == {"solana", "bitcoin", "ton", "tron", "starknet", "ckb"}
Final == 2        \* confirmations after which a block stays
NoBlock == 0

Depth == IF status = "included" THEN height - block + 1 ELSE 0

\* What a node answers: how deep the transaction is, and where.
View == [status |-> status, block |-> block, depth |-> Depth]
Unseen == [status |-> "nowhere", block |-> NoBlock, depth |-> 0]
Error == [status |-> "error", block |-> NoBlock, depth |-> 0]
Found(view) == view.status = "included"

\* What a poll ends with: the interval stopped or not, the promise settled or not.
AskAgain == [stops |-> FALSE, result |-> "waiting"]
Settle == [stops |-> TRUE, result |-> "resolved"]
StopOnly == [stops |-> TRUE, result |-> "waiting"]

-----------------------------------------------------------------------------
\* What the poll of each adaptor makes of the answer

\* A mutant: any confirmation is good enough.
SolanaPollAny(view) == IF Found(view) THEN Settle ELSE AskAgain

\* A mutant: the interval is cleared before the answer is looked at.
StarknetPollOnce(view) == IF Found(view) THEN Settle ELSE StopOnly

\* With confirmations only a finalized transaction is found.
SolanaPoll(view) ==
  IF Found(view) /\ (wanted > 0 => view.depth >= Final) THEN Settle ELSE AskAgain

\* The transaction and then the height: two requests.  An unknown transaction is
\* an error that nobody catches; the interval goes on.
BitcoinPoll(info, tip) ==
  IF Found(info) /\ tip + 1 >= info.block + (IF wanted > 0 THEN wanted ELSE 1)
  THEN Settle ELSE AskAgain

\* The interval is cleared before the transaction is read, outside of the try.
TonPoll(view) ==
  IF ~Found(view) THEN AskAgain
  ELSE IF decodable THEN Settle ELSE StopOnly

TronPoll(view) ==
  IF Found(view) /\ (wanted > 0 => view.depth >= Final) THEN Settle ELSE AskAgain

StarknetPoll(view) == IF Found(view) THEN Settle ELSE AskAgain

\* A node of CKB answers for an unknown transaction, too: the interval is cleared
\* and the error of reading the answer is caught.
CkbPoll(view) ==
  CASE view = Error -> AskAgain
    [] Found(view) -> Settle
    [] OTHER -> StopOnly

\* Sui asks once; an error is the result.
SuiPoll(view) == [stops |-> TRUE, result |-> IF Found(view) THEN "resolved" ELSE "rejected"]

PollEnds(poll) ==
  CASE kind = "solana" -> SolanaPoll(poll.view)
    [] kind = "bitcoin" -> BitcoinPoll(poll.view, poll.tip)
    [] kind = "ton" -> TonPoll(poll.view)
    [] kind = "tron" -> TronPoll(poll.view)
    [] kind = "starknet" -> StarknetPoll(poll.view)
    [] kind = "ckb" -> CkbPoll(poll.view)
    [] kind = "sui" -> SuiPoll(poll.view)

-----------------------------------------------------------------------------
WaitInit(kinds) ==
  /\ kind \in kinds /\ decodable \in BOOLEAN /\ (kind # "ton" => decodable)
  /\ wanted = 0 /\ timer = FALSE
  /\ status = "nowhere" /\ block = NoBlock /\ height = 1 /\ deepest = 0
  /\ polls = {} /\ interval = FALSE /\ result = "idle" /\ raced = FALSE /\ lapses = 0

\* The first poll goes out with the call.
NewPoll(n) == [at |-> "asked", view |-> Unseen, tip |-> 0, reorged |-> FALSE, n |-> n]

StartWait(confirmations, time) ==
  /\ result = "idle"
  /\ result' = "waiting" /\ wanted' = confirmations /\ timer' = time
  /\ interval' = (kind \in Polled)
  /\ polls' = {NewPoll(1)}
  /\ status' = "pending"        \* a node has taken it
  /\ UNCHANGED <<kind, decodable, block, height, deepest, raced, lapses>>

PollAgain ==
  /\ interval
  /\ \E n \in 1 .. MaxPolls :
       /\ \A p \in polls : p.n # n
       /\ \A m \in 1 .. n - 1 : \E p \in polls : p.n = m     \* alike
       /\ polls' = polls \union {NewPoll(n)}
  /\ UNCHANGED <<kind, decodable, wanted, timer, status, block, height, deepest,
                 interval, result, raced, lapses>>

Becomes(poll, next) == polls' = (polls \ {poll}) \union {next}

\* The node answers, as the chain is at that moment; on Bitcoin the height is
\* asked for after the answer has come.
Answered(poll, view) ==
  Becomes(poll, [poll EXCEPT !.at = IF kind = "bitcoin" /\ view.status \in {"pending", "included"}
                                    THEN "height" ELSE "answered", !.view = view])

NodeSays(poll) ==
  /\ poll.at = "asked" /\ Answered(poll, View)
  /\ UNCHANGED <<kind, decodable, wanted, timer, status, block, height, deepest,
                 interval, result, raced, lapses>>

NodeLapses(poll) ==
  /\ poll.at = "asked" /\ lapses < MaxLapses /\ lapses' = lapses + 1
  /\ \E view \in {Error, Unseen} : Answered(poll, view)
  /\ UNCHANGED <<kind, decodable, wanted, timer, status, block, height, deepest,
                 interval, result, raced>>

HeightSays(poll) ==
  /\ poll.at = "height"
  /\ Becomes(poll, [poll EXCEPT !.at = "answered", !.tip = height])
  /\ UNCHANGED <<kind, decodable, wanted, timer, status, block, height, deepest,
                 interval, result, raced, lapses>>

HeightLapses(poll) ==
  /\ poll.at = "height" /\ lapses < MaxLapses /\ lapses' = lapses + 1
  /\ Becomes(poll, [poll EXCEPT !.at = "answered", !.view = Error])
  /\ UNCHANGED <<kind, decodable, wanted, timer, status, block, height, deepest,
                 interval, result, raced>>

\* The first result of the promise stays.
Hear(poll) ==
  LET end == PollEnds(poll)
  IN  /\ poll.at = "answered"
      /\ polls' = polls \ {poll}
      /\ interval' = (interval /\ ~end.stops)
      /\ result' = IF result = "waiting" THEN end.result ELSE result
      /\ raced' = IF result = "waiting" /\ end = Settle THEN poll.reorged ELSE raced
      /\ UNCHANGED <<kind, decodable, wanted, timer, status, block, height, deepest, lapses>>

\* The time is over; what is under way goes on.
WaitTimesOut ==
  /\ timer /\ kind \in Polled /\ result \in {"waiting", "resolved"}
  /\ interval' = FALSE
  /\ result' = IF result = "waiting" THEN "rejected" ELSE result
  /\ timer' = FALSE
  /\ UNCHANGED <<kind, decodable, wanted, status, block, height, deepest, polls, raced, lapses>>

-----------------------------------------------------------------------------
\* The chain

ChainStep(now, at, tip) ==
  /\ status' = now /\ block' = at /\ height' = tip
  /\ deepest' = IF now = "included" /\ tip - at + 1 > deepest THEN tip - at + 1 ELSE deepest
  /\ UNCHANGED <<kind, decodable, wanted, timer, interval, result, raced, lapses>>

\* A block, with the transaction or without.
Mine ==
  /\ result # "idle" /\ height < MaxHeight
  /\ \/ status = "pending" /\ ChainStep("included", height + 1, height + 1)
     \/ ChainStep(status, block, height + 1)
  /\ UNCHANGED polls

Drop ==
  /\ status = "pending" /\ ChainStep("nowhere", NoBlock, height) /\ UNCHANGED polls

\* The last block is replaced by one without the transaction.
Reorganise ==
  /\ status = "included" /\ Depth < Final
  /\ ChainStep("pending", NoBlock, height)
  /\ polls' = {[p EXCEPT !.reorged = (p.at # "asked")] : p \in polls}

WaitNext ==
  \/ PollAgain \/ WaitTimesOut
  \/ \E p \in polls : NodeSays(p) \/ NodeLapses(p) \/ HeightSays(p) \/ HeightLapses(p) \/ Hear(p)
  \/ Mine \/ Drop \/ Reorganise

\* The interval and the timer fire, nodes answer at last, and what they have
\* answered is heard.
WaitFairness ==
  /\ WF_waitVars(PollAgain) /\ WF_waitVars(WaitTimesOut)
  /\ WF_waitVars(\E p \in polls : NodeSays(p) \/ HeightSays(p))
  /\ WF_waitVars(\E p \in polls : Hear(p))

-----------------------------------------------------------------------------
\* Properties

\* As many confirmations as an adaptor waits for.
Promised ==
  CASE kind = "bitcoin" -> IF wanted > 0 THEN wanted ELSE 1
    [] kind \in {"solana", "tron"} -> IF wanted > 0 THEN Final ELSE 1
    [] OTHER -> 1

\* A transaction that was found has had its confirmations: a finalized one on
\* Solana and Tron, the number asked for on Bitcoin, any block on the others.
\* On Bitcoin it may never have had them, when a block is replaced between the
\* two requests of a poll.
FoundWasConfirmed ==
  result = "resolved" => deepest >= Promised \/ (kind = "bitcoin" /\ raced)

\* CKB asked too early, and TON with a transaction it cannot read, stop asking.
Deaf ==
  /\ ~interval /\ result = "waiting"
  /\ kind = "ckb" \/ (kind = "ton" /\ ~decodable)

Settled == result \in {"resolved", "rejected"}

\* A wait ends at the time given, or when the transaction is there to stay; but
\* for the two adaptors that stop asking and say nothing.
WaitEnds ==
  /\ (result = "waiting" /\ timer) ~> Settled
  /\ (result = "waiting" /\ (Depth >= Final \/ kind = "sui")) ~> (Settled \/ Deaf)

=============================================================================
