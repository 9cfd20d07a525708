------------------------------- MODULE Failover -------------------------------
(***************************************************************************)
(* A call to several nodes (adaptors/FailoverAdaptors.ts), in one of the   *)
(* ways that the SDK makes one:                                            *)
(*   "client"     a method of the proxied client, one node after another   *)
(*   "send"       the same with a limit on the whole                       *)
(*   "broadcast"  sendTransaction of EVM chains, to all nodes at once      *)
(*   "single"     the current node only, with no limit: fetch of the       *)
(*                Bitcoin adaptor, and the object trx of the client of     *)
(*                Tron, which the proxy hands out as it is                 *)
(* A request whose time is over is still under way: the node may take it   *)
(* later, and what it answers then is not heard.                           *)
(***************************************************************************)
EXTENDS Naturals, FiniteSets

CONSTANTS
  Nodes,
  PerNode,        \* #timeout, and the 10 seconds of extendProvider.ts
  Overall         \* the 30 seconds of send

ASSUME LimitsAssumption == PerNode \in Nat \ {0} /\ Overall \in Nat \ {0}

VARIABLES
  way,            \* of the calls, throughout
  signs,          \* who signs a transaction: the wallet "once", or the client
                  \* of each node that is asked, "perNode"; throughout
  request,        \* what has become of the request to each node
  gaveUp,         \* nodes that did not answer in time
  current,        \* the node that is waited for, in turn
  age, total,     \* time since that node was asked, since the call was made
  outcome,        \* of the call
  accepted        \* the transactions that nodes have taken

callVars == <<way, signs, request, gaveUp, current, age, total, outcome, accepted>>

NoNode == "nobody"
ASSUME NodesAssumption == NoNode \notin Nodes

Ways == {"client", "send", "broadcast", "single"}
Unasked == [n \in Nodes |-> "unasked"]
Resolved(n) == [is |-> "resolved", node |-> n]
Of(is) == [is |-> is, node |-> NoNode]
InTurn == way \in {"client", "send"}

\* The transaction that a node is given: everyone the same, or one of its own.
SignedFor(n) == IF signs = "once" THEN "tx" ELSE n

CallInit(ways) ==
  /\ way \in ways /\ signs \in {"once", "perNode"}
  /\ way = "broadcast" => signs = "once"
  /\ request = Unasked /\ gaveUp = {} /\ current = NoNode
  /\ age = 0 /\ total = 0 /\ outcome = Of("none") /\ accepted = {}

\* Nodes are asked in random order.
StartCall ==
  /\ outcome.is # "pending" /\ current = NoNode
  /\ outcome' = Of("pending") /\ gaveUp' = {} /\ age' = 0 /\ total' = 0
  /\ IF way = "broadcast"
     THEN /\ request' = [n \in Nodes |-> "asked"] /\ current' = NoNode
     ELSE \E n \in Nodes : /\ current' = n
                           /\ request' = [Unasked EXCEPT ![n] = "asked"]
  /\ UNCHANGED <<way, signs, accepted>>

\* A mutant: the last node is never asked.
AskNextButOne(failed) ==
  IF InTurn /\ Cardinality({n \in Nodes : failed[n] = "unasked"}) > 1
  THEN \E n \in Nodes :
         /\ failed[n] = "unasked" /\ current' = n /\ age' = 0
         /\ request' = [failed EXCEPT ![n] = "asked"]
         /\ outcome' = outcome
  ELSE /\ current' = NoNode /\ age' = age /\ request' = failed
       /\ outcome' = IF outcome.is = "pending" THEN Of("rejected") ELSE outcome

\* The node that was waited for has failed: the next one, if there is one.
AskNext(failed) ==
  IF InTurn /\ \E n \in Nodes : failed[n] = "unasked"
  THEN \E n \in Nodes :
         /\ failed[n] = "unasked" /\ current' = n /\ age' = 0
         /\ request' = [failed EXCEPT ![n] = "asked"]
         /\ outcome' = outcome
  ELSE /\ current' = NoNode /\ age' = age /\ request' = failed
       /\ outcome' = IF outcome.is = "pending" THEN Of("rejected") ELSE outcome

\* A node takes the request, in time or not.
Take(n) ==
  /\ request[n] \in {"asked", "late"}
  /\ request' = [request EXCEPT ![n] = IF @ = "asked" THEN "taken" ELSE "takenLate"]
  /\ accepted' = accepted \union {SignedFor(n)}
  /\ UNCHANGED <<way, signs, gaveUp, current, age, total, outcome>>

\* Its answer is heard: the first one is the result of the call.
AnswerOf(n) ==
  /\ request[n] = "taken"
  /\ request' = [request EXCEPT ![n] = "answered"]
  /\ outcome' = IF outcome.is = "pending" THEN Resolved(n) ELSE outcome
  /\ current' = IF current = n THEN NoNode ELSE current
  /\ UNCHANGED <<way, signs, gaveUp, age, total, accepted>>

Waited(n) == current = n \/ (way = "broadcast" /\ request[n] \in {"asked", "taken"})

\* A mutant: a broadcast is rejected when the first node has failed.
FailingAtOnce(n, state) ==
  LET failed == [request EXCEPT ![n] = state]
  IN  IF way # "broadcast" THEN AskNext(failed)
      ELSE /\ request' = failed /\ UNCHANGED <<current, age>>
           /\ outcome' = IF outcome.is = "pending" THEN Of("rejected") ELSE outcome

\* A broadcast is rejected when the last node has failed.
Failing(n, state) ==
  LET failed == [request EXCEPT ![n] = state]
  IN  IF way # "broadcast" THEN AskNext(failed)
      ELSE /\ request' = failed /\ UNCHANGED <<current, age>>
           /\ outcome' = IF outcome.is = "pending"
                            /\ \A m \in Nodes : failed[m] \in {"refused", "late", "takenLate"}
                         THEN Of("rejected") ELSE outcome

\* The request gets an error; a request that was taken may get one, too, when
\* the connection breaks.
Refuse(n) ==
  /\ Waited(n) /\ request[n] \in {"asked", "taken"}
  /\ Failing(n, IF request[n] = "asked" THEN "refused" ELSE "takenLate")
  /\ gaveUp' = IF request[n] = "taken" THEN gaveUp \union {n} ELSE gaveUp
  /\ UNCHANGED <<way, signs, total, accepted>>

TimesOut(n) ==
  /\ way # "single" /\ Waited(n) /\ age = PerNode
  /\ Failing(n, IF request[n] = "asked" THEN "late" ELSE "takenLate")
  /\ gaveUp' = gaveUp \union {n}
  /\ UNCHANGED <<way, signs, total, accepted>>

\* The limit on the whole rejects the call; the loop goes on asking.
AllTimesOut ==
  /\ way = "send" /\ outcome.is = "pending" /\ total = Overall
  /\ outcome' = Of("rejected")
  /\ UNCHANGED <<way, signs, request, gaveUp, current, age, total, accepted>>

\* Timers fire in time.
Tick ==
  /\ outcome.is = "pending" \/ current # NoNode
  /\ \E n \in Nodes : Waited(n)
  /\ age < PerNode \/ way = "single"
  /\ way = "send" /\ outcome.is = "pending" => total < Overall
  /\ age' = IF age < PerNode THEN age + 1 ELSE age
  /\ total' = IF total < Overall THEN total + 1 ELSE total
  /\ UNCHANGED <<way, signs, request, gaveUp, current, outcome, accepted>>

CallNext ==
  \/ \E n \in Nodes : Take(n) \/ AnswerOf(n) \/ Refuse(n) \/ TimesOut(n)
  \/ AllTimesOut \/ Tick

\* Timers run, and fire.
CallFairness ==
  WF_callVars(Tick) /\ WF_callVars(AllTimesOut)
  /\ WF_callVars(\E n \in Nodes : TimesOut(n))

-----------------------------------------------------------------------------
\* Properties

\* A call that was rejected has asked every node, and given each the whole of
\* its time or got an error from it, unless the limit of send came first.
RejectedAskedAll ==
  outcome.is = "rejected" =>
    \/ way = "send" /\ total = Overall
    \/ way = "single"
    \/ \A n \in Nodes : request[n] = "refused" \/ n \in gaveUp

\* What has been paid apart from what is reported was sent to a node that did
\* not answer in time, or whose connection broke; and it is a second payment
\* only if every node was given a transaction of its own.  (No transaction goes
\* out by send, whose limit may pass while a node is about to answer.)
SurplusWasGivenUp ==
  \A n \in Nodes :
    SignedFor(n) \in accepted /\ outcome.is \in {"resolved", "rejected"}
    /\ current = NoNode /\ way # "send" =>
      \/ outcome.is = "resolved" /\ SignedFor(outcome.node) = SignedFor(n)
      \/ \E m \in gaveUp : SignedFor(m) = SignedFor(n)

\* A call ends, whatever the nodes do, unless it has no limit.
CallEnds ==
  (outcome.is = "pending" /\ way # "single") ~> (outcome.is # "pending")

=============================================================================
