---------------------------- MODULE NodeCallsProofs ----------------------------
(***************************************************************************)
(* What a call through the failover adaptor reports, for any number of     *)
(* nodes and any limits, in every kind of adaptor; that every block is     *)
(* fetched once, for ranges of any length and any two blocks; that a       *)
(* transaction is found when it has its confirmations, for any number of   *)
(* polls at the same time; and that what a page is told of a swap, of the  *)
(* owner of a pool and of its balance has been true of the chain, for any  *)
(* number of reads at the same time.                                       *)
(***************************************************************************)
EXTENDS NodeCalls, AdaptorReads, SequenceTheorems, TLAPS

Requests == {"unasked", "asked", "taken", "answered", "refused", "late", "takenLate"}
Failures == {"refused", "late", "takenLate"}

CallTypeOK ==
  /\ way \in Ways /\ signs \in {"once", "perNode"}
  /\ request \in [Nodes -> Requests]
  /\ gaveUp \subseteq Nodes
  /\ current \in Nodes \union {NoNode}
  /\ outcome.is \in {"none", "pending", "resolved", "rejected"}

\* A node was given up just when it is still to take the request, or has taken
\* it without an answer that is heard.
LateWereGivenUp == \A n \in Nodes : n \in gaveUp <=> request[n] \in {"late", "takenLate"}

\* Without a broadcast, one node at a time is waited for.
OneIsWaitedFor ==
  /\ way = "broadcast" => current = NoNode
  /\ way # "broadcast" =>
       \A n \in Nodes : request[n] \in {"asked", "taken"} <=> current = n

\* In turn, the nodes before the current one have failed.
EarlierHaveFailed ==
  InTurn /\ current # NoNode =>
    \A n \in Nodes : n # current => request[n] \in Failures \union {"unasked"}

AskedInv ==
  /\ CallTypeOK /\ LateWereGivenUp /\ OneIsWaitedFor /\ EarlierHaveFailed
  /\ RejectedAskedAll

\* A transaction that nodes have taken was sent to one of them.
AcceptedWasTaken ==
  way # "send" =>
    \A n \in Nodes : SignedFor(n) \in accepted =>
      \E m \in Nodes : /\ SignedFor(m) = SignedFor(n)
                       /\ request[m] \in {"taken", "takenLate", "answered"}

\* An answer that was heard is the result, or is as good as the result.
AnsweredIsReported ==
  way # "send" =>
    \A n \in Nodes : request[n] = "answered" =>
      outcome.is = "resolved" /\ SignedFor(outcome.node) = SignedFor(n)

\* A transaction is sent by one call, which goes on while a node is waited for.
SentOnce ==
  /\ kind = "events" => way = "send"
  /\ way = "broadcast" => signs = "once"
  /\ way # "send" /\ outcome.is = "none" =>
       accepted = {} /\ \A n \in Nodes : request[n] = "unasked"
  /\ way # "send" /\ current # NoNode => outcome.is = "pending"

CallInv == AskedInv /\ AcceptedWasTaken /\ AnsweredIsReported /\ SentOnce

-----------------------------------------------------------------------------
\* A node fails: an error comes, or its time is over.
Fails(n, state) ==
  /\ Waited(n) /\ Failing(n, state) /\ request[n] \in {"asked", "taken"}
  /\ state = "takenLate" \/ (request[n] = "asked" /\ state \in {"refused", "late"})
  /\ gaveUp' = IF state = "refused" THEN gaveUp ELSE gaveUp \union {n}
  /\ UNCHANGED <<way, signs, total, accepted>>

LEMMA FailuresAre ==
  ASSUME CallInv, NEW n \in Nodes, Refuse(n) \/ TimesOut(n)
  PROVE  \E state \in Failures : Fails(n, state)
<1>1. request[n] \in {"asked", "taken"}
  BY NodesAssumption DEF CallInv, AskedInv, OneIsWaitedFor, Refuse, TimesOut, Waited
<1>2. CASE Refuse(n)
  BY <1>1, <1>2 DEF Refuse, Fails, Failures
<1>3. CASE TimesOut(n)
  BY <1>1, <1>3 DEF TimesOut, Fails, Failures
<1>4. QED
  BY <1>2, <1>3

\* What a failure comes to: the next node is asked, or the call is rejected if
\* it was pending, or other nodes are waited for.
LEMMA FailureIs ==
  ASSUME CallInv, NEW n \in Nodes, NEW state \in Failures, Fails(n, state)
  PROVE  /\ request' \in [Nodes -> Requests]
         /\ \A m \in Nodes : m # n /\ m # current' => request'[m] = request[m]
         /\ request'[n] = state
         /\ \/ /\ current' \in Nodes /\ current' # n /\ InTurn
               /\ request[current'] = "unasked" /\ request'[current'] = "asked"
               /\ outcome' = outcome
            \/ /\ current' = NoNode
               /\ InTurn => \A m \in Nodes : request'[m] # "unasked"
               /\ \/ outcome' = outcome
                  \/ /\ outcome.is = "pending" /\ outcome' = Of("rejected")
                     /\ way = "broadcast" => \A m \in Nodes : request'[m] \in Failures
<1> DEFINE failed == [request EXCEPT ![n] = state]
<1>1. /\ request \in [Nodes -> Requests] /\ failed \in [Nodes -> Requests]
      /\ failed[n] = state /\ state # "unasked"
      /\ \A m \in Nodes : m # n => failed[m] = request[m]
  BY DEF CallInv, AskedInv, CallTypeOK, Requests, Failures
<1>2. CASE way = "broadcast"
  <2>1. current' = NoNode
    BY <1>2 DEF Fails, Failing, CallInv, AskedInv, OneIsWaitedFor
  <2>2. request' = failed
    BY <1>2 DEF Fails, Failing
  <2>3. \/ outcome' = outcome
        \/ /\ outcome.is = "pending" /\ outcome' = Of("rejected")
           /\ \A m \in Nodes : failed[m] \in Failures
    BY <1>2 DEF Fails, Failing, Failures
  <2>4. ~InTurn
    BY <1>2 DEF InTurn
  <2> HIDE DEF failed
  <2>5. QED
    BY <1>1, <2>1, <2>2, <2>3, <2>4
<1>3. CASE way # "broadcast"
  <2>1. AskNext(failed)
    BY <1>3 DEF Fails, Failing
  <2> HIDE DEF failed
  <2>2. CASE InTurn /\ \E m \in Nodes : failed[m] = "unasked"
    <3>1. PICK m \in Nodes :
            /\ failed[m] = "unasked" /\ current' = m /\ outcome' = outcome
            /\ request' = [failed EXCEPT ![m] = "asked"]
      BY <2>1, <2>2 DEF AskNext
    <3>2. /\ request' \in [Nodes -> Requests] /\ request'[m] = "asked"
          /\ \A x \in Nodes : x # m => request'[x] = failed[x]
      BY <1>1, <3>1 DEF Requests
    <3>3. QED
      BY <1>1, <2>2, <3>1, <3>2
  <2>3. CASE ~(InTurn /\ \E m \in Nodes : failed[m] = "unasked")
    <3>1. /\ current' = NoNode /\ request' = failed
          /\ outcome' = IF outcome.is = "pending" THEN Of("rejected") ELSE outcome
      BY <2>1, <2>3 DEF AskNext
    <3>2. QED
      BY <1>1, <1>3, <2>3, <3>1
  <2>4. QED
    BY <2>2, <2>3
<1>4. QED
  BY <1>2, <1>3

LEMMA FailureKeeps ==
  ASSUME CallInv, UNCHANGED kind, NEW n \in Nodes, NEW state \in Failures, Fails(n, state)
  PROVE  CallInv'
<1>1. /\ request' \in [Nodes -> Requests]
      /\ \A m \in Nodes : m # n /\ m # current' => request'[m] = request[m]
      /\ request'[n] = state
      /\ \/ /\ current' \in Nodes /\ current' # n /\ InTurn
            /\ request[current'] = "unasked" /\ request'[current'] = "asked"
            /\ outcome' = outcome
         \/ /\ current' = NoNode
            /\ InTurn => \A m \in Nodes : request'[m] # "unasked"
            /\ \/ outcome' = outcome
               \/ /\ outcome.is = "pending" /\ outcome' = Of("rejected")
                  /\ way = "broadcast" => \A m \in Nodes : request'[m] \in Failures
  BY FailureIs
<1>2. /\ gaveUp' = IF state = "refused" THEN gaveUp ELSE gaveUp \union {n}
      /\ UNCHANGED <<way, signs, total, accepted>>
      /\ request[n] \in {"asked", "taken"} /\ Waited(n)
      /\ state = "takenLate" \/ (request[n] = "asked" /\ state \in {"refused", "late"})
      /\ state \in {"refused", "late", "takenLate"}
  BY DEF Fails, Failures
<1>3. /\ request \in [Nodes -> Requests] /\ gaveUp \subseteq Nodes
      /\ current \in Nodes \union {NoNode} /\ NoNode \notin Nodes
  BY NodesAssumption DEF CallInv, AskedInv, CallTypeOK
<1>4. CallTypeOK'
  BY <1>1, <1>2 DEF CallInv, AskedInv, CallTypeOK, Of
<1>5. LateWereGivenUp'
  BY <1>1, <1>2, <1>3 DEF CallInv, AskedInv, LateWereGivenUp
<1>6. OneIsWaitedFor'
  BY <1>1, <1>2, <1>3 DEF CallInv, AskedInv, OneIsWaitedFor, InTurn
<1>7. InTurn => current = n /\ \A m \in Nodes : m # n => request[m] \in Failures \union {"unasked"}
  BY <1>2, <1>3 DEF CallInv, AskedInv, OneIsWaitedFor, EarlierHaveFailed, InTurn
<1>8. EarlierHaveFailed'
  BY <1>1, <1>2, <1>3, <1>7 DEF EarlierHaveFailed, InTurn, Failures
<1>9. RejectedAskedAll'
  <2>1. CASE outcome' = outcome
    BY <1>2, <2>1 DEF CallInv, AskedInv, RejectedAskedAll, LateWereGivenUp
  <2>2. CASE /\ current' = NoNode
             /\ InTurn => \A m \in Nodes : request'[m] # "unasked"
             /\ way = "broadcast" => \A m \in Nodes : request'[m] \in Failures
    <3>1. CASE way = "single"
      BY <1>2, <3>1 DEF RejectedAskedAll
    <3>2. CASE way # "single"
      <4>1. \A m \in Nodes : request'[m] \in Failures
        BY <1>1, <1>2, <1>3, <1>7, <2>2, <3>2
        DEF CallInv, AskedInv, CallTypeOK, Ways, InTurn, Failures
      <4>2. QED
        BY <1>5, <4>1 DEF RejectedAskedAll, LateWereGivenUp, Failures
    <3>3. QED
      BY <3>1, <3>2
  <2>3. QED
    BY <1>1, <2>1, <2>2
<1>10. \A m \in Nodes : SignedFor(m)' = SignedFor(m)
  BY <1>2 DEF SignedFor
<1>11. AcceptedWasTaken'
  <2> SUFFICES ASSUME way # "send", NEW m \in Nodes, SignedFor(m) \in accepted
               PROVE  \E x \in Nodes : /\ SignedFor(x) = SignedFor(m)
                                       /\ request'[x] \in {"taken", "takenLate", "answered"}
    BY <1>2, <1>10 DEF AcceptedWasTaken
  <2>1. PICK x \in Nodes : /\ SignedFor(x) = SignedFor(m)
                           /\ request[x] \in {"taken", "takenLate", "answered"}
    BY DEF CallInv, AcceptedWasTaken
  <2>2. request'[x] \in {"taken", "takenLate", "answered"}
    BY <1>1, <1>2, <1>3, <2>1
  <2>3. QED
    BY <2>1, <2>2
<1>12. way # "send" /\ way # "broadcast" => outcome.is = "pending"
  BY <1>2, <1>3 DEF CallInv, SentOnce, Waited
<1>13. AnsweredIsReported'
  <2> SUFFICES ASSUME way # "send", NEW m \in Nodes, request'[m] = "answered"
               PROVE  /\ outcome' = outcome /\ outcome.is = "resolved"
                      /\ SignedFor(outcome.node) = SignedFor(m)
    BY <1>2, <1>10 DEF AnsweredIsReported, SignedFor
  <2>1. request[m] = "answered"
    BY <1>1, <1>2, <1>3
  <2>2. outcome.is = "resolved" /\ SignedFor(outcome.node) = SignedFor(m)
    BY <2>1 DEF CallInv, AnsweredIsReported
  <2>3. QED
    BY <1>1, <2>2
<1>14. SentOnce'
  <2>1. way # "send" /\ current' # NoNode => outcome'.is = "pending"
    BY <1>1, <1>12 DEF InTurn
  <2>2. way # "send" => outcome'.is # "none"
    BY <1>1, <1>2 DEF Of, CallInv, SentOnce
  <2>3. QED
    BY <1>2, <2>1, <2>2 DEF CallInv, SentOnce
<1>15. QED
  BY <1>4, <1>5, <1>6, <1>8, <1>9, <1>11, <1>13, <1>14 DEF CallInv, AskedInv

LEMMA TakeKeeps ==
  ASSUME CallInv, UNCHANGED kind, NEW n \in Nodes, Take(n)
  PROVE  CallInv'
<1>1. /\ request[n] \in {"asked", "late"}
      /\ request' = [request EXCEPT ![n] = IF @ = "asked" THEN "taken" ELSE "takenLate"]
      /\ accepted' = accepted \union {SignedFor(n)}
      /\ UNCHANGED <<way, signs, gaveUp, current, age, total, outcome>>
      /\ request \in [Nodes -> Requests]
  BY DEF Take, CallInv, AskedInv, CallTypeOK
<1>2. /\ request'[n] = IF request[n] = "asked" THEN "taken" ELSE "takenLate"
      /\ \A m \in Nodes : m # n => request'[m] = request[m]
      /\ request' \in [Nodes -> Requests]
  BY <1>1 DEF Requests
<1>3. CallTypeOK'
  BY <1>1, <1>2 DEF CallInv, AskedInv, CallTypeOK
<1>4. LateWereGivenUp'
  BY <1>1, <1>2 DEF CallInv, AskedInv, LateWereGivenUp
<1>5. OneIsWaitedFor'
  BY <1>1, <1>2 DEF CallInv, AskedInv, OneIsWaitedFor
<1>6. EarlierHaveFailed'
  BY <1>1, <1>2 DEF CallInv, AskedInv, EarlierHaveFailed, InTurn, Failures
<1>7. RejectedAskedAll'
  BY <1>1, <1>2 DEF CallInv, AskedInv, RejectedAskedAll
<1>8. \A m \in Nodes : SignedFor(m)' = SignedFor(m)
  BY <1>1 DEF SignedFor
<1>9. AcceptedWasTaken'
  <2> SUFFICES ASSUME way # "send", NEW m \in Nodes, SignedFor(m) \in accepted'
               PROVE  \E x \in Nodes : /\ SignedFor(x) = SignedFor(m)
                                       /\ request'[x] \in {"taken", "takenLate", "answered"}
    BY <1>1, <1>8 DEF AcceptedWasTaken
  <2>1. CASE SignedFor(m) = SignedFor(n)
    BY <1>2, <2>1
  <2>2. CASE SignedFor(m) # SignedFor(n)
    <3>1. PICK x \in Nodes : /\ SignedFor(x) = SignedFor(m)
                             /\ request[x] \in {"taken", "takenLate", "answered"}
      BY <1>1, <2>2 DEF CallInv, AcceptedWasTaken
    <3>2. QED
      BY <1>2, <2>2, <3>1
  <2>3. QED
    BY <2>1, <2>2
<1>10. AnsweredIsReported'
  BY <1>1, <1>2 DEF CallInv, AnsweredIsReported, SignedFor
<1>11. SentOnce'
  <2>1. way # "send" => outcome.is # "none"
    BY <1>1 DEF CallInv, SentOnce
  <2>2. QED
    BY <1>1, <2>1 DEF CallInv, SentOnce
<1>12. QED
  BY <1>3, <1>4, <1>5, <1>6, <1>7, <1>9, <1>10, <1>11 DEF CallInv, AskedInv

LEMMA AnswerKeeps ==
  ASSUME CallInv, UNCHANGED kind, NEW n \in Nodes, AnswerOf(n)
  PROVE  CallInv'
<1>1. /\ request[n] = "taken"
      /\ request' = [request EXCEPT ![n] = "answered"]
      /\ outcome' = IF outcome.is = "pending" THEN Resolved(n) ELSE outcome
      /\ current' = IF current = n THEN NoNode ELSE current
      /\ UNCHANGED <<way, signs, gaveUp, age, total, accepted>>
      /\ request \in [Nodes -> Requests] /\ NoNode \notin Nodes
  BY NodesAssumption DEF AnswerOf, CallInv, AskedInv, CallTypeOK
<1>2. /\ request'[n] = "answered"
      /\ \A m \in Nodes : m # n => request'[m] = request[m]
      /\ request' \in [Nodes -> Requests]
  BY <1>1 DEF Requests
<1>3. /\ way # "broadcast" => current = n
      /\ way = "broadcast" => current = NoNode
  BY <1>1 DEF CallInv, AskedInv, OneIsWaitedFor
<1>4. CallTypeOK'
  BY <1>1, <1>2 DEF CallInv, AskedInv, CallTypeOK, Resolved
<1>5. LateWereGivenUp'
  BY <1>1, <1>2 DEF CallInv, AskedInv, LateWereGivenUp
<1>6. OneIsWaitedFor'
  BY <1>1, <1>2, <1>3 DEF CallInv, AskedInv, OneIsWaitedFor
<1>7. EarlierHaveFailed'
  BY <1>1, <1>3 DEF EarlierHaveFailed, InTurn
<1>8. RejectedAskedAll'
  BY <1>1, <1>2 DEF CallInv, AskedInv, RejectedAskedAll, LateWereGivenUp, Resolved
<1>9. \A m \in Nodes : SignedFor(m)' = SignedFor(m)
  BY <1>1 DEF SignedFor
<1>10. AcceptedWasTaken'
  BY <1>1, <1>2, <1>9 DEF CallInv, AcceptedWasTaken
<1>11. way # "send" =>
         outcome'.is = "resolved" /\ SignedFor(outcome'.node) = SignedFor(n)
  <2>1. CASE outcome.is = "pending"
    BY <1>1, <2>1 DEF Resolved
  <2>2. CASE way = "broadcast" /\ outcome.is # "pending"
    <3>1. outcome.is # "rejected"
      BY <1>1, <2>2 DEF CallInv, AskedInv, RejectedAskedAll, LateWereGivenUp
    <3>2. outcome.is # "none"
      BY <1>1, <2>2 DEF CallInv, SentOnce
    <3>3. outcome.is = "resolved"
      BY <2>2, <3>1, <3>2 DEF CallInv, AskedInv, CallTypeOK
    <3>4. QED
      BY <1>1, <2>2, <3>3 DEF CallInv, SentOnce, SignedFor
  <2>3. CASE way # "broadcast" /\ outcome.is # "pending"
    BY <1>1, <1>3, <2>3 DEF CallInv, SentOnce
  <2>4. QED
    BY <2>1, <2>2, <2>3
<1>12. AnsweredIsReported'
  <2> SUFFICES ASSUME way # "send", NEW m \in Nodes, m # n, request[m] = "answered"
               PROVE  /\ outcome'.is = "resolved"
                      /\ SignedFor(outcome'.node) = SignedFor(m)
    BY <1>1, <1>2, <1>11 DEF AnsweredIsReported, SignedFor
  <2>1. outcome.is = "resolved" /\ SignedFor(outcome.node) = SignedFor(m)
    BY DEF CallInv, AnsweredIsReported
  <2>2. QED
    BY <1>1, <2>1
<1>13. SentOnce'
  BY <1>1, <1>3, <1>11 DEF CallInv, SentOnce
<1>14. QED
  BY <1>4, <1>5, <1>6, <1>7, <1>8, <1>10, <1>12, <1>13 DEF CallInv, AskedInv

\* The limit on the whole, and the clock.
LEMMA TimeKeeps ==
  ASSUME CallInv, UNCHANGED kind, AllTimesOut \/ Tick
  PROVE  CallInv'
<1>1. /\ UNCHANGED <<way, signs, request, gaveUp, current, accepted>>
      /\ \/ outcome' = outcome /\ (total = Overall => total' = Overall)
         \/ /\ way = "send" /\ outcome.is = "pending" /\ outcome' = Of("rejected")
            /\ total = Overall /\ total' = total
  BY LimitsAssumption DEF AllTimesOut, Tick
<1>2. \A m \in Nodes : SignedFor(m)' = SignedFor(m)
  BY <1>1 DEF SignedFor
<1>3. AskedInv'
  BY <1>1
  DEF CallInv, AskedInv, CallTypeOK, LateWereGivenUp, OneIsWaitedFor, EarlierHaveFailed,
      RejectedAskedAll, InTurn, Of
<1>4. AcceptedWasTaken'
  BY <1>1, <1>2 DEF CallInv, AcceptedWasTaken
<1>5. AnsweredIsReported'
  BY <1>1 DEF CallInv, AnsweredIsReported, SignedFor
<1>6. SentOnce'
  BY <1>1 DEF CallInv, SentOnce
<1>7. QED
  BY <1>3, <1>4, <1>5, <1>6 DEF CallInv

LEMMA CallKeeps ==
  ASSUME CallInv, UNCHANGED kind, CallNext
  PROVE  CallInv'
<1>1. ASSUME NEW n \in Nodes, Refuse(n) \/ TimesOut(n)
      PROVE  CallInv'
  BY <1>1, FailuresAre, FailureKeeps
<1>2. QED
  BY <1>1, TakeKeeps, AnswerKeeps, TimeKeeps DEF CallNext

LEMMA StartKeeps ==
  ASSUME CallInv, UNCHANGED kind, StartCall, outcome.is = "none"
  PROVE  CallInv'
<1>1. /\ UNCHANGED <<way, signs, accepted>>
      /\ outcome' = Of("pending") /\ gaveUp' = {}
      /\ \/ /\ way = "broadcast" /\ current' = NoNode
            /\ request' = [n \in Nodes |-> "asked"]
         \/ /\ way # "broadcast" /\ current' \in Nodes
            /\ request' = [Unasked EXCEPT ![current'] = "asked"]
  BY DEF StartCall
<1>2. /\ request' \in [Nodes -> Requests]
      /\ \A n \in Nodes : request'[n] = IF way = "broadcast" \/ n = current'
                                         THEN "asked" ELSE "unasked"
  BY <1>1 DEF Unasked, Requests
<1>3. CallTypeOK'
  BY <1>1, <1>2 DEF CallInv, AskedInv, CallTypeOK, Of
<1>4. LateWereGivenUp' /\ OneIsWaitedFor' /\ EarlierHaveFailed' /\ RejectedAskedAll'
  BY <1>1, <1>2
  DEF LateWereGivenUp, OneIsWaitedFor, EarlierHaveFailed, RejectedAskedAll, Of, InTurn
<1>5. way # "send" => accepted' = {}
  BY <1>1 DEF CallInv, SentOnce
<1>6. AcceptedWasTaken'
  BY <1>1, <1>5 DEF AcceptedWasTaken
<1>7. AnsweredIsReported'
  BY <1>2 DEF AnsweredIsReported
<1>8. SentOnce'
  BY <1>1 DEF CallInv, SentOnce, Of
<1>9. QED
  BY <1>3, <1>4, <1>6, <1>7, <1>8 DEF CallInv, AskedInv

LEMMA CallInvInit == Init => CallInv
<1> SUFFICES ASSUME Init PROVE CallInv
  OBVIOUS
<1>1. /\ way = WayOf(kind) /\ signs \in {"once", "perNode"}
      /\ way = "broadcast" => signs = "once"
      /\ request = Unasked /\ gaveUp = {} /\ current = NoNode
      /\ outcome = Of("none") /\ accepted = {}
  BY DEF Init, CallInit
<1>2. way \in Ways /\ (kind = "events" => way = "send")
  BY <1>1 DEF WayOf, Ways
<1>3. request \in [Nodes -> Requests] /\ \A n \in Nodes : request[n] = "unasked"
  BY <1>1 DEF Unasked, Requests
<1>4. AskedInv
  BY <1>1, <1>2, <1>3, NodesAssumption
  DEF AskedInv, CallTypeOK, LateWereGivenUp, OneIsWaitedFor, EarlierHaveFailed,
      RejectedAskedAll, Of
<1>5. AcceptedWasTaken /\ AnsweredIsReported /\ SentOnce
  BY <1>1, <1>2, <1>3 DEF AcceptedWasTaken, AnsweredIsReported, SentOnce
<1>6. QED
  BY <1>4, <1>5 DEF CallInv

LEMMA CallInvNext == CallInv /\ [Next]_vars => CallInv'
<1> SUFFICES ASSUME CallInv, [Next]_vars PROVE CallInv'
  OBVIOUS
<1>1. UNCHANGED kind
  <2>1. WaitNext => UNCHANGED kind
    BY DEF WaitNext, PollAgain, WaitTimesOut, NodeSays, NodeLapses, HeightSays, HeightLapses, Hear,
       Mine, Drop, Reorganise, ChainStep
  <2>2. Wait => UNCHANGED kind
    BY DEF Wait, StartWait
  <2>3. QED
    BY <2>1, <2>2 DEF Next, Send, AskForLogs, LogsCome, vars, waitVars
<1>2. CASE Send \/ AskForLogs
  BY <1>1, <1>2, StartKeeps DEF Send, AskForLogs
<1>3. CASE LogsCome
  <2>1. /\ kind = "events" /\ outcome' = Of("none") /\ way = "send"
        /\ UNCHANGED <<way, signs, request, gaveUp, current, total, accepted>>
    BY <1>3 DEF LogsCome, CallInv, SentOnce
  <2>2. AskedInv'
    BY <2>1
    DEF CallInv, AskedInv, CallTypeOK, LateWereGivenUp, OneIsWaitedFor, EarlierHaveFailed,
        RejectedAskedAll, InTurn, Of
  <2>3. QED
    BY <2>1, <2>2 DEF CallInv, AcceptedWasTaken, AnsweredIsReported, SentOnce
<1>4. CASE CallNext
  BY <1>1, <1>4, CallKeeps
<1>5. CASE UNCHANGED callVars
  <2>1. UNCHANGED <<way, signs, request, gaveUp, current, total, outcome, accepted>>
    BY <1>5 DEF callVars
  <2>2. AskedInv'
    BY <2>1
    DEF CallInv, AskedInv, CallTypeOK, LateWereGivenUp, OneIsWaitedFor, EarlierHaveFailed,
        RejectedAskedAll, InTurn
  <2>3. AcceptedWasTaken' /\ AnsweredIsReported' /\ SentOnce'
    BY <1>1, <2>1 DEF CallInv, AcceptedWasTaken, AnsweredIsReported, SentOnce, SignedFor
  <2>4. QED
    BY <2>2, <2>3 DEF CallInv
<1>6. QED
  BY <1>2, <1>3, <1>4, <1>5 DEF Next, Wait, vars

LEMMA CallInvAlways == Spec => []CallInv
BY CallInvInit, CallInvNext, PTL DEF Spec

-----------------------------------------------------------------------------
\* A call is only rejected after every node was asked and has failed, or after
\* the limit of send (FailoverAdaptors, _makeProxy and #wrapCall).
THEOREM RejectedAlwaysAskedAll == Spec => []RejectedAskedAll
<1>1. CallInv => RejectedAskedAll
  BY DEF CallInv, AskedInv
<1>2. QED
  BY <1>1, CallInvAlways, PTL

\* A transaction that is paid besides the reported one was sent to a node that
\* had been given up (sendTransaction, and the wallets that go node by node).
THEOREM SurplusWasAlwaysGivenUp == Spec => []SurplusWasGivenUp
<1>1. CallInv => SurplusWasGivenUp
  <2> SUFFICES ASSUME CallInv, NEW n \in Nodes, SignedFor(n) \in accepted,
                      outcome.is \in {"resolved", "rejected"},
                      current = NoNode, way # "send"
               PROVE  \/ outcome.is = "resolved" /\ SignedFor(outcome.node) = SignedFor(n)
                      \/ \E m \in gaveUp : SignedFor(m) = SignedFor(n)
    BY DEF SurplusWasGivenUp
  <2>1. PICK m \in Nodes : /\ SignedFor(m) = SignedFor(n)
                           /\ request[m] \in {"taken", "takenLate", "answered"}
    BY DEF CallInv, AcceptedWasTaken
  <2>2. CASE request[m] = "answered"
    BY <2>1, <2>2 DEF CallInv, AnsweredIsReported
  <2>3. CASE request[m] = "takenLate"
    BY <2>1, <2>3 DEF CallInv, AskedInv, LateWereGivenUp
  <2>4. CASE request[m] = "taken"
    <3>1. way = "broadcast"
      BY <2>4, NodesAssumption DEF CallInv, AskedInv, OneIsWaitedFor
    <3>2. outcome.is = "resolved"
      BY <2>4, <3>1 DEF CallInv, AskedInv, RejectedAskedAll, LateWereGivenUp
    <3>3. QED
      BY <3>1, <3>2 DEF CallInv, SentOnce, SignedFor
  <2>5. QED
    BY <2>1, <2>2, <2>3, <2>4
<1>2. QED
  BY <1>1, CallInvAlways, PTL

-----------------------------------------------------------------------------
\* The ranges of fetchEventsBetween

RangesTypeOK ==
  /\ fromBlock \in Int /\ toBlock \in Int /\ nextBlock \in Int
  /\ fetching \in {"open", "complete", "failed"}
  /\ \A r \in ranges : r \in Int \X Int

\* The loop stays before the last block, so that the rest is not empty.
RestIsThere == fromBlock <= nextBlock /\ nextBlock <= toBlock

RangesInv == RangesTypeOK /\ RestIsThere /\ BlocksAreFetchedOnce

LEMMA RangesStart == RangesInit => RangesInv
<1> SUFFICES ASSUME RangesInit PROVE RangesInv
  OBVIOUS
<1>1. /\ ranges = {} /\ fetching = "open" /\ nextBlock = fromBlock
      /\ fromBlock \in Int /\ toBlock \in Int /\ fromBlock <= toBlock
  BY Zenon DEF RangesInit
<1>2. RangesTypeOK
  BY <1>1 DEF RangesTypeOK
<1>3. RestIsThere
  BY <1>1 DEF RestIsThere
<1>4. Reached = fromBlock
  BY <1>1 DEF Reached
<1>5. fromBlock .. (Reached - 1) = {}
  BY <1>1, <1>4
<1>6. BlocksAreFetchedOnce
  BY <1>1, <1>5 DEF BlocksAreFetchedOnce
<1> QED BY <1>2, <1>3, <1>6 DEF RangesInv

\* A range that is added begins where the ones before it end.
LEMMA RangeIsAdded == RangesInv /\ FetchRange => RangesInv'
<1> SUFFICES ASSUME RangesInv, FetchRange PROVE RangesInv'
  OBVIOUS
<1> USE ChunkAssumption
<1>1. Reached = nextBlock
  BY DEF FetchRange, Reached
<1>2. NextRange \in Int \X Int /\ NextRange[1] = nextBlock /\ NextRange[2] = Reached' - 1
      /\ nextBlock <= NextRange[2]
  <2>1. CASE HasMore
    BY <2>1 DEF RangesInv, RangesTypeOK, FetchRange, NextRange, HasMore, Reached
  <2>2. CASE ~HasMore
    BY <2>2 DEF RangesInv, RangesTypeOK, RestIsThere, FetchRange, NextRange, HasMore, Reached
  <2> QED BY <2>1, <2>2
<1>3. RangesTypeOK'
  BY <1>2 DEF RangesInv, RangesTypeOK, FetchRange
<1>4. RestIsThere'
  BY DEF RangesInv, RangesTypeOK, RestIsThere, FetchRange, HasMore
<1>5. BlocksAreFetchedOnce'
  <2>1. ASSUME NEW b \in (fromBlock .. (Reached - 1))'
        PROVE  \E r \in ranges' : Holds(r, b)
    <3>1. CASE b < nextBlock
      BY <1>1, <3>1 DEF RangesInv, RangesTypeOK, BlocksAreFetchedOnce, FetchRange
    <3>2. CASE nextBlock <= b
      BY <1>2, <3>2 DEF RangesInv, RangesTypeOK, FetchRange, Holds, Reached
    <3> QED BY <3>1, <3>2 DEF RangesInv, RangesTypeOK
  <2>2. \A r \in ranges' : fromBlock' <= r[1] /\ r[2] < Reached'
    BY <1>1, <1>2 DEF RangesInv, RangesTypeOK, RestIsThere, BlocksAreFetchedOnce, FetchRange,
       Reached
  <2>3. \A r \in ranges', s \in ranges' : r # s => r[2] < s[1] \/ s[2] < r[1]
    BY <1>1, <1>2 DEF RangesInv, RangesTypeOK, BlocksAreFetchedOnce, FetchRange
  <2> QED BY <2>1, <2>2, <2>3 DEF BlocksAreFetchedOnce, Holds
<1> QED BY <1>3, <1>4, <1>5 DEF RangesInv

LEMMA FetchFailureKeeps == RangesInv /\ FetchFails => RangesInv'
BY DEF RangesInv, RangesTypeOK, RestIsThere, BlocksAreFetchedOnce, FetchFails, Reached, Holds

LEMMA RangesFetchOnce == RangesSpec => []BlocksAreFetchedOnce
<1>1. RangesInv /\ [RangesNext]_rangeVars => RangesInv'
  <2> SUFFICES ASSUME RangesInv, [RangesNext]_rangeVars PROVE RangesInv'
    OBVIOUS
  <2>1. CASE FetchRange
    BY <2>1, RangeIsAdded
  <2>2. CASE FetchFails
    BY <2>2, FetchFailureKeeps
  <2>3. CASE UNCHANGED rangeVars
    BY <2>3 DEF RangesInv, RangesTypeOK, RestIsThere, BlocksAreFetchedOnce, rangeVars,
       Reached, Holds
  <2> QED BY <2>1, <2>2, <2>3 DEF RangesNext
<1>2. RangesInv => BlocksAreFetchedOnce
  BY DEF RangesInv
<1> QED BY <1>1, <1>2, RangesStart, PTL DEF RangesSpec

\* The program around the loop does nothing to its ranges: a range is added
\* when the call for its logs is resolved, and at no other time.
LEMMA FetchingIsRanges == Spec => RangesSpec
<1>1. Init => RangesInit
  BY DEF Init
<1>2. [Next]_vars => [RangesNext]_rangeVars
  BY DEF Next, Send, AskForLogs, LogsCome, Wait, RangesNext, vars
<1>3. QED
  BY <1>1, <1>2, PTL DEF Spec, RangesSpec

\* In every state of a fetch, the blocks before the loop are in exactly one of
\* the ranges whose logs have come (fetchEventsBetween).
THEOREM EveryBlockIsFetchedOnce == Spec => []BlocksAreFetchedOnce
BY FetchingIsRanges, RangesFetchOnce

-----------------------------------------------------------------------------
\* The wait for a transaction

Views == [status : {"nowhere", "pending", "included", "error"}, block : Nat, depth : Nat]
Polls == [at : {"asked", "height", "answered"}, view : Views, tip : Nat, reorged : BOOLEAN,
          n : 1 .. MaxPolls]

WaitTypeOK ==
  /\ wanted \in Nat /\ block \in Nat /\ height \in Nat /\ deepest \in Nat
  /\ status \in {"nowhere", "pending", "included"}
  /\ polls \subseteq Polls
  /\ polls # {} \/ interval => kind \in Polled \union {"sui"}

\* The history variable has seen the block where the transaction is.
DeepestIsKept == status = "included" => block <= height /\ Depth <= deepest

\* What a node has answered was so at the time, and has been seen.
ViewWasSeen(view) == Found(view) => 1 <= view.depth /\ view.depth <= deepest

\* A transaction that was found on Bitcoin, and no reorganisation since then:
\* it still is in the block of the answer.
StillInBlock(poll) ==
  kind = "bitcoin" /\ poll.at # "asked" /\ ~poll.reorged /\ Found(poll.view) =>
    /\ status = "included" /\ block = poll.view.block
    /\ poll.at = "answered" => poll.tip <= height

PollOK(poll) == ViewWasSeen(poll.view) /\ StillInBlock(poll)

WaitInv ==
  /\ WaitTypeOK /\ DeepestIsKept /\ FoundWasConfirmed
  /\ \A p \in polls : PollOK(p)

LEMMA WaitInvInit == Init => WaitInv
BY DEF Init, WaitInit, NoBlock, WaitInv, WaitTypeOK, DeepestIsKept, FoundWasConfirmed

LEMMA NewPollIsOK ==
  ASSUME NEW n \in 1 .. MaxPolls
  PROVE  NewPoll(n) \in Polls /\ PollOK(NewPoll(n)) /\ PollOK(NewPoll(n))'
BY DEF NewPoll, Unseen, NoBlock, Polls, Views, PollOK, ViewWasSeen, StillInBlock, Found

LEMMA StartKeepsWait ==
  ASSUME WaitInv, NEW c \in Nat, NEW t, StartWait(c, t), kind \in Polled \union {"sui"}
  PROVE  WaitInv'
<1>1. /\ result' = "waiting" /\ wanted' = c /\ status' = "pending" /\ polls' = {NewPoll(1)}
      /\ UNCHANGED <<kind, block, height, deepest>>
  BY DEF StartWait
<1>2. 1 \in 1 .. MaxPolls
  BY PollsAssumption
<1>3. NewPoll(1) \in Polls /\ PollOK(NewPoll(1))'
  BY <1>2, NewPollIsOK
<1>4. WaitTypeOK'
  BY <1>1, <1>3 DEF WaitInv, WaitTypeOK
<1>5. DeepestIsKept' /\ FoundWasConfirmed'
  BY <1>1 DEF DeepestIsKept, FoundWasConfirmed
<1>6. (\A p \in polls : PollOK(p))'
  BY <1>1, <1>3
<1>7. QED
  BY <1>4, <1>5, <1>6 DEF WaitInv

\* The chain and the promise are left alone: the polls that remain and one that
\* has changed are looked at.
LEMMA PollsChange ==
  ASSUME WaitInv,
         UNCHANGED <<kind, wanted, status, block, height, deepest, result, raced>>,
         interval' => interval \/ kind \in Polled \union {"sui"},
         polls' \subseteq Polls,
         polls' # {} => polls # {} \/ kind \in Polled \union {"sui"},
         \A p \in polls' \ polls : PollOK(p)
  PROVE  WaitInv'
<1>1. WaitTypeOK'
  BY DEF WaitInv, WaitTypeOK
<1>2. DeepestIsKept'
  BY DEF WaitInv, DeepestIsKept, Depth
<1>3. FoundWasConfirmed'
  BY DEF WaitInv, FoundWasConfirmed, Promised
<1>4. (\A p \in polls : PollOK(p))'
  <2>1. \A p \in polls' : PollOK(p)
    BY DEF WaitInv
  <2>2. QED
    BY <2>1 DEF PollOK, ViewWasSeen, StillInBlock
<1>5. QED
  BY <1>1, <1>2, <1>3, <1>4 DEF WaitInv

LEMMA ViewIsOK ==
  ASSUME WaitInv
  PROVE  View \in Views /\ ViewWasSeen(View)
<1>1. Depth \in Nat /\ (status = "included" => 1 <= Depth /\ Depth <= deepest)
  BY DEF WaitInv, WaitTypeOK, DeepestIsKept, Depth
<1>2. QED
  BY <1>1 DEF WaitInv, WaitTypeOK, View, Views, ViewWasSeen, Found

LEMMA AnswersKeepWait ==
  ASSUME WaitInv, NEW poll \in polls,
         NodeSays(poll) \/ NodeLapses(poll) \/ HeightSays(poll) \/ HeightLapses(poll)
  PROVE  WaitInv'
<1>1. /\ UNCHANGED <<kind, wanted, status, block, height, deepest, result, raced, interval>>
      /\ poll \in Polls /\ PollOK(poll)
  BY DEF NodeSays, NodeLapses, HeightSays, HeightLapses, WaitInv, WaitTypeOK
<1>2. \E next \in Polls : PollOK(next) /\ Becomes(poll, next)
  <2>1. ASSUME NEW view \in Views, Answered(poll, view), ViewWasSeen(view),
               poll.at = "asked",
               Found(view) => view = View
        PROVE  \E next \in Polls : PollOK(next) /\ Becomes(poll, next)
    <3> DEFINE at == IF kind = "bitcoin" /\ view.status \in {"pending", "included"}
                     THEN "height" ELSE "answered"
               next == [poll EXCEPT !.at = at, !.view = view]
    <3>1. next \in Polls /\ next.at = at /\ next.view = view
      BY <1>1, <2>1 DEF Polls
    <3>2. kind = "bitcoin" /\ Found(view) => at = "height" /\ status = "included" /\ block = view.block
      BY <2>1 DEF Found, View
    <3>3. PollOK(next)
      BY <2>1, <3>1, <3>2 DEF PollOK, StillInBlock
    <3>4. Becomes(poll, next)
      BY <2>1 DEF Answered
    <3>5. QED
      BY <3>1, <3>3, <3>4
  <2>2. CASE NodeSays(poll)
    BY <2>1, <2>2, ViewIsOK DEF NodeSays
  <2>3. CASE NodeLapses(poll)
    <3>1. PICK view \in {Error, Unseen} : Answered(poll, view)
      BY <2>3 DEF NodeLapses
    <3>2. view \in Views /\ ~Found(view)
      BY DEF Error, Unseen, Views, Found, NoBlock
    <3>3. QED
      BY <2>1, <2>3, <3>1, <3>2 DEF NodeLapses, ViewWasSeen
  <2>4. CASE HeightSays(poll)
    <3> DEFINE next == [poll EXCEPT !.at = "answered", !.tip = height]
    <3>1. /\ next \in Polls /\ next.view = poll.view /\ next.tip = height
          /\ next.reorged = poll.reorged
      BY <1>1 DEF Polls, WaitInv, WaitTypeOK
    <3>2. PollOK(next)
      BY <1>1, <2>4, <3>1 DEF HeightSays, PollOK, StillInBlock, WaitInv, WaitTypeOK
    <3>3. QED
      BY <2>4, <3>1, <3>2 DEF HeightSays
  <2>5. CASE HeightLapses(poll)
    <3> DEFINE next == [poll EXCEPT !.at = "answered", !.view = Error]
    <3>1. next \in Polls /\ next.view = Error
      BY <1>1 DEF Polls, Error, Views, NoBlock
    <3>2. PollOK(next)
      BY <3>1 DEF PollOK, ViewWasSeen, StillInBlock, Found, Error
    <3>3. QED
      BY <2>5, <3>1, <3>2 DEF HeightLapses
  <2>6. QED
    BY <2>2, <2>3, <2>4, <2>5
<1>3. PICK next \in Polls : PollOK(next) /\ polls' = (polls \ {poll}) \union {next}
  BY <1>2 DEF Becomes
<1>4. QED
  BY <1>1, <1>3, PollsChange DEF WaitInv, WaitTypeOK

\* A poll only settles the promise for a transaction with its confirmations.
LEMMA SettledWasConfirmed ==
  ASSUME WaitInv, NEW poll \in polls, poll.at = "answered",
         PollEnds(poll).result = "resolved"
  PROVE  /\ PollEnds(poll) = Settle
         /\ deepest >= Promised \/ (kind = "bitcoin" /\ poll.reorged)
<1>1. /\ poll \in Polls /\ ViewWasSeen(poll.view) /\ StillInBlock(poll)
      /\ kind \in Polled \union {"sui"}
      /\ wanted \in Nat /\ height \in Nat /\ block \in Nat /\ deepest \in Nat
  BY DEF WaitInv, WaitTypeOK, PollOK
<1>2. /\ poll.view.depth \in Nat /\ poll.view.block \in Nat /\ poll.tip \in Nat
      /\ poll.reorged \in BOOLEAN
  BY <1>1 DEF Polls, Views
<1>3. AskAgain.result # "resolved" /\ StopOnly.result # "resolved"
  BY DEF AskAgain, StopOnly
<1>4. CASE kind = "bitcoin"
  <2>1. PollEnds(poll) = BitcoinPoll(poll.view, poll.tip)
    BY <1>4 DEF PollEnds
  <2>2. /\ Found(poll.view) /\ PollEnds(poll) = Settle
        /\ poll.tip + 1 >= poll.view.block + (IF wanted > 0 THEN wanted ELSE 1)
    BY <1>3, <2>1 DEF BitcoinPoll
  <2>3. ASSUME ~poll.reorged
        PROVE  deepest >= Promised
    <3>1. status = "included" /\ block = poll.view.block /\ poll.tip <= height
      BY <1>1, <1>4, <2>2, <2>3 DEF StillInBlock
    <3>2. height - block + 1 <= deepest
      BY <3>1 DEF WaitInv, DeepestIsKept, Depth
    <3>3. Promised = IF wanted > 0 THEN wanted ELSE 1
      BY <1>4 DEF Promised
    <3>4. QED
      BY <1>1, <1>2, <2>2, <3>1, <3>2, <3>3
  <2>4. QED
    BY <1>2, <1>4, <2>2, <2>3
<1>5. CASE kind \in {"solana", "tron"}
  <2>1. PollEnds(poll) = SolanaPoll(poll.view) \/ PollEnds(poll) = TronPoll(poll.view)
    BY <1>5 DEF PollEnds
  <2>2. /\ Found(poll.view) /\ (wanted > 0 => poll.view.depth >= Final)
        /\ PollEnds(poll) = Settle
    BY <1>3, <2>1 DEF SolanaPoll, TronPoll
  <2>3. Promised = IF wanted > 0 THEN Final ELSE 1
    BY <1>5 DEF Promised
  <2>4. QED
    BY <1>1, <1>2, <2>2, <2>3 DEF ViewWasSeen, Final
<1>6. CASE kind \in {"ton", "starknet", "ckb", "sui"}
  <2>1. Found(poll.view) /\ PollEnds(poll) = Settle
    <3>1. CASE kind = "ton"
      BY <1>3, <3>1 DEF PollEnds, TonPoll
    <3>2. CASE kind = "starknet"
      BY <1>3, <3>2 DEF PollEnds, StarknetPoll
    <3>3. CASE kind = "ckb"
      <4>1. PollEnds(poll) = CkbPoll(poll.view)
        BY <3>3 DEF PollEnds
      <4>2. QED
        BY <1>3, <4>1 DEF CkbPoll, Error, Found
    <3>4. CASE kind = "sui"
      BY <3>4 DEF PollEnds, SuiPoll, Settle
    <3>5. QED
      BY <1>6, <3>1, <3>2, <3>3, <3>4
  <2>2. Promised = 1
    BY <1>6 DEF Promised
  <2>3. QED
    BY <1>1, <1>2, <2>1, <2>2 DEF ViewWasSeen
<1>7. QED
  BY <1>1, <1>4, <1>5, <1>6 DEF Polled

LEMMA HearKeepsWait ==
  ASSUME WaitInv, NEW poll \in polls, Hear(poll)
  PROVE  WaitInv'
<1>1. /\ poll.at = "answered" /\ polls' = polls \ {poll} /\ (interval' => interval)
      /\ result' = (IF result = "waiting" THEN PollEnds(poll).result ELSE result)
      /\ raced' = (IF result = "waiting" /\ PollEnds(poll) = Settle THEN poll.reorged ELSE raced)
      /\ UNCHANGED <<kind, wanted, status, block, height, deepest>>
  BY DEF Hear
<1>2. WaitTypeOK'
  BY <1>1 DEF WaitInv, WaitTypeOK
<1>3. DeepestIsKept'
  BY <1>1 DEF WaitInv, DeepestIsKept, Depth
<1>4. (\A p \in polls : PollOK(p))'
  BY <1>1 DEF WaitInv, PollOK, ViewWasSeen, StillInBlock
<1>5. Promised' = Promised
  BY <1>1 DEF Promised
<1>6. FoundWasConfirmed'
  <2>1. CASE result # "waiting"
    BY <1>1, <1>5, <2>1 DEF WaitInv, FoundWasConfirmed
  <2>2. CASE result = "waiting" /\ PollEnds(poll).result = "resolved"
    <3>1. /\ PollEnds(poll) = Settle
          /\ deepest >= Promised \/ (kind = "bitcoin" /\ poll.reorged)
      BY <1>1, <2>2, SettledWasConfirmed
    <3>2. QED
      BY <1>1, <1>5, <2>2, <3>1 DEF FoundWasConfirmed
  <2>3. CASE result = "waiting" /\ PollEnds(poll).result # "resolved"
    BY <1>1, <2>3 DEF FoundWasConfirmed
  <2>4. QED
    BY <2>1, <2>2, <2>3
<1>7. QED
  BY <1>2, <1>3, <1>4, <1>6 DEF WaitInv

\* The history variable only grows.
LEMMA ChainKeepsWait ==
  ASSUME WaitInv, NEW now, NEW at, NEW tip, ChainStep(now, at, tip),
         now \in {"nowhere", "pending", "included"}, at \in Nat, tip \in Nat,
         now = "included" => at <= tip,
         \/ /\ UNCHANGED polls /\ tip >= height
            /\ status = "included" => now = "included" /\ at = block
         \/ polls' = {[p EXCEPT !.reorged = (p.at # "asked")] : p \in polls}
  PROVE  WaitInv'
<1>1. /\ status' = now /\ block' = at /\ height' = tip
      /\ deepest' = IF now = "included" /\ tip - at + 1 > deepest THEN tip - at + 1 ELSE deepest
      /\ UNCHANGED <<kind, wanted, interval, result, raced>>
  BY DEF ChainStep
<1>2. deepest \in Nat /\ deepest' \in Nat /\ deepest <= deepest'
  BY <1>1 DEF WaitInv, WaitTypeOK
<1>3. DeepestIsKept'
  BY <1>1, <1>2 DEF DeepestIsKept, Depth
<1>4. FoundWasConfirmed'
  <2>1. Promised' = Promised /\ Promised \in Nat
    BY <1>1 DEF Promised, WaitInv, WaitTypeOK, Final
  <2>2. QED
    BY <1>1, <1>2, <2>1 DEF WaitInv, FoundWasConfirmed
<1>5. \A p \in polls : p \in Polls /\ PollOK(p)
  BY DEF WaitInv, WaitTypeOK
<1>6. \A p \in polls : ViewWasSeen(p.view)'
  <2> SUFFICES ASSUME NEW p \in polls, Found(p.view)
               PROVE  1 <= p.view.depth /\ p.view.depth <= deepest'
    BY DEF ViewWasSeen, Found
  <2>1. p.view.depth \in Nat
    BY <1>5 DEF Polls, Views
  <2>2. QED
    BY <1>2, <1>5, <2>1 DEF PollOK, ViewWasSeen
<1>7. \A p \in polls' : p \in Polls /\ PollOK(p)'
  <2>1. CASE UNCHANGED polls /\ tip >= height /\ (status = "included" => now = "included" /\ at = block)
    <3> SUFFICES ASSUME NEW p \in polls
                 PROVE  StillInBlock(p)'
      BY <1>5, <1>6, <2>1 DEF PollOK
    <3>1. StillInBlock(p) /\ p.tip \in Nat /\ height \in Nat
      BY <1>5 DEF PollOK, Polls, WaitInv, WaitTypeOK
    <3>2. QED
      BY <1>1, <2>1, <3>1 DEF StillInBlock
  <2>2. CASE polls' = {[p EXCEPT !.reorged = (p.at # "asked")] : p \in polls}
    <3> SUFFICES ASSUME NEW p \in polls
                 PROVE  /\ [p EXCEPT !.reorged = (p.at # "asked")] \in Polls
                        /\ PollOK([p EXCEPT !.reorged = (p.at # "asked")])'
      BY <2>2
    <3> DEFINE next == [p EXCEPT !.reorged = (p.at # "asked")]
    <3>1. /\ next \in Polls /\ next.view = p.view /\ next.at = p.at
          /\ next.reorged = (p.at # "asked")
      BY <1>5 DEF Polls
    <3>2. QED
      BY <1>6, <3>1 DEF PollOK, ViewWasSeen, StillInBlock
  <2>3. QED
    BY <2>1, <2>2
<1>8. WaitTypeOK'
  <2>1. polls' # {} => polls # {}
    OBVIOUS
  <2>2. QED
    BY <1>1, <1>2, <1>7, <2>1 DEF WaitInv, WaitTypeOK
<1>9. QED
  BY <1>3, <1>4, <1>7, <1>8 DEF WaitInv

LEMMA WaitKeeps == WaitInv /\ WaitNext => WaitInv'
<1> SUFFICES ASSUME WaitInv, WaitNext PROVE WaitInv'
  OBVIOUS
<1>1. CASE PollAgain
  <2>1. PICK n \in 1 .. MaxPolls : polls' = polls \union {NewPoll(n)}
    BY <1>1 DEF PollAgain
  <2>2. NewPoll(n) \in Polls /\ PollOK(NewPoll(n))
    BY NewPollIsOK
  <2>3. QED
    BY <1>1, <2>1, <2>2, PollsChange DEF PollAgain, WaitInv, WaitTypeOK
<1>2. CASE WaitTimesOut
  <2>1. /\ UNCHANGED <<kind, wanted, status, block, height, deepest, polls, raced>>
        /\ ~interval' /\ (result' = "resolved" => result = "resolved")
    BY <1>2 DEF WaitTimesOut
  <2>2. WaitTypeOK' /\ DeepestIsKept' /\ FoundWasConfirmed'
    BY <2>1 DEF WaitInv, WaitTypeOK, DeepestIsKept, Depth, FoundWasConfirmed, Promised
  <2>3. QED
    BY <2>1, <2>2 DEF WaitInv, PollOK, ViewWasSeen, StillInBlock
<1>3. ASSUME NEW p \in polls,
             NodeSays(p) \/ NodeLapses(p) \/ HeightSays(p) \/ HeightLapses(p) \/ Hear(p)
      PROVE  WaitInv'
  BY <1>3, AnswersKeepWait, HearKeepsWait
<1>4. status \in {"nowhere", "pending", "included"} /\ block \in Nat /\ height \in Nat
      /\ (status = "included" => block <= height)
  BY DEF WaitInv, WaitTypeOK, DeepestIsKept
<1>5. CASE Mine
  <2>1. CASE status = "pending" /\ ChainStep("included", height + 1, height + 1)
    BY <1>4, <1>5, <2>1, ChainKeepsWait DEF Mine
  <2>2. CASE ChainStep(status, block, height + 1)
    BY <1>4, <1>5, <2>2, ChainKeepsWait DEF Mine
  <2>3. QED
    BY <1>5, <2>1, <2>2 DEF Mine
<1>6. CASE Drop
  BY <1>4, <1>6, ChainKeepsWait DEF Drop, NoBlock
<1>7. CASE Reorganise
  BY <1>4, <1>7, ChainKeepsWait DEF Reorganise, NoBlock
<1>8. QED
  BY <1>1, <1>2, <1>3, <1>5, <1>6, <1>7 DEF WaitNext

LEMMA WaitInvNext == WaitInv /\ [Next]_vars => WaitInv'
<1> SUFFICES ASSUME WaitInv, [Next]_vars PROVE WaitInv'
  OBVIOUS
<1>1. CASE Wait
  <2>1. PICK c \in Nat : StartWait(c, FALSE) \/ StartWait(c, TRUE)
    BY <1>1 DEF Wait, WalletWaits
  <2>2. QED
    BY <1>1, <2>1, StartKeepsWait DEF Wait
<1>2. CASE WaitNext
  BY <1>2, WaitKeeps
<1>3. CASE UNCHANGED waitVars
  BY <1>3
  DEF waitVars, WaitInv, WaitTypeOK, DeepestIsKept, Depth, FoundWasConfirmed, Promised, PollOK,
      ViewWasSeen, StillInBlock
<1>4. QED
  BY <1>1, <1>2, <1>3 DEF Next, Send, AskForLogs, LogsCome, vars

\* A transaction that a wallet reports as found has had the confirmations that
\* were asked for, however many polls of it are under way and however old their
\* answers are; on Bitcoin a block may be replaced between the two requests of
\* a poll (waitForTransaction of the adaptors).
THEOREM FoundWasAlwaysConfirmed == Spec => []FoundWasConfirmed
<1>1. WaitInv => FoundWasConfirmed
  BY DEF WaitInv
<1>2. QED
  BY <1>1, WaitInvInit, WaitInvNext, PTL DEF Spec

-----------------------------------------------------------------------------
\* What a page reads of a chain.  The invariant says of each read under way what
\* its answers so far say of the time since it began: which owner the pool had
\* when the store of the swap was read, whether the owner that was asked for next
\* can be told together with it, which pool the address had.  It stays true when
\* the chain goes on because a read remembers what it has seen.

OwnerValues == {None, "wallet", Owners[1], Owners[2]}
PoolValues == {NoPool, Pool}
PostedStates == {"none", "requested", "bonded", "executed", "cancelled"}
LockedStates == {"none", "locked", "released", "unlocked"}
Stores == [state : PostedStates \union LockedStates, pool : PoolValues, owner : OwnerValues]
NodeValues == Stores \union OwnerValues \union BOOLEAN \union Nat

\* A swap in that state while the pool has the owner o, as PostedKind has it.
KindOf(state, o) ==
  CASE state \in {"none", "cancelled"} -> "none"
    [] state = "bonded" /\ o = None -> "unserved"
    [] OTHER -> state

\* A swap is bonded or locked to a pool; on CKB it is never posted without one, and
\* a pool with a lock has an owner.
StoredOK(store) ==
  /\ store.state = "requested" => store.pool = NoPool
  /\ store.state \in {"bonded", "locked"} => store.pool = Pool
  /\ store.state = "requested" => chain # "ckb"

ChainOK ==
  /\ chain \in Chains
  /\ posted \in [state : PostedStates, pool : PoolValues] /\ StoredOK(posted)
  /\ locked \in [state : LockedStates, pool : PoolValues] /\ StoredOK(locked)
  /\ owner \in OwnerValues /\ (chain = "ckb" => owner = "wallet")
  /\ owner = None => authorized = {} /\ locked.state # "locked"
  /\ listed \in BOOLEAN /\ balance \in {0, 1}

\* The owners of a time that lasts until now: a pool that has had an owner goes
\* on having one.
Past(owners) == owner \in owners /\ \A o \in owners : o # None => owner # None

KeepsOwners == chain \in {"solana", "sui"}

\* A promise that is kept was answered once: of pool 0 with nobody, of the pool
\* with an owner it has had since the page was loaded.
CacheOK ==
  /\ DOMAIN cache = KeptRequests
  /\ Past(ownersKept) /\ ownersKept \subseteq OwnerValues
  /\ \A q \in KeptRequests :
       cache[q].state = "done" =>
         /\ cache[q] = Kept(cache[q].answer) /\ cache[q].answer \in NodeValues
         /\ q = Request("owner", NoPool) => cache[q].answer = None
         /\ q = Request("owner", Pool) => cache[q].answer \in ownersKept

-----------------------------------------------------------------------------
\* What the answers of a read say of the time since it began

Rest(got) == IF HasHandles(chain) /\ got # <<>> THEN Tail(got) ELSE got

\* The owner of a pool, asked of a node or kept.
OwnerReadOK(r, pool, o) ==
  /\ pool = NoPool => o = None
  /\ pool = Pool => /\ o \in (IF KeepsOwners THEN ownersKept ELSE r.owners)
                    /\ KeepsOwners => cache[Request("owner", Pool)] = Kept(o)

\* The store of a swap, read at a moment when the pool had the owner o.
StoreReadOK(r, store, o) ==
  /\ o \in r.owners
  /\ store \in Stores /\ StoredOK(store)
  /\ store.owner = IF store.pool = Pool THEN o ELSE None
  /\ r.query.name = "getPostedSwap" =>
       store.state \in PostedStates /\ KindOf(store.state, o) \in r.seen
  /\ r.query.name = "getLockedSwap" =>
       /\ store.state \in LockedStates
       /\ IF store.state = "unlocked" THEN "none" \in r.seen /\ locked.state = "unlocked"
          ELSE store.state \in r.seen
       /\ store.state = "locked" => o # None

\* Whether the list of references of CKB has the swap.
RefItemOK(r, listsIt) ==
  /\ r.query.name = "getLockedSwap" /\ listsIt \in BOOLEAN
  /\ listsIt => {"locked", "released"} \cap r.seen # {} \/ locked.state = "unlocked"
  /\ ~listsIt => "none" \in r.seen

\* The store, and the owner of its pool: where that is not kept, a pool that had an
\* owner has one still.  On CKB what the list of references says comes second.
SwapReadOK(r, rest) ==
  /\ Len(rest) <= 2
  /\ Len(rest) >= 1 =>
       \E o \in OwnerValues :
         /\ StoreReadOK(r, rest[1], o)
         /\ Len(rest) = 2 /\ chain = "ckb" => RefItemOK(r, rest[2])
         /\ Len(rest) = 2 /\ chain # "ckb" =>
              /\ OwnerReadOK(r, rest[1].pool, rest[2])
              /\ chain \in {"aptos", "starknet"} /\ rest[1].pool = Pool /\ o # None
                   => rest[2] # None

OwnerOfPoolOK(r, rest) ==
  Len(rest) >= 1 => OwnerReadOK(r, Pool, rest[1])

\* The answers with which poolTokenBalance is done.
Whole == IF chain = "sui" THEN 2 ELSE IF chain \in {"solana", "aptos"} THEN 3 ELSE 1

\* The pool of the address, and its balance last; before there was a pool, there
\* was no balance.
BalanceReadOK(r, rest) ==
  Len(rest) >= 1 =>
    /\ chain \in {"ethers", "starknet"} => rest[1] \in r.seen
    /\ chain = "ckb" => rest[1] \div 100 \in r.seen
    /\ chain \in {"solana", "aptos", "sui"} =>
         /\ rest[1] \in PoolValues
         /\ rest[1] = NoPool => 0 \in r.seen
         /\ rest[1] = Pool => r.query.arg \in authorized
         /\ Len(rest) <= Whole
         /\ Len(rest) = Whole => rest[Whole] \in r.seen

QueryOK(query) ==
  /\ query.name \in {"getPostedSwap", "getLockedSwap", "ownerOfPool", "getBalanceInPool"}
  /\ query.name = "getPostedSwap" => query.arg \in {Initiator, Other}
  /\ query.name = "ownerOfPool" => query.arg = Pool

GotOK(r, rest) ==
  /\ r.query.name \in {"getPostedSwap", "getLockedSwap"} => SwapReadOK(r, rest)
  /\ r.query.name = "ownerOfPool" => OwnerOfPoolOK(r, rest)
  /\ r.query.name = "getBalanceInPool" /\ r.ready => BalanceReadOK(r, rest)

IsRead(r) ==
  DOMAIN r = {"query", "ready", "got", "asked", "expired", "seen", "owners"}

ReadOK(r) ==
  /\ IsRead(r)
  /\ QueryOK(r.query)
  /\ Truth(r.query) \in r.seen /\ Past(r.owners) /\ r.owners \subseteq OwnerValues
  /\ r.got \in Seq(NodeValues)
  /\ GotOK(r, Rest(r.got))

SaidOK == PostedWasSo /\ LockedWasSo /\ OwnerWasOwner /\ BalanceWasSo

\* The inductive invariant.
ReadsInv ==
  /\ ChainOK /\ CacheOK
  /\ DOMAIN reads = Slots /\ \A i \in Slots : reads[i] # Idle => ReadOK(reads[i])
  /\ SaidOK

-----------------------------------------------------------------------------
\* The requests of a read

LEMMA SeqIs ==
  ASSUME NEW S, NEW s \in Seq(S)
  PROVE  /\ Len(s) \in Nat /\ (s = <<>> <=> Len(s) = 0)
         /\ \A n \in 1 .. Len(s) : s[n] \in S
  OBVIOUS

LEMMA RestIsSeq ==
  ASSUME NEW got \in Seq(NodeValues)
  PROVE  Rest(got) \in Seq(NodeValues)
BY HeadTailProperties DEF Rest

LEMMA RestGrows ==
  ASSUME NEW got \in Seq(NodeValues), NEW v \in NodeValues
  PROVE  /\ Append(got, v) \in Seq(NodeValues)
         /\ HasHandles(chain) /\ got = <<>> => Rest(Append(got, v)) = <<>>
         /\ ~(HasHandles(chain) /\ got = <<>>) => Rest(Append(got, v)) = Append(Rest(got), v)
<1>1. Append(got, v) \in Seq(NodeValues) /\ Append(got, v) # <<>>
  BY AppendProperties
<1>2. CASE ~HasHandles(chain)
  BY <1>1, <1>2 DEF Rest
<1>3. CASE HasHandles(chain)
  <2>1. Tail(Append(got, v)) = IF got = <<>> THEN <<>> ELSE Append(Tail(got), v)
    BY HeadTailAppend
  <2>2. QED
    BY <1>1, <1>3, <2>1 DEF Rest
<1>4. QED
  BY <1>2, <1>3

\* What is asked of a node once the handles are there.
LEMMA AsksAre ==
  ASSUME NEW r, r.got \in Seq(NodeValues), Asks(r) # Done, ~(HasHandles(chain) /\ r.got = <<>>)
  PROVE  LET rest == Rest(r.got)
         IN  /\ r.query.name = "getPostedSwap" => Asks(r) = PostedRequests(chain, rest)
             /\ r.query.name = "getLockedSwap" => Asks(r) = LockedRequests(chain, rest)
             /\ r.query.name = "ownerOfPool" =>
                  rest = <<>> /\ Asks(r) = Request("owner", r.query.arg)
             /\ r.query.name = "getBalanceInPool" /\ r.ready =>
                  Asks(r) = BalanceRequests(chain, r.query.arg, rest)
             /\ NeedsTokens(r) => Asks(r) = Request("tokens", NoPool)
<1> DEFINE q == ContractQuery(r)
           rest == Rest(r.got)
<1>1. q = IF NeedsTokens(r) THEN [name |-> "getSupportedTokens", arg |-> NoPool]
          ELSE IF r.query.name = "getBalanceInPool" /\ r.ready
               THEN [name |-> "poolTokenBalance", arg |-> r.query.arg] ELSE r.query
  BY DEF ContractQuery, NeedsTokens
<1>2. Asks(r) = CASE q.name = "getPostedSwap" -> PostedRequests(chain, rest)
                 [] q.name = "getLockedSwap" -> LockedRequests(chain, rest)
                 [] q.name = "poolTokenBalance" -> BalanceRequests(chain, q.arg, rest)
                 [] q.name = "ownerOfPool" ->
                      IF rest = <<>> /\ chain # "ckb" THEN Request("owner", q.arg) ELSE Done
                 [] OTHER ->
                      IF rest = <<>> THEN Request("tokens", NoPool) ELSE Done
  BY DEF Asks, NextRequest, Rest
<1> HIDE DEF q, rest
<1>3. CASE r.query.name = "getPostedSwap"
  BY <1>1, <1>2, <1>3 DEF NeedsTokens, rest
<1>4. CASE r.query.name = "getLockedSwap"
  BY <1>1, <1>2, <1>4 DEF NeedsTokens, rest
<1>5. CASE r.query.name = "ownerOfPool"
  BY <1>1, <1>2, <1>5 DEF NeedsTokens, rest
<1>6. CASE r.query.name = "getBalanceInPool" /\ r.ready
  BY <1>1, <1>2, <1>6 DEF NeedsTokens, rest
<1>7. CASE NeedsTokens(r)
  <2>1. q.name = "getSupportedTokens"
    BY <1>1, <1>7
  <2>2. Asks(r) = IF rest = <<>> THEN Request("tokens", NoPool) ELSE Done
    BY <1>2, <2>1, Zenon
  <2>3. QED
    BY <1>7, <2>2 DEF NeedsTokens
<1>8. QED
  BY <1>3, <1>4, <1>5, <1>6, <1>7 DEF NeedsTokens

\* What a node says of the chain, or has said when the answer is kept.
IsAnswer(q, v) ==
  IF Memoized(chain, q) THEN q \in KeptRequests /\ cache[q] = Kept(v) ELSE v = Answer(q)

LEMMA AnswersAre ==
  ASSUME ChainOK, NEW q
  PROVE  /\ Answer(q) \in NodeValues
         /\ q.of = "posted" => Answer(q) = [state |-> posted.state, pool |-> posted.pool,
                                owner |-> IF posted.pool = Pool THEN owner ELSE None]
         /\ q.of = "locked" => Answer(q) = [state |-> locked.state, pool |-> locked.pool,
                                owner |-> IF locked.pool = Pool THEN owner ELSE None]
         /\ q.of = "refItem" => Answer(q) = (locked.state # "none")
         /\ q.of = "owner" => Answer(q) = IF q.key = Pool THEN owner ELSE None
         /\ q.of = "poolOf" => Answer(q) = IF q.key \in authorized THEN Pool ELSE NoPool
         /\ q.of = "balance" => Answer(q) = balance
         /\ q.of = "poolTokenBalance" => Answer(q) = TrueBalance(q.key)
         /\ q.of = "udt" => Answer(q) = 100 * balance + 99
<1>1. [state |-> posted.state, pool |-> posted.pool,
       owner |-> IF posted.pool = Pool THEN owner ELSE None] \in Stores
  BY DEF ChainOK, Stores, OwnerValues
<1>2. [state |-> locked.state, pool |-> locked.pool,
       owner |-> IF locked.pool = Pool THEN owner ELSE None] \in Stores
  BY DEF ChainOK, Stores, OwnerValues
<1>3. owner \in OwnerValues /\ None \in OwnerValues /\ listed \in BOOLEAN
      /\ balance \in Nat /\ 100 * balance + 99 \in Nat /\ TrueBalance(q.key) \in Nat
      /\ Pool \in Nat /\ NoPool \in Nat
  BY DEF ChainOK, OwnerValues, TrueBalance, Pool, NoPool
<1> HIDE DEF Stores
<1>4. QED
  BY <1>1, <1>2, <1>3 DEF Answer, NodeValues

LEMMA MemoizedAre ==
  ASSUME NEW q, Memoized(chain, q)
  PROVE  /\ q.of \in {"handles", "tokens", "owner", "coinStore"}
         /\ q.of = "owner" => KeepsOwners
BY DEF Memoized, SolanaMemoized, SuiMemoized, AptosMemoized, KeepsOwners

\* The request of a read of the owner of a pool.
LEMMA OwnerAnswer ==
  ASSUME ChainOK, CacheOK, NEW r, ReadOK(r), NEW q, NEW v, IsAnswer(q, v),
         NEW pool \in PoolValues, q = Request("owner", pool)
  PROVE  /\ v \in OwnerValues /\ OwnerReadOK(r, pool, v)
         /\ ~KeepsOwners => v = IF pool = Pool THEN owner ELSE None
<1>1. q.of = "owner" /\ q.key = pool /\ pool \in {0, 1} /\ Pool = 1 /\ NoPool = 0
  BY DEF Request, PoolValues, Pool, NoPool
<1>2. CASE Memoized(chain, q)
  <2>1. q \in KeptRequests /\ cache[q] = Kept(v) /\ KeepsOwners
    BY <1>1, <1>2, MemoizedAre DEF IsAnswer
  <2>2. cache[q].state = "done" /\ cache[q].answer = v
    BY <2>1 DEF Kept
  <2>3. QED
    BY <1>1, <2>1, <2>2 DEF CacheOK, OwnerReadOK, OwnerValues
<1>3. CASE ~Memoized(chain, q)
  <2>1. ~KeepsOwners
    BY <1>1, <1>3 DEF Memoized, SolanaMemoized, SuiMemoized, KeepsOwners
  <2>2. v = IF pool = Pool THEN owner ELSE None
    BY <1>1, <1>3, AnswersAre DEF IsAnswer
  <2>3. QED
    BY <1>1, <2>1, <2>2 DEF ChainOK, OwnerReadOK, OwnerValues, ReadOK, Past
<1>4. QED
  BY <1>2, <1>3

LEMMA AnswerIsValue ==
  ASSUME ChainOK, CacheOK, NEW q, NEW v, IsAnswer(q, v)
  PROVE  v \in NodeValues
<1>1. CASE Memoized(chain, q)
  BY <1>1 DEF IsAnswer, CacheOK, Kept
<1>2. CASE ~Memoized(chain, q)
  BY <1>2, AnswersAre DEF IsAnswer
<1>3. QED
  BY <1>1, <1>2

\* The store of a swap is read.
LEMMA StoreIsRead ==
  ASSUME ChainOK, NEW r, ReadOK(r), NEW v,
         \/ r.query.name = "getPostedSwap" /\ v = Answer(Request("posted", NoPool))
         \/ r.query.name = "getLockedSwap" /\ v = Answer(Request("locked", NoPool))
  PROVE  StoreReadOK(r, v, owner)
<1> DEFINE store == IF r.query.name = "getPostedSwap" THEN posted ELSE locked
<1>1. v = [state |-> store.state, pool |-> store.pool,
           owner |-> IF store.pool = Pool THEN owner ELSE None]
  BY AnswersAre DEF Request
<1>2. v \in Stores /\ StoredOK(v)
  BY <1>1 DEF ChainOK, Stores, OwnerValues, StoredOK
<1>3. v.state = store.state /\ v.owner = (IF v.pool = Pool THEN owner ELSE None)
  BY <1>1
<1>4. owner \in r.owners /\ Truth(r.query) \in r.seen
  BY DEF ReadOK, Past
<1>5. r.query.name = "getPostedSwap" => v.state \in PostedStates /\ KindOf(v.state, owner) \in r.seen
  BY <1>3, <1>4 DEF ChainOK, Truth, PostedKind, KindOf
<1>6. r.query.name = "getLockedSwap" =>
       /\ v.state \in LockedStates
       /\ IF v.state = "unlocked" THEN "none" \in r.seen /\ locked.state = "unlocked"
          ELSE v.state \in r.seen
       /\ v.state = "locked" => owner # None
  BY <1>3, <1>4 DEF ChainOK, Truth, LockedKind
<1>7. QED
  BY <1>2, <1>3, <1>4, <1>5, <1>6 DEF StoreReadOK

\* The list of references is read.
LEMMA RefItemIsRead ==
  ASSUME ChainOK, NEW r, ReadOK(r), r.query.name = "getLockedSwap", NEW v,
         v = Answer(Request("refItem", NoPool))
  PROVE  RefItemOK(r, v)
<1>1. v = (locked.state # "none")
  BY AnswersAre DEF Request
<1>2. LockedKind \in r.seen
  BY DEF ReadOK, Truth
<1>3. locked.state \in LockedStates
  BY DEF ChainOK
<1>4. QED
  BY <1>1, <1>2, <1>3 DEF RefItemOK, LockedKind, LockedStates

\* The answers of a read of a swap, and one more.
LEMMA SwapReadGrows ==
  ASSUME ChainOK, CacheOK, NEW r, ReadOK(r), NEW v,
         r.query.name \in {"getPostedSwap", "getLockedSwap"},
         Asks(r) # Done, ~(HasHandles(chain) /\ r.got = <<>>), IsAnswer(Asks(r), v)
  PROVE  SwapReadOK(r, Append(Rest(r.got), v))
<1> DEFINE rest == Rest(r.got)
           next == Append(rest, v)
<1>1. v \in NodeValues /\ rest \in Seq(NodeValues) /\ Len(rest) \in Nat
      /\ (rest = <<>> <=> Len(rest) = 0)
  BY AnswerIsValue, RestIsSeq, SeqIs DEF ReadOK
<1>2. /\ Len(next) = Len(rest) + 1 /\ next[Len(rest) + 1] = v
      /\ \A n \in 1 .. Len(rest) : next[n] = rest[n]
  BY <1>1, AppendProperties
<1>3. SwapReadOK(r, rest)
  BY DEF ReadOK, GotOK
<1>4. \/ r.query.name = "getPostedSwap" /\ Asks(r) = PostedRequests(chain, rest)
      \/ r.query.name = "getLockedSwap" /\ Asks(r) = LockedRequests(chain, rest)
  BY AsksAre DEF ReadOK
<1> HIDE DEF rest, next
<1>5. CASE rest = <<>>
  <2>1. \/ r.query.name = "getPostedSwap" /\ Asks(r) = Request("posted", NoPool)
        \/ r.query.name = "getLockedSwap" /\ Asks(r) = Request("locked", NoPool)
    BY <1>4, <1>5 DEF PostedRequests, LockedRequests
  <2>2. ~Memoized(chain, Asks(r))
    BY <2>1, MemoizedAre DEF Request
  <2>3. StoreReadOK(r, v, owner)
    BY <2>1, <2>2, StoreIsRead DEF IsAnswer
  <2>4. Len(next) = 1 /\ next[1] = v
    BY <1>1, <1>2, <1>5
  <2>5. QED
    BY <2>3, <2>4 DEF SwapReadOK, ChainOK, next, rest
<1>6. CASE rest # <<>>
  <2>1. Len(rest) >= 1
    BY <1>1, <1>6
  <2>2. PICK o \in OwnerValues : StoreReadOK(r, rest[1], o)
    BY <1>3, <2>1 DEF SwapReadOK
  <2>3. /\ Len(rest) = 1
        /\ \/ /\ Asks(r) = OwnerRequest(chain, rest[1].pool)
              /\ rest[1].state \in {"requested", "bonded", "locked"}
           \/ /\ Asks(r) = Request("refItem", NoPool) /\ chain = "ckb"
              /\ r.query.name = "getLockedSwap"
    BY <1>4, <1>6 DEF PostedRequests, LockedRequests, Pending
  <2>4. Len(next) = 2 /\ next[1] = rest[1] /\ next[2] = v
    BY <1>2, <2>3
  <2>5. CASE Asks(r) = Request("refItem", NoPool) /\ chain = "ckb" /\ r.query.name = "getLockedSwap"
    <3>1. ~Memoized(chain, Asks(r))
      BY <2>5, MemoizedAre DEF Request
    <3>2. RefItemOK(r, v)
      BY <2>5, <3>1, RefItemIsRead DEF IsAnswer
    <3>3. QED
      BY <2>2, <2>4, <2>5, <3>2 DEF SwapReadOK, next, rest
  <2>6. CASE /\ Asks(r) = OwnerRequest(chain, rest[1].pool)
             /\ rest[1].state \in {"requested", "bonded", "locked"}
    <3>1. Asks(r) = Request("owner", rest[1].pool) /\ chain # "ckb"
      BY <2>6 DEF OwnerRequest, SolanaOwner, SuiOwner, AptosOwner
    <3>2. rest[1].pool \in PoolValues
      BY <2>2 DEF StoreReadOK, Stores
    <3>3. v \in OwnerValues /\ OwnerReadOK(r, rest[1].pool, v)
          /\ (~KeepsOwners => v = IF rest[1].pool = Pool THEN owner ELSE None)
      BY <3>1, <3>2, OwnerAnswer
    <3>4. chain \in {"aptos", "starknet"} /\ rest[1].pool = Pool /\ o # None => v # None
      BY <2>2, <3>3 DEF StoreReadOK, ReadOK, Past, KeepsOwners
    <3>5. QED
      BY <2>2, <2>4, <3>1, <3>3, <3>4 DEF SwapReadOK, next, rest
  <2>7. QED
    BY <2>3, <2>5, <2>6
<1>7. QED
  BY <1>5, <1>6

LEMMA OwnerOfPoolGrows ==
  ASSUME ChainOK, CacheOK, NEW r, ReadOK(r), NEW v, r.query.name = "ownerOfPool",
         Asks(r) # Done, ~(HasHandles(chain) /\ r.got = <<>>), IsAnswer(Asks(r), v)
  PROVE  OwnerOfPoolOK(r, Append(Rest(r.got), v))
<1>1. Rest(r.got) = <<>> /\ Asks(r) = Request("owner", Pool)
  BY AsksAre DEF ReadOK, QueryOK
<1>2. OwnerReadOK(r, Pool, v)
  BY <1>1, OwnerAnswer DEF PoolValues
<1>3. Append(Rest(r.got), v)[1] = v
  BY <1>1
<1>4. QED
  BY <1>2, <1>3 DEF OwnerOfPoolOK

LEMMA BalanceRequestsAre ==
  ASSUME ChainOK, NEW addr, NEW rest
  PROVE  LET asked == BalanceRequests(chain, addr, rest)
         IN  /\ rest = <<>> =>
                  /\ chain \in {"ethers", "starknet"} => asked = Request("poolTokenBalance", addr)
                  /\ chain = "ckb" => asked = Request("udt", addr)
                  /\ chain \in {"solana", "aptos", "sui"} => asked = Request("poolOf", addr)
             /\ rest # <<>> =>
                  /\ chain \in {"ethers", "starknet", "ckb"} => asked = Done
                  /\ chain = "solana" => asked = SolanaBalance(rest)
                  /\ chain = "aptos" => asked = AptosBalance(rest)
                  /\ chain = "sui" => asked = SuiBalance(rest)
<1> DEFINE asked == BalanceRequests(chain, addr, rest)
<1>1. CASE rest = <<>>
  <2>1. asked = FirstOfBalance(chain, addr)
    BY <1>1, Zenon DEF BalanceRequests
  <2>2. chain \in {"ethers", "starknet"} => asked = Request("poolTokenBalance", addr)
    BY <2>1, Zenon DEF FirstOfBalance
  <2>3. chain = "ckb" => asked = Request("udt", addr)
    BY <2>1, Zenon DEF FirstOfBalance
  <2>4. chain \in {"solana", "aptos", "sui"} => asked = Request("poolOf", addr)
    BY <2>1, Zenon DEF FirstOfBalance
  <2>5. QED
    BY <1>1, <2>2, <2>3, <2>4
<1>2. CASE rest # <<>>
  <2>1. chain = "solana" => asked = SolanaBalance(rest)
    BY <1>2, Zenon DEF BalanceRequests
  <2>2. chain = "aptos" => asked = AptosBalance(rest)
    BY <1>2, Zenon DEF BalanceRequests
  <2>3. chain = "sui" => asked = SuiBalance(rest)
    BY <1>2, Zenon DEF BalanceRequests
  <2>4. chain \in {"ethers", "starknet", "ckb"} => asked = Done
    BY <1>2, Zenon DEF BalanceRequests
  <2>5. QED
    BY <1>2, <2>1, <2>2, <2>3, <2>4
<1>3. QED
  BY <1>1, <1>2

LEMMA SolanaAsks ==
  ASSUME NEW rest \in Seq(NodeValues), Len(rest) >= 1, Len(rest) <= 3, rest[1] \in PoolValues,
         SolanaBalance(rest) # Done
  PROVE  /\ Len(rest) <= 2
         /\ Len(rest) >= 2 => rest[1] = Pool /\ SolanaBalance(rest).of = "balance"
<1> DEFINE n == Len(rest)
<1>1. n \in Nat /\ n >= 1 /\ n <= 3
  OBVIOUS
<1>2. SolanaBalance(rest) = IF n = 1 THEN Request("tokens", NoPool)
                            ELSE IF n > 2 \/ rest[1] = NoPool THEN Done
                            ELSE <<Done, Request("balance", rest[1])>>[n]
  BY DEF SolanaBalance, OfPool
<1> HIDE DEF n
<1>3. n = 1 \/ n = 2
  BY <1>1, <1>2
<1>4. n = 2 => rest[1] = Pool /\ SolanaBalance(rest) = Request("balance", rest[1])
  BY <1>2 DEF PoolValues
<1>5. n <= 2 /\ (n >= 2 => rest[1] = Pool /\ SolanaBalance(rest).of = "balance")
  BY <1>1, <1>3, <1>4 DEF Request
<1>6. QED
  BY <1>5 DEF n

LEMMA AptosAsks ==
  ASSUME NEW rest \in Seq(NodeValues), Len(rest) >= 1, Len(rest) <= 3, rest[1] \in PoolValues,
         AptosBalance(rest) # Done
  PROVE  /\ Len(rest) <= 2
         /\ Len(rest) >= 2 => rest[1] = Pool /\ AptosBalance(rest).of = "balance"
BY DEF AptosBalance, OfPool, Request, PoolValues

LEMMA SuiAsks ==
  ASSUME NEW rest \in Seq(NodeValues), Len(rest) >= 1, Len(rest) <= 2, rest[1] \in PoolValues,
         SuiBalance(rest) # Done
  PROVE  /\ Len(rest) <= 1
         /\ Len(rest) >= 1 => rest[1] = Pool /\ SuiBalance(rest).of = "balance"
BY DEF SuiBalance, OfPool, Request, PoolValues

\* A read that has a pool has not all of its answers yet.
LEMMA SolanaAsksOn ==
  ASSUME NEW rest, NEW n \in Nat, n = Len(rest), n >= 1, rest[1] # NoPool, SolanaBalance(rest) = Done
  PROVE  n >= 3
<1>1. SolanaBalance(rest) = IF n = 1 THEN Request("tokens", NoPool)
                            ELSE IF n > 2 \/ rest[1] = NoPool THEN Done
                            ELSE <<Done, Request("balance", rest[1])>>[n]
  BY DEF SolanaBalance, OfPool
<1>2. n = 1 \/ n = 2 \/ n >= 3
  OBVIOUS
<1>3. QED
  BY <1>1, <1>2 DEF Request, Done

LEMMA AptosAsksOn ==
  ASSUME NEW rest, NEW n \in Nat, n = Len(rest), n >= 1, rest[1] # NoPool, AptosBalance(rest) = Done
  PROVE  n >= 3
<1>1. AptosBalance(rest) = IF n > 2 \/ rest[1] = NoPool THEN Done
                           ELSE <<Request("coinStore", NoPool), Request("balance", rest[1])>>[n]
  BY DEF AptosBalance, OfPool
<1>2. n = 1 \/ n = 2 \/ n >= 3
  OBVIOUS
<1>3. QED
  BY <1>1, <1>2 DEF Request, Done

LEMMA SuiAsksOn ==
  ASSUME NEW rest, NEW n \in Nat, n = Len(rest), n >= 1, rest[1] # NoPool, SuiBalance(rest) = Done
  PROVE  n >= 2
<1>1. SuiBalance(rest) = IF n > 1 \/ rest[1] = NoPool THEN Done
                         ELSE <<Request("balance", rest[1])>>[n]
  BY DEF SuiBalance, OfPool
<1>2. n = 1 \/ n = 2 \/ n >= 3
  OBVIOUS
<1>3. QED
  BY <1>1, <1>2 DEF Request, Done

LEMMA BalanceReadGrows ==
  ASSUME ChainOK, CacheOK, NEW r, ReadOK(r), NEW v, r.query.name = "getBalanceInPool", r.ready,
         Asks(r) # Done, ~(HasHandles(chain) /\ r.got = <<>>), IsAnswer(Asks(r), v)
  PROVE  BalanceReadOK(r, Append(Rest(r.got), v))
<1> DEFINE rest == Rest(r.got)
           next == Append(rest, v)
           addr == r.query.arg
<1>1. v \in NodeValues /\ rest \in Seq(NodeValues) /\ Len(rest) \in Nat
      /\ (rest = <<>> <=> Len(rest) = 0)
  BY AnswerIsValue, RestIsSeq, SeqIs DEF ReadOK
<1>2. /\ Len(next) = Len(rest) + 1 /\ next[Len(rest) + 1] = v
      /\ \A n \in 1 .. Len(rest) : next[n] = rest[n]
  BY <1>1, AppendProperties
<1>3. BalanceReadOK(r, rest) /\ Asks(r) = BalanceRequests(chain, addr, rest)
  BY AsksAre DEF ReadOK, GotOK
<1>4. TrueBalance(addr) \in r.seen /\ TrueBalance(addr) \in {0, balance} /\ balance \in {0, 1}
  BY DEF ReadOK, Truth, TrueBalance, ChainOK
<1>5. chain \in {"ethers", "solana", "sui", "aptos", "starknet", "ckb"}
  BY ReadersAssumption DEF ChainOK
<1> HIDE DEF rest, next, addr
<1>6. CASE rest = <<>>
  <2>1. /\ chain \in {"ethers", "starknet"} => Asks(r) = Request("poolTokenBalance", addr)
        /\ chain = "ckb" => Asks(r) = Request("udt", addr)
        /\ chain \in {"solana", "aptos", "sui"} => Asks(r) = Request("poolOf", addr)
    BY <1>1, <1>3, <1>6, BalanceRequestsAre
  <2>2. Asks(r).key = addr /\ v = Answer(Asks(r))
    BY <1>5, <2>1, MemoizedAre DEF Request, IsAnswer
  <2>3. /\ chain \in {"ethers", "starknet"} => Asks(r).of = "poolTokenBalance"
        /\ chain = "ckb" => Asks(r).of = "udt"
        /\ chain \in {"solana", "aptos", "sui"} => Asks(r).of = "poolOf"
    BY <2>1 DEF Request
  <2>4. Len(next) = 1 /\ next[1] = v
    BY <1>1, <1>2, <1>6
  <2>5. CASE chain \in {"ethers", "starknet"}
    BY <1>4, <2>2, <2>3, <2>4, <2>5, AnswersAre DEF BalanceReadOK, next, rest
  <2>6. CASE chain = "ckb"
    <3>1. v = 100 * balance + 99 /\ TrueBalance(addr) = balance
      BY <2>2, <2>3, <2>6, AnswersAre DEF TrueBalance
    <3>2. v \div 100 = balance
      BY <1>4, <3>1
    <3>3. QED
      BY <1>4, <2>4, <2>6, <3>1, <3>2 DEF BalanceReadOK, next, rest
  <2>7. CASE chain \in {"solana", "aptos", "sui"}
    <3>1. v = IF addr \in authorized THEN Pool ELSE NoPool
      BY <2>2, <2>3, <2>7, AnswersAre
    <3>2. v = NoPool => 0 \in r.seen
      BY <1>4, <2>7, <3>1 DEF TrueBalance, Pool, NoPool
    <3>3. Whole \in {2, 3}
      BY <2>7 DEF Whole
    <3>4. QED
      BY <2>4, <2>7, <3>1, <3>2, <3>3 DEF BalanceReadOK, PoolValues, Pool, NoPool, addr, next, rest
  <2>8. QED
    BY <1>5, <2>5, <2>6, <2>7
<1>7. CASE rest # <<>>
  <2>1. Len(rest) >= 1 /\ next[1] = rest[1]
    BY <1>1, <1>2, <1>7
  <2>2. /\ chain \in {"solana", "aptos", "sui"} /\ Len(rest) + 1 <= Whole /\ Whole \in Nat
        /\ Len(rest) + 1 = Whole => rest[1] = Pool /\ Asks(r).of = "balance"
    <3>1. rest[1] \in PoolValues \/ chain \notin {"solana", "aptos", "sui"}
      BY <1>3, <2>1 DEF BalanceReadOK
    <3>2. CASE chain = "solana"
      <4>1. Asks(r) = SolanaBalance(rest) /\ Whole = 3 /\ Len(rest) <= 3
        BY <1>1, <1>3, <1>7, <2>1, <3>2, BalanceRequestsAre DEF BalanceReadOK, Whole
      <4>2. rest \in Seq(NodeValues) /\ Len(rest) >= 1 /\ Len(rest) <= 3 /\ rest[1] \in PoolValues
            /\ SolanaBalance(rest) # Done
        BY <1>1, <2>1, <3>1, <3>2, <4>1
      <4>3. /\ Len(rest) <= 2
            /\ Len(rest) >= 2 => rest[1] = Pool /\ SolanaBalance(rest).of = "balance"
        BY <4>2, SolanaAsks
      <4>4. QED
        BY <1>1, <3>2, <4>1, <4>3
    <3>3. CASE chain = "aptos"
      <4>1. Asks(r) = AptosBalance(rest) /\ Whole = 3 /\ Len(rest) <= 3
        BY <1>1, <1>3, <1>7, <2>1, <3>3, BalanceRequestsAre DEF BalanceReadOK, Whole
      <4>2. rest \in Seq(NodeValues) /\ Len(rest) >= 1 /\ Len(rest) <= 3 /\ rest[1] \in PoolValues
            /\ AptosBalance(rest) # Done
        BY <1>1, <2>1, <3>1, <3>3, <4>1
      <4>3. /\ Len(rest) <= 2
            /\ Len(rest) >= 2 => rest[1] = Pool /\ AptosBalance(rest).of = "balance"
        BY <4>2, AptosAsks
      <4>4. QED
        BY <1>1, <3>3, <4>1, <4>3
    <3>4. CASE chain = "sui"
      <4>1. Asks(r) = SuiBalance(rest) /\ Whole = 2 /\ Len(rest) <= 2
        BY <1>1, <1>3, <1>7, <2>1, <3>4, BalanceRequestsAre DEF BalanceReadOK, Whole
      <4>2. rest \in Seq(NodeValues) /\ Len(rest) >= 1 /\ Len(rest) <= 2 /\ rest[1] \in PoolValues
            /\ SuiBalance(rest) # Done
        BY <1>1, <2>1, <3>1, <3>4, <4>1
      <4>3. /\ Len(rest) <= 1
            /\ Len(rest) >= 1 => rest[1] = Pool /\ SuiBalance(rest).of = "balance"
        BY <4>2, SuiAsks
      <4>4. QED
        BY <1>1, <3>4, <4>1, <4>3
    <3>5. CASE chain \in {"ethers", "starknet", "ckb"}
      BY <1>1, <1>3, <1>7, <3>5, BalanceRequestsAre
    <3>6. QED
      BY <1>5, <3>2, <3>3, <3>4, <3>5
  <2>3. rest[1] = Pool => addr \in authorized
    BY <1>3, <2>1, <2>2 DEF BalanceReadOK, addr
  <2>4. CASE Len(rest) + 1 = Whole
    <3>1. v = balance
      BY <2>2, <2>4, MemoizedAre, AnswersAre DEF IsAnswer
    <3>2. v \in r.seen
      BY <1>4, <2>2, <2>3, <2>4, <3>1 DEF TrueBalance
    <3>3. QED
      BY <1>2, <1>3, <2>1, <2>2, <2>3, <2>4, <3>2 DEF BalanceReadOK, addr, next, rest
  <2>5. CASE Len(rest) + 1 # Whole
    BY <1>1, <1>2, <1>3, <2>1, <2>2, <2>3, <2>5 DEF BalanceReadOK, addr, next, rest
  <2>6. QED
    BY <2>4, <2>5
<1>8. QED
  BY <1>6, <1>7

LEMMA EmptyIsOK ==
  ASSUME NEW r
  PROVE  GotOK(r, <<>>)
BY DEF GotOK, SwapReadOK, OwnerOfPoolOK, BalanceReadOK

\* What a read has got says nothing of `got' and `asked' themselves.
LEMMA SameButGot ==
  ASSUME NEW r, NEW q, NEW rest,
         q.query = r.query, q.ready = r.ready, q.seen = r.seen, q.owners = r.owners
  PROVE  GotOK(r, rest) => GotOK(q, rest)
BY DEF GotOK, SwapReadOK, StoreReadOK, RefItemOK, OwnerOfPoolOK, OwnerReadOK, BalanceReadOK

LEMMA ReadGrows ==
  ASSUME ChainOK, CacheOK, NEW r, ReadOK(r), NEW v, Asks(r) # Done, IsAnswer(Asks(r), v),
         NEW q, IsRead(q), q.query = r.query, q.ready = r.ready, q.seen = r.seen,
         q.owners = r.owners, q.got = Append(r.got, v)
  PROVE  ReadOK(q)
<1>2. v \in NodeValues /\ r.got \in Seq(NodeValues)
  BY AnswerIsValue DEF ReadOK
<1>3. q.got \in Seq(NodeValues)
  BY <1>2, RestGrows
<1>4. GotOK(r, Rest(q.got))
  <2>1. CASE HasHandles(chain) /\ r.got = <<>>
    BY <1>2, <2>1, RestGrows, EmptyIsOK
  <2>2. CASE ~(HasHandles(chain) /\ r.got = <<>>)
    <3>1. Rest(q.got) = Append(Rest(r.got), v)
      BY <1>2, <2>2, RestGrows
    <3>2. r.query.name \in {"getPostedSwap", "getLockedSwap"} => SwapReadOK(r, Rest(q.got))
      <4>1. ASSUME r.query.name \in {"getPostedSwap", "getLockedSwap"}
            PROVE  SwapReadOK(r, Append(Rest(r.got), v))
        BY <2>2, <4>1, SwapReadGrows
      <4>2. QED
        BY <3>1, <4>1
    <3>3. r.query.name = "ownerOfPool" => OwnerOfPoolOK(r, Rest(q.got))
      BY <2>2, <3>1, OwnerOfPoolGrows
    <3>4. r.query.name = "getBalanceInPool" /\ r.ready => BalanceReadOK(r, Rest(q.got))
      BY <2>2, <3>1, BalanceReadGrows
    <3>5. QED
      BY <3>2, <3>3, <3>4 DEF GotOK
  <2>3. QED
    BY <2>1, <2>2
<1>5. GotOK(q, Rest(q.got))
  BY <1>4, SameButGot
<1>6. Truth(q.query) \in q.seen /\ QueryOK(q.query) /\ Past(q.owners) /\ q.owners \subseteq OwnerValues
  BY DEF ReadOK
<1>7. QED
  BY <1>3, <1>5, <1>6 DEF ReadOK

-----------------------------------------------------------------------------
\* A read that asks for nothing more

LEMMA DoneIs ==
  ASSUME NEW r, r.got \in Seq(NodeValues), QueryOK(r.query), Asks(r) = Done, ~NeedsTokens(r)
  PROVE  LET rest == Rest(r.got)
         IN  /\ rest = IF HasHandles(chain) THEN Tail(r.got) ELSE r.got
             /\ r.query.name = "getPostedSwap" => PostedRequests(chain, rest) = Done
             /\ r.query.name = "getLockedSwap" => LockedRequests(chain, rest) = Done
             /\ r.query.name = "ownerOfPool" => rest # <<>> \/ chain = "ckb"
             /\ r.query.name = "getBalanceInPool" =>
                  BalanceRequests(chain, r.query.arg, rest) = Done
<1> DEFINE q == ContractQuery(r)
           rest == Rest(r.got)
           asked == CASE q.name = "getPostedSwap" -> PostedRequests(chain, rest)
                      [] q.name = "getLockedSwap" -> LockedRequests(chain, rest)
                      [] q.name = "poolTokenBalance" -> BalanceRequests(chain, q.arg, rest)
                      [] q.name = "ownerOfPool" ->
                           IF rest = <<>> /\ chain # "ckb" THEN Request("owner", q.arg) ELSE Done
                      [] OTHER ->
                           IF rest = <<>> THEN Request("tokens", NoPool) ELSE Done
<1>1. Asks(r) = IF HasHandles(chain) /\ r.got = <<>> /\ asked # Done THEN Handles ELSE asked
  BY DEF Asks, NextRequest, Rest
<1>2. q = IF r.query.name = "getBalanceInPool"
          THEN [name |-> "poolTokenBalance", arg |-> r.query.arg] ELSE r.query
  BY DEF ContractQuery, NeedsTokens
<1>3. q.name \in {"getPostedSwap", "getLockedSwap", "ownerOfPool", "poolTokenBalance"}
  BY <1>2 DEF QueryOK
<1>4. asked = Done
  BY <1>1 DEF Handles, Request, Done
<1> HIDE DEF q
<1>5. q.name = "getPostedSwap" => PostedRequests(chain, rest) = Done
  BY <1>4, Zenon
<1>6. q.name = "getLockedSwap" => LockedRequests(chain, rest) = Done
  BY <1>4, Zenon
<1>7. q.name = "poolTokenBalance" => BalanceRequests(chain, q.arg, rest) = Done
  BY <1>4, Zenon
<1>8. q.name = "ownerOfPool" => rest # <<>> \/ chain = "ckb"
  <2>1. q.name = "ownerOfPool" =>
          (IF rest = <<>> /\ chain # "ckb" THEN Request("owner", q.arg) ELSE Done) = Done
    BY <1>4, Zenon
  <2>2. QED
    BY <2>1 DEF Request, Done
<1> HIDE DEF asked
<1>9. ~(HasHandles(chain) /\ r.got = <<>>)
  <2>1. SUFFICES ASSUME HasHandles(chain), r.got = <<>> PROVE FALSE
    OBVIOUS
  <2>2. rest = <<>> /\ chain \in {"sui", "aptos"}
    BY <2>1 DEF Rest, HasHandles
  <2>3. PostedRequests(chain, rest) # Done /\ LockedRequests(chain, rest) # Done
        /\ BalanceRequests(chain, q.arg, rest) # Done
    BY <2>2 DEF PostedRequests, LockedRequests, BalanceRequests, FirstOfBalance, Request, Done
  <2>4. QED
    BY <1>3, <1>5, <1>6, <1>7, <1>8, <2>2, <2>3
<1>10. QED
  BY <1>2, <1>5, <1>6, <1>7, <1>8, <1>9 DEF Rest, QueryOK

\* A read of a swap has its store, and the owner where it asks for it.
LEMMA SwapReadDone ==
  ASSUME ChainOK, NEW r, ReadOK(r), Asks(r) = Done,
         r.query.name \in {"getPostedSwap", "getLockedSwap"}
  PROVE  LET rest == Rest(r.got)
         IN  \E o \in OwnerValues :
               /\ StoreReadOK(r, rest[1], o)
               /\ rest[1].state \in {"requested", "bonded", "locked"}
                    /\ chain \notin {"ethers", "ckb"}
                  => /\ OwnerReadOK(r, rest[1].pool, OwnerGot(rest))
                     /\ chain \in {"aptos", "starknet"} /\ rest[1].pool = Pool /\ o # None
                          => OwnerGot(rest) # None
               /\ rest[1].state # "locked" /\ chain = "ckb" /\ r.query.name = "getLockedSwap"
                  => RefItemOK(r, rest[2])
<1> DEFINE rest == Rest(r.got)
           n == Len(rest)
           a == rest[1]
<1>1. SwapReadOK(r, rest) /\ r.got \in Seq(NodeValues)
  BY DEF ReadOK, GotOK
<1>2. n \in Nat /\ (rest = <<>> <=> n = 0)
  BY <1>1, RestIsSeq, SeqIs
<1>3. \/ r.query.name = "getPostedSwap" /\ PostedRequests(chain, rest) = Done
      \/ r.query.name = "getLockedSwap" /\ LockedRequests(chain, rest) = Done
  BY <1>1, DoneIs DEF ReadOK, NeedsTokens
<1>4. rest # <<>>
  BY <1>3 DEF PostedRequests, LockedRequests, Request, Done
<1>5. n >= 1 /\ n <= 2
  BY <1>1, <1>2, <1>4 DEF SwapReadOK
<1>6. \/ r.query.name = "getPostedSwap" /\ (n = 1 /\ Pending(a) => OwnerRequest(chain, a.pool) = Done)
      \/ /\ r.query.name = "getLockedSwap"
         /\ n = 1 /\ a.state = "locked" => OwnerRequest(chain, a.pool) = Done
         /\ n = 1 /\ a.state # "locked" => chain # "ckb"
  BY <1>3, <1>4 DEF PostedRequests, LockedRequests, Request, Done
<1>7. PICK o \in OwnerValues :
        /\ StoreReadOK(r, a, o)
        /\ n = 2 /\ chain = "ckb" => RefItemOK(r, rest[2])
        /\ n = 2 /\ chain # "ckb" =>
             /\ OwnerReadOK(r, a.pool, rest[2])
             /\ chain \in {"aptos", "starknet"} /\ a.pool = Pool /\ o # None
                  => rest[2] # None
  BY <1>1, <1>5 DEF SwapReadOK
<1>8. OwnerGot(rest) = IF n = 2 THEN rest[2] ELSE None
  BY DEF OwnerGot
<1> HIDE DEF n
<1>9. ASSUME a.state \in {"requested", "bonded", "locked"}, chain \notin {"ethers", "ckb"}
      PROVE  /\ OwnerReadOK(r, a.pool, OwnerGot(rest))
             /\ chain \in {"aptos", "starknet"} /\ a.pool = Pool /\ o # None
                  => OwnerGot(rest) # None
  <2>1. CASE n = 2
    BY <1>7, <1>8, <1>9, <2>1
  <2>2. CASE n = 1
    <3>1. OwnerRequest(chain, a.pool) = Done
      BY <1>6, <1>7, <1>9, <2>2 DEF Pending, StoreReadOK, PostedStates, LockedStates
    <3>2. chain \in {"solana", "sui"} /\ a.pool = NoPool
      <4>1. chain \in {"aptos", "starknet"} => OwnerRequest(chain, a.pool) = Request("owner", a.pool)
        BY Zenon DEF OwnerRequest, AptosOwner
      <4>2. chain = "solana" => OwnerRequest(chain, a.pool) = SolanaOwner(a.pool)
        BY Zenon DEF OwnerRequest
      <4>3. chain = "sui" => OwnerRequest(chain, a.pool) = SuiOwner(a.pool)
        BY Zenon DEF OwnerRequest
      <4>4. chain \in {"solana", "sui", "aptos", "starknet"}
        BY <1>9, ReadersAssumption DEF ChainOK
      <4>5. QED
        BY <3>1, <4>1, <4>2, <4>3, <4>4 DEF SolanaOwner, SuiOwner, Request, Done
    <3>3. OwnerGot(rest) = None
      BY <1>8, <2>2
    <3>4. QED
      BY <3>2, <3>3 DEF OwnerReadOK, NoPool, Pool
  <2>3. QED
    BY <1>2, <1>5, <2>1, <2>2
<1>10. a.state # "locked" /\ chain = "ckb" /\ r.query.name = "getLockedSwap" => RefItemOK(r, rest[2])
  BY <1>2, <1>5, <1>6, <1>7
<1>11. QED
  BY <1>7, <1>9, <1>10

-----------------------------------------------------------------------------
\* What is told of a posted swap

LEMMA Nobody ==
  /\ FormatOwner(None) = None /\ FormatOwner(Zero20) = None
  /\ FormatOwner(Initiator) = Initiator /\ Initiator # None
  /\ FormatOwner("wallet") = "wallet" /\ FormatOwner(Zero32) = Zero32 /\ FormatOwner(One) = One
  /\ None \notin {"wallet", Zero32, One}
  /\ \A o \in OwnerValues : FormatOwner(o) = o
BY ReadersAssumption DEF FormatOwner, OwnerValues, Zero20, Zero32, One

\* The owner that is made of the answers, for a swap that is pending.
OwnerMade(got) ==
  CASE chain = "ckb" -> "wallet"
    [] chain = "starknet" -> StarknetAddress(OwnerGot(got))
    [] chain = "ethers" -> got[1].owner
    [] OTHER -> OwnerGot(got)

LEMMA OwnerMadeIs ==
  ASSUME NEW got
  PROVE  /\ chain = "ckb" => OwnerMade(got) = "wallet"
         /\ chain = "starknet" => OwnerMade(got) = StarknetAddress(OwnerGot(got))
         /\ chain = "ethers" => OwnerMade(got) = got[1].owner
         /\ chain \in {"solana", "sui", "aptos"} => OwnerMade(got) = OwnerGot(got)
<1>1. chain = "ckb" => OwnerMade(got) = "wallet"
  BY Zenon DEF OwnerMade
<1>2. chain = "starknet" => OwnerMade(got) = StarknetAddress(OwnerGot(got))
  BY Zenon DEF OwnerMade
<1>3. chain = "ethers" => OwnerMade(got) = got[1].owner
  BY Zenon DEF OwnerMade
<1>4. chain \in {"solana", "sui", "aptos"} => OwnerMade(got) = OwnerGot(got)
  BY Zenon DEF OwnerMade
<1>5. QED
  BY <1>1, <1>2, <1>3, <1>4

LEMMA SolanaPostedIs ==
  ASSUME NEW got, got[1].state \in PostedStates
  PROVE  LET view == SolanaPostedSwap(got)
         IN  /\ Pending(got[1]) => view = PostedView(TRUE, Initiator, OwnerGot(got))
             /\ got[1].state = "executed" => view = PostedView(TRUE, None, None)
             /\ got[1].state \in {"none", "cancelled"} => view = NotPosted
BY DEF SolanaPostedSwap, Pending

LEMMA EvmPostedIs ==
  ASSUME NEW got
  PROVE  LET view == EvmPostedSwap(got)
         IN  /\ Pending(got[1]) =>
                  view = PostedView(TRUE, Initiator,
                                    IF got[1].owner = None THEN Zero20 ELSE got[1].owner)
             /\ got[1].state = "executed" => view = PostedView(TRUE, Zero20, Zero20)
             /\ got[1].state \in {"none", "cancelled"} => view = PostedView(FALSE, Zero20, Zero20)
<1>1. got[1].state \in {"none", "cancelled"} => EvmPostedSwap(got) = PostedView(FALSE, Zero20, Zero20)
  BY Zenon DEF EvmPostedSwap
<1>2. got[1].state = "executed" => EvmPostedSwap(got) = PostedView(TRUE, Zero20, Zero20)
  BY Zenon DEF EvmPostedSwap
<1>3. Pending(got[1]) =>
        EvmPostedSwap(got) = PostedView(TRUE, Initiator,
                                        IF got[1].owner = None THEN Zero20 ELSE got[1].owner)
  <2>1. Pending(got[1]) => got[1].state # "executed" /\ got[1].state \notin {"none", "cancelled"}
    BY DEF Pending
  <2>2. QED
    BY <2>1, Zenon DEF EvmPostedSwap
<1>4. QED
  BY <1>1, <1>2, <1>3

LEMMA PostedViewIs ==
  ASSUME ChainOK, NEW got, got[1].state \in PostedStates, got[1].owner \in OwnerValues,
         Pending(got[1]) /\ chain \notin {"ethers", "ckb"} => OwnerGot(got) \in OwnerValues
  PROVE  LET view == PostedSwapView(got)
         IN  /\ Pending(got[1]) =>
                  /\ view.exist /\ FormatOwner(view.initiator) = Initiator
                  /\ FormatOwner(view.poolOwner) = OwnerMade(got)
             /\ ~Pending(got[1]) =>
                  /\ FormatOwner(view.initiator) = None
                  /\ view.exist <=> got[1].state = "executed" /\ chain # "ckb"
<1> DEFINE view == PostedSwapView(got)
<1>1. chain \in {"ethers", "solana", "sui", "aptos", "starknet", "ckb"}
  BY ReadersAssumption DEF ChainOK
<1>2. CASE chain \in {"solana", "sui", "aptos"}
  <2>1. view = SolanaPostedSwap(got)
    <3>1. chain = "solana" => view = SolanaPostedSwap(got)
      BY Zenon DEF PostedSwapView
    <3>2. chain = "sui" => view = SuiPostedSwap(got)
      BY Zenon DEF PostedSwapView
    <3>3. chain = "aptos" => view = AptosPostedSwap(got)
      BY Zenon DEF PostedSwapView
    <3>4. QED
      BY <1>2, <3>1, <3>2, <3>3 DEF SuiPostedSwap, AptosPostedSwap
  <2>2. QED
    BY <1>2, <2>1, SolanaPostedIs, OwnerMadeIs, Nobody DEF PostedView, NotPosted, Pending, PostedStates
<1>3. CASE chain = "starknet"
  <2>1. view = StarknetPostedSwap(got)
    BY <1>3, Zenon DEF PostedSwapView
  <2>2. FormatOwner(StarknetAddress(OwnerGot(got))) = StarknetAddress(OwnerGot(got)) \/ ~Pending(got[1])
    BY <1>3, Nobody DEF StarknetAddress
  <2>3. QED
    BY <1>3, <2>1, <2>2, OwnerMadeIs, Nobody
    DEF StarknetPostedSwap, PostedView, NotPosted, Pending, PostedStates
<1>4. CASE chain = "ckb"
  <2>1. view = CkbPostedSwap(got, "wallet")
    BY <1>4, Zenon DEF PostedSwapView
  <2>2. QED
    BY <1>4, <2>1, OwnerMadeIs, Nobody DEF CkbPostedSwap, PostedView, NotPosted
<1>5. CASE chain = "ethers"
  <2>1. view = EvmPostedSwap(got)
    BY <1>5, Zenon DEF PostedSwapView
  <2>2. QED
    BY <1>5, <2>1, EvmPostedIs, OwnerMadeIs, Nobody DEF PostedView, Pending, PostedStates
<1>6. QED
  BY <1>1, <1>2, <1>3, <1>4, <1>5

LEMMA GetPostedSwapIs ==
  ASSUME NEW view, NEW toCheck \in {Initiator, Other}, NEW expired
  PROVE  LET got == GetPostedSwap(view, toCheck, expired)
             by == FormatOwner(view.initiator)
             poolOwner == FormatOwner(view.poolOwner)
         IN  /\ by = None /\ view.exist => got = [status |-> "Executed", owner |-> None]
             /\ by = None /\ ~view.exist =>
                  got = [status |-> "NoneOrAfterRunning", owner |-> None]
             /\ by = Initiator /\ toCheck = Other =>
                  got = [status |-> "ErrorMadeByOtherInitiator", owner |-> None]
             /\ by = Initiator /\ toCheck = Initiator =>
                  got = [status |-> PendingStatus(expired, poolOwner # None), owner |-> poolOwner]
<1> DEFINE got == GetPostedSwap(view, toCheck, expired)
           by == FormatOwner(view.initiator)
           poolOwner == FormatOwner(view.poolOwner)
<1>1. Initiator # None /\ Other # Initiator
  BY Nobody, ReadersAssumption
<1>2. by = None /\ view.exist => got = [status |-> "Executed", owner |-> None]
  BY Zenon DEF GetPostedSwap
<1>3. by = None /\ ~view.exist => got = [status |-> "NoneOrAfterRunning", owner |-> None]
  BY Zenon DEF GetPostedSwap
<1>4. by = Initiator /\ toCheck = Other =>
        got = [status |-> "ErrorMadeByOtherInitiator", owner |-> None]
  BY <1>1, Zenon DEF GetPostedSwap
<1>5. by = Initiator /\ toCheck = Initiator =>
        got = [status |-> PendingStatus(expired, poolOwner # None), owner |-> poolOwner]
  BY <1>1, Zenon DEF GetPostedSwap
<1>6. QED
  BY <1>2, <1>3, <1>4, <1>5

LEMMA StatusOfIs ==
  ASSUME NEW toCheck \in {Initiator, Other}, NEW expired
  PROVE  /\ StatusOf("none", toCheck, expired) = "NoneOrAfterRunning"
         /\ StatusOf("executed", toCheck, expired) = "Executed"
         /\ toCheck = Other =>
              /\ StatusOf("requested", toCheck, expired) = "ErrorMadeByOtherInitiator"
              /\ StatusOf("bonded", toCheck, expired) = "ErrorMadeByOtherInitiator"
         /\ toCheck = Initiator =>
              /\ StatusOf("requested", toCheck, expired) = PendingStatus(expired, FALSE)
              /\ StatusOf("bonded", toCheck, expired) = PendingStatus(expired, TRUE)
<1>1. Initiator # Other
  BY ReadersAssumption
<1>2. StatusOf("none", toCheck, expired) = "NoneOrAfterRunning"
  BY Zenon DEF StatusOf
<1>3. StatusOf("executed", toCheck, expired) = "Executed"
  BY Zenon DEF StatusOf
<1>4. toCheck = Other => StatusOf("requested", toCheck, expired) = "ErrorMadeByOtherInitiator"
  BY Zenon DEF StatusOf
<1>5. toCheck = Other => StatusOf("bonded", toCheck, expired) = "ErrorMadeByOtherInitiator"
  BY Zenon DEF StatusOf
<1>6. toCheck = Initiator =>
        StatusOf("requested", toCheck, expired) = PendingStatus(expired, "requested" = "bonded")
  BY <1>1, Zenon DEF StatusOf
<1>7. toCheck = Initiator =>
        StatusOf("bonded", toCheck, expired) = PendingStatus(expired, "bonded" = "bonded")
  BY <1>1, Zenon DEF StatusOf
<1>8. ("requested" = "bonded") = FALSE /\ ("bonded" = "bonded") = TRUE
  OBVIOUS
<1>9. QED
  BY <1>2, <1>3, <1>4, <1>5, <1>6, <1>7, <1>8

LEMMA KindOfIs ==
  ASSUME NEW o
  PROVE  /\ \A state \in {"none", "cancelled"} : KindOf(state, o) = "none"
         /\ \A state \in {"requested", "executed"} : KindOf(state, o) = state
         /\ KindOf("bonded", o) = IF o = None THEN "unserved" ELSE "bonded"
<1>1. \A state \in {"none", "cancelled"} : KindOf(state, o) = "none"
  BY Zenon DEF KindOf
<1>2. \A state \in {"requested", "executed"} : KindOf(state, o) = state
  BY Zenon DEF KindOf
<1>3. o = None => KindOf("bonded", o) = "unserved"
  BY Zenon DEF KindOf
<1>4. o # None => KindOf("bonded", o) = "bonded"
  BY Zenon DEF KindOf
<1>5. QED
  BY <1>1, <1>2, <1>3, <1>4

LEMMA TakenForIs ==
  /\ "none" \in TakenFor("none")
  /\ IF chain = "ckb" THEN "none" \in TakenFor("executed") ELSE "executed" \in TakenFor("executed")
  /\ chain = "starknet" =>
       \A k \in {"requested", "unserved", "bonded"} : "bonded" \in TakenFor(k)
  /\ chain # "starknet" =>
       /\ "requested" \in TakenFor("requested") /\ "requested" \in TakenFor("unserved")
       /\ owner # None => "bonded" \in TakenFor("unserved")
       /\ IF KeepsOwners /\ OwnerAbsent THEN "requested" \in TakenFor("bonded")
          ELSE "bonded" \in TakenFor("bonded")
<1>1. TakenFor("none") = {"none"}
  BY Zenon DEF TakenFor
<1>2. chain = "ckb" => TakenFor("executed") = {"none"}
  BY Zenon DEF TakenFor
<1>3. chain # "ckb" => TakenFor("executed") = {"executed"}
  BY Zenon DEF TakenFor
<1>4. chain = "starknet" => \A k \in {"requested", "unserved"} : TakenFor(k) = {"bonded"}
  BY Zenon DEF TakenFor
<1>5. chain # "starknet" => TakenFor("requested") = {"requested"}
  BY Zenon DEF TakenFor
<1>6. chain # "starknet" =>
        TakenFor("unserved") = {"requested"} \union (IF owner = None THEN {} ELSE {"bonded"})
  BY Zenon DEF TakenFor
<1>7. KeepsOwners /\ OwnerAbsent => TakenFor("bonded") = {"requested"}
  BY Zenon DEF TakenFor, KeepsOwners
<1>8. ~(KeepsOwners /\ OwnerAbsent) => TakenFor("bonded") = {"bonded"}
  BY Zenon DEF TakenFor, KeepsOwners
<1>9. chain = "starknet" => ~KeepsOwners
  BY DEF KeepsOwners
<1>10. QED
  BY <1>1, <1>2, <1>3, <1>4, <1>5, <1>6, <1>7, <1>8, <1>9

LEMMA PostedIsTold ==
  ASSUME ChainOK, CacheOK, NEW r, ReadOK(r), Asks(r) = Done, r.query.name = "getPostedSwap"
  PROVE  LET told == GetPostedSwap(PostedSwapView(Rest(r.got)), r.query.arg, r.expired)
         IN  /\ \E k \in UNION {TakenFor(j) : j \in r.seen} :
                  told.status = StatusOf(k, r.query.arg, r.expired)
             /\ \/ told.owner \in {None, Zero32}
                \/ told.owner \in (IF KeepsOwners THEN ownersKept ELSE r.owners)
<1> DEFINE rest == Rest(r.got)
           a == rest[1]
           by == OwnerMade(rest)
           view == PostedSwapView(rest)
           told == GetPostedSwap(view, r.query.arg, r.expired)
<1>1. PICK o \in OwnerValues :
        /\ StoreReadOK(r, a, o)
        /\ a.state \in {"requested", "bonded", "locked"} /\ chain \notin {"ethers", "ckb"}
             => /\ OwnerReadOK(r, a.pool, OwnerGot(rest))
                /\ chain \in {"aptos", "starknet"} /\ a.pool = Pool /\ o # None
                     => OwnerGot(rest) # None
  BY SwapReadDone
<1>2. /\ a.state \in PostedStates /\ a.owner \in OwnerValues /\ a.pool \in PoolValues
      /\ KindOf(a.state, o) \in r.seen /\ o \in r.owners
      /\ a.owner = (IF a.pool = Pool THEN o ELSE None)
      /\ a.state = "requested" => a.pool = NoPool /\ chain # "ckb"
      /\ a.state = "bonded" => a.pool = Pool
  BY <1>1 DEF StoreReadOK, Stores, StoredOK
<1>3. r.query.arg \in {Initiator, Other} /\ r.owners \subseteq OwnerValues
      /\ (o # None => owner # None) /\ owner \in OwnerValues
  BY <1>2 DEF ReadOK, QueryOK, ChainOK, Past
<1>4. chain \in {"ethers", "solana", "sui", "aptos", "starknet", "ckb"} /\ NoPool # Pool
  BY ReadersAssumption DEF ChainOK, NoPool, Pool
<1>5. ASSUME NEW j \in r.seen, NEW k \in TakenFor(j), told.status = StatusOf(k, r.query.arg, r.expired)
      PROVE  \E i \in UNION {TakenFor(l) : l \in r.seen} :
               told.status = StatusOf(i, r.query.arg, r.expired)
  <2>1. k \in UNION {TakenFor(l) : l \in r.seen}
    OBVIOUS
  <2>2. QED
    BY <1>5, <2>1
<1> HIDE DEF told, view, by, a, rest
<1>6. CASE ~Pending(a)
  <2>1. a.state \in {"none", "cancelled", "executed"}
    BY <1>2, <1>6 DEF Pending, PostedStates
  <2>2. FormatOwner(view.initiator) = None /\ (view.exist <=> a.state = "executed" /\ chain # "ckb")
    BY <1>2, <1>6, PostedViewIs DEF view, a
  <2>3. IF a.state = "executed" /\ chain # "ckb"
        THEN told.status = "Executed" /\ told.owner = None
        ELSE told.status = "NoneOrAfterRunning" /\ told.owner = None
    BY <1>3, <2>2, GetPostedSwapIs DEF told
  <2>4. CASE a.state \in {"none", "cancelled"}
    <3>1. "none" \in r.seen
      BY <1>2, <2>4, KindOfIs
    <3>2. told.status = StatusOf("none", r.query.arg, r.expired)
      BY <1>3, <2>3, <2>4, StatusOfIs
    <3>3. QED
      BY <1>5, <2>3, <3>1, <3>2, TakenForIs DEF told, view, rest
  <2>5. CASE a.state = "executed"
    <3>1. "executed" \in r.seen
      BY <1>2, <2>5, KindOfIs
    <3>2. told.status = StatusOf(IF chain = "ckb" THEN "none" ELSE "executed", r.query.arg, r.expired)
      BY <1>3, <2>3, <2>5, StatusOfIs
    <3>3. QED
      BY <1>5, <2>3, <3>1, <3>2, TakenForIs DEF told, view, rest
  <2>6. QED
    BY <2>1, <2>4, <2>5
<1>7. CASE Pending(a)
  <2>1. a.state \in {"requested", "bonded"}
    BY <1>7 DEF Pending
  <2>2. chain \notin {"ethers", "ckb"} => OwnerReadOK(r, a.pool, OwnerGot(rest))
    BY <1>1, <2>1
  <2>3. ownersKept \subseteq OwnerValues /\ \A p \in ownersKept \union r.owners : p # None => owner # None
    BY DEF CacheOK, Past, ReadOK
  <2>4. chain \notin {"ethers", "ckb"} =>
          IF a.pool = NoPool THEN OwnerGot(rest) = None
          ELSE /\ OwnerGot(rest) \in (IF KeepsOwners THEN ownersKept ELSE r.owners)
               /\ KeepsOwners => cache[Request("owner", Pool)] = Kept(OwnerGot(rest))
    BY <1>2, <2>2 DEF OwnerReadOK, PoolValues
  <2>5. chain \notin {"ethers", "ckb"} => OwnerGot(rest) \in OwnerValues
    BY <1>3, <2>3, <2>4 DEF OwnerValues
  <2>6. view.exist /\ FormatOwner(view.initiator) = Initiator /\ FormatOwner(view.poolOwner) = by
    BY <1>2, <1>7, <2>5, PostedViewIs DEF view, a, by
  <2>7. IF r.query.arg = Other
        THEN told.status = "ErrorMadeByOtherInitiator" /\ told.owner = None
        ELSE told.status = PendingStatus(r.expired, by # None) /\ told.owner = by
    BY <1>3, <2>6, GetPostedSwapIs DEF told
  <2>8. by \in {None, Zero32} \/ by \in (IF KeepsOwners THEN ownersKept ELSE r.owners)
    <3>1. CASE chain = "ckb"
      BY <3>1, OwnerMadeIs DEF by, ReadOK, Past, ChainOK, KeepsOwners
    <3>2. CASE chain = "ethers"
      BY <1>2, <3>2, OwnerMadeIs DEF by, a, KeepsOwners
    <3>3. CASE chain \notin {"ckb", "ethers"}
      BY <1>4, <2>4, <3>3, OwnerMadeIs DEF by, StarknetAddress
    <3>4. QED
      BY <3>1, <3>2, <3>3
  <2> DEFINE k == IF by # None THEN "bonded" ELSE "requested"
             j == KindOf(a.state, o)
  <2>9. told.status = StatusOf(k, r.query.arg, r.expired)
    <3>1. CASE by # None
      <4>1. (by # None) = TRUE
        BY <3>1
      <4>2. QED
        BY <1>3, <2>7, <3>1, <4>1, StatusOfIs
    <3>2. CASE by = None
      <4>1. (by # None) = FALSE
        BY <3>2
      <4>2. QED
        BY <1>3, <2>7, <3>2, <4>1, StatusOfIs
    <3>3. QED
      BY <3>1, <3>2
  <2>10. k \in TakenFor(j)
    <3>1. IF a.state = "requested" THEN j = "requested" /\ a.pool = NoPool
          ELSE j = (IF o = None THEN "unserved" ELSE "bonded") /\ a.pool = Pool
      BY <1>2, <2>1, KindOfIs
    <3> HIDE DEF j
    <3>2. CASE chain = "starknet"
      <4>1. by # None
        BY <3>2, OwnerMadeIs, Nobody DEF by, StarknetAddress
      <4>2. QED
        BY <3>1, <3>2, <4>1, TakenForIs
    <3>3. CASE chain = "ckb"
      <4>1. by # None /\ owner # None /\ ~KeepsOwners
        BY <3>3, OwnerMadeIs, Nobody DEF by, ChainOK, KeepsOwners
      <4>2. QED
        BY <1>2, <3>1, <3>3, <4>1, TakenForIs
    <3>4. CASE chain = "ethers"
      <4>1. by = a.owner /\ ~KeepsOwners
        BY <3>4, OwnerMadeIs DEF by, a, KeepsOwners
      <4>2. QED
        BY <1>2, <1>4, <3>1, <3>4, <4>1, TakenForIs
    <3>5. CASE chain = "aptos"
      <4>1. by = OwnerGot(rest) /\ ~KeepsOwners
        BY <3>5, OwnerMadeIs DEF by, KeepsOwners
      <4>2. a.pool = Pool /\ o # None => by # None
        BY <1>1, <2>1, <3>5, <4>1
      <4>3. by # None => owner # None /\ a.pool # NoPool
        BY <2>3, <2>4, <3>5, <4>1
      <4>4. QED
        BY <1>4, <3>1, <3>5, <4>1, <4>2, <4>3, TakenForIs
    <3>6. CASE chain \in {"solana", "sui"}
      <4>1. by = OwnerGot(rest) /\ KeepsOwners
        BY <3>6, OwnerMadeIs DEF by, KeepsOwners
      <4>2. by # None => owner # None /\ a.pool # NoPool
        BY <2>3, <2>4, <3>6, <4>1
      <4>3. a.pool = Pool => (OwnerAbsent <=> by = None)
        BY <1>4, <2>4, <3>6, <4>1 DEF OwnerAbsent, Kept
      <4>4. QED
        BY <1>4, <3>1, <3>6, <4>1, <4>2, <4>3, TakenForIs
    <3>7. QED
      BY <1>4, <3>2, <3>3, <3>4, <3>5, <3>6
  <2> HIDE DEF k
  <2>11. \E i \in UNION {TakenFor(l) : l \in r.seen} :
           told.status = StatusOf(i, r.query.arg, r.expired)
    BY <1>2, <1>5, <2>9, <2>10
  <2>12. \/ told.owner \in {None, Zero32}
         \/ told.owner \in (IF KeepsOwners THEN ownersKept ELSE r.owners)
    BY <2>7, <2>8
  <2>13. QED
    BY <2>11, <2>12 DEF told, view, rest
<1>8. QED
  BY <1>6, <1>7

-----------------------------------------------------------------------------
\* What is told of a locked swap

LEMMA SolanaLockedIs ==
  ASSUME NEW got
  PROVE  LET view == SolanaLockedSwap(got)
         IN  /\ got[1].state = "locked" => view = LockedView(TRUE, OwnerGot(got))
             /\ got[1].state = "released" => view = LockedView(FALSE, One)
             /\ got[1].state \in {"none", "unlocked"} => view = NotLocked
<1>1. got[1].state = "locked" => SolanaLockedSwap(got) = LockedView(TRUE, OwnerGot(got))
  BY Zenon DEF SolanaLockedSwap
<1>2. got[1].state = "released" => SolanaLockedSwap(got) = LockedView(FALSE, One)
  BY Zenon DEF SolanaLockedSwap
<1>3. got[1].state \in {"none", "unlocked"} => SolanaLockedSwap(got) = NotLocked
  BY Zenon DEF SolanaLockedSwap
<1>4. QED
  BY <1>1, <1>2, <1>3

LEMMA StarknetLockedIs ==
  ASSUME NEW got
  PROVE  LET view == StarknetLockedSwap(got)
         IN  /\ got[1].state = "locked" => view = LockedView(TRUE, StarknetAddress(OwnerGot(got)))
             /\ got[1].state = "released" => view = LockedView(FALSE, One)
             /\ got[1].state \in {"none", "unlocked"} => view = NotLocked
<1>1. got[1].state = "locked" =>
        StarknetLockedSwap(got) = LockedView(TRUE, StarknetAddress(OwnerGot(got)))
  BY Zenon DEF StarknetLockedSwap
<1>2. got[1].state = "released" => StarknetLockedSwap(got) = LockedView(FALSE, One)
  BY Zenon DEF StarknetLockedSwap
<1>3. got[1].state \in {"none", "unlocked"} => StarknetLockedSwap(got) = NotLocked
  BY Zenon DEF StarknetLockedSwap
<1>4. QED
  BY <1>1, <1>2, <1>3

LEMMA CkbLockedIs ==
  ASSUME NEW got
  PROVE  LET view == CkbLockedSwap(got, "wallet")
         IN  /\ got[1].state = "locked" => view = LockedView(TRUE, "wallet")
             /\ got[1].state # "locked" /\ got[2] => view = LockedView(FALSE, One)
             /\ got[1].state # "locked" /\ ~got[2] => view = NotLocked
BY DEF CkbLockedSwap

LEMMA EvmLockedIs ==
  ASSUME NEW got
  PROVE  LET view == EvmLockedSwap(got)
         IN  /\ got[1].state = "locked" => view = LockedView(TRUE, got[1].owner)
             /\ got[1].state = "released" => view = LockedView(FALSE, One)
             /\ got[1].state \in {"none", "unlocked"} => view = LockedView(FALSE, Zero20)
<1>1. got[1].state = "locked" => EvmLockedSwap(got) = LockedView(TRUE, got[1].owner)
  BY Zenon DEF EvmLockedSwap
<1>2. got[1].state = "released" => EvmLockedSwap(got) = LockedView(FALSE, One)
  BY Zenon DEF EvmLockedSwap
<1>3. got[1].state \in {"none", "unlocked"} => EvmLockedSwap(got) = LockedView(FALSE, Zero20)
  BY Zenon DEF EvmLockedSwap
<1>4. QED
  BY <1>1, <1>2, <1>3

LEMMA LockedViewIs ==
  ASSUME ChainOK, NEW got, got[1].state \in LockedStates, got[1].owner \in OwnerValues,
         got[1].state = "locked" /\ chain \notin {"ethers", "ckb"} => OwnerGot(got) \in OwnerValues
  PROVE  LET view == LockedSwapView(got)
         IN  /\ got[1].state = "locked" =>
                  /\ view.until = TRUE /\ FormatOwner(view.poolOwner) = OwnerMade(got)
                  /\ HasHandles(chain) => view.poolOwner = OwnerGot(got)
             /\ got[1].state # "locked" =>
                  /\ view.until = FALSE
                  /\ FormatOwner(view.poolOwner) = None <=>
                       IF chain = "ckb" THEN ~got[2] ELSE got[1].state \in {"none", "unlocked"}
<1> DEFINE view == LockedSwapView(got)
<1>1. chain \in {"ethers", "solana", "sui", "aptos", "starknet", "ckb"}
  BY ReadersAssumption DEF ChainOK
<1>2. CASE chain \in {"solana", "sui", "aptos"}
  <2>1. view = SolanaLockedSwap(got)
    <3>1. chain = "solana" => view = SolanaLockedSwap(got)
      BY Zenon DEF LockedSwapView
    <3>2. chain = "sui" => view = SuiLockedSwap(got)
      BY Zenon DEF LockedSwapView
    <3>3. chain = "aptos" => view = AptosLockedSwap(got)
      BY Zenon DEF LockedSwapView
    <3>4. QED
      BY <1>2, <3>1, <3>2, <3>3 DEF SuiLockedSwap, AptosLockedSwap
  <2>2. QED
    BY <1>2, <2>1, SolanaLockedIs, OwnerMadeIs, Nobody DEF LockedView, NotLocked, LockedStates
<1>3. CASE chain = "starknet"
  <2>1. view = StarknetLockedSwap(got)
    BY <1>3, Zenon DEF LockedSwapView
  <2>2. FormatOwner(StarknetAddress(OwnerGot(got))) = StarknetAddress(OwnerGot(got))
        \/ got[1].state # "locked"
    BY <1>3, Nobody DEF StarknetAddress
  <2>3. QED
    BY <1>3, <2>1, <2>2, StarknetLockedIs, OwnerMadeIs, Nobody DEF LockedView, NotLocked, LockedStates, HasHandles
<1>4. CASE chain = "ckb"
  <2>1. view = CkbLockedSwap(got, "wallet")
    BY <1>4, Zenon DEF LockedSwapView
  <2>2. QED
    BY <1>4, <2>1, CkbLockedIs, OwnerMadeIs, Nobody DEF LockedView, NotLocked, LockedStates, HasHandles
<1>5. CASE chain = "ethers"
  <2>1. view = EvmLockedSwap(got)
    BY <1>5, Zenon DEF LockedSwapView
  <2>2. QED
    BY <1>5, <2>1, EvmLockedIs, OwnerMadeIs, Nobody DEF LockedView, LockedStates, HasHandles
<1>6. QED
  BY <1>1, <1>2, <1>3, <1>4, <1>5

\* What a read tells of as a release.
ReleaseSeen(seen) ==
  \/ "released" \in seen
  \/ chain = "ckb" /\ (locked.state = "unlocked" \/ {"none", "locked"} \subseteq seen)

LEMMA LockedIsTold ==
  ASSUME ChainOK, CacheOK, NEW r, ReadOK(r), Asks(r) = Done, r.query.name = "getLockedSwap"
  PROVE  LET told == GetLockedSwap(LockedSwapView(Rest(r.got)), time)
         IN  /\ told.status \in {"None", "Released", "ErrorExpired", "Locked", "failure"}
             /\ told.status = "None" => "none" \in r.seen
             /\ told.status = "Released" => ReleaseSeen(r.seen)
             /\ told.status = "failure" => told.owner = None /\ chain = "sui" /\ OwnerAbsent
             /\ told.status \in {"ErrorExpired", "Locked"} =>
                  "locked" \in r.seen /\ (told.status = "ErrorExpired" <=> Until + Grace < time)
             /\ \/ told.owner \in {None, Zero32}
                \/ told.owner \in (IF KeepsOwners THEN ownersKept ELSE r.owners)
<1> DEFINE rest == Rest(r.got)
           a == rest[1]
           by == OwnerMade(rest)
           view == LockedSwapView(rest)
           told == GetLockedSwap(view, time)
<1>1. PICK o \in OwnerValues :
        /\ StoreReadOK(r, a, o)
        /\ a.state \in {"requested", "bonded", "locked"} /\ chain \notin {"ethers", "ckb"}
             => /\ OwnerReadOK(r, a.pool, OwnerGot(rest))
                /\ chain \in {"aptos", "starknet"} /\ a.pool = Pool /\ o # None
                     => OwnerGot(rest) # None
        /\ a.state # "locked" /\ chain = "ckb" => RefItemOK(r, rest[2])
  BY SwapReadDone
<1>2. /\ a.state \in LockedStates /\ a.owner \in OwnerValues
      /\ o \in r.owners /\ a.owner = (IF a.pool = Pool THEN o ELSE None)
      /\ a.state = "locked" => a.pool = Pool /\ o # None
      /\ IF a.state = "unlocked" THEN "none" \in r.seen /\ locked.state = "unlocked"
         ELSE a.state \in r.seen
  BY <1>1 DEF StoreReadOK, Stores, StoredOK
<1>3. r.owners \subseteq OwnerValues /\ ownersKept \subseteq OwnerValues
  BY DEF ReadOK, CacheOK
<1>4. chain \in {"ethers", "solana", "sui", "aptos", "starknet", "ckb"} /\ NoPool # Pool
  BY ReadersAssumption DEF ChainOK, NoPool, Pool
<1>5. a.state = "locked" /\ chain \notin {"ethers", "ckb"} =>
        OwnerGot(rest) \in (IF KeepsOwners THEN ownersKept ELSE r.owners)
  BY <1>1, <1>2 DEF OwnerReadOK
<1>6. a.state = "locked" /\ chain \notin {"ethers", "ckb"} => OwnerGot(rest) \in OwnerValues
  BY <1>3, <1>5
<1>7. /\ a.state = "locked" =>
           /\ view.until = TRUE /\ FormatOwner(view.poolOwner) = by
           /\ HasHandles(chain) => view.poolOwner = OwnerGot(rest)
      /\ a.state # "locked" =>
           /\ view.until = FALSE
           /\ FormatOwner(view.poolOwner) = None <=>
                IF chain = "ckb" THEN ~rest[2] ELSE a.state \in {"none", "unlocked"}
  BY <1>2, <1>6, LockedViewIs
<1> HIDE DEF view, by, a, rest
<1>8. CASE a.state # "locked"
  <2>1. told.owner = None
        /\ told.status = IF FormatOwner(view.poolOwner) = None THEN "None" ELSE "Released"
    BY <1>7, <1>8 DEF GetLockedSwap
  <2>2. CASE chain = "ckb"
    <3>1. RefItemOK(r, rest[2])
      BY <1>1, <1>8, <2>2
    <3>2. told.status = "None" => "none" \in r.seen
      BY <1>7, <1>8, <2>1, <2>2, <3>1 DEF RefItemOK
    <3>3. told.status = "Released" => ReleaseSeen(r.seen)
      BY <1>2, <1>7, <1>8, <2>1, <2>2, <3>1 DEF RefItemOK, LockedStates, ReleaseSeen
    <3>4. QED
      BY <2>1, <3>2, <3>3 DEF view, rest
  <2>3. CASE chain # "ckb"
    BY <1>2, <1>7, <1>8, <2>1, <2>3 DEF LockedStates, ReleaseSeen, view, rest
  <2>4. QED
    BY <2>2, <2>3
<1>9. CASE a.state = "locked" /\ Throws(view.poolOwner)
  <2>1. told = Failure
    BY <1>7, <1>9 DEF GetLockedSwap
  <2>2. chain \in {"sui", "aptos"} /\ OwnerGot(rest) = None
    BY <1>7, <1>9 DEF Throws, HasHandles
  <2>3. OwnerReadOK(r, Pool, None) /\ chain # "aptos"
    BY <1>1, <1>2, <1>9, <2>2
  <2>4. chain = "sui" /\ OwnerAbsent
    BY <2>2, <2>3 DEF OwnerReadOK, KeepsOwners, OwnerAbsent
  <2>5. QED
    BY <2>1, <2>4 DEF Failure, view, rest
<1>10. CASE a.state = "locked" /\ ~Throws(view.poolOwner)
  <2>1. told.owner = by /\ told.status = IF Until + Grace < time THEN "ErrorExpired" ELSE "Locked"
    BY <1>7, <1>10 DEF GetLockedSwap
  <2>2. by \in {None, Zero32} \/ by \in (IF KeepsOwners THEN ownersKept ELSE r.owners)
    <3>1. CASE chain = "ckb"
      BY <3>1, OwnerMadeIs DEF by, ReadOK, Past, ChainOK, KeepsOwners
    <3>2. CASE chain = "ethers"
      BY <1>2, <3>2, OwnerMadeIs DEF by, a, KeepsOwners
    <3>3. CASE chain \notin {"ckb", "ethers"}
      BY <1>4, <1>5, <1>10, <3>3, OwnerMadeIs DEF by, StarknetAddress
    <3>4. QED
      BY <3>1, <3>2, <3>3
  <2>3. QED
    BY <1>2, <1>10, <2>1, <2>2 DEF view, rest
<1>11. QED
  BY <1>8, <1>9, <1>10

-----------------------------------------------------------------------------
\* What is told of an owner and of a balance

LEMMA OwnerIsTold ==
  ASSUME ChainOK, CacheOK, NEW r, ReadOK(r), Asks(r) = Done, r.query.name = "ownerOfPool",
         NEW by, by = IF chain = "ckb" THEN "wallet" ELSE Rest(r.got)[1]
  PROVE  /\ by \in (IF KeepsOwners THEN ownersKept ELSE r.owners) /\ FormatOwner(by) = by
         /\ Throws(by) =>
              \/ chain = "sui" /\ OwnerAbsent
              \/ chain = "aptos" /\ None \in r.owners
<1> DEFINE rest == Rest(r.got)
<1>1. CASE chain = "ckb"
  BY <1>1, Nobody DEF ReadOK, Past, ChainOK, KeepsOwners, Throws, HasHandles
<1>2. CASE chain # "ckb"
  <2>1. rest # <<>> /\ Len(rest) \in Nat
    BY <1>2, DoneIs, RestIsSeq, SeqIs DEF ReadOK, NeedsTokens
  <2>2. Len(rest) >= 1
    BY <2>1, RestIsSeq, SeqIs DEF ReadOK
  <2>3. OwnerReadOK(r, Pool, rest[1])
        /\ rest[1] \in (IF KeepsOwners THEN ownersKept ELSE r.owners)
    BY <2>2 DEF ReadOK, GotOK, OwnerOfPoolOK, OwnerReadOK
  <2>4. FormatOwner(rest[1]) = rest[1]
    BY <2>3, Nobody DEF ReadOK, CacheOK
  <2>5. QED
    BY <1>2, <2>3, <2>4 DEF Throws, HasHandles, OwnerReadOK, KeepsOwners, OwnerAbsent
<1>3. QED
  BY <1>1, <1>2

LEMMA BalanceIsTold ==
  ASSUME ChainOK, NEW r, ReadOK(r), Asks(r) = Done, r.query.name = "getBalanceInPool", r.ready
  PROVE  PoolTokenBalance(chain, Rest(r.got)) \in r.seen
<1> DEFINE rest == Rest(r.got)
           n == Len(rest)
<1>1. BalanceReadOK(r, rest) /\ rest \in Seq(NodeValues) /\ n \in Nat /\ (rest = <<>> <=> n = 0)
  BY RestIsSeq, SeqIs DEF ReadOK, GotOK
<1>2. BalanceRequests(chain, r.query.arg, rest) = Done
  BY DoneIs DEF ReadOK, NeedsTokens
<1>3. chain \in {"ethers", "solana", "sui", "aptos", "starknet", "ckb"}
  BY ReadersAssumption DEF ChainOK
<1> HIDE DEF rest
<1>4. rest # <<>>
  BY <1>2, <1>3, BalanceRequestsAre DEF Request, Done
<1>5. n >= 1
  BY <1>1, <1>4
<1>6. CASE chain = "ckb"
  <2>1. PoolTokenBalance(chain, rest) = rest[1] \div 100
    BY <1>6, Zenon DEF PoolTokenBalance
  <2>2. QED
    BY <1>1, <1>5, <1>6, <2>1 DEF BalanceReadOK, rest
<1>7. CASE chain \in {"ethers", "starknet"}
  <2>1. PoolTokenBalance(chain, rest) = rest[1]
    BY <1>7, Zenon DEF PoolTokenBalance
  <2>2. QED
    BY <1>1, <1>5, <1>7, <2>1 DEF BalanceReadOK, rest
<1>8. CASE chain \in {"solana", "aptos", "sui"}
  <2>1. PoolTokenBalance(chain, rest) = IF rest[1] = NoPool THEN 0 ELSE rest[n]
    BY <1>8, Zenon DEF PoolTokenBalance
  <2>2. /\ rest[1] \in PoolValues /\ (rest[1] = NoPool => 0 \in r.seen)
        /\ n <= Whole /\ (n = Whole => rest[Whole] \in r.seen)
    BY <1>1, <1>5, <1>8 DEF BalanceReadOK
  <2>3. rest[1] # NoPool => n >= Whole /\ Whole \in Nat
    <3>1. CASE chain = "solana"
      <4>1. SolanaBalance(rest) = Done /\ Whole = 3
        BY <1>2, <1>4, <3>1, BalanceRequestsAre DEF Whole
      <4>2. QED
        BY <1>1, <1>5, <2>2, <3>1, <4>1, SolanaAsksOn
    <3>2. CASE chain = "aptos"
      <4>1. AptosBalance(rest) = Done /\ Whole = 3
        BY <1>2, <1>4, <3>2, BalanceRequestsAre DEF Whole
      <4>2. QED
        BY <1>1, <1>5, <2>2, <3>2, <4>1, AptosAsksOn
    <3>3. CASE chain = "sui"
      <4>1. SuiBalance(rest) = Done /\ Whole = 2
        BY <1>2, <1>4, <3>3, BalanceRequestsAre DEF Whole
      <4>2. QED
        BY <1>1, <1>5, <2>2, <3>3, <4>1, SuiAsksOn
    <3>4. QED
      BY <1>8, <3>1, <3>2, <3>3
  <2> HIDE DEF n
  <2>4. CASE rest[1] = NoPool
    BY <2>1, <2>2, <2>4 DEF rest
  <2>5. CASE rest[1] # NoPool
    BY <1>1, <2>1, <2>2, <2>3, <2>5 DEF rest, Whole
  <2>6. QED
    BY <2>4, <2>5
<1>9. QED
  BY <1>3, <1>6, <1>7, <1>8

-----------------------------------------------------------------------------
\* Steps

CacheGrows == \A q \in KeptRequests : cache[q].state = "done" => cache'[q] = cache[q]

\* The chain goes on, and what a read has got stays true of the time since it began.
LEMMA ReadGoesOn ==
  ASSUME CacheGrows, chain' = chain, ownersKept \subseteq ownersKept',
         authorized \subseteq authorized',
         locked.state = "unlocked" => locked'.state = "unlocked",
         owner # None => owner' # None, owner' \in OwnerValues,
         NEW r, ReadOK(r), NEW q, IsRead(q),
         q.query = r.query, q.ready = r.ready, q.got = r.got,
         q.seen = r.seen \union {Truth(r.query)'}, q.owners = r.owners \union {owner'}
  PROVE  ReadOK(q)'
<1>1. Request("owner", Pool) \in KeptRequests
  BY DEF KeptRequests
<1>2. \A o : cache[Request("owner", Pool)] = Kept(o) => cache'[Request("owner", Pool)] = Kept(o)
  BY <1>1 DEF CacheGrows, Kept
<1>3. \A pool, o : OwnerReadOK(r, pool, o) => OwnerReadOK(q, pool, o)'
  BY <1>2 DEF OwnerReadOK, KeepsOwners
<1>4. \A store, o : StoreReadOK(r, store, o) => StoreReadOK(q, store, o)'
  BY DEF StoreReadOK, StoredOK
<1>5. \A rest : SwapReadOK(r, rest) => SwapReadOK(q, rest)'
  <2>1. \A item : RefItemOK(r, item) => RefItemOK(q, item)'
    BY DEF RefItemOK
  <2>2. QED
    BY <1>3, <1>4, <2>1 DEF SwapReadOK
<1>6. \A rest : OwnerOfPoolOK(r, rest) => OwnerOfPoolOK(q, rest)'
  BY <1>3 DEF OwnerOfPoolOK
<1>7. \A rest : BalanceReadOK(r, rest) => BalanceReadOK(q, rest)'
  BY DEF BalanceReadOK, Whole
<1>8. Rest(r.got)' = Rest(r.got)
  BY DEF Rest
<1>9. GotOK(q, Rest(r.got))'
  BY <1>5, <1>6, <1>7, <1>8 DEF GotOK, ReadOK
<1>10. Past(q.owners)' /\ q.owners \subseteq OwnerValues
  BY DEF ReadOK, Past
<1>11. QED
  BY <1>9, <1>10 DEF ReadOK, QueryOK, IsRead

LEMMA SilentIsOK ==
  ASSUME said' = NoAnswer
  PROVE  SaidOK'
BY DEF SaidOK, NoAnswer, PostedWasSo, LockedWasSo, OwnerWasOwner, BalanceWasSo

LEMMA ChainMoves ==
  ASSUME ReadsInv, NEW vs, Changed(vs), ChainOK',
         authorized \subseteq authorized',
         locked.state = "unlocked" => locked'.state = "unlocked",
         owner # None => owner' # None
  PROVE  ReadsInv'
<1>1. /\ chain' = chain /\ cache' = cache /\ ownersKept' = ownersKept \union {owner'}
      /\ said' = NoAnswer
      /\ reads' = [i \in Slots |-> IF reads[i] = Idle THEN Idle
           ELSE [reads[i] EXCEPT
                   !.seen = @ \union {Truth(q)' : q \in {reads[i].query}},
                   !.owners = @ \union {owner'}]]
  BY DEF Changed
<1>2. owner' \in OwnerValues
  BY DEF ChainOK, OwnerValues
<1>3. CacheOK' /\ CacheGrows
  BY <1>1, <1>2 DEF ReadsInv, CacheOK, CacheGrows, Past
<1>4. ASSUME NEW i \in Slots, reads'[i] # Idle
      PROVE  ReadOK(reads[i])'
  <2>1. PICK r : r = reads[i]
    OBVIOUS
  <2>2. PICK query : query = r.query
    OBVIOUS
  <2>3. reads'[i] = [r EXCEPT !.seen = @ \union {Truth(query)'}, !.owners = @ \union {owner'}]
        /\ r # Idle
    <3>1. reads'[i] = IF r = Idle THEN Idle
            ELSE [r EXCEPT !.seen = @ \union {Truth(q)' : q \in {query}},
                           !.owners = @ \union {owner'}]
      BY <1>1, <2>1, <2>2
    <3>2. {Truth(q)' : q \in {query}} = {Truth(query)'}
      OBVIOUS
    <3>3. QED
      BY <1>4, <3>1, <3>2
  <2>4. ReadOK(r)
    BY <2>1, <2>3 DEF ReadsInv
  <2>5. PICK p : p = reads'[i]
    OBVIOUS
  <2>6. IsRead(p) /\ p.query = r.query /\ p.ready = r.ready /\ p.got = r.got
        /\ p.seen = r.seen \union {Truth(r.query)'} /\ p.owners = r.owners \union {owner'}
    BY <2>2, <2>3, <2>4, <2>5 DEF ReadOK, IsRead
  <2>7. ReadOK(p)'
    BY <1>1, <1>2, <1>3, <2>4, <2>6, ReadGoesOn
  <2>8. QED
    BY <2>5, <2>7
<1>5. QED
  BY <1>1, <1>3, <1>4, SilentIsOK DEF ReadsInv

\* The page goes on, and the chain is left alone.
LEMMA PageMoves ==
  ASSUME ReadsInv, UNCHANGED <<swapVars, ownersKept>>, CacheOK', CacheGrows,
         DOMAIN reads' = Slots,
         \A i \in Slots : reads'[i] # Idle /\ reads'[i] # reads[i] => ReadOK(reads'[i]),
         SaidOK'
  PROVE  ReadsInv'
<1>1. ChainOK'
  BY DEF ReadsInv, ChainOK, swapVars, StoredOK
<1>2. ASSUME NEW r, ReadOK(r) PROVE ReadOK(r)'
  <2>1. owner \in r.owners /\ Truth(r.query) \in r.seen /\ Truth(r.query)' = Truth(r.query)
    BY <1>2 DEF ReadOK, Past, swapVars, Truth, PostedKind, LockedKind, TrueBalance
  <2>2. owner' \in OwnerValues
    BY <1>1 DEF ChainOK
  <2>3. r.seen = r.seen \union {Truth(r.query)'} /\ r.owners = r.owners \union {owner'} /\ IsRead(r)
    BY <1>2, <2>1 DEF swapVars, ReadOK
  <2>4. QED
    BY <1>2, <2>2, <2>3, ReadGoesOn DEF swapVars
<1>3. ASSUME NEW i \in Slots, reads'[i] # Idle
      PROVE  ReadOK(reads[i])'
  <2>1. ReadOK(reads'[i])
    BY <1>3 DEF ReadsInv
  <2>2. QED
    BY <1>2, <2>1
<1>4. QED
  BY <1>1, <1>3 DEF ReadsInv

-----------------------------------------------------------------------------
\* What is said at the end of a read

LEMMA ToldIs ==
  ASSUME ChainOK, CacheOK, NEW r, ReadOK(r), Asks(r) = Done, ~NeedsTokens(r)
  PROVE  LET rest == Rest(r.got)
         IN  /\ r.query.name = "getPostedSwap" =>
                  Told(r) = GetPostedSwap(PostedSwapView(rest), r.query.arg, r.expired)
             /\ r.query.name = "getLockedSwap" =>
                  Told(r) = GetLockedSwap(LockedSwapView(rest), time)
             /\ r.query.name = "ownerOfPool" =>
                  Told(r) = OwnerOfPool(IF chain = "ckb" THEN "wallet" ELSE rest[1])
             /\ r.query.name = "getBalanceInPool" =>
                  Told(r) = [status |-> "balance", owner |-> None,
                             balance |-> PoolTokenBalance(chain, rest)]
<1> DEFINE rest == Rest(r.got)
           by == IF chain = "ckb" THEN "wallet" ELSE rest[1]
<1>1. rest = IF HasHandles(chain) THEN Tail(r.got) ELSE r.got
  BY DoneIs DEF ReadOK
<1>2. Told(r) =
        CASE r.query.name = "getPostedSwap" ->
               GetPostedSwap(PostedSwapView(rest), r.query.arg, r.expired)
          [] r.query.name = "getLockedSwap" -> GetLockedSwap(LockedSwapView(rest), time)
          [] r.query.name = "ownerOfPool" -> OwnerOfPool(by)
          [] OTHER -> [status |-> "balance", owner |-> None,
                       balance |-> PoolTokenBalance(chain, rest)]
  BY <1>1, Zenon DEF Told
<1> HIDE DEF by, rest
<1>5. r.query.name = "getPostedSwap" =>
        Told(r) = GetPostedSwap(PostedSwapView(rest), r.query.arg, r.expired)
  BY <1>2, Zenon
<1>6. r.query.name = "getLockedSwap" => Told(r) = GetLockedSwap(LockedSwapView(rest), time)
  BY <1>2, Zenon
<1>7. r.query.name = "ownerOfPool" => Told(r) = OwnerOfPool(by)
  BY <1>2, Zenon
<1>8. r.query.name = "getBalanceInPool" =>
        Told(r) = [status |-> "balance", owner |-> None, balance |-> PoolTokenBalance(chain, rest)]
  BY <1>2, Zenon
<1>9. QED
  BY <1>5, <1>6, <1>7, <1>8 DEF by, rest

\* A read that fails, or finds no such token, says nothing of the chain.
LEMMA FailureIsOK ==
  ASSUME NEW answer, answer.owner = None,
         said'.answer = answer,
         answer.status = "failure"
           \/ (answer.status = "no token" /\ said'.query.name = "getBalanceInPool")
  PROVE  SaidOK'
BY DEF SaidOK, PostedWasSo, LockedWasSo, OwnerWasOwner, BalanceWasSo

LEMMA ToldIsOK ==
  ASSUME ChainOK, CacheOK, NEW r, ReadOK(r), Asks(r) = Done, ~NeedsTokens(r),
         said'.query = r.query, said'.seen = r.seen, said'.owners = r.owners,
         said'.expired = r.expired, said'.answer = Told(r),
         UNCHANGED <<swapVars, cache, ownersKept>>
  PROVE  SaidOK'
<1>1. r.query.name \in {"getPostedSwap", "getLockedSwap", "ownerOfPool", "getBalanceInPool"}
  BY DEF ReadOK, QueryOK
<1>2. /\ chain' = chain /\ owner' = owner /\ cache' = cache /\ time' = time /\ locked' = locked
      /\ ownersKept' = ownersKept
  BY DEF swapVars
<1>3. CASE r.query.name = "getPostedSwap"
  <2> DEFINE told == GetPostedSwap(PostedSwapView(Rest(r.got)), r.query.arg, r.expired)
  <2>1. /\ \E k \in UNION {TakenFor(j) : j \in r.seen} :
             told.status = StatusOf(k, r.query.arg, r.expired)
        /\ \/ told.owner \in {None, Zero32}
           \/ told.owner \in (IF KeepsOwners THEN ownersKept ELSE r.owners)
    BY <1>3, PostedIsTold
  <2>2. said'.answer = told
    BY <1>3, ToldIs
  <2> HIDE DEF told
  <2>3. \A k : TakenFor(k)' = TakenFor(k)
    BY <1>2 DEF TakenFor, OwnerAbsent
  <2>4. \A k, a, e : StatusOf(k, a, e)' = StatusOf(k, a, e)
    BY DEF StatusOf, PendingStatus
  <2>5. PostedWasSo'
    BY <2>1, <2>2, <2>3, <2>4 DEF PostedWasSo
  <2>6. OwnerWasOwner'
    BY <1>2, <2>1, <2>2 DEF OwnerWasOwner, KeepsOwners
  <2>7. QED
    BY <1>3, <2>5, <2>6 DEF SaidOK, LockedWasSo, BalanceWasSo
<1>4. CASE r.query.name = "getLockedSwap"
  <2> DEFINE told == GetLockedSwap(LockedSwapView(Rest(r.got)), time)
  <2>1. /\ told.status \in {"None", "Released", "ErrorExpired", "Locked", "failure"}
        /\ told.status = "None" => "none" \in r.seen
        /\ told.status = "Released" => ReleaseSeen(r.seen)
        /\ told.status \in {"ErrorExpired", "Locked"} =>
             "locked" \in r.seen /\ (told.status = "ErrorExpired" <=> Until + Grace < time)
        /\ \/ told.owner \in {None, Zero32}
           \/ told.owner \in (IF KeepsOwners THEN ownersKept ELSE r.owners)
    BY <1>4, LockedIsTold
  <2>2. said'.answer = told
    BY <1>4, ToldIs
  <2> HIDE DEF told
  <2>3. LockedWasSo'
    <3>1. said'.answer.status \in {"None", "Released", "ErrorExpired", "Locked", "failure"}
      BY <2>1, <2>2
    <3>2. CASE said'.answer.status = "None"
      BY <2>1, <2>2, <3>2, Zenon DEF LockedWasSo
    <3>3. CASE said'.answer.status = "Released"
      <4>1. ReleaseSeen(said.seen)'
        BY <1>2, <2>1, <2>2, <3>3 DEF ReleaseSeen
      <4>2. said'.answer.status # "None"
        BY <3>3
      <4>3. QED
        BY <3>3, <4>1, <4>2, Zenon DEF LockedWasSo, ReleaseSeen
    <3>4. CASE said'.answer.status \in {"ErrorExpired", "Locked"}
      <4>1. "locked" \in said'.seen
            /\ (said'.answer.status = "ErrorExpired" <=> (Until + Grace < time)')
        BY <1>2, <2>1, <2>2, <3>4 DEF Until, Grace
      <4>2. said'.answer.status # "None" /\ said'.answer.status # "Released"
        BY <3>4
      <4>3. QED
        BY <4>1, <4>2, Zenon DEF LockedWasSo
    <3>5. CASE said'.answer.status = "failure"
      BY <3>5, Zenon DEF LockedWasSo
    <3>6. QED
      BY <3>1, <3>2, <3>3, <3>4, <3>5
  <2>4. OwnerWasOwner'
    BY <1>2, <2>1, <2>2 DEF OwnerWasOwner, KeepsOwners
  <2>5. QED
    BY <1>4, <2>3, <2>4 DEF SaidOK, PostedWasSo, BalanceWasSo
<1>5. CASE r.query.name = "ownerOfPool"
  <2> DEFINE by == IF chain = "ckb" THEN "wallet" ELSE Rest(r.got)[1]
  <2>1. Told(r) = OwnerOfPool(by)
    BY <1>5, ToldIs
  <2>2. by \in (IF KeepsOwners THEN ownersKept ELSE r.owners) /\ FormatOwner(by) = by
    BY <1>5, OwnerIsTold
  <2> HIDE DEF by
  <2>3. said'.answer.owner \in {None, by}
    BY <2>1, <2>2 DEF OwnerOfPool, Failure
  <2>4. OwnerWasOwner'
    BY <1>2, <2>2, <2>3 DEF OwnerWasOwner, KeepsOwners
  <2>5. QED
    BY <1>5, <2>4 DEF SaidOK, PostedWasSo, LockedWasSo, BalanceWasSo
<1>6. CASE r.query.name = "getBalanceInPool"
  <2>1. r.ready
    BY <1>6 DEF NeedsTokens
  <2>2. PoolTokenBalance(chain, Rest(r.got)) \in r.seen
    BY <1>6, <2>1, BalanceIsTold
  <2>3. said'.answer.balance \in said'.seen
    BY <1>6, <2>2, ToldIs
  <2>4. QED
    BY <1>6, <2>3 DEF SaidOK, PostedWasSo, LockedWasSo, OwnerWasOwner, BalanceWasSo
<1>7. QED
  BY <1>1, <1>3, <1>4, <1>5, <1>6

-----------------------------------------------------------------------------
\* The inductive invariant: initially, and over every step

LEMMA ReadsBegin == ReadsInit => ReadsInv
<1> SUFFICES ASSUME ReadsInit PROVE ReadsInv
  OBVIOUS
<1>1. ChainOK
  BY ReadersAssumption DEF ReadsInit, ChainOK, OwnerValues, PostedStates, LockedStates,
       PoolValues, StoredOK
<1>2. CacheOK
  <2>1. owner \in OwnerValues
    BY <1>1 DEF ChainOK
  <2>2. QED
    BY <2>1 DEF ReadsInit, CacheOK, Past, NotAsked
<1>3. SaidOK
  BY DEF ReadsInit, SaidOK, NoAnswer, PostedWasSo, LockedWasSo, OwnerWasOwner, BalanceWasSo
<1>4. QED
  BY <1>1, <1>2, <1>3 DEF ReadsInit, ReadsInv

LEMMA ChainNextOK ==
  ASSUME ReadsInv, ChainNext
  PROVE  ReadsInv'
<1>1. ChainOK /\ Pool = 1 /\ NoPool = 0
  BY DEF ReadsInv, Pool, NoPool
<1>2. None # "wallet" /\ \A a \in {Owners[1], Owners[2]} : a # None /\ a # "wallet"
  BY ReadersAssumption
<1>3. CASE RegisterPool
  <2>1. Changed(<<posted, locked, listed, balance, time>>)
    BY <1>3 DEF RegisterPool
  <2>2. ChainOK'
    BY <1>1, <1>2, <1>3, <2>1 DEF RegisterPool, Changed, ChainOK, StoredOK, OwnerValues
  <2>3. authorized \subseteq authorized'
    BY <1>1, <1>3 DEF RegisterPool, ChainOK
  <2>4. QED
    BY <1>2, <1>3, <2>1, <2>2, <2>3, ChainMoves DEF RegisterPool, Changed
<1>4. CASE TransferPoolOwner
  <2>1. Changed(<<posted, locked, listed, balance, time>>)
    BY <1>4 DEF TransferPoolOwner
  <2>2. ChainOK'
    BY <1>1, <1>2, <1>4, <2>1 DEF TransferPoolOwner, Changed, ChainOK, StoredOK, OwnerValues
  <2>3. QED
    BY <1>2, <1>4, <2>1, <2>2, ChainMoves DEF TransferPoolOwner, Changed
<1>5. CASE AddSupportToken
  <2>1. Changed(<<posted, locked, owner, authorized, balance, time>>)
    BY <1>5 DEF AddSupportToken
  <2>2. ChainOK'
    BY <1>1, <1>5, <2>1 DEF AddSupportToken, Changed, ChainOK, StoredOK
  <2>3. QED
    BY <1>5, <2>1, <2>2, ChainMoves DEF AddSupportToken, Changed
<1>6. CASE MoveBalance
  <2>1. Changed(<<posted, locked, owner, authorized, listed, time>>)
    BY <1>6 DEF MoveBalance
  <2>2. ChainOK'
    <3>1. balance' \in {0, 1}
      BY <1>1, <1>6 DEF MoveBalance, ChainOK
    <3>2. QED
      BY <1>1, <2>1, <3>1 DEF Changed, ChainOK, StoredOK
  <2>3. QED
    BY <1>6, <2>1, <2>2, ChainMoves DEF MoveBalance, Changed
<1>7. ASSUME NEW pool \in {NoPool, Pool}, Post(pool)
      PROVE  ReadsInv'
  <2>1. Changed(<<locked, owner, authorized, listed, balance, time>>)
    BY <1>7 DEF Post
  <2>2. posted' \in [state : PostedStates, pool : PoolValues] /\ StoredOK(posted')
    BY <1>1, <1>7, <2>1 DEF Post, PostedStates, PoolValues, StoredOK
  <2>3. ChainOK'
    BY <1>1, <2>1, <2>2 DEF Changed, ChainOK, StoredOK
  <2>4. QED
    BY <1>7, <2>1, <2>3, ChainMoves DEF Post, Changed
<1>8. ASSUME NEW from \in {"requested", "bonded"}, NEW to \in {"bonded", "executed", "cancelled"},
             PostedStep(from, to)
      PROVE  ReadsInv'
  <2>1. Changed(<<locked, owner, authorized, listed, balance, time>>)
    BY <1>8 DEF PostedStep
  <2>2. posted \in [state : PostedStates, pool : PoolValues]
    BY <1>1 DEF ChainOK
  <2>3. posted' \in [state : PostedStates, pool : PoolValues] /\ StoredOK(posted')
    BY <1>1, <1>8, <2>1, <2>2 DEF PostedStep, PostedStates, PoolValues, StoredOK
  <2>4. ChainOK'
    BY <1>1, <2>1, <2>3 DEF Changed, ChainOK, StoredOK
  <2>5. QED
    BY <2>1, <2>4, ChainMoves DEF Changed
<1>9. ASSUME NEW from \in {"none", "locked"}, NEW to \in {"locked", "released", "unlocked"},
             LockStep(from, to), to = "locked" => owner # None
      PROVE  ReadsInv'
  <2>1. Changed(<<posted, owner, authorized, listed, balance, time>>)
    BY <1>9 DEF LockStep
  <2>2. locked' \in [state : LockedStates, pool : PoolValues] /\ StoredOK(locked')
    BY <1>1, <1>9 DEF LockStep, LockedStates, PoolValues, StoredOK
  <2>3. ChainOK'
    BY <1>1, <1>9, <2>1, <2>2 DEF LockStep, Changed, ChainOK, StoredOK
  <2>4. locked.state # "unlocked"
    BY <1>9 DEF LockStep
  <2>5. QED
    BY <2>1, <2>3, <2>4, ChainMoves DEF Changed
<1>10. CASE TimePasses
  <2>1. Changed(<<posted, locked, owner, authorized, listed, balance>>)
    BY <1>10 DEF TimePasses
  <2>2. ChainOK'
    BY <1>1, <2>1 DEF Changed, ChainOK, StoredOK
  <2>3. QED
    BY <2>1, <2>2, ChainMoves DEF Changed
<1>11. CASE \E pool \in {NoPool, Pool} : Post(pool)
  BY <1>7, <1>11
<1>12. CASE Bond \/ EndPosted
  BY <1>8, <1>12 DEF Bond, EndPosted
<1>13. CASE Lock \/ ReleaseLocked \/ Unlock
  BY <1>9, <1>13 DEF Lock, ReleaseLocked, Unlock
<1>14. QED
  BY <1>3, <1>4, <1>5, <1>6, <1>10, <1>11, <1>12, <1>13 DEF ChainNext

\* What a read asks next is asked of a node, or has been kept.
LEMMA NextOfIs ==
  ASSUME NEW i, NextOf(i) # Done
  PROVE  reads[i] # Idle /\ NextOf(i) = Asks(reads[i])
BY DEF NextOf

LEMMA MemoizedKept ==
  ASSUME NEW q, Memoized(chain, q), q \in KeptRequests, cache[q].state = "done", CacheOK
  PROVE  IsAnswer(q, cache[q].answer)
BY DEF IsAnswer, CacheOK

\* One read goes on, and nothing is said.
LEMMA OneReadMoves ==
  ASSUME ReadsInv, UNCHANGED <<swapVars, ownersKept>>, CacheOK', CacheGrows, said' = NoAnswer,
         NEW i \in Slots, NEW p, reads' = [reads EXCEPT ![i] = p], p # Idle => ReadOK(p)
  PROVE  ReadsInv'
<1>1. DOMAIN reads' = Slots /\ \A j \in Slots : reads'[j] = IF j = i THEN p ELSE reads[j]
  BY DEF ReadsInv
<1>2. \A j \in Slots : reads'[j] # Idle /\ reads'[j] # reads[j] => ReadOK(reads'[j])
  BY <1>1
<1>3. QED
  BY <1>1, <1>2, SilentIsOK, PageMoves

\* One read ends.
LEMMA OneReadEnds ==
  ASSUME ReadsInv, UNCHANGED <<swapVars, cache, ownersKept>>, SaidOK',
         NEW i \in Slots, reads' = [reads EXCEPT ![i] = Idle]
  PROVE  ReadsInv'
<1>1. DOMAIN reads' = Slots /\ \A j \in Slots : reads'[j] = IF j = i THEN Idle ELSE reads[j]
  BY DEF ReadsInv
<1>2. CacheOK' /\ CacheGrows
  BY DEF ReadsInv, CacheOK, CacheGrows, Past, swapVars
<1>3. \A j \in Slots : reads'[j] # Idle /\ reads'[j] # reads[j] => ReadOK(reads'[j])
  BY <1>1
<1>4. QED
  BY <1>1, <1>2, <1>3, PageMoves

LEMMA QueriesOK ==
  ASSUME NEW query \in Queries
  PROVE  QueryOK(query)
<1> DEFINE asked == CASE subject = "posted" ->
                           {[name |-> "getPostedSwap", arg |-> a] : a \in {Initiator, Other}}
                      [] subject = "locked" -> {[name |-> "getLockedSwap", arg |-> Initiator]}
                      [] OTHER ->
                           {[name |-> "getBalanceInPool", arg |-> a] : a \in {Owners[1], Owners[2]}}
<1>1. query \in {[name |-> "ownerOfPool", arg |-> Pool]} \union asked
  BY DEF Queries
<1>2. subject = "posted" =>
        asked = {[name |-> "getPostedSwap", arg |-> a] : a \in {Initiator, Other}}
  BY Zenon
<1>3. subject = "locked" => asked = {[name |-> "getLockedSwap", arg |-> Initiator]}
  BY Zenon
<1>4. subject \notin {"posted", "locked"} =>
        asked = {[name |-> "getBalanceInPool", arg |-> a] : a \in {Owners[1], Owners[2]}}
  BY Zenon
<1> HIDE DEF asked
<1>5. QED
  BY <1>1, <1>2, <1>3, <1>4 DEF QueryOK

\* A promise is kept, or rejected; the owner of a pool is kept as it is then.
LEMMA CacheStep ==
  ASSUME ChainOK, CacheOK, UNCHANGED <<swapVars, ownersKept>>, NEW q,
         \/ cache' = cache
         \/ cache[q] = NotAsked /\ cache' = [cache EXCEPT ![q] = Waiting]
         \/ cache[q] = Waiting /\ cache' = [cache EXCEPT ![q] = Rejected]
         \/ cache[q] = Waiting /\ cache' = [cache EXCEPT ![q] = Kept(Answer(q))]
  PROVE  CacheOK' /\ CacheGrows
<1>1. Answer(q) \in NodeValues
      /\ (q = Request("owner", NoPool) => Answer(q) = None)
      /\ (q = Request("owner", Pool) => Answer(q) \in ownersKept)
  BY AnswersAre DEF Request, CacheOK, Past, Pool, NoPool
<1>2. owner' = owner /\ ownersKept' = ownersKept
  BY DEF swapVars
<1>3. NotAsked.state = "none" /\ Waiting.state = "pending" /\ Rejected.state = "rejected"
      /\ \A v : Kept(v).state = "done" /\ Kept(v).answer = v
  BY DEF NotAsked, Waiting, Rejected, Kept
<1>4. DOMAIN cache' = KeptRequests
  BY DEF CacheOK
<1>5. CacheGrows
  BY <1>3 DEF CacheGrows, CacheOK
<1>6. ASSUME NEW p \in KeptRequests, cache'[p].state = "done"
      PROVE  /\ cache'[p] = Kept(cache'[p].answer) /\ cache'[p].answer \in NodeValues
             /\ p = Request("owner", NoPool) => cache'[p].answer = None
             /\ p = Request("owner", Pool) => cache'[p].answer \in ownersKept
  <2>1. \/ cache'[p] = cache[p] \/ cache'[p] = Waiting \/ cache'[p] = Rejected
        \/ p = q /\ cache'[p] = Kept(Answer(q))
    BY DEF CacheOK
  <2>2. CASE cache'[p] = cache[p]
    BY <1>6, <2>2 DEF CacheOK
  <2>3. CASE p = q /\ cache'[p] = Kept(Answer(q))
    BY <1>1, <1>3, <2>3
  <2>4. QED
    BY <1>3, <1>6, <2>1, <2>2, <2>3
<1>7. QED
  BY <1>2, <1>4, <1>5, <1>6 DEF CacheOK, Past

\* What is memoized is one of the requests that are kept.
LEMMA AsksKept ==
  ASSUME ChainOK, CacheOK, NEW r, ReadOK(r), Memoized(chain, Asks(r))
  PROVE  Asks(r) \in KeptRequests
<1> DEFINE rest == Rest(r.got)
<1>1. Asks(r).of \in {"handles", "tokens", "owner", "coinStore"} /\ Asks(r) # Done
  BY MemoizedAre DEF Done
<1>2. /\ Handles \in KeptRequests /\ Request("tokens", NoPool) \in KeptRequests
      /\ Request("coinStore", NoPool) \in KeptRequests
      /\ \A pool \in PoolValues : Request("owner", pool) \in KeptRequests
  BY DEF KeptRequests, PoolValues
<1>3. r.got \in Seq(NodeValues) /\ QueryOK(r.query) /\ GotOK(r, rest)
      /\ rest \in Seq(NodeValues) /\ Len(rest) \in Nat /\ (rest = <<>> <=> Len(rest) = 0)
  BY RestIsSeq, SeqIs DEF ReadOK
<1>4. CASE HasHandles(chain) /\ r.got = <<>>
  <2>1. Asks(r) = Handles
    BY <1>1, <1>4, Zenon DEF Asks, NextRequest
  <2>2. QED
    BY <1>2, <2>1
<1>5. CASE ~(HasHandles(chain) /\ r.got = <<>>)
  <2>1. /\ r.query.name = "getPostedSwap" => Asks(r) = PostedRequests(chain, rest)
        /\ r.query.name = "getLockedSwap" => Asks(r) = LockedRequests(chain, rest)
        /\ r.query.name = "ownerOfPool" => Asks(r) = Request("owner", r.query.arg)
        /\ r.query.name = "getBalanceInPool" /\ r.ready =>
             Asks(r) = BalanceRequests(chain, r.query.arg, rest)
        /\ NeedsTokens(r) => Asks(r) = Request("tokens", NoPool)
    BY <1>1, <1>3, <1>5, AsksAre
  <2> HIDE DEF rest
  <2>2. CASE r.query.name \in {"getPostedSwap", "getLockedSwap"}
    <3>1. rest # <<>>
      BY <1>1, <2>1, <2>2 DEF PostedRequests, LockedRequests, Request
    <3>2. Len(rest) >= 1
      BY <1>3, <3>1
    <3>3. rest[1].pool \in PoolValues
      BY <1>3, <2>2, <3>2 DEF GotOK, SwapReadOK, StoreReadOK, Stores, rest
    <3>4. Asks(r) = OwnerRequest(chain, rest[1].pool)
      BY <1>1, <2>1, <2>2, <3>1 DEF PostedRequests, LockedRequests, Request
    <3>5. Asks(r) = Request("owner", rest[1].pool)
      BY <1>1, <3>4 DEF OwnerRequest, SolanaOwner, SuiOwner, AptosOwner
    <3>6. QED
      BY <1>2, <3>3, <3>5
  <2>3. CASE r.query.name = "ownerOfPool"
    BY <1>2, <1>3, <2>1, <2>3 DEF QueryOK, PoolValues
  <2>4. CASE NeedsTokens(r)
    BY <1>2, <2>1, <2>4
  <2>5. CASE r.query.name = "getBalanceInPool" /\ r.ready
    <3>1. Asks(r) = BalanceRequests(chain, r.query.arg, rest) /\ BalanceReadOK(r, rest)
      BY <1>3, <2>1, <2>5 DEF GotOK, rest
    <3>2. rest # <<>>
      <4>1. SUFFICES ASSUME rest = <<>> PROVE FALSE
        OBVIOUS
      <4>2. chain \in {"ethers", "solana", "sui", "aptos", "starknet", "ckb"}
        BY ReadersAssumption DEF ChainOK
      <4>3. QED
        BY <1>1, <3>1, <4>1, <4>2, BalanceRequestsAre DEF Request
    <3>3. \/ chain = "solana" /\ Asks(r) = SolanaBalance(rest)
          \/ chain = "aptos" /\ Asks(r) = AptosBalance(rest)
          \/ chain = "sui" /\ Asks(r) = SuiBalance(rest)
      <4>1. chain \in {"ethers", "solana", "sui", "aptos", "starknet", "ckb"}
        BY ReadersAssumption DEF ChainOK
      <4>2. QED
        BY <1>1, <3>1, <3>2, <4>1, BalanceRequestsAre
    <3>4. PICK n \in Nat : n = Len(rest) /\ n >= 1
      BY <1>3, <3>2
    <3>5. n <= 3 /\ rest[1] \in PoolValues
      BY <3>1, <3>3, <3>4 DEF BalanceReadOK, Whole
    <3>6. CASE chain = "solana" /\ Asks(r) = SolanaBalance(rest)
      <4>1. Asks(r) = IF n = 1 THEN Request("tokens", NoPool)
                      ELSE IF n > 2 \/ rest[1] = NoPool THEN Done
                      ELSE <<Done, Request("balance", rest[1])>>[n]
        BY <3>4, <3>6 DEF SolanaBalance, OfPool
      <4>2. n = 1 \/ Asks(r) = Done \/ Asks(r) = Request("balance", rest[1])
        BY <3>4, <4>1
      <4>3. QED
        BY <1>1, <1>2, <4>1, <4>2 DEF Request
    <3>7. CASE chain = "aptos" /\ Asks(r) = AptosBalance(rest)
      <4>1. Asks(r) = IF n > 2 \/ rest[1] = NoPool THEN Done
                      ELSE <<Request("coinStore", NoPool), Request("balance", rest[1])>>[n]
        BY <3>4, <3>7 DEF AptosBalance, OfPool
      <4>2. \/ Asks(r) \in {Done, Request("coinStore", NoPool), Request("balance", rest[1])}
        BY <3>4, <4>1
      <4>3. QED
        BY <1>1, <1>2, <4>2 DEF Request
    <3>8. CASE chain = "sui" /\ Asks(r) = SuiBalance(rest)
      <4>1. Asks(r) = IF n > 1 \/ rest[1] = NoPool THEN Done
                      ELSE <<Request("balance", rest[1])>>[n]
        BY <3>4, <3>8 DEF SuiBalance, OfPool
      <4>2. Asks(r) \in {Done, Request("balance", rest[1])}
        BY <3>4, <4>1
      <4>3. QED
        BY <1>1, <4>2 DEF Request
    <3>9. QED
      BY <3>3, <3>6, <3>7, <3>8
  <2>6. QED
    BY <1>3, <2>2, <2>3, <2>4, <2>5 DEF QueryOK, NeedsTokens
<1>6. QED
  BY <1>4, <1>5

\* One read fails, or finds no such token.
LEMMA OneReadFails ==
  ASSUME ReadsInv, UNCHANGED <<swapVars, cache, ownersKept>>, NEW i \in Slots, NEW how,
         \/ how = "failure"
         \/ how = "no token" /\ reads[i].query.name = "getBalanceInPool",
         Ends(i, [status |-> how, owner |-> None])
  PROVE  ReadsInv'
<1>1. PICK answer : answer = [status |-> how, owner |-> None]
  OBVIOUS
<1>2. said'.answer = answer /\ said'.query = reads[i].query /\ reads' = [reads EXCEPT ![i] = Idle]
  BY <1>1 DEF Ends
<1>3. answer.status = how /\ answer.owner = None
  BY <1>1
<1>4. SaidOK'
  BY <1>2, <1>3, FailureIsOK
<1>5. QED
  BY <1>2, <1>4, OneReadEnds

\* The page only: a step of one read, or of the promises that are kept.
LEMMA PageNextOK ==
  ASSUME ReadsInv, ReadsNext, ~ChainNext
  PROVE  ReadsInv'
<1>1. ChainOK /\ CacheOK /\ \A i \in Slots : reads[i] # Idle => ReadOK(reads[i])
  BY DEF ReadsInv
<1>2. ASSUME UNCHANGED <<swapVars, ownersKept, cache>> PROVE CacheOK' /\ CacheGrows
  BY <1>1, <1>2 DEF CacheOK, CacheGrows, Past, swapVars
<1>3. ASSUME NEW i \in Slots, NEW query \in Queries, StartRead(i, query)
      PROVE  ReadsInv'
  <2>1. PICK p : p = [query |-> query, ready |-> tokens # None, got |-> <<>>, asked |-> FALSE,
                      expired |-> ExpireTs < time, seen |-> {Truth(query)}, owners |-> {owner}]
    OBVIOUS
  <2>2. reads' = [reads EXCEPT ![i] = p]
    BY <1>3, <2>1 DEF StartRead
  <2>3. QueryOK(query)
    BY <1>3, QueriesOK
  <2>4. Rest(p.got) = <<>> /\ p.got \in Seq(NodeValues)
    BY <2>1 DEF Rest
  <2>5. owner \in OwnerValues
    BY <1>1 DEF ChainOK
  <2>6. p.query = query /\ p.seen = {Truth(query)} /\ p.owners = {owner} /\ IsRead(p)
    BY <2>1 DEF IsRead
  <2>7. ReadOK(p)
    BY <2>3, <2>4, <2>5, <2>6, EmptyIsOK DEF ReadOK, Past
  <2>8. QED
    BY <1>2, <1>3, <2>2, <2>7, OneReadMoves DEF StartRead
<1>4. ASSUME NEW i \in Slots, Ask(i)
      PROVE  ReadsInv'
  <2>1. PICK r, q : r = reads[i] /\ q = NextOf(i)
    OBVIOUS
  <2>2. Memoized(chain, q) /\ q # Done
    BY <1>4, <2>1, MemoizedAre DEF Ask, Done
  <2>3. r # Idle
    BY <2>1, <2>2, NextOfIs
  <2>4. PICK p : p = [r EXCEPT !.asked = TRUE]
    OBVIOUS
  <2>5. reads' = [reads EXCEPT ![i] = p]
    BY <1>4, <2>1, <2>4 DEF Ask
  <2>6. ReadOK(r)
    BY <1>1, <2>1, <2>3
  <2>7. IsRead(p) /\ p.query = r.query /\ p.ready = r.ready /\ p.got = r.got /\ p.seen = r.seen
        /\ p.owners = r.owners
    BY <2>4, <2>6 DEF ReadOK, IsRead
  <2>8. ReadOK(p)
    BY <2>6, <2>7, SameButGot DEF ReadOK
  <2>9. cache' = IF cache[q] = NotAsked THEN [cache EXCEPT ![q] = Waiting] ELSE cache
    BY <1>4, <2>1 DEF Ask
  <2>10. CacheOK' /\ CacheGrows
    BY <1>1, <1>4, <2>9, CacheStep DEF Ask
  <2>11. QED
    BY <1>4, <2>5, <2>8, <2>10, OneReadMoves DEF Ask
<1>5. ASSUME NEW i \in Slots, NodeAnswers(i)
      PROVE  ReadsInv'
  <2>1. PICK r, q : r = reads[i] /\ q = NextOf(i)
    OBVIOUS
  <2>2. q # Done /\ ~Memoized(chain, q)
    BY <1>5, <2>1 DEF NodeAnswers
  <2>3. r # Idle /\ q = Asks(r)
    BY <2>1, <2>2, NextOfIs
  <2>4. PICK v : v = Answer(q)
    OBVIOUS
  <2>5. PICK p : p = [r EXCEPT !.got = Append(r.got, v)]
    OBVIOUS
  <2>6. reads' = [reads EXCEPT ![i] = p]
    BY <1>5, <2>1, <2>4, <2>5 DEF NodeAnswers
  <2>7. ReadOK(r)
    BY <1>1, <2>1, <2>3
  <2>8. IsRead(p) /\ p.query = r.query /\ p.ready = r.ready /\ p.got = Append(r.got, v)
        /\ p.seen = r.seen /\ p.owners = r.owners
    BY <2>5, <2>7 DEF ReadOK, IsRead
  <2>9. Asks(r) # Done /\ IsAnswer(Asks(r), v)
    BY <2>2, <2>3, <2>4 DEF IsAnswer
  <2>10. ReadOK(p)
    BY <1>1, <2>7, <2>8, <2>9, ReadGrows
  <2>11. QED
    BY <1>2, <1>5, <2>6, <2>10, OneReadMoves DEF NodeAnswers
<1>6. ASSUME NEW i \in Slots, TakeKept(i)
      PROVE  ReadsInv'
  <2>1. PICK r, q : r = reads[i] /\ q = NextOf(i)
    OBVIOUS
  <2>2. Memoized(chain, q) /\ q # Done
    BY <1>6, <2>1, MemoizedAre DEF TakeKept, Done
  <2>3. r # Idle /\ q = Asks(r)
    BY <2>1, <2>2, NextOfIs
  <2>4. ReadOK(r)
    BY <1>1, <2>1, <2>3
  <2>5. UNCHANGED <<swapVars, cache, ownersKept>>
    BY <1>6 DEF TakeKept
  <2>6. CASE cache[q].state = "done"
    <3>1. /\ reads' = [reads EXCEPT ![i].asked = FALSE, ![i].got = Append(@, cache[q].answer)]
          /\ said' = NoAnswer
      BY <1>6, <2>1, <2>6 DEF TakeKept
    <3>2. PICK v : v = cache[q].answer
      OBVIOUS
    <3>3. PICK p : p = [[r EXCEPT !.asked = FALSE] EXCEPT !.got = Append(r.got, v)]
      OBVIOUS
    <3>4. IsRead(p) /\ p.query = r.query /\ p.ready = r.ready /\ p.got = Append(r.got, v)
          /\ p.seen = r.seen /\ p.owners = r.owners
      BY <2>4, <3>3 DEF ReadOK, IsRead
    <3>5. reads' = [reads EXCEPT ![i] = p]
      BY <2>1, <2>4, <3>1, <3>2, <3>3 DEF ReadsInv, ReadOK, IsRead
    <3>6. Asks(r) # Done /\ IsAnswer(Asks(r), v)
      <4>1. q \in KeptRequests
        BY <1>1, <2>2, <2>3, <2>4, AsksKept
      <4>2. IsAnswer(q, cache[q].answer)
        BY <1>1, <2>2, <2>6, <4>1, MemoizedKept
      <4>3. QED
        BY <2>2, <2>3, <3>2, <4>2
    <3>7. ReadOK(p)
      BY <1>1, <2>4, <3>4, <3>6, ReadGrows
    <3>8. QED
      BY <1>2, <2>5, <3>1, <3>5, <3>7, OneReadMoves
  <2>7. CASE cache[q].state # "done"
    <3>1. Ends(i, [status |-> "failure", owner |-> None])
      BY <1>6, <2>1, <2>7 DEF TakeKept, Failure
    <3>2. QED
      BY <2>5, <3>1, OneReadFails
  <2>8. QED
    BY <2>6, <2>7
<1>7. ASSUME NEW i \in Slots, NodeFails(i)
      PROVE  ReadsInv'
  BY <1>7, OneReadFails DEF NodeFails, Failure
<1>8. ASSUME NEW i \in Slots, TokensFetched(i)
      PROVE  ReadsInv'
  <2>1. PICK r : r = reads[i]
    OBVIOUS
  <2>2. r # Idle /\ ReadOK(r) /\ NeedsTokens(r)
    BY <1>1, <1>8, <2>1 DEF TokensFetched
  <2>3. PICK p : p = [[r EXCEPT !.ready = TRUE] EXCEPT !.got = <<>>]
    OBVIOUS
  <2>4. IsRead(p) /\ p.query = r.query /\ p.got = <<>> /\ p.seen = r.seen /\ p.owners = r.owners
    BY <2>2, <2>3 DEF ReadOK, IsRead
  <2>5. reads' = [reads EXCEPT ![i] = p]
    BY <1>8, <2>1, <2>2, <2>3 DEF TokensFetched, ReadsInv, ReadOK, IsRead
  <2>6. Rest(p.got) = <<>> /\ p.got \in Seq(NodeValues)
    BY <2>4 DEF Rest
  <2>7. ReadOK(p)
    BY <2>2, <2>4, <2>6, EmptyIsOK DEF ReadOK
  <2>8. QED
    BY <1>2, <1>8, <2>5, <2>7, OneReadMoves DEF TokensFetched
<1>9. ASSUME NEW i \in Slots, Return(i)
      PROVE  ReadsInv'
  <2>1. PICK r : r = reads[i]
    OBVIOUS
  <2>2. r # Idle /\ ReadOK(r) /\ UNCHANGED <<swapVars, cache, ownersKept>>
    BY <1>1, <1>9, <2>1 DEF Return
  <2>3. CASE NoSuchToken(r)
    <3>1. Ends(i, [status |-> "no token", owner |-> None])
          /\ r.query.name = "getBalanceInPool"
      BY <1>9, <2>1, <2>3 DEF Return, NoSuchToken
    <3>2. QED
      BY <2>1, <2>2, <3>1, OneReadFails
  <2>4. CASE ~NoSuchToken(r)
    <3>1. ~NeedsTokens(r) /\ Asks(r) = Done /\ Ends(i, Told(r))
      BY <1>9, <2>1, <2>4 DEF Return
    <3>2. said'.query = r.query /\ said'.seen = r.seen /\ said'.owners = r.owners
          /\ said'.expired = r.expired /\ said'.answer = Told(r)
          /\ reads' = [reads EXCEPT ![i] = Idle]
      BY <2>1, <3>1 DEF Ends
    <3>3. SaidOK'
      BY <1>1, <2>2, <3>1, <3>2, ToldIsOK
    <3>4. QED
      BY <2>2, <3>2, <3>3, OneReadEnds
  <2>5. QED
    BY <2>3, <2>4
<1>10. ASSUME NEW q \in KeptRequests, NodeAnswersKept(q) \/ NodeFailsKept(q)
       PROVE  ReadsInv'
  <2>1. CacheOK' /\ CacheGrows
    BY <1>1, <1>10, CacheStep DEF NodeAnswersKept, NodeFailsKept
  <2>2. reads' = reads /\ said' = NoAnswer /\ UNCHANGED <<swapVars, ownersKept>>
    BY <1>10 DEF NodeAnswersKept, NodeFailsKept
  <2>3. DOMAIN reads' = Slots
    BY <2>2 DEF ReadsInv
  <2>4. QED
    BY <2>1, <2>2, <2>3, SilentIsOK, PageMoves
<1>11. QED
  BY <1>3, <1>4, <1>5, <1>6, <1>7, <1>8, <1>9, <1>10 DEF ReadsNext

LEMMA ReadsStutter ==
  ASSUME ReadsInv, UNCHANGED readsVars
  PROVE  ReadsInv'
<1>1. UNCHANGED <<swapVars, ownersKept>> /\ cache' = cache /\ reads' = reads /\ said' = said
  BY DEF readsVars, pageVars
<1>2. CacheOK' /\ CacheGrows
  BY <1>1 DEF ReadsInv, CacheOK, CacheGrows, Past, swapVars
<1>3. SaidOK'
  <2>1. /\ chain' = chain /\ owner' = owner /\ time' = time /\ locked' = locked
        /\ ownersKept' = ownersKept
    BY <1>1 DEF swapVars
  <2>2. \A k : TakenFor(k)' = TakenFor(k)
    BY <1>1, <2>1 DEF TakenFor, OwnerAbsent
  <2>3. \A k, a, e : StatusOf(k, a, e)' = StatusOf(k, a, e)
    BY DEF StatusOf, PendingStatus
  <2>4. PostedWasSo'
    BY <1>1, <2>2, <2>3 DEF ReadsInv, SaidOK, PostedWasSo
  <2>5. LockedWasSo' /\ OwnerWasOwner' /\ BalanceWasSo'
    BY <1>1, <2>1 DEF ReadsInv, SaidOK, LockedWasSo, OwnerWasOwner, BalanceWasSo
  <2>6. QED
    BY <2>4, <2>5 DEF SaidOK
<1>4. DOMAIN reads' = Slots
      /\ \A i \in Slots : reads'[i] # Idle /\ reads'[i] # reads[i] => ReadOK(reads'[i])
  BY <1>1 DEF ReadsInv
<1>5. QED
  BY <1>1, <1>2, <1>3, <1>4, PageMoves

LEMMA ReadsAlwaysOK == ReadsSpec => []ReadsInv
<1>1. ReadsInit => ReadsInv
  BY ReadsBegin
<1>2. ReadsInv /\ [ReadsNext]_readsVars => ReadsInv'
  BY ChainNextOK, PageNextOK, ReadsStutter
<1>3. QED
  BY <1>1, <1>2, PTL DEF ReadsSpec

\* Why a read fails.  Beside the invariant: a promise that is kept as rejected is one
\* of a request that failed.
FailuresInv ==
  /\ failures \in Nat
  /\ \A q \in KeptRequests : cache[q].state = "rejected" => failures > 0
  /\ FailureHasCause

LEMMA SilentHasCause ==
  ASSUME said' = NoAnswer
  PROVE  FailureHasCause'
BY DEF FailureHasCause, NoAnswer

LEMMA PostedNeverFails ==
  ASSUME NEW view, NEW toCheck, NEW expired
  PROVE  GetPostedSwap(view, toCheck, expired).status # "failure"
<1> DEFINE by == FormatOwner(view.initiator)
           bonded == FormatOwner(view.poolOwner) # None
<1>1. PendingStatus(expired, bonded)
        \in {"ErrorExpiredButBonded", "ErrorExpired", "Bonded", "Requested"}
  <2> HIDE DEF bonded
  <2>1. QED
    BY Zenon DEF PendingStatus
<1>2. CASE view.exist /\ by = None
  BY <1>2 DEF GetPostedSwap
<1>3. CASE ~view.exist /\ by = None
  BY <1>3 DEF GetPostedSwap
<1>4. CASE by # None /\ toCheck # by
  BY <1>4 DEF GetPostedSwap
<1>5. CASE by # None /\ toCheck = by
  BY <1>1, <1>5 DEF GetPostedSwap
<1>6. QED
  BY <1>2, <1>3, <1>4, <1>5

\* The failures that the client makes of an answer.
LEMMA ToldHasCause ==
  ASSUME ChainOK, CacheOK, NEW r, ReadOK(r), Asks(r) = Done, ~NeedsTokens(r),
         Told(r).status = "failure"
  PROVE  \/ r.query.name \in {"ownerOfPool", "getLockedSwap"} /\ chain = "sui" /\ OwnerAbsent
         \/ r.query.name = "ownerOfPool" /\ chain = "aptos" /\ None \in r.owners
<1>1. r.query.name \in {"getPostedSwap", "getLockedSwap", "ownerOfPool", "getBalanceInPool"}
  BY DEF ReadOK, QueryOK
<1>2. CASE r.query.name = "getPostedSwap"
  <2>1. Told(r) = GetPostedSwap(PostedSwapView(Rest(r.got)), r.query.arg, r.expired)
    BY <1>2, ToldIs
  <2>2. QED
    BY <2>1, PostedNeverFails
<1>3. CASE r.query.name = "getLockedSwap"
  BY <1>3, LockedIsTold, ToldIs
<1>4. CASE r.query.name = "ownerOfPool"
  <2> DEFINE by == IF chain = "ckb" THEN "wallet" ELSE Rest(r.got)[1]
  <2>1. Told(r) = OwnerOfPool(by)
    BY <1>4, ToldIs
  <2>2. Throws(by) => \/ chain = "sui" /\ OwnerAbsent
                      \/ chain = "aptos" /\ None \in r.owners
    BY <1>4, OwnerIsTold
  <2> HIDE DEF by
  <2>3. Throws(by)
    BY <2>1 DEF OwnerOfPool
  <2>4. QED
    BY <1>4, <2>2, <2>3
<1>5. CASE r.query.name = "getBalanceInPool"
  BY <1>5, ToldIs
<1>6. QED
  BY <1>1, <1>2, <1>3, <1>4, <1>5

\* A read ends without a request that fails.
LEMMA EndHasCause ==
  ASSUME ReadsInv, FailuresInv, NEW i \in Slots, NEW answer, Ends(i, answer),
         UNCHANGED <<swapVars, cache, failures>>,
         answer.status = "failure" =>
           \/ failures > 0
           \/ /\ reads[i].query.name \in {"ownerOfPool", "getLockedSwap"}
              /\ chain = "sui" /\ OwnerAbsent
           \/ reads[i].query.name = "ownerOfPool" /\ chain = "aptos" /\ None \in reads[i].owners
  PROVE  FailureHasCause'
<1>1. said'.answer = answer /\ said'.query = reads[i].query /\ said'.owners = reads[i].owners
  BY DEF Ends
<1>2. chain' = chain /\ failures' = failures /\ OwnerAbsent' = OwnerAbsent
  BY DEF swapVars, OwnerAbsent
<1>3. QED
  BY <1>1, <1>2 DEF FailureHasCause

LEMMA FailuresKept ==
  ASSUME ReadsInv, FailuresInv, [ReadsNext]_readsVars
  PROVE  FailuresInv'
<1>1. ChainOK /\ CacheOK /\ \A i \in Slots : reads[i] # Idle => ReadOK(reads[i])
  BY DEF ReadsInv
<1>2. NotAsked.state = "none" /\ Waiting.state = "pending" /\ Rejected.state = "rejected"
      /\ \A v : Kept(v).state = "done"
  BY DEF NotAsked, Waiting, Rejected, Kept
<1>3. ASSUME UNCHANGED <<cache, failures>>, FailureHasCause'
      PROVE  FailuresInv'
  BY <1>3 DEF FailuresInv
<1>4. CASE ChainNext
  <2>1. UNCHANGED <<cache, failures>> /\ said' = NoAnswer
    BY <1>4 DEF ChainNext, RegisterPool, TransferPoolOwner, AddSupportToken, MoveBalance, Post,
         Bond, EndPosted, PostedStep, Lock, ReleaseLocked, Unlock, LockStep, TimePasses, Changed
  <2>2. QED
    BY <1>3, <2>1, SilentHasCause
<1>5. ASSUME NEW i \in Slots, NEW query \in Queries, StartRead(i, query)
      PROVE  FailuresInv'
  BY <1>3, <1>5, SilentHasCause DEF StartRead
<1>6. ASSUME NEW i \in Slots, Ask(i)
      PROVE  FailuresInv'
  <2>1. PICK q : q = NextOf(i)
    OBVIOUS
  <2>2. cache' = (IF cache[q] = NotAsked THEN [cache EXCEPT ![q] = Waiting] ELSE cache)
        /\ said' = NoAnswer /\ failures' = failures
    BY <1>6, <2>1 DEF Ask
  <2>3. \A p \in KeptRequests : cache'[p] = cache[p] \/ cache'[p] = Waiting
    BY <1>1, <2>2 DEF CacheOK
  <2>4. QED
    BY <1>2, <2>2, <2>3, SilentHasCause DEF FailuresInv
<1>7. ASSUME NEW i \in Slots, NodeAnswers(i) \/ TokensFetched(i)
      PROVE  FailuresInv'
  BY <1>3, <1>7, SilentHasCause DEF NodeAnswers, TokensFetched
<1>8. ASSUME NEW i \in Slots, NodeFails(i)
      PROVE  FailuresInv'
  <2>1. cache' = cache /\ failures' = failures + 1
    BY <1>8 DEF NodeFails
  <2>2. failures' > 0 /\ failures' \in Nat
    BY <2>1 DEF FailuresInv
  <2>3. QED
    BY <2>1, <2>2 DEF FailuresInv, FailureHasCause
<1>9. ASSUME NEW i \in Slots, TakeKept(i)
      PROVE  FailuresInv'
  <2>1. PICK q : q = NextOf(i)
    OBVIOUS
  <2>2. UNCHANGED <<swapVars, cache, failures>>
    BY <1>9 DEF TakeKept
  <2>3. CASE said' = NoAnswer
    BY <1>3, <2>2, <2>3, SilentHasCause
  <2>4. CASE cache[q].state = "rejected" /\ Ends(i, Failure)
    <3>1. q # Done /\ Memoized(chain, q)
      BY <1>9, <2>1, MemoizedAre DEF TakeKept, Done
    <3>2. reads[i] # Idle /\ q = Asks(reads[i])
      BY <2>1, <3>1, NextOfIs
    <3>3. q \in KeptRequests
      BY <1>1, <3>1, <3>2, AsksKept
    <3>4. failures > 0
      BY <2>4, <3>3 DEF FailuresInv
    <3>5. FailureHasCause'
      BY <2>2, <2>4, <3>4, EndHasCause
    <3>6. QED
      BY <1>3, <2>2, <3>5
  <2>5. QED
    BY <1>9, <2>1, <2>3, <2>4 DEF TakeKept
<1>10. ASSUME NEW i \in Slots, Return(i)
       PROVE  FailuresInv'
  <2>1. PICK r : r = reads[i]
    OBVIOUS
  <2>2. r # Idle /\ ReadOK(r) /\ UNCHANGED <<swapVars, cache, failures>>
    BY <1>1, <1>10, <2>1 DEF Return
  <2>3. CASE NoSuchToken(r)
    <3>1. PICK answer : answer = [status |-> "no token", owner |-> None]
      OBVIOUS
    <3>2. Ends(i, answer) /\ answer.status # "failure"
      BY <1>10, <2>1, <2>3, <3>1 DEF Return
    <3>3. FailureHasCause'
      BY <2>2, <3>2, EndHasCause
    <3>4. QED
      BY <1>3, <2>2, <3>3
  <2>4. CASE ~NoSuchToken(r)
    <3>1. ~NeedsTokens(r) /\ Asks(r) = Done /\ Ends(i, Told(r))
      BY <1>10, <2>1, <2>4 DEF Return
    <3>2. Told(r).status = "failure" =>
            \/ r.query.name \in {"ownerOfPool", "getLockedSwap"} /\ chain = "sui" /\ OwnerAbsent
            \/ r.query.name = "ownerOfPool" /\ chain = "aptos" /\ None \in r.owners
      BY <1>1, <2>2, <3>1, ToldHasCause
    <3>3. FailureHasCause'
      BY <2>1, <2>2, <3>1, <3>2, EndHasCause
    <3>4. QED
      BY <1>3, <2>2, <3>3
  <2>5. QED
    BY <2>3, <2>4
<1>11. ASSUME NEW q \in KeptRequests, NodeAnswersKept(q)
       PROVE  FailuresInv'
  <2>1. cache' = [cache EXCEPT ![q] = Kept(Answer(q))] /\ said' = NoAnswer /\ failures' = failures
    BY <1>11 DEF NodeAnswersKept
  <2>2. \A p \in KeptRequests : cache'[p] = cache[p] \/ cache'[p] = Kept(Answer(q))
    BY <1>1, <2>1 DEF CacheOK
  <2>3. QED
    BY <1>2, <2>1, <2>2, SilentHasCause DEF FailuresInv
<1>12. ASSUME NEW q \in KeptRequests, NodeFailsKept(q)
       PROVE  FailuresInv'
  <2>1. said' = NoAnswer /\ failures' = failures + 1
    BY <1>12 DEF NodeFailsKept
  <2>2. QED
    BY <2>1, SilentHasCause DEF FailuresInv
<1>13. CASE UNCHANGED readsVars
  <2>1. UNCHANGED <<cache, failures, said, chain>>
    BY <1>13 DEF readsVars, swapVars, pageVars
  <2>2. QED
    BY <2>1 DEF FailuresInv, FailureHasCause, OwnerAbsent
<1>14. QED
  BY <1>4, <1>5, <1>6, <1>7, <1>8, <1>9, <1>10, <1>11, <1>12, <1>13 DEF ReadsNext

\* A read of the page fails because a request has failed, or on Sui and Aptos because
\* the pool it asks about has no owner, or had none when the page was told so: what
\* formatAddress makes of it, of whatever other reads and steps come between.
THEOREM FailureAlwaysHasCause == ReadsSpec => []FailureHasCause
<1>1. ReadsInit => FailuresInv
  BY DEF ReadsInit, FailuresInv, FailureHasCause, NotAsked
<1>2. ReadsInv /\ FailuresInv /\ [ReadsNext]_readsVars => FailuresInv'
  BY FailuresKept
<1>3. FailuresInv => FailureHasCause
  BY DEF FailuresInv
<1>4. QED
  BY <1>1, <1>2, <1>3, ReadsAlwaysOK, PTL DEF ReadsSpec

\* Whatever the page is told of a posted swap was true of it, as a whole, at some
\* moment since the read began: getPostedSwap of the contract objects and of
\* MesonClient.ts, with the chain going on between their requests.
THEOREM PostedWasAlwaysSo == ReadsSpec => []PostedWasSo
<1>1. ReadsInv => PostedWasSo
  BY DEF ReadsInv, SaidOK
<1>2. QED
  BY <1>1, ReadsAlwaysOK, PTL

\* The same of getLockedSwap, whose expiry is told by the clock of its end: but on CKB,
\* whose contract object asks for the lock cell and then for the list of references, a
\* release is told too of a swap that was unlocked, or that is locked in between.
THEOREM LockedWasAlwaysSo == ReadsSpec => []LockedWasSo
<1>1. ReadsInv => LockedWasSo
  BY DEF ReadsInv, SaidOK
<1>2. QED
  BY <1>1, ReadsAlwaysOK, PTL

\* The owner of the pool that any of the reads tells was its owner since the read
\* began, or since the page was loaded where ownerOfPool is memoized.
THEOREM OwnerWasAlwaysOwner == ReadsSpec => []OwnerWasOwner
<1>1. ReadsInv => OwnerWasOwner
  BY DEF ReadsInv, SaidOK
<1>2. QED
  BY <1>1, ReadsAlwaysOK, PTL

\* getBalanceInPool tells a balance that the address had since the read began,
\* though it asks for the pool and for its balance one after the other.
THEOREM BalanceWasAlwaysSo == ReadsSpec => []BalanceWasSo
<1>1. ReadsInv => BalanceWasSo
  BY DEF ReadsInv, SaidOK
<1>2. QED
  BY <1>1, ReadsAlwaysOK, PTL

=============================================================================
