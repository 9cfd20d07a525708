---------------------------- MODULE PostedEscrow ----------------------------
(***************************************************************************)
(* What the initial-chain side promises about each swap request, without   *)
(* time, tokens or signatures.  A request is open until its deposit is     *)
(* held; a held deposit can be bonded to one pool, once; and a request     *)
(* that is closed, settled or too old to be posted, stays closed.  Several *)
(* requests may move in one step: time closes them together.               *)
(***************************************************************************)
CONSTANTS Requests, Pools, NoPool

VARIABLES stage, bond

TypeOK ==
  /\ stage \in [Requests -> {"open", "held", "closed"}]
  /\ bond \in [Requests -> Pools]

Init ==
  /\ stage \in [Requests -> {"open", "closed"}]
  /\ bond = [x \in Requests |-> NoPool]

Stay(x) == stage'[x] = stage[x] /\ bond'[x] = bond[x]

Hold(x) == stage[x] = "open" /\ stage'[x] = "held" /\ bond'[x] \in Pools

Bond(x) ==
  /\ stage[x] = "held" /\ stage'[x] = "held"
  /\ bond[x] = NoPool /\ bond'[x] \in Pools

Close(x) ==
  /\ stage[x] \in {"open", "held"} /\ stage'[x] = "closed"
  /\ bond'[x] = NoPool

Next ==
  /\ stage' \in [Requests -> {"open", "held", "closed"}]
  /\ bond' \in [Requests -> Pools]
  /\ \A x \in Requests : Stay(x) \/ Hold(x) \/ Bond(x) \/ Close(x)

Spec == Init /\ [][Next]_<<stage, bond>>

=============================================================================
