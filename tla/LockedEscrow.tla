---------------------------- MODULE LockedEscrow ----------------------------
(***************************************************************************)
(* What the target-chain side promises about each lock, without tokens or  *)
(* signatures.  A lock is taken for one pool until a fixed time; the pool  *)
(* only gets it back when that time is over; it is released only before    *)
(* the swap expires; and a released lock is never taken again.             *)
(***************************************************************************)
EXTENDS Integers

CONSTANTS Locks, Pools, LockTime, Expiry

VARIABLES time, stage, until, pool

Init ==
  /\ time = 0
  /\ stage = [x \in Locks |-> "free"]
  /\ until = [x \in Locks |-> 0]
  /\ pool = [x \in Locks |-> 0]

Take(x) ==
  /\ stage[x] = "free" /\ stage'[x] = "locked"
  /\ until'[x] = time + LockTime
  /\ until'[x] < Expiry[x]
  /\ pool'[x] \in Pools \ {0}

GiveBack(x) ==
  /\ stage[x] = "locked" /\ stage'[x] = "free"
  /\ until[x] < time

Pay(x) ==
  /\ stage[x] = "locked" /\ stage'[x] = "released"
  /\ time < Expiry[x]

PayDirectly(x) == stage[x] = "free" /\ stage'[x] = "released"

Stay(x) ==
  stage'[x] = stage[x] /\ until'[x] = until[x] /\ pool'[x] = pool[x]

Move(x) == Take(x) \/ GiveBack(x) \/ Pay(x) \/ PayDirectly(x)

Next ==
  /\ time' >= time
  /\ \/ time' = time
     \/ \A x \in Locks : Stay(x)
  /\ \A x \in Locks : Stay(x) \/ Move(x)
  /\ \A x, y \in Locks : Move(x) /\ Move(y) => x = y

Spec == Init /\ [][Next]_<<time, stage, until, pool>>

=============================================================================
