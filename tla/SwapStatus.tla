----------------------------- MODULE SwapStatus -----------------------------
(***************************************************************************)
(* What a client reports of a swap between two chains while the swap moves *)
(* on: checkSwapStatus (MesonPresets.ts) reads the initial chain, waits    *)
(* for the answer, and then reads the target chain, with getPostedSwap and *)
(* getLockedSwap (MesonClient.ts).  Whether the swap has expired is        *)
(* decided before the first read, by the clock of the client.              *)
(*                                                                         *)
(* Either chain is read as of its latest block, and the initiator that the *)
(* caller asks for is the one of the swap.                                 *)
(***************************************************************************)
EXTENDS CrossChainSwap

CONSTANT GRACE    \* the 120 s that a client adds to the until of a lock

ASSUME GraceAssumption == GRACE \in Nat

VARIABLES
  reading,    \* the answer that the check under way waits for
  report      \* the statuses of both sides that the last check returned,
              \* until the next one starts

statusVars == <<vars, reading, report>>

Idle == [waitsFor |-> "nothing"]
NotRead == "NotRead"
NoReport == <<NotRead, NotRead>>

StatusInit ==
  /\ Init
  /\ reading = Idle
  /\ report = NoReport

\* The clock of the client is not before both chains, nor after both.
ClientTimes == {sourceTime, targetTime}

PostedStatus(expired) ==
  CASE posted = Source!Executed -> "Executed"
    [] posted = Source!NotPosted -> "NoneOrAfterRunning"
    [] OTHER ->
         IF OwnerOf(ProviderPool)[posted.poolIndex] = ZeroAddress
         THEN IF expired THEN "ErrorExpired" ELSE "Requested"
         ELSE IF expired THEN "ErrorExpiredButBonded" ELSE "Bonded"

LockedStatus(clientTime) ==
  CASE locked = Target!Released -> "Released"
    [] locked = Target!NotLocked -> "None"
    [] OTHER -> IF locked.until + GRACE < clientTime
                THEN "ErrorExpired" ELSE "Locked"

\* The statuses of the deposit after which the target chain is read as well;
\* and a variant that takes a deposit that is not there for one never made.
StatusesOfDeposits == {"Bonded", "Executed", "ErrorExpiredButBonded"}
StatusesToFollow ==
  {"NoneOrAfterRunning", "Bonded", "Executed", "ErrorExpiredButBonded"}

StartCheck ==
  /\ reading = Idle
  /\ \E t \in ClientTimes :
       reading' = [waitsFor |-> "posted", expired |-> swap.expireTs < t]
  /\ report' = NoReport
  /\ UNCHANGED vars

ReadPosted ==
  /\ reading.waitsFor = "posted"
  /\ LET status == PostedStatus(reading.expired)
     IN  IF status \in StatusesToFollow
         THEN /\ reading' = [waitsFor |-> "locked", posted |-> status]
              /\ UNCHANGED report
         ELSE /\ reading' = Idle
              /\ report' = <<status, NotRead>>
  /\ UNCHANGED vars

ReadLocked ==
  /\ reading.waitsFor = "locked"
  /\ \E t \in ClientTimes : report' = <<reading.posted, LockedStatus(t)>>
  /\ reading' = Idle
  /\ UNCHANGED vars

\* An error of the first read is the caller's; one of the second is dropped.
ReadFails ==
  /\ reading # Idle
  /\ reading' = Idle
  /\ report' = IF reading.waitsFor = "posted" THEN NoReport
               ELSE <<reading.posted, NotRead>>
  /\ UNCHANGED vars

StatusNext ==
  \/ Next /\ UNCHANGED <<reading, report>>
  \/ StartCheck \/ ReadPosted \/ ReadLocked \/ ReadFails

\* The caller keeps checking, and a node that is asked again and again does
\* answer in the end.
StatusSpec ==
  /\ StatusInit /\ [][StatusNext]_statusVars
  /\ Fairness
  /\ WF_statusVars(StartCheck)
  /\ SF_statusVars(ReadPosted) /\ SF_statusVars(ReadLocked)

-----------------------------------------------------------------------------
\* Properties

\* A client never shows an initiator who was careful that her deposit is taken
\* and nothing is there for it, although the two sides are read one after the
\* other while others act.
ExecutedIsCovered ==
  Initiator \in careful /\ report[1] = "Executed" => report[2] # "None"

\* A recipient who has been paid is reported to be, in the end, also when the
\* deposit has been deleted since: by a late execution, or by its cancellation.
PaymentIsReported == RecipientPaid ~> report[2] = "Released"

=============================================================================
