---------------------------- MODULE SwapEncoding ----------------------------
(***************************************************************************)
(* How a swap request is encoded, by the client (Swap.ts), and decoded, by *)
(* the contract (MesonHelpers.sol) and again by the client.                *)
(*                                                                         *)
(* A word is a record of the fields that are whole numbers, the set of the *)
(* bits of the salt header that have a meaning, and the two 16-bit words   *)
(* of salt data.  These hold amounts of fixed precision: a few leading     *)
(* digits and a power of ten.  The other models start from what the        *)
(* contract decodes.                                                       *)
(*                                                                         *)
(* The client also reads and writes an older format of the salt data,      *)
(* which this contract does not know; it is not modelled.                  *)
(***************************************************************************)
EXTENDS MesonHelpers

CONSTANTS
  PRECISION,      \* digits of an amount of fixed precision, less one
  WORD,           \* 2^16
  AMOUNT_UNIT,    \* the 1e3 that amounts for core tokens are multiples of
  PRICE_UNIT,     \* the 1e4 that prices are scaled by
  CLIENT_SERVICE_FEE_MINIMUM_BNB_OR_SOL,
  CLIENT_SERVICE_FEE_MINIMUM_BTC,
  Words,          \* words that somebody may send to the contract
  Requests        \* what a client may be asked to encode

\* The powers of ten.
TenTo[n \in Nat] == IF n = 0 THEN 1 ELSE 10 * TenTo[n - 1]

Factor == TenTo[PRECISION]
AllOfIt == WORD - 1

ASSUME EncodingAssumption ==
  /\ PRECISION \in Nat \ {0} /\ AMOUNT_UNIT \in Nat \ {0}
  /\ PRICE_UNIT \in Nat \ {0}
  /\ WORD \in Nat /\ WORD > 9 * Factor

HeaderBits == {"8000", "4000", "0400", "0200", "0010"}

EveryWord ==
  [ amount : Nat, fee : Nat, header : SUBSET HeaderBits,
    inChain : Chains, inToken : TokenIndex,
    outChain : Chains, outToken : TokenIndex,
    data1 : 0..AllOfIt, data2 : 0..AllOfIt ]

ASSUME WordsAssumption == Words \subseteq EveryWord

VARIABLES request, word

vars == <<request, word>>

None == [none |-> TRUE]         \* nothing requested, or not encoded yet
Invalid == [invalid |-> TRUE]   \* the constructor of Swap threw an error

-----------------------------------------------------------------------------
\* Decoding by the contract

Decompress(d) ==
  IF d <= Factor THEN d
  ELSE LET above == d - Factor
       IN  (Factor + (above % (9 * Factor))) * TenTo[above \div (9 * Factor)]

WillTransferToContract(w) == "8000" \notin w.header
FeeWaived(w) == "4000" \in w.header

SwapForCoreToken(w) ==
  w.outToken < 191 /\ {"8000", "0400", "0010"} \subseteq w.header

\* Whether the salt data is a share; and a variant that looks at one bit only.
HasShareBit(w) == ~WillTransferToContract(w) /\ "0200" \in w.header
ShareWithPartner(w) ==
  ~WillTransferToContract(w) /\ w.header \intersect {"0400", "0200"} = {"0200"}

\* ServiceFee is the one of the contract.
AmountForCoreToken(w) ==
  IF ~SwapForCoreToken(w) THEN 0
  ELSE IF w.data2 = AllOfIt
  THEN w.amount - w.fee - (IF FeeWaived(w) THEN 0 ELSE ServiceFee(w))
  ELSE Decompress(w.data2) * AMOUNT_UNIT

CoreTokenAmount(w) ==
  IF AmountForCoreToken(w) > 0
  THEN (AmountForCoreToken(w) * PRICE_UNIT) \div Decompress(w.data1)
  ELSE 0

AmountToShare(w) == IF ShareWithPartner(w) THEN Decompress(w.data2) ELSE 0

PoolIndexToShare(w) == IF ShareWithPartner(w) THEN w.data1 + WORD ELSE 0

\* The contract can decode a word: no subtraction underflows, and there is no
\* division by a price of 0.
Decodable(w) ==
  /\ AmountForCoreToken(w) >= 0
  /\ AmountForCoreToken(w) > 0 => Decompress(w.data1) > 0

\* The record that the models of the contract start from.
Decoded(w) ==
  [ salt |-> 0, amount |-> w.amount, fee |-> w.fee, expireTs |-> 1,
    inChain |-> w.inChain, inToken |-> w.inToken,
    outChain |-> w.outChain, outToken |-> w.outToken,
    feeWaived |-> FeeWaived(w), toContract |-> WillTransferToContract(w),
    forCore |-> AmountForCoreToken(w), coreAmount |-> CoreTokenAmount(w),
    share |-> AmountToShare(w), poolToShare |-> PoolIndexToShare(w) ]

-----------------------------------------------------------------------------
\* Decoding by the client

ClientDecompress(d) ==
  IF d < Factor THEN d
  ELSE LET above == d - Factor
       IN  (Factor + (above % (9 * Factor))) * TenTo[above \div (9 * Factor)]

NewFormat(w) == "0010" \in w.header

ClientSwapForCoreToken(w) == {"8000", "0400"} \subseteq w.header

ClientShareWithPartner(w) ==
  "8000" \in w.header /\ w.header \intersect {"0400", "0200"} = {"0200"}

ClientFeeMinimum(i) ==
  IF i >= 252 THEN SERVICE_FEE_MINIMUM_ETH
  ELSE IF i >= 244 THEN CLIENT_SERVICE_FEE_MINIMUM_BNB_OR_SOL
  ELSE IF i >= 240 THEN CLIENT_SERVICE_FEE_MINIMUM_BTC
  ELSE SERVICE_FEE_MINIMUM

\* What the client takes the service fee to be; and a variant that overlooks
\* that it may be waived.
ClientFullFee(w) ==
  LET fee == w.amount \div 2000
      minFee == ClientFeeMinimum(w.inToken)
  IN  IF fee > minFee THEN fee ELSE minFee
ClientServiceFee(w) == IF FeeWaived(w) THEN 0 ELSE ClientFullFee(w)

ClientAmountForCoreToken(w) ==
  IF ~ClientSwapForCoreToken(w) THEN 0
  ELSE IF w.data2 = AllOfIt THEN w.amount - (ClientServiceFee(w) + w.fee)
  ELSE ClientDecompress(w.data2) * AMOUNT_UNIT

ClientPoolIndexToShare(w) ==
  IF ClientShareWithPartner(w) THEN w.data1 + WORD ELSE 0

ClientAmountToShare(w) ==
  IF ClientPoolIndexToShare(w) = 0 THEN 0 ELSE ClientDecompress(w.data2)

ClientReceive(w) ==
  w.amount - (ClientServiceFee(w) + w.fee) - ClientAmountForCoreToken(w)
    - ClientAmountToShare(w)

-----------------------------------------------------------------------------
\* Encoding by the client

\* The power of ten that a value does not exceed; and a variant that rounds the
\* logarithm down.
FloorLog10(v) == CHOOSE k \in 0..v : TenTo[k] <= v /\ v < TenTo[k + 1]
CeilLog10(v) ==
  CHOOSE k \in 0..v : v <= TenTo[k] /\ (k > 0 => v > TenTo[k - 1])

Compressed(v) ==
  LET level == CeilLog10(v) - PRECISION - 1
  IN  IF level < 0 THEN v ELSE level * 9 * Factor + v \div TenTo[level]

\* The logarithm of 0 is no integer, which is an error.
Compressible(v) == v > 0 /\ Compressed(v) < WORD

All == -1     \* the amount 'all'

ValidCoreToken(r) ==
  /\ Compressible(r.price)
  /\ r.forCore = All \/ Compressible(r.forCore \div AMOUNT_UNIT)

ValidShare(r) ==
  /\ r.poolToShare \in WORD..(2 * WORD - 1)
  /\ Compressible(r.share)

Valid(r) ==
  /\ r.amount > 0
  /\ ClientSwapForCoreToken(r) => ValidCoreToken(r)
  /\ ClientShareWithPartner(r) => ValidShare(r)

\* Without a core token part or a share, the data is random.
SaltData(r) ==
  IF ClientSwapForCoreToken(r)
  THEN { <<Compressed(r.price),
           IF r.forCore = All THEN AllOfIt
           ELSE Compressed(r.forCore \div AMOUNT_UNIT)>> }
  ELSE IF ClientShareWithPartner(r)
  THEN { <<r.poolToShare - WORD, Compressed(r.share)>> }
  ELSE {0, AllOfIt} \X {0, AllOfIt}

Word(r, data) ==
  [ amount |-> r.amount, fee |-> r.fee, header |-> r.header,
    inChain |-> r.inChain, inToken |-> r.inToken,
    outChain |-> r.outChain, outToken |-> r.outToken,
    data1 |-> data[1], data2 |-> data[2] ]

\* No amount for core tokens is encoded as the mark for all of it.  In the units
\* of the code this one would be 25,350,000 million, and an amount has 40 bits.
ASSUME RequestsAssumption ==
  /\ Requests \subseteq
       [ amount : Nat, fee : Nat, header : SUBSET HeaderBits,
         inChain : Chains, inToken : TokenIndex,
         outChain : Chains, outToken : TokenIndex,
         forCore : Nat \union {All}, price : Nat,
         poolToShare : Nat, share : Nat ]
  /\ \A r \in Requests : r.forCore \div AMOUNT_UNIT > 0
       => Compressed(r.forCore \div AMOUNT_UNIT) # AllOfIt

-----------------------------------------------------------------------------
\* A client encodes what it is asked for, or anybody sends any word.

Init ==
  \/ request \in Requests /\ word = None
  \/ request = None /\ word \in Words

Encode ==
  /\ request # None /\ word = None
  /\ \/ ~Valid(request) /\ word' = Invalid
     \/ Valid(request) /\ \E data \in SaltData(request) :
                             word' = Word(request, data)
  /\ UNCHANGED request

Next == Encode

Spec == Init /\ [][Next]_vars

-----------------------------------------------------------------------------
\* Properties

IsWord == word \notin {None, Invalid}

\* What every other model of the contract assumes of a decoded swap: whatever
\* the bits of the salt are, a core token part and a partner's share exclude
\* each other and a release to a contract.
DecodedIsExclusive ==
  IsWord /\ Decodable(word) => ExclusiveExtras(Decoded(word))

\* The client shows the user what the contract will pay, for every word in the
\* new format, whoever encoded it, and every token that is not a core token.
\* The minimal service fees are left to ClientKnowsServiceFee.
ClientKnowsReceive ==
  /\ IsWord /\ NewFormat(word) /\ word.outToken < 191 /\ Decodable(word)
  /\ ClientFeeMinimum(word.inToken) = ServiceFeeMinimum(word.inToken)
  => /\ ClientReceive(word) = ReleaseAmount(Decoded(word))
     /\ ClientAmountForCoreToken(word) = AmountForCoreToken(word)
     /\ ClientPoolIndexToShare(word) = PoolIndexToShare(word)

\* An amount of fixed precision is never more than was asked for, and less by
\* one unit and one part in Factor at most.
Rounded(value, asked, unit) ==
  value <= asked /\ (asked - value - unit) * Factor < asked

\* What the client encodes the contract decodes as it was asked for, up to
\* rounding, across the powers of ten where the format changes its scale.
EncodedAsAsked ==
  request # None /\ IsWord /\ NewFormat(word) /\ word.outToken < 191 =>
    /\ ClientSwapForCoreToken(word) =>
         /\ Rounded(Decompress(word.data1), request.price, 0)
         /\ IF request.forCore = All
            THEN AmountForCoreToken(word)
                   = word.amount - word.fee - ServiceFeeCharged(Decoded(word))
            ELSE Rounded(AmountForCoreToken(word), request.forCore, AMOUNT_UNIT)
    /\ ClientShareWithPartner(word) =>
         /\ PoolIndexToShare(word) = request.poolToShare
         /\ Rounded(AmountToShare(word), request.share, 0)

\* The service fee that the client subtracts, with its own minimum for each
\* kind of token, is the one that the contract will charge.  It is not: the two
\* know different minimums for SOL and for BTC.
ClientKnowsServiceFee ==
  IsWord /\ Decodable(word)
    => ClientServiceFee(word) = ServiceFeeCharged(Decoded(word))

=============================================================================
