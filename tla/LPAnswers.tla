----------------------------- MODULE LPAnswers -----------------------------
(***************************************************************************)
(* What is asked of an LP for a quote of each kind of swap, in what ways an *)
(* answer can be wrong, and what the checks of the wrappers make of it.  A *)
(* way to be wrong stands for a group of fields of the answer; an answer is *)
(* wrong in one way at most.                                               *)
(***************************************************************************)
EXTENDS Integers, FiniteSets

SendKinds == {"TO_BTC", "TO_BTCLN"}

Kinds == SendKinds \cup
  {"FROM_BTC", "FROM_BTCLN", "FROM_BTCLN_AUTO", "SPV_VAULT_FROM_BTC"}

-----------------------------------------------------------------------------
(* The ways to be wrong: the fields of the responses *)

Common == {"schema", "price"}

ToBTCFlaws       == Common \cup {"totalFee", "amounts", "expiry", "data", "signature"}
ToBTCLNFlaws     == Common \cup {"maxFee", "data", "signature"}
ExactInFlaws     == ToBTCLNFlaws \cup {"noAmount", "total"}
FromBTCFlaws     == Common \cup {"amounts", "confirmations", "data", "sendWindow",
                                 "claimHash", "extraData", "signature", "liquidity"}
FromBTCLNFlaws   == Common \cup {"invoice", "key", "description", "paymentHash", "amounts",
                                 "liquidity", "node", "capacity", "halfCapacity"}
FromBTCLNAutoFlaws == FromBTCLNFlaws \cup {"btcTotal", "btcFee", "bounty", "gas"}
SpvFromBTCFlaws  == Common \cup {"feeRate", "addresses", "vault", "btcTotal", "btcFee",
                                 "shares", "expired", "closed", "confirmations", "amounts",
                                 "gas", "utxo", "spent", "depth", "balance"}

Flaws(kind, exactIn) ==
  CASE kind = "TO_BTC"             -> ToBTCFlaws
    [] kind = "TO_BTCLN"           -> IF exactIn THEN ExactInFlaws ELSE ToBTCLNFlaws
    [] kind = "FROM_BTC"           -> FromBTCFlaws
    [] kind = "FROM_BTCLN"         -> FromBTCLNFlaws
    [] kind = "FROM_BTCLN_AUTO"    -> FromBTCLNAutoFlaws
    [] kind = "SPV_VAULT_FROM_BTC" -> SpvFromBTCFlaws

-----------------------------------------------------------------------------
(* The checks: what an IntermediaryError is thrown for, for which the LP is *)
(* blacklisted ...                                                         *)

VerifyReturnedPrice          == {"price"}
VerifyIntermediaryLiquidity  == {"liquidity"}
\* With unsafeSkipLnNodeCheck, which is not modelled, the node is not looked at.
VerifyLnNodeCapacity         == {"node", "capacity"}

ToBTCVerify == {"totalFee", "amounts", "expiry", "data"}

\* Mutant: the maximum routing fee is not compared.
ToBTCLNVerifyLoose == {"data", "total"}

ToBTCLNVerify == {"maxFee", "data", "total"}

FromBTCVerify ==
  {"amounts", "confirmations", "data", "sendWindow", "claimHash", "extraData"}

FromBTCLNVerify == {"key", "description", "paymentHash", "amounts"}

FromBTCLNAutoVerify == FromBTCLNVerify \cup {"btcTotal", "btcFee", "bounty", "gas"}

SpvFromBTCVerify == {"feeRate", "addresses", "vault", "shares", "expired", "closed",
                     "confirmations", "amounts", "gas", "utxo", "depth", "balance"}

Blamed(kind) ==
  CASE kind = "TO_BTC"             -> ToBTCVerify \cup VerifyReturnedPrice
    [] kind = "TO_BTCLN"           -> ToBTCLNVerify \cup VerifyReturnedPrice \cup {"noAmount"}
    [] kind = "FROM_BTC"           -> FromBTCVerify \cup VerifyReturnedPrice
                                        \cup VerifyIntermediaryLiquidity
    [] kind = "FROM_BTCLN"         -> FromBTCLNVerify \cup VerifyReturnedPrice \cup {"invoice"}
                                        \cup VerifyIntermediaryLiquidity \cup VerifyLnNodeCapacity
    [] kind = "FROM_BTCLN_AUTO"    -> FromBTCLNAutoVerify \cup VerifyReturnedPrice \cup {"invoice"}
                                        \cup VerifyIntermediaryLiquidity \cup VerifyLnNodeCapacity
    [] kind = "SPV_VAULT_FROM_BTC" -> SpvFromBTCVerify \cup VerifyReturnedPrice

\* ... what another error is thrown for: verifySchema, verifyReturnedSignature,
\* verifyLnNodeCapacity when half of the capacity is not enough, and two checks
\* of the sums of a vault's quote ...
VerifySchema            == {"schema"}
VerifyReturnedSignature == {"signature"}
HalfOfLnNodeCapacity    == {"halfCapacity"}
SpvAmountsSanity        == {"btcTotal", "btcFee"}

Rejected(kind) ==
  VerifySchema \cup VerifyReturnedSignature \cup HalfOfLnNodeCapacity \cup
  (IF kind = "SPV_VAULT_FROM_BTC" THEN SpvAmountsSanity ELSE {})

\* ... and what the LP is asked again for: the vault has moved on meanwhile.
AskedAgain(kind) == IF kind = "SPV_VAULT_FROM_BTC" THEN {"spent"} ELSE {}

Verdict(kind, flaw) ==
  CASE flaw \in Blamed(kind)     -> "blamed"
    [] flaw \in Rejected(kind)   -> "error"
    [] flaw \in AskedAgain(kind) -> "again"
    [] OTHER                     -> "good"

-----------------------------------------------------------------------------
(* create(): the exchange with an LP, and what is fetched beside it once for *)
(* all LPs.  needs: sent along with a request, or streamed to the LP later; *)
(* the LP cannot answer without.  late: needed to check the answer.  The    *)
(* failure of one of these aborts the call.  own: of one LP; its failure   *)
(* aborts that LP's request.  The prices, the data for the signature and   *)
(* the capacity of the LP's lightning node are fetched beside it too; when *)
(* that fails the check fetches them again.                                *)

PreFetchFeeRate              == {"feeRate"}
PreFetchClaimerBounty        == {"claimerBounty"}
PreFetchCallerFeeShare       == {"callerFee"}
PreFetchFinalizedBlockHeight == {"finalizedBlock"}
BitcoinFeeRate               == {"btcFeeRate"}

PreFetchIntermediaryReputation == {"reputation"}
PreFetchIntermediaryLiquidity  == {"liquidity"}

Request(step, needs) == [step |-> step, needs |-> needs]

InitToBTC             == Request("init", PreFetchFeeRate)
InitToBTCLN           == Request("init", PreFetchFeeRate)
PrepareToBTCLNExactIn == Request("prepare", {})
GetInvoice            == Request("invoice", {})
InitToBTCLNExactIn    == Request("init", PreFetchFeeRate)
InitFromBTC           == Request("init", PreFetchFeeRate \cup PreFetchClaimerBounty)
InitFromBTCLN         == Request("init", PreFetchFeeRate)
InitFromBTCLNAuto     == Request("init", PreFetchClaimerBounty)
PrepareSpvFromBTC     == Request("init", PreFetchCallerFeeShare)

Create(steps, late, own) == [steps |-> steps, late |-> late, own |-> own]

ToBTCCreate         == Create(<<InitToBTC>>, {}, PreFetchIntermediaryReputation)
ToBTCLNQuote        == Create(<<InitToBTCLN>>, {}, PreFetchIntermediaryReputation)
ToBTCLNQuoteExactIn == Create(<<PrepareToBTCLNExactIn, GetInvoice, InitToBTCLNExactIn>>,
                              {}, PreFetchIntermediaryReputation)
FromBTCCreate       == Create(<<InitFromBTC>>, {}, PreFetchIntermediaryLiquidity)
FromBTCLNCreate     == Create(<<InitFromBTCLN>>, {}, PreFetchIntermediaryLiquidity)
FromBTCLNAutoCreate == Create(<<InitFromBTCLNAuto>>, {}, PreFetchIntermediaryLiquidity)
SpvFromBTCCreate    == Create(<<PrepareSpvFromBTC>>,
                              BitcoinFeeRate \cup PreFetchFinalizedBlockHeight, {})

Creation(kind, exactIn) ==
  CASE kind = "TO_BTC"             -> ToBTCCreate
    [] kind = "TO_BTCLN"           -> IF exactIn THEN ToBTCLNQuoteExactIn ELSE ToBTCLNQuote
    [] kind = "FROM_BTC"           -> FromBTCCreate
    [] kind = "FROM_BTCLN"         -> FromBTCLNCreate
    [] kind = "FROM_BTCLN_AUTO"    -> FromBTCLNAutoCreate
    [] kind = "SPV_VAULT_FROM_BTC" -> SpvFromBTCCreate
=============================================================================
