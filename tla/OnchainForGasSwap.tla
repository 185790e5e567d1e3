------------------------- MODULE OnchainForGasSwap -------------------------
(***************************************************************************)
(* A trusted swap of an on-chain bitcoin payment for the smart chain's gas *)
(* token: the user pays to the LP's address, from a wallet that the SDK    *)
(* selects the coins of or otherwise, and the LP sends the tokens or gives *)
(* the bitcoin back.  details is what the swap knows of the deposit (txId, *)
(* amount: inputAmount) and whether it knows a refund address.             *)
(***************************************************************************)
EXTENDS TrustedSwap, CoinSelection

CONSTANTS
  QuotedSats,  \* the input amount of the quote
  GasPerSat,   \* the LP's price: output amount per input amount
  Wallets      \* wallets: sets of the UTXO sets that each may come to hold

ASSUME QuoteAssumption  == {QuotedSats, GasPerSat} \subseteq Nat \ {0}
ASSUME WalletAssumption == \A w \in Wallets : \A pool \in w : IsPool(pool)

VARIABLES
  deposit,    \* the amount sent to the LP's address; at most one deposit is sent
  lpAddress,  \* the LP knows where to send a refund
  soft,       \* the quote's expiry has passed
  psbt,       \* the transaction that sendBitcoinTransaction() works on
  wallet      \* the user's wallet, one of Wallets

onchainVars == <<deposit, lpAddress, soft, psbt, wallet>>

NoPsbt == [route |-> "none"]

OnchainInit ==
  /\ lpAddress \in BOOLEAN
  /\ TrustedInit([txId |-> FALSE, amount |-> QuotedSats, address |-> lpAddress])
  /\ deposit = 0 /\ soft = FALSE /\ psbt = NoPsbt /\ wallet \in Wallets

OutputAmount == GasPerSat * details.amount

-----------------------------------------------------------------------------
(* The LP and the user's other wallets *)

\* Paid by hand: the address and amount of txsExecute() and getHyperlink().
UserPays == deposit = 0 /\ deposit' = QuotedSats

\* The transaction drops out of the mempool, and may be back later.
LpDrops == LpMoves("seen", "await")

LpRefunds == lpAddress /\ LpMoves("refundable", "refunded")

OnchainLpStep ==
  /\ \/ UserPays /\ UNCHANGED <<lpVars, soft>>
     \/ deposit > 0 /\ LpMoves("await", "seen") /\ UNCHANGED <<deposit, soft>>
     \/ (LpMoves("await", "expired") \/ LpDrops) /\ UNCHANGED <<deposit, soft>>
     \/ (LpMoves("seen", "pending") \/ LpMoves("seen", "failed")) /\ UNCHANGED <<deposit, soft>>
     \/ (LpMoves("pending", "refundable") \/ LpRefunds) /\ UNCHANGED <<deposit, soft>>
     \/ (LpPays \/ LpReports \/ PayoutLands) /\ UNCHANGED <<deposit, soft>>
     \/ ~soft /\ soft' = TRUE /\ UNCHANGED <<lpVars, deposit>>
  /\ UNCHANGED <<lost, recordVars, lifeVars, callVars, lpAddress, psbt, wallet>>

-----------------------------------------------------------------------------
(* sendBitcoinTransaction *)

\* A wallet of the SDK is told the input amount.  For any other wallet the
\* amount is read when the PSBT is built, and it is the output amount.
Send(t) ==
  /\ Called(t, "send") /\ state = "PR_CREATED" /\ ~soft
  /\ psbt' \in {[route |-> "wallet", value |-> details.amount], [route |-> "psbt", value |-> 0]}
  /\ Begin(t, "send", "fund")
  /\ UNCHANGED <<recordVars, noted, deposit, lpAddress, soft, wallet>> /\ Alive

\* One output, to the LP's address, and no inputs yet.
Payment(value) == [targets |-> 1, value |-> value, required |-> <<>>]

\* The wallet selects among the coins it holds by then.
Funded(value) ==
  {[route |-> psbt.route, value |-> value, pool |-> pool, sel |-> CoinSelect(pool, Payment(value))] :
     pool \in wallet}

Fund(t) ==
  /\ pc[t] = "fund"
  /\ psbt' \in Funded(IF psbt.route = "psbt" THEN OutputAmount ELSE psbt.value)
  /\ Goto(t, IF psbt'.sel.ok THEN "sign" ELSE "unfunded")
  /\ UNCHANGED <<recordVars, noted, deposit, lpAddress, soft, wallet>> /\ Alive

\* submitPsbt() looks at the swap again; a wallet's own transaction is sent as it is.
Submit(t) ==
  /\ pc[t] = "sign" /\ deposit = 0
  /\ psbt.route = "psbt" => state = "PR_CREATED" /\ ~soft /\ psbt.value = OutputAmount
  /\ deposit' = psbt.value /\ psbt' = NoPsbt
  /\ Goto(t, "idle")
  /\ UNCHANGED <<recordVars, noted, lpAddress, soft, wallet>> /\ Alive

\* Not enough funds, a check of submitPsbt() or the broadcast fails.
SendFails(t) ==
  /\ pc[t] \in {"unfunded", "sign"} /\ psbt' = NoPsbt
  /\ Goto(t, "idle")
  /\ UNCHANGED <<recordVars, noted, deposit, lpAddress, soft, wallet>> /\ Alive

SendNext(t) == Send(t) \/ Fund(t) \/ Submit(t) \/ SendFails(t)

-----------------------------------------------------------------------------
(* checkAddress *)

OnchainToStatus(t) ==
  /\ noted[t] = "paid" /\ Goto(t, "status")
  /\ UNCHANGED <<recordVars, noted>> /\ Alive

Forgotten == [details EXCEPT !.txId = FALSE]
Noticed   == [details EXCEPT !.txId = TRUE, !.amount = deposit]

\* The answer is applied to the state of this moment.
OnchainApply(t) ==
  /\ pc[t] = "answered"
  /\ \/ noted[t] = "await" /\ IF details.txId THEN Become(t, state, Forgotten, TRUE) ELSE Keep(t)
     \/ /\ noted[t] \in {"seen", "pending", "sent"}
        /\ IF details # Noticed THEN Become(t, state, Noticed, TRUE) ELSE Keep(t)
     \/ OnchainToStatus(t)
     \/ noted[t] = "expired" /\ Become(t, "EXPIRED", details, TRUE)
     \/ /\ noted[t] = "refundable"
        /\ IF state = "REFUNDABLE" THEN Keep(t) ELSE Become(t, "REFUNDABLE", details, TRUE)
     \/ noted[t] = "refunded" /\ Become(t, "REFUNDED", details, TRUE)
     \/ noted[t] = "failed" /\ Become(t, "FAILED", details, TRUE)
  /\ UNCHANGED onchainVars

\* Mutant: the LP's word is enough.
OnchainApplyStatusTrusting(t) ==
  pc[t] = "status" /\ Become(t, "FINISHED", details, TRUE) /\ UNCHANGED onchainVars

\* The payout is looked for on the chain before the LP is believed.
OnchainApplyStatus(t) ==
  /\ pc[t] = "status"
  /\ IF payout = "success" THEN Become(t, "FINISHED", details, TRUE) ELSE Keep(t)
  /\ UNCHANGED onchainVars

-----------------------------------------------------------------------------
(* requestRefund *)

\* An address that is known already is not sent again.
RefundStart(t) ==
  /\ Called(t, "refund")
  /\ \/ state = "REFUNDABLE" /\ Begin(t, "refund", "loop")
     \/ ~details.address /\ Begin(t, "refund", "address")
  /\ UNCHANGED <<recordVars, noted, onchainVars>> /\ Alive

AddressSent(t) ==
  /\ pc[t] = "address" /\ lpAddress' = TRUE /\ Goto(t, "address:sent")
  /\ UNCHANGED <<recordVars, noted, deposit, soft, psbt, wallet>> /\ Alive

\* The address is kept in memory; waitTillRefunded() throws unless REFUNDABLE.
AddressKnown(t) ==
  /\ pc[t] = "address:sent"
  /\ details' = [details EXCEPT !.address = TRUE]
  /\ Goto(t, IF state = "REFUNDABLE" THEN "loop" ELSE "idle")
  /\ UNCHANGED <<state, initiated, recorded, noted, onchainVars>> /\ Alive

AddressLost(t) ==
  /\ pc[t] \in {"address", "address:sent"} /\ ~lost /\ lost' = TRUE
  /\ Goto(t, "idle")
  /\ UNCHANGED <<recordVars, noted, lifeVars, lpVars, onchainVars>>

RefundNext(t) == RefundStart(t) \/ AddressSent(t) \/ AddressKnown(t) \/ AddressLost(t)

-----------------------------------------------------------------------------
\* waitForBitcoinTransaction() looks a known deposit up for its callback, after
\* every answer, and throws when it cannot.
LookUpFails(t) ==
  /\ pc[t] = "loop" /\ doing[t] = "wait" /\ details.txId /\ ~lost /\ lost' = TRUE
  /\ Goto(t, "idle")
  /\ UNCHANGED <<recordVars, noted, lifeVars, lpVars>>

PollNext(t) ==
  /\ \/ WaitStart(t) \/ Poll(t, "wait", {"PR_CREATED"}) \/ Poll(t, "refund", {"REFUNDABLE"})
     \/ Answered(t) \/ Unanswered(t) \/ LookUpFails(t) \/ SyncStart(t) \/ SyncEnd(t)
  /\ UNCHANGED onchainVars

OnchainCallNext(t) == PollNext(t) \/ OnchainApply(t) \/ OnchainApplyStatus(t) \/ SendNext(t) \/ RefundNext(t)

\* A crash takes the transaction in the making with it.
StorageStep ==
  /\ StorageNext
  /\ psbt' = IF phase' = "down" THEN NoPsbt ELSE psbt
  /\ UNCHANGED <<deposit, lpAddress, soft, wallet>>

OnchainNext == OnchainLpStep \/ StorageStep \/ \E t \in Callers : OnchainCallNext(t)

-----------------------------------------------------------------------------
(* Properties *)

\* What the swap shows of its deposit and its end is so.  REFUNDABLE may be
\* shown of a swap that is refunded: an answer that was on its way while
\* another call saw the refund is applied over it.
OnchainShownIsTrue ==
  /\ state = "FINISHED" => payout = "success"
  /\ state = "REFUNDED" => lp = "refunded"
  /\ state = "REFUNDABLE" => lp \in {"refundable", "refunded"}
  /\ state = "EXPIRED" => lp = "expired"
  /\ state = "FAILED" => lp = "failed"
  /\ details.txId => details.amount = deposit
  /\ details.address => lpAddress

\* What the swap ends in when the LP's answer is final.
OnchainOutcomes ==
  CASE lp = "paid" /\ payout = "success" -> {"FINISHED"}
    [] lp = "expired" -> {"EXPIRED"}
    [] lp = "failed" -> {"FAILED"}
    [] lp = "refundable" -> {"REFUNDABLE"}
    [] lp = "refunded" -> {"REFUNDABLE", "REFUNDED"}
    [] OTHER -> {}

\* Whatever the wallet holds: a transaction that was funded pays its way, and
\* one that was not could not have been, by any choice of coins.
SelectionIsSound ==
  psbt # NoPsbt /\ "sel" \in DOMAIN psbt =>
    IF psbt.sel.ok THEN PaysItsWay(psbt.sel, Payment(psbt.value))
    ELSE ~CanFund(psbt.pool, Payment(psbt.value))
=============================================================================
