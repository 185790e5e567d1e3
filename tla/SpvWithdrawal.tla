---------------------------- MODULE SpvWithdrawal ----------------------------
(***************************************************************************)
(* The world around one SpvFromBTC swap: the bitcoin transaction that      *)
(* spends the LP's vault UTXO together with the user's inputs, the         *)
(* withdrawal it stands for on the smart chain, the LP that broadcasts it, *)
(* the expiries of the quote and the contract's events.  Neither contract  *)
(* nor LP nor bitcoin are part of the repository; what is written here is  *)
(* how src/ uses them.                                                     *)
(***************************************************************************)
EXTENDS Sequences

VARIABLES
  btc,          \* the bitcoin transaction, as the network knows it
  withdrawal,   \* the withdrawal on the smart chain
  fronted,      \* someone has paid the user out of their own pocket
  events,       \* contract events not yet handed to the SDK's listener
  lpHas,        \* the LP holds the signed PSBT
  quoteExpired, \* 20 seconds before the quote expires, see getQuoteExpiry
  expired       \* the quote has expired

clocks    == <<quoteExpired, expired>>
worldVars == <<btc, withdrawal, fronted, events, lpHas, clocks>>

BtcStates   == {"unseen", "mempool", "confirmed", "doublespent"}
Withdrawals == {"none", "fronted", "claimed", "closed"}
ChainEvents == {"fronted", "claimed", "closed"}

WorldTypeOK ==
  /\ btc \in BtcStates
  /\ withdrawal \in Withdrawals
  /\ fronted \in BOOLEAN
  /\ events \in Seq(ChainEvents)
  /\ lpHas \in BOOLEAN
  /\ quoteExpired \in BOOLEAN
  /\ expired \in BOOLEAN

WorldInit ==
  /\ btc = "unseen"
  /\ withdrawal = "none"
  /\ fronted = FALSE
  /\ events = <<>>
  /\ lpHas = FALSE
  /\ quoteExpired = FALSE
  /\ expired = FALSE

-----------------------------------------------------------------------------
\* Only the LP can complete the transaction: the first input is its vault.
LpBroadcast ==
  /\ lpHas /\ btc = "unseen"
  /\ btc' = "mempool"
  /\ UNCHANGED <<withdrawal, fronted, events, lpHas, clocks>>

Confirm ==
  /\ btc = "mempool"
  /\ btc' = "confirmed"
  /\ UNCHANGED <<withdrawal, fronted, events, lpHas, clocks>>

\* Another transaction with one of the inputs is mined.
DoubleSpend ==
  /\ btc \in {"unseen", "mempool"}
  /\ btc' = "doublespent"
  /\ UNCHANGED <<withdrawal, fronted, events, lpHas, clocks>>

Settle(w) ==
  /\ withdrawal' = w
  /\ events' = Append(events, w)
  /\ UNCHANGED <<btc, lpHas, clocks>>

\* Anyone may pay the user out of their own pocket before the confirmations.
Front ==
  /\ btc \in {"mempool", "confirmed"} /\ withdrawal = "none"
  /\ Settle("fronted") /\ fronted' = TRUE

\* A watchtower or the user proves the confirmed transaction to the vault.
ChainClaim ==
  /\ btc = "confirmed" /\ withdrawal \in {"none", "fronted"}
  /\ Settle("claimed") /\ UNCHANGED fronted

\* The vault rejects the transaction and is closed by it.
Close ==
  /\ btc = "confirmed" /\ withdrawal = "none"
  /\ Settle("closed") /\ UNCHANGED fronted

QuoteExpire ==
  /\ ~quoteExpired
  /\ quoteExpired' = TRUE
  /\ UNCHANGED <<btc, withdrawal, fronted, events, lpHas, expired>>

Expire ==
  /\ quoteExpired /\ ~expired
  /\ expired' = TRUE
  /\ UNCHANGED <<btc, withdrawal, fronted, events, lpHas, quoteExpired>>

WorldNext ==
  \/ LpBroadcast \/ Confirm \/ DoubleSpend
  \/ Front \/ ChainClaim \/ Close
  \/ QuoteExpire \/ Expire
=============================================================================
