----------------------------- MODULE SwapEscrow -----------------------------
(***************************************************************************)
(* The world around one send swap (smart chain -> bitcoin), as the SDK     *)
(* relies on it: the escrow contract, the intermediary (LP) that pays out  *)
(* on bitcoin or lightning, the expiries, and the stream of contract       *)
(* events.  The contract and the LP are not part of the repository; what   *)
(* is written here is how src/ uses them.                                  *)
(***************************************************************************)
EXTENDS Sequences

VARIABLES
  escrow,        \* the contract's view: "none", "open", "paid" or "refunded"
  events,        \* contract events not yet handed to the SDK's listener
  commitSent,    \* the user has signed and broadcast the commit transaction
  refundSent,    \* the kinds of refund transactions the user has broadcast
  lpPaid,        \* the LP has made the bitcoin/lightning payment (and can prove it)
  lpRefund,      \* the LP has signed a cooperative refund
  softExpired,   \* the quote's local expiry time has passed
  authExpired,   \* the init authorization can no longer be used on-chain
  escrowExpired  \* the escrow's own timeout has passed

clocks    == <<softExpired, authExpired, escrowExpired>>
lpVars    == <<lpPaid, lpRefund>>
sentVars  == <<commitSent, refundSent>>
chainVars == <<escrow, events, sentVars, lpVars, clocks>>

Escrows     == {"none", "open", "paid", "refunded"}
ChainEvents == {"init", "claim", "refund"}
RefundKinds == {"timeout", "coop"}
StatusTypes == {"NOT_COMMITED", "COMMITED", "REFUNDABLE", "PAID", "EXPIRED"}

ChainTypeOK ==
  /\ escrow \in Escrows
  /\ events \in Seq(ChainEvents)
  /\ commitSent \in BOOLEAN
  /\ refundSent \in SUBSET RefundKinds
  /\ lpPaid \in BOOLEAN
  /\ lpRefund \in BOOLEAN
  /\ softExpired \in BOOLEAN
  /\ authExpired \in BOOLEAN
  /\ escrowExpired \in BOOLEAN

ChainInit ==
  /\ escrow = "none"
  /\ events = <<>>
  /\ commitSent = FALSE
  /\ refundSent = {}
  /\ lpPaid = FALSE
  /\ lpRefund = FALSE
  /\ softExpired = FALSE
  /\ authExpired = FALSE
  /\ escrowExpired = FALSE

(***************************************************************************)
(* The answers getCommitStatus may give at this moment.  A refunded escrow *)
(* whose timeout has passed is reported as either NOT_COMMITED or EXPIRED: *)
(* the SDK reads a refund transaction id from both.                        *)
(***************************************************************************)
StatusAnswers ==
  CASE escrow = "paid"     -> {"PAID"}
    [] escrow = "open"     -> IF escrowExpired THEN {"REFUNDABLE"} ELSE {"COMMITED"}
    [] escrow = "none"     -> IF escrowExpired THEN {"EXPIRED"} ELSE {"NOT_COMMITED"}
    [] escrow = "refunded" -> IF escrowExpired THEN {"NOT_COMMITED", "EXPIRED"}
                                               ELSE {"NOT_COMMITED"}

-----------------------------------------------------------------------------
\* The contract accepts a commit only while its authorization is valid.
ChainCommit ==
  /\ escrow = "none"
  /\ commitSent
  /\ ~authExpired
  /\ escrow' = "open"
  /\ events' = Append(events, "init")
  /\ UNCHANGED <<sentVars, lpVars, clocks>>

\* The LP claims the escrow with the proof that it has paid.
ChainClaim ==
  /\ escrow = "open"
  /\ lpPaid
  /\ escrow' = "paid"
  /\ events' = Append(events, "claim")
  /\ UNCHANGED <<sentVars, lpVars, clocks>>

\* A refund succeeds after the timeout, or before it with the LP's signature.
ChainRefund ==
  /\ escrow = "open"
  /\ \/ "timeout" \in refundSent /\ escrowExpired
     \/ "coop" \in refundSent /\ lpRefund
  /\ escrow' = "refunded"
  /\ events' = Append(events, "refund")
  /\ UNCHANGED <<sentVars, lpVars, clocks>>

LpPay ==
  /\ escrow = "open"
  /\ ~lpPaid
  /\ lpPaid' = TRUE
  /\ UNCHANGED <<escrow, events, sentVars, lpRefund, clocks>>

LpSignRefund ==
  /\ escrow = "open"
  /\ ~lpRefund
  /\ lpRefund' = TRUE
  /\ UNCHANGED <<escrow, events, sentVars, lpPaid, clocks>>

SoftExpire ==
  /\ ~softExpired
  /\ softExpired' = TRUE
  /\ UNCHANGED <<escrow, events, sentVars, lpVars, authExpired, escrowExpired>>

AuthExpire ==
  /\ ~authExpired
  /\ authExpired' = TRUE
  /\ UNCHANGED <<escrow, events, sentVars, lpVars, softExpired, escrowExpired>>

\* The escrow outlives the authorization that opens it.
EscrowExpire ==
  /\ authExpired
  /\ ~escrowExpired
  /\ escrowExpired' = TRUE
  /\ UNCHANGED <<escrow, events, sentVars, lpVars, softExpired, authExpired>>

ChainNext ==
  \/ ChainCommit \/ ChainClaim \/ ChainRefund
  \/ LpPay \/ LpSignRefund
  \/ SoftExpire \/ AuthExpire \/ EscrowExpire
=============================================================================
