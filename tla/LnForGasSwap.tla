---------------------------- MODULE LnForGasSwap ----------------------------
(***************************************************************************)
(* A trusted swap of a lightning payment for the smart chain's gas token:  *)
(* the user pays the LP's invoice and the LP sends the tokens.             *)
(***************************************************************************)
EXTENDS TrustedSwap

\* Mutant: the wait stops when the LP has the payment.
WaitForReceipt == {"PR_CREATED"}
WaitStates == {"PR_CREATED", "PR_PAID"}

NoDetails == [txId |-> FALSE, amount |-> 0, address |-> FALSE]
LnInit == TrustedInit(NoDetails)

-----------------------------------------------------------------------------
(* The LP: it receives the payment, pays out, or lets the invoice expire or *)
(* cancels the payment.                                                     *)

LnLpStep ==
  /\ \/ LpMoves("await", "expired") \/ LpMoves("await", "pending")
     \/ LpMoves("pending", "expired") \/ LpMoves("pending", "failed")
     \/ LpPays \/ LpReports \/ PayoutLands
  /\ UNCHANGED <<lost, recordVars, lifeVars, callVars>>

-----------------------------------------------------------------------------
(* checkInvoicePaid *)

LnToStatus(t) ==
  /\ noted[t] = "paid" /\ Goto(t, "status")
  /\ UNCHANGED <<recordVars, noted>> /\ Alive

\* The answer is applied to the state of this moment.  A received payment
\* is not a change to a sync: PR_PAID stays in memory only.
LnApply(t) ==
  /\ pc[t] = "answered"
  /\ \/ LnToStatus(t)
     \/ /\ noted[t] = "expired"
        /\ Become(t, IF state = "PR_CREATED" THEN "EXPIRED" ELSE "FAILED", details, TRUE)
     \/ /\ noted[t] \in {"sent", "pending"}
        /\ IF state = "PR_CREATED" THEN Become(t, "PR_PAID", details, FALSE) ELSE Keep(t)
     \/ noted[t] = "await" /\ Keep(t)
     \/ noted[t] = "failed" /\ Become(t, "FAILED", details, TRUE)

\* The payout is looked for on the chain before the LP is believed.
LnApplyStatus(t) ==
  /\ pc[t] = "status"
  /\ IF payout = "success" THEN Become(t, "FINISHED", details, TRUE) ELSE Keep(t)

LnCallNext(t) ==
  \/ WaitStart(t) \/ Poll(t, "wait", WaitStates)
  \/ Answered(t) \/ Unanswered(t) \/ LnApply(t) \/ LnApplyStatus(t)
  \/ SyncStart(t) \/ SyncEnd(t)

LnNext == LnLpStep \/ StorageNext \/ \E t \in Callers : LnCallNext(t)

-----------------------------------------------------------------------------
(* Properties *)

\* The swap shows FINISHED only for a payout that is on the chain, and EXPIRED
\* or FAILED only when the LP did not pay.
LnShownIsTrue ==
  /\ state = "FINISHED" => payout = "success"
  /\ state = "PR_PAID" => lp # "await"
  /\ state = "EXPIRED" => lp = "expired"
  /\ state = "FAILED" => lp \in {"expired", "failed"}

\* What the swap ends in when the LP's answer is final.
LnOutcomes ==
  CASE lp = "paid" /\ payout = "success" -> {"FINISHED"}
    [] lp = "expired" -> {"EXPIRED", "FAILED"}
    [] lp = "failed" -> {"FAILED"}
    [] OTHER -> {}
=============================================================================
