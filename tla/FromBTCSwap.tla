---------------------------- MODULE FromBTCSwap ----------------------------
(***************************************************************************)
(* A swap from bitcoin with an escrow that a bitcoin transaction unlocks:  *)
(* the user commits the escrow with the LP's authorization, sends bitcoin  *)
(* to the swap's address, and once that deposit is confirmed watchtowers   *)
(* or the user claim.  learnt is whether the swap knows its deposit (txId).*)
(***************************************************************************)
EXTENDS ReceiveSwap

CONSTANTS MaxDeposits   \* bound on deposits to the address

ASSUME DepositsAssumption == MaxDeposits \in Nat

VARIABLES
  deposits,  \* the transactions sent to the swap's address
  confirmed  \* one of them has the required confirmations

btcVars == <<deposits, confirmed>>
vars == <<receiveVars, btcVars>>

\* "send" is the part of execute() that follows the commit.
ASSUME OnchainCallsAssumption ==
  UNION Applications \subseteq
    Callers \X {"commit", "waitCommit", "send", "claim", "waitClaim", "sync"}

PendingStates == {"PR_CREATED", "QUOTE_SOFT_EXPIRED", "CLAIM_COMMITED", "BTC_TX_CONFIRMED", "EXPIRED"}
\* Mutant: ticks skip swaps past the time to send.
TickWithoutExpired == {"PR_CREATED", "CLAIM_COMMITED"}
TickStates == {"PR_CREATED", "CLAIM_COMMITED", "EXPIRED"}
DepositStates == {"CLAIM_COMMITED", "EXPIRED"}
OpenStates == DepositStates \cup {"BTC_TX_CONFIRMED"}

Labels == {"idle", "saving", "tick:asked", "tick:seen", "tick:confirmed",
           "commit:saving", "commit:send", "commit:confirm", "wc:poll", "wc:expiry", "wc:yes", "wc:no",
           "send:look", "send:wallet", "btc:wait", "sync:expiry", "sync:status", "sync:apply",
           "sync:asked", "sync:end", "claim:send", "claim:confirm", "claim:failed",
           "wcl:poll", "wcl:paid", "wcl:failed"}

TypeOK ==
  /\ ReceiveTypeOK
  /\ deposits \in 0..MaxDeposits /\ confirmed \in BOOLEAN
  /\ pc \in [Tasks -> Labels]

Init == ReceiveInit /\ deposits = 0 /\ confirmed = FALSE

-----------------------------------------------------------------------------
(* The world *)

ChainCommit == "commit" \in sent /\ "auth" \notin passed /\ EscrowStep("none", "open", "init")

\* Watchtowers or the user.
ChainClaim == confirmed /\ EscrowStep("open", "paid", "claim")

Clock ==
  \/ Expire("soft", {}) \/ Expire("window", {"soft"}) \/ Expire("auth", {"window"})
  \/ Expire("send", {"auth"}) \/ Expire("escrow", {"send"})

Confirm == deposits > 0 /\ ~confirmed /\ confirmed' = TRUE

Environment ==
  /\ \/ (ChainCommit \/ ChainClaim \/ ChainRefund \/ Clock) /\ UNCHANGED btcVars
     \/ Confirm /\ UNCHANGED <<deposits, worldVars>>
  /\ UNCHANGED <<recordVars, lifeVars, pc, noted>>

-----------------------------------------------------------------------------
(* Saving and emitting *)

Waked(s) ==
  [u \in Tasks |->
     IF pc[u] \in {"wc:poll", "wc:expiry"} /\ s \in {"CLAIM_COMMITED", "BTC_TX_CONFIRMED", "CLAIM_CLAIMED"}
       THEN "idle"
     ELSE IF pc[u] = "wcl:poll" /\ s \in {"CLAIM_CLAIMED", "FAILED"} THEN "idle"
     ELSE pc[u]]

\* Call t emits s, having learnt about the deposit or not.
EmitWith(t, s, known, next) ==
  SaveWith(s, known, initiated) /\ pc' = [Waked(s) EXCEPT ![t] = next]

EmitFrom(t, s, next) == EmitWith(t, s, learnt, next)

EmitIf(t, from, s) ==
  IF state \in from THEN EmitFrom(t, s, "saving") ELSE Goto(t, "idle") /\ Still

Frame == Alive /\ UNCHANGED <<noted, worldVars, btcVars>>

\* getBitcoinPayment: nothing, an unconfirmed or a confirmed deposit.
DepositAnswer == IF deposits = 0 THEN "none" ELSE IF confirmed THEN "confirmed" ELSE "seen"

-----------------------------------------------------------------------------
(* _tick *)

TickSelected == ~initiated \/ recorded.state \in TickStates

TickExpire(t) ==
  /\ Running(t) /\ TickSelected
  /\ \/ state = "PR_CREATED" /\ "soft" \in passed /\ EmitFrom(t, "QUOTE_SOFT_EXPIRED", "idle")
     \/ state = "CLAIM_COMMITED" /\ "send" \in passed /\ EmitFrom(t, "EXPIRED", "idle")
  /\ Frame

\* Every two minutes the deposit is asked for, before and after the timeout.
TickAsk(t) ==
  /\ Running(t) /\ TickSelected
  /\ state = "EXPIRED" \/ (state = "CLAIM_COMMITED" /\ "send" \notin passed)
  /\ Goto(t, "tick:asked") /\ Still /\ Frame

TickAnswer(t) ==
  /\ pc[t] = "tick:asked"
  /\ Goto(t, CASE DepositAnswer = "none" -> "idle"
               [] DepositAnswer = "seen" -> "tick:seen"
               [] DepositAnswer = "confirmed" -> "tick:confirmed")
  /\ Still /\ Frame

\* Mutant: any number of confirmations is enough.
TickApplyUnconfirmed(t) ==
  /\ pc[t] \in {"tick:seen", "tick:confirmed"}
  /\ EmitWith(t, "BTC_TX_CONFIRMED", "good", "idle") /\ Frame

\* The state is not looked at again after the await.
TickApply(t) ==
  /\ \/ pc[t] = "tick:seen" /\ EmitWith(t, state, "good", "idle")
     \/ pc[t] = "tick:confirmed" /\ EmitWith(t, "BTC_TX_CONFIRMED", "good", "idle")
  /\ Frame

TickNext(t) == TickExpire(t) \/ TickAsk(t) \/ TickAnswer(t) \/ TickApply(t)

-----------------------------------------------------------------------------
(* checkPastSwaps, as run by wrapper.init() and by Swapper._syncSwaps *)

SyncStart(t) ==
  /\ \/ Called(t, "sync") /\ UNCHANGED phase
     \/ t = Starter /\ phase = "init" /\ phase' = "syncing"
  /\ recorded.state \in PendingStates
  /\ Goto(t, "sync:expiry")
  /\ Still /\ UNCHANGED <<durable, restarts, noted, worldVars, btcVars>>

SyncExpiry(t) ==
  /\ pc[t] = "sync:expiry"
  /\ noted' = [noted EXCEPT ![t].expired = state \in QuoteStates /\ "auth" \in passed]
  /\ Goto(t, "sync:status")
  /\ Still /\ Alive /\ UNCHANGED <<worldVars, btcVars>>

SyncStatus(t) ==
  /\ pc[t] = "sync:status"
  /\ \E answer \in StatusOf(escrow) : noted' = [noted EXCEPT ![t].status = answer]
  /\ Goto(t, "sync:apply")
  /\ Still /\ Alive /\ UNCHANGED <<worldVars, btcVars>>

\* syncStateFromChain: the state that follows from the current one and the answers.
SyncedState(t) ==
  LET status == noted[t].status IN
  IF state \in QuoteStates THEN
    IF status = "COMMITED" THEN "CLAIM_COMMITED"
    ELSE IF status = "PAID" THEN "CLAIM_CLAIMED"
    ELSE IF status = "EXPIRED" \/ noted[t].expired THEN "QUOTE_EXPIRED" ELSE state
  ELSE IF state \in OpenStates THEN
    IF status = "PAID" THEN "CLAIM_CLAIMED"
    ELSE IF status \in {"NOT_COMMITED", "EXPIRED"} THEN "FAILED" ELSE state
  ELSE state

\* A claim tells the deposit's transaction; an open escrow asks for one.
SyncApply(t) ==
  /\ pc[t] = "sync:apply"
  /\ state' = SyncedState(t)
  /\ learnt' = IF state' = "CLAIM_CLAIMED" /\ state # state' THEN "good" ELSE learnt
  /\ noted' = [noted EXCEPT ![t].changed = state' # state]
  /\ Goto(t, IF noted[t].status = "COMMITED" /\ state \in OpenStates THEN "sync:asked" ELSE "sync:end")
  /\ Alive /\ UNCHANGED <<initiated, recorded, worldVars, btcVars>>

\* Again without a second look at the state.
SyncDeposit(t) ==
  /\ pc[t] = "sync:asked"
  /\ IF DepositAnswer = "none" THEN UNCHANGED <<state, learnt, noted>>
     ELSE /\ learnt' = "good"
          /\ state' = IF DepositAnswer = "confirmed" THEN "BTC_TX_CONFIRMED" ELSE state
          /\ noted' = [noted EXCEPT ![t].changed =
                         @ \/ learnt = "none" \/ DepositAnswer = "confirmed"]
  /\ Goto(t, "sync:end")
  /\ Alive /\ UNCHANGED <<initiated, recorded, worldVars, btcVars>>

SyncEnd(t) ==
  /\ pc[t] = "sync:end"
  /\ IF noted[t].changed THEN SaveAs(state) /\ Goto(t, "saving")
                         ELSE Still /\ Goto(t, "idle")
  /\ noted' = [noted EXCEPT ![t] = Nothing]
  /\ Alive /\ UNCHANGED <<worldVars, btcVars>>

\* The expiry or the statuses of the batch cannot be had.
SyncFail(t) ==
  /\ phase = "run" /\ pc[t] \in {"sync:expiry", "sync:status"}
  /\ noted' = [noted EXCEPT ![t] = Nothing]
  /\ Goto(t, "idle") /\ Still /\ Alive /\ UNCHANGED <<worldVars, btcVars>>

SyncNext(t) ==
  \/ SyncStart(t) \/ SyncExpiry(t) \/ SyncStatus(t) \/ SyncApply(t)
  \/ SyncDeposit(t) \/ SyncEnd(t) \/ SyncFail(t)

-----------------------------------------------------------------------------
(* commit and waitTillCommited *)

\* Mutant: the commit is sent without a record of the swap.
CommitUnsaved(t) ==
  /\ Called(t, "commit") /\ state = "PR_CREATED" /\ "window" \notin passed
  /\ Still /\ Goto(t, "commit:send") /\ Frame

\* canCommit: only while a quote, and with time left to send bitcoin; the
\* first call waits until the swap is stored.
Commit(t) ==
  /\ Called(t, "commit") /\ state = "PR_CREATED" /\ "window" \notin passed
  /\ IF initiated THEN Still /\ Goto(t, "commit:send")
                  ELSE SaveWith(state, learnt, TRUE) /\ Goto(t, "commit:saving")
  /\ Frame

CommitSend(t) ==
  /\ pc[t] = "commit:send"
  /\ sent' = sent \cup {"commit"} /\ UNCHANGED <<escrow, events, passed>>
  /\ Goto(t, "commit:confirm")
  /\ Still /\ Alive /\ UNCHANGED <<noted, btcVars>>

CommitConfirmed(t) ==
  /\ pc[t] = "commit:confirm" /\ escrow # "none"
  /\ EmitIf(t, QuoteStates, "CLAIM_COMMITED") /\ Frame

\* An invalid signature, a rejected transaction, or the abort signal.
CommitFail(t) ==
  /\ pc[t] \in {"commit:send", "commit:confirm"} /\ Goto(t, "idle")
  /\ Still /\ Frame

WaitCommit(t) ==
  /\ Called(t, "waitCommit") /\ state \in QuoteStates
  /\ Goto(t, "wc:poll") /\ Still /\ Frame

WatchCommit(t) ==
  /\ \/ /\ pc[t] = "wc:poll"
        /\ \E answer \in StatusOf(escrow) :
             Goto(t, IF answer = "NOT_COMMITED" THEN "wc:expiry"
                     ELSE IF answer = "EXPIRED" THEN "wc:no" ELSE "wc:yes")
     \/ /\ pc[t] = "wc:expiry"
        /\ Goto(t, IF "auth" \in passed THEN "wc:no" ELSE "wc:poll")
  /\ Still /\ Frame

WaitCommitDone(t) ==
  /\ \/ pc[t] = "wc:no" /\ EmitIf(t, QuoteStates, "QUOTE_EXPIRED")
     \/ pc[t] = "wc:yes" /\ EmitIf(t, QuoteStates, "CLAIM_COMMITED")
  /\ Frame

CommitNext(t) ==
  \/ Commit(t) \/ CommitSend(t) \/ CommitConfirmed(t) \/ CommitFail(t)
  \/ WaitCommit(t) \/ WatchCommit(t) \/ WaitCommitDone(t)

-----------------------------------------------------------------------------
(* execute() after the commit: the deposit and the wait for it *)

\* Mutant: a deposit made before is not looked for.
SendUnlooked(t) ==
  /\ Called(t, "send") /\ state = "CLAIM_COMMITED" /\ "send" \notin passed
  /\ Goto(t, "send:wallet") /\ Still /\ Frame

\* The payment may have been sent by an earlier call, or by hand.
Send(t) ==
  /\ Called(t, "send") /\ state = "CLAIM_COMMITED"
  /\ Goto(t, "send:look") /\ Still /\ Frame

\* waitForBitcoinTransaction refuses a swap that left the states for it.
AwaitDeposit(t) == Goto(t, IF state \in DepositStates THEN "btc:wait" ELSE "idle")

\* The address is only paid while the swap is committed and time is left.
SendLooked(t) ==
  /\ pc[t] = "send:look"
  /\ IF DepositAnswer # "none" THEN AwaitDeposit(t)
     ELSE Goto(t, IF state = "CLAIM_COMMITED" /\ "send" \notin passed THEN "send:wallet" ELSE "idle")
  /\ Still /\ Frame

\* The wallet signs and broadcasts, or the user declines.
SendWallet(t) ==
  /\ pc[t] = "send:wallet"
  /\ \/ deposits < MaxDeposits /\ deposits' = deposits + 1 /\ AwaitDeposit(t)
     \/ UNCHANGED deposits /\ Goto(t, "idle")
  /\ Still /\ Alive /\ UNCHANGED <<noted, worldVars, confirmed>>

\* The callback of waitForAddressTxo stores a deposit as soon as it is seen.
BitcoinSeen(t) ==
  /\ pc[t] = "btc:wait" /\ deposits > 0 /\ learnt = "none"
  /\ EmitWith(t, state, "good", "btc:wait") /\ Frame

BitcoinConfirmed(t) ==
  /\ pc[t] = "btc:wait" /\ confirmed
  /\ EmitWith(t, IF state \in {"CLAIM_CLAIMED", "FAILED"} THEN state ELSE "BTC_TX_CONFIRMED",
              "good", "saving")
  /\ Frame

BitcoinAbort(t) == pc[t] = "btc:wait" /\ Goto(t, "idle") /\ Still /\ Frame

SendNext(t) ==
  \/ Send(t) \/ SendLooked(t) \/ SendWallet(t)
  \/ BitcoinSeen(t) \/ BitcoinConfirmed(t) \/ BitcoinAbort(t)

-----------------------------------------------------------------------------
(* claim and waitTillClaimed *)

Claim(t) ==
  /\ Called(t, "claim") /\ state = "BTC_TX_CONFIRMED" /\ learnt # "none"
  /\ Goto(t, "claim:send") /\ Still /\ Frame

ClaimSend(t) ==
  /\ pc[t] = "claim:send"
  /\ \E next \in {"claim:confirm", "claim:failed"} : Goto(t, next)
  /\ Still /\ Frame

ClaimConfirmed(t) ==
  /\ pc[t] = "claim:confirm"
  /\ \/ escrow = "paid" /\ EmitIf(t, OpenStates \cup {"FAILED"}, "CLAIM_CLAIMED")
     \/ Goto(t, "claim:failed") /\ Still
  /\ Frame

\* A claim that fails because a watchtower was faster has succeeded.
ClaimFailed(t) ==
  /\ pc[t] = "claim:failed"
  /\ Goto(t, IF state # "CLAIM_CLAIMED" /\ "PAID" \in StatusOf(escrow) THEN "wcl:paid" ELSE "idle")
  /\ Still /\ Frame

WaitClaim(t) ==
  /\ Called(t, "waitClaim") /\ state = "BTC_TX_CONFIRMED"
  /\ Goto(t, "wcl:poll") /\ Still /\ Frame

WatchClaim(t) ==
  /\ pc[t] = "wcl:poll"
  /\ \/ Goto(t, "idle")
     \/ /\ "PAID" \in StatusOf(escrow)
        /\ Goto(t, IF state = "CLAIM_CLAIMED" THEN "idle" ELSE "wcl:paid")
     \/ /\ {"NOT_COMMITED", "EXPIRED"} \cap StatusOf(escrow) # {}
        /\ Goto(t, IF state \in {"CLAIM_CLAIMED", "FAILED"} THEN "idle" ELSE "wcl:failed")
  /\ Still /\ Frame

\* The transaction that claimed or refunded, and with a claim the deposit it
\* names, was awaited since the state was looked at; it may not be had.
ClaimSettled(t) ==
  /\ \/ pc[t] = "wcl:paid" /\ EmitWith(t, "CLAIM_CLAIMED", "good", "saving")
     \/ pc[t] = "wcl:failed" /\ EmitFrom(t, "FAILED", "saving")
     \/ pc[t] \in {"wcl:paid", "wcl:failed"} /\ Goto(t, "idle") /\ Still
  /\ Frame

ClaimNext(t) ==
  \/ Claim(t) \/ ClaimSend(t) \/ ClaimConfirmed(t) \/ ClaimFailed(t)
  \/ WaitClaim(t) \/ WatchClaim(t) \/ ClaimSettled(t)

-----------------------------------------------------------------------------
(* Contract events *)

OnEvent(e) ==
  CASE e = "init"   -> IF state \in QuoteStates THEN "CLAIM_COMMITED" ELSE state
    [] e = "claim"  -> IF state \in {"FAILED", "CLAIM_CLAIMED"} THEN state ELSE "CLAIM_CLAIMED"
    [] e = "refund" -> IF state \in {"FAILED", "CLAIM_CLAIMED"} THEN state ELSE "FAILED"

\* The claim event names the deposit, which is fetched from bitcoin.
ListenerNext ==
  /\ \E e \in {"init", "claim", "refund"} :
       /\ NextEvent(e)
       /\ IF recorded = Absent THEN Still /\ UNCHANGED pc
          ELSE /\ SaveWith(OnEvent(e), IF e = "claim" THEN "good" ELSE learnt, initiated)
               /\ pc' = Waked(OnEvent(e))
  /\ Alive /\ UNCHANGED <<noted, btcVars>>

-----------------------------------------------------------------------------
StorageNext ==
  (Flush \/ Crash \/ Restart(PendingStates) \/ InitDone) /\ UNCHANGED btcVars

Next ==
  /\ UNCHANGED app
  /\ \/ Environment
     \/ \E t \in Timers : TickNext(t)
     \/ \E t \in Callers : SyncNext(t) \/ CommitNext(t) \/ SendNext(t) \/ ClaimNext(t)
     \/ ListenerNext
     \/ StorageNext

Spec == Init /\ [][Next]_vars

\* As in FromBTCLNSwap.
Fairness ==
  /\ \A t \in Timers : WF_vars(TickNext(t) /\ UNCHANGED app)
  /\ WF_vars(\E t \in Callers : phase \in {"init", "syncing"} /\ SyncNext(t) /\ UNCHANGED app)
  /\ WF_vars(ListenerNext /\ UNCHANGED app)
  /\ WF_vars(Flush /\ UNCHANGED <<btcVars, app>>)
  /\ WF_vars(Restart(PendingStates) /\ UNCHANGED <<btcVars, app>>)
  /\ WF_vars(InitDone /\ UNCHANGED <<btcVars, app>>)

FairSpec == Spec /\ Fairness

-----------------------------------------------------------------------------
(* Properties *)

\* What the swap shows of the deposit and the escrow is so: confirmed deposits
\* are, CLAIM_CLAIMED swaps were claimed, and FAILED ones timed out.
ShownIsTrue ==
  /\ state = "BTC_TX_CONFIRMED" => confirmed /\ learnt = "good"
  /\ state = "CLAIM_CLAIMED" => escrow = "paid"
  /\ state = "FAILED" /\ ~Makes({"sync"}) => "escrow" \in passed

\* Bitcoin is only at risk for a swap that survives a crash: while the escrow
\* may be claimed, its record is one that wrapper.init() picks up again.  Two
\* calls that apply old answers are left out: waitTillCommited(), as in
\* FromBTCLNSwap, and a full sync beside the commit.
DepositIsTracked ==
  ~Makes({"waitCommit", "sync"}) /\ deposits > 0 /\ escrow = "open" /\ "escrow" \notin passed
    => durable.state \in PendingStates

\* execute() called again, also after a crash, does not pay a second time.
PaidOnce == deposits <= 1

\* A confirmed deposit for an open escrow is offered for a claim, also when
\* it was sent too late or events were lost, unless the escrow times out.
DepositIsOffered ==
  (~Makes({"waitCommit", "sync"}) /\ confirmed /\ escrow = "open" /\ "escrow" \notin passed)
     ~> (escrow # "open" \/ "escrow" \in passed \/ (phase = "run" /\ state = "BTC_TX_CONFIRMED"))
=============================================================================
