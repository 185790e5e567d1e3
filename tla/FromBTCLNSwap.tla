--------------------------- MODULE FromBTCLNSwap ---------------------------
(***************************************************************************)
(* A swap from lightning in which the user opens and claims the escrow:    *)
(* the user's wallet pays the LP's invoice, the LP holds the payment and   *)
(* hands out a signed authorization, the user commits the escrow with it   *)
(* and claims it with the secret, and the LP settles the held payment with *)
(* the secret the claim has revealed.                                      *)
(***************************************************************************)
EXTENDS ReceiveSwap

VARIABLES lp   \* the LP's side of the invoice: "invoice", "held" or "gone"

vars == <<receiveVars, lp>>

\* The calls execute() makes, one after the other and by the swap's state.
ExecuteCalls == {"pay", "commit", "claim"}
\* The same on a chain that takes commit and claim in one go.
OneShotCalls == {"pay", "oneshot", "claim"}

ASSUME LnCallsAssumption ==
  UNION Applications \subseteq Callers \X (ExecuteCalls \cup OneShotCalls
                                  \cup {"waitCommit", "waitClaim", "sync"})

\* Mutant: a restart passes over swaps that are paid but not seen committed.
PendingWithoutPaid == {"PR_CREATED", "QUOTE_SOFT_EXPIRED", "CLAIM_COMMITED", "EXPIRED"}
PendingStates == {"PR_CREATED", "QUOTE_SOFT_EXPIRED", "PR_PAID", "CLAIM_COMMITED", "EXPIRED"}
TickStates == {"PR_CREATED", "PR_PAID", "CLAIM_COMMITED"}

Labels == {"idle", "saving", "commit:saving",
           "tick:asked", "tick:expired",
           "pay:poll", "pay:check", "pay:paid", "pay:gone",
           "sync:lp", "sync:check", "sync:paid", "sync:gone", "sync:expiry",
           "sync:status", "sync:apply", "sync:end",
           "commit:send", "commit:confirm", "one:send", "one:commited", "one:confirm",
           "wc:poll", "wc:expiry", "wc:yes", "wc:no",
           "claim:send", "claim:confirm", "wcl:poll", "wcl:paid", "wcl:over", "wcl:failed"}

TypeOK ==
  /\ ReceiveTypeOK
  /\ lp \in {"invoice", "held", "gone"}
  /\ pc \in [Tasks -> Labels]

Init == ReceiveInit /\ lp = "invoice"

-----------------------------------------------------------------------------
(* The world *)

\* The LP accepts the payment until the invoice expires, ...
LpReceive == lp = "invoice" /\ "soft" \notin passed /\ lp' = "held"

\* ... forgets an expired invoice, and lets a payment go when the escrow can
\* no longer be opened or was refunded.
LpLetGo ==
  /\ \/ lp = "invoice" /\ "soft" \in passed
     \/ lp = "held" /\ escrow = "none" /\ "auth" \in passed
     \/ lp = "held" /\ escrow = "refunded"
  /\ lp' = "gone"

ChainCommit == "commit" \in sent /\ "auth" \notin passed /\ EscrowStep("none", "open", "init")
ChainClaim  == "claim" \in sent /\ EscrowStep("open", "paid", "claim")

\* The invoice times out, later its HTLCs do; the authorization only counts
\* once there is one, and the escrow outlives it.
Clock ==
  \/ Expire("soft", {}) \/ Expire("quote", {"soft"})
  \/ lp # "invoice" /\ Expire("sig", {})
  \/ Expire("auth", {"sig"})
  \/ Expire("escrow", {"auth"})

Environment ==
  /\ \/ (LpReceive \/ LpLetGo) /\ UNCHANGED worldVars
     \/ (ChainCommit \/ ChainClaim \/ ChainRefund \/ Clock) /\ UNCHANGED lp
  /\ UNCHANGED <<recordVars, lifeVars, pc, noted>>

-----------------------------------------------------------------------------
(* Saving and emitting *)

AuthKnown == learnt # "none"
Unpaid    == state = "PR_CREATED" \/ (state = "QUOTE_SOFT_EXPIRED" /\ ~AuthKnown)
Paid      == state = "PR_PAID" \/ (state = "QUOTE_SOFT_EXPIRED" /\ AuthKnown)

\* The calls whose waitTillState the emitted state s resolves.
Waked(s) ==
  [u \in Tasks |->
     IF pc[u] \in {"wc:poll", "wc:expiry"} /\ s \in {"CLAIM_COMMITED", "CLAIM_CLAIMED"} THEN "idle"
     ELSE IF pc[u] = "wcl:poll" /\ s \in {"CLAIM_CLAIMED", "EXPIRED"} THEN "idle"
     ELSE pc[u]]

EmitFrom(t, s, next) == SaveAs(s) /\ pc' = [Waked(s) EXCEPT ![t] = next]

\* Call t emits s if the state is in `from`, else it ends without effect.
EmitIf(t, from, s) ==
  IF state \in from THEN EmitFrom(t, s, "saving")
                    ELSE Goto(t, "idle") /\ Still

Frame == Alive /\ UNCHANGED <<noted, worldVars, lp>>

-----------------------------------------------------------------------------
(* _tick *)

TickSelected == ~initiated \/ recorded.state \in TickStates

TickQuote(t) ==
  /\ Running(t) /\ TickSelected
  /\ \/ state = "PR_CREATED" /\ "soft" \in passed
     \/ state = "PR_PAID" /\ "sig" \in passed
  /\ EmitFrom(t, "QUOTE_SOFT_EXPIRED", "idle")
  /\ Frame

TickAsk(t) ==
  /\ Running(t) /\ TickSelected /\ state = "CLAIM_COMMITED"
  /\ Goto(t, "tick:asked") /\ Still /\ Frame

TickAnswer(t) ==
  /\ pc[t] = "tick:asked"
  /\ Goto(t, IF "escrow" \in passed THEN "tick:expired" ELSE "idle")
  /\ Still /\ Frame

\* The state is not looked at again after the await.
TickExpire(t) ==
  /\ pc[t] = "tick:expired"
  /\ EmitFrom(t, "EXPIRED", "idle")
  /\ Frame

TickNext(t) == TickQuote(t) \/ TickAsk(t) \/ TickAnswer(t) \/ TickExpire(t)

-----------------------------------------------------------------------------
(* Payment of the invoice *)

\* Mutant: the returned terms are not compared with the quote.
VerifiedNothing(terms) == TRUE

\* checkIntermediaryReturnedAuthData: the terms the LP signed are those quoted, ...
Verified(terms) == terms = "good"

\* ... its signature is valid and no escrow exists for it yet.
AuthorizationValid == "auth" \notin passed /\ escrow = "none"

Pay(t) ==
  /\ Called(t, "pay") /\ Unpaid
  /\ IF initiated THEN Still ELSE SaveWith(state, learnt, TRUE)
  /\ Goto(t, "pay:poll")
  /\ Frame

\* An LP that holds the payment answers with data of its choice.
LpAnswer(t, check, gone, silent) ==
  \/ /\ lp = "held"
     /\ \E terms \in {"good", "bad"} :
          /\ noted' = [noted EXCEPT ![t].terms = terms]
          /\ Goto(t, IF Verified(terms) THEN check ELSE silent)
  \/ lp = "gone" /\ Goto(t, gone) /\ UNCHANGED noted
  \/ Goto(t, silent) /\ UNCHANGED noted

\* A pending answer repeats the poll; errors and the abort signal end it.
PayPoll(t) ==
  /\ pc[t] = "pay:poll"
  /\ LpAnswer(t, "pay:check", "pay:gone", "idle")
  /\ Still /\ Alive /\ UNCHANGED <<worldVars, lp>>

PayCheck(t) ==
  /\ pc[t] = "pay:check"
  /\ Goto(t, IF AuthorizationValid THEN "pay:paid" ELSE "idle")
  /\ Still /\ Frame

\* Mutant: the payment is returned as received before it is stored.
PayApplyUnsaved(t) ==
  /\ \/ /\ pc[t] = "pay:paid"
        /\ IF state \in QuoteStates
             THEN SaveWith("PR_PAID", noted[t].terms, initiated) ELSE Still
        /\ Goto(t, "idle")
     \/ pc[t] = "pay:gone" /\ EmitIf(t, QuoteStates, "QUOTE_EXPIRED")
  /\ noted' = [noted EXCEPT ![t] = Nothing]
  /\ Alive /\ UNCHANGED <<worldVars, lp>>

\* After the last await the state is looked at again.
PayApply(t) ==
  /\ \/ /\ pc[t] = "pay:paid"
        /\ IF state \in QuoteStates
             THEN /\ SaveWith("PR_PAID", noted[t].terms, initiated)
                  /\ Goto(t, "saving")
             ELSE Goto(t, "idle") /\ Still
     \/ pc[t] = "pay:gone" /\ EmitIf(t, QuoteStates, "QUOTE_EXPIRED")
  /\ noted' = [noted EXCEPT ![t] = Nothing]
  /\ Alive /\ UNCHANGED <<worldVars, lp>>

PayNext(t) == Pay(t) \/ PayPoll(t) \/ PayCheck(t) \/ PayApply(t)

-----------------------------------------------------------------------------
(* checkPastSwaps, as run by wrapper.init() and by Swapper._syncSwaps *)

SyncStart(t) ==
  /\ \/ Called(t, "sync") /\ UNCHANGED phase
     \/ t = Starter /\ phase = "init" /\ phase' = "syncing"
  /\ recorded.state \in PendingStates
  /\ Goto(t, IF Unpaid THEN "sync:lp" ELSE "sync:expiry")
  /\ Still /\ UNCHANGED <<durable, restarts, noted, worldVars, lp>>

SyncAskLp(t) ==
  /\ pc[t] = "sync:lp"
  /\ LpAnswer(t, "sync:check", "sync:gone", "sync:expiry")
  /\ Still /\ Alive /\ UNCHANGED <<worldVars, lp>>

SyncCheck(t) ==
  /\ pc[t] = "sync:check"
  /\ Goto(t, IF AuthorizationValid THEN "sync:paid" ELSE "sync:expiry")
  /\ Still /\ Frame

\* _checkIntermediaryPaymentReceived(false) sets the state without a second look.
SyncLpApply(t) ==
  /\ \/ pc[t] = "sync:paid" /\ state' = "PR_PAID" /\ learnt' = noted[t].terms
     \/ pc[t] = "sync:gone" /\ state' = "QUOTE_EXPIRED" /\ UNCHANGED learnt
  /\ initiated' = TRUE
  /\ noted' = [noted EXCEPT ![t].changed = TRUE]
  /\ Goto(t, "sync:expiry")
  /\ Alive /\ UNCHANGED <<recorded, worldVars, lp>>

\* Mutant: an authorization past its nominal expiry is taken for one that can
\* no longer be used.
SyncExpiryNominal(t) ==
  /\ pc[t] = "sync:expiry"
  /\ noted' = [noted EXCEPT ![t].expired = Paid /\ "sig" \in passed]
  /\ Goto(t, IF Paid \/ state \in {"CLAIM_COMMITED", "EXPIRED"} THEN "sync:status" ELSE "sync:end")
  /\ Still /\ Alive /\ UNCHANGED <<worldVars, lp>>

\* The authorization's expiry is read before the commit status; swaps without
\* an authorization need neither.
SyncExpiry(t) ==
  /\ pc[t] = "sync:expiry"
  /\ noted' = [noted EXCEPT ![t].expired = Paid /\ "auth" \in passed]
  /\ Goto(t, IF Paid \/ state \in {"CLAIM_COMMITED", "EXPIRED"} THEN "sync:status" ELSE "sync:end")
  /\ Still /\ Alive /\ UNCHANGED <<worldVars, lp>>

SyncStatus(t) ==
  /\ pc[t] = "sync:status"
  /\ \E answer \in StatusOf(escrow) : noted' = [noted EXCEPT ![t].status = answer]
  /\ Goto(t, "sync:apply")
  /\ Still /\ Alive /\ UNCHANGED <<worldVars, lp>>

\* syncStateFromChain: the state that follows from the current one and the answers.
SyncedState(t) ==
  LET status == noted[t].status IN
  IF state \in {"CLAIM_COMMITED", "EXPIRED"} THEN
    IF status = "PAID" THEN "CLAIM_CLAIMED"
    ELSE IF status \in {"NOT_COMMITED", "EXPIRED"} THEN "FAILED" ELSE state
  ELSE IF Paid THEN
    IF status = "PAID" THEN "CLAIM_CLAIMED"
    ELSE IF status = "COMMITED" THEN "CLAIM_COMMITED"
    ELSE IF status = "EXPIRED" \/ noted[t].expired THEN "QUOTE_EXPIRED" ELSE state
  ELSE state

SyncApply(t) ==
  /\ pc[t] = "sync:apply"
  /\ state' = SyncedState(t)
  /\ noted' = [noted EXCEPT ![t].changed = @ \/ state' # state]
  /\ Goto(t, "sync:end")
  /\ Alive /\ UNCHANGED <<learnt, initiated, recorded, worldVars, lp>>

\* Changed swaps are written, or removed, without emitting; what is written is
\* the state of now.
SyncEnd(t) ==
  /\ pc[t] = "sync:end"
  /\ IF noted[t].changed THEN SaveAs(state) /\ Goto(t, "saving")
                         ELSE Still /\ Goto(t, "idle")
  /\ noted' = [noted EXCEPT ![t] = Nothing]
  /\ Alive /\ UNCHANGED <<worldVars, lp>>

\* The expiry or the statuses of the batch cannot be had: what the LP's answer
\* has set in memory stays there unsaved.
SyncFail(t) ==
  /\ phase = "run" /\ pc[t] \in {"sync:expiry", "sync:status"}
  /\ noted' = [noted EXCEPT ![t] = Nothing]
  /\ Goto(t, "idle") /\ Still /\ Alive /\ UNCHANGED <<worldVars, lp>>

SyncNext(t) ==
  \/ SyncStart(t) \/ SyncAskLp(t) \/ SyncCheck(t) \/ SyncLpApply(t)
  \/ SyncExpiry(t) \/ SyncStatus(t) \/ SyncApply(t) \/ SyncEnd(t) \/ SyncFail(t)

-----------------------------------------------------------------------------
(* commit, commitAndClaim and waitTillCommited *)

Send(kind) == sent' = sent \cup {kind} /\ UNCHANGED <<escrow, events, passed>>

\* canCommit: only in PR_PAID, with the LP's data and signature.
Commit(t) ==
  /\ state = "PR_PAID" /\ AuthKnown
  /\ \/ Called(t, "commit") /\ Goto(t, "commit:send")
     \/ Called(t, "oneshot") /\ Goto(t, "one:send")
  /\ Still /\ Frame

CommitSend(t) ==
  /\ \/ pc[t] = "commit:send" /\ \E next \in {"commit:confirm", "idle"} : Goto(t, next)
     \/ pc[t] = "one:send" /\ Goto(t, "one:commited")
  /\ Send("commit")
  /\ Still /\ Alive /\ UNCHANGED <<noted, lp>>

CommitConfirmed(t) ==
  /\ pc[t] = "commit:confirm" /\ escrow # "none"
  /\ EmitIf(t, {"PR_PAID", "QUOTE_SOFT_EXPIRED"}, "CLAIM_COMMITED")
  /\ Frame

\* Mutant: the claim, and the secret in it, is sent along with the commit.
OneShotClaimAtOnce(t) ==
  /\ pc[t] = "one:commited"
  /\ Send("claim") /\ Goto(t, "one:confirm")
  /\ Still /\ Alive /\ UNCHANGED <<noted, lp>>

\* sendAndConfirm sends the claim when the commit is confirmed.
OneShotClaim(t) ==
  /\ pc[t] = "one:commited" /\ escrow # "none"
  /\ Send("claim") /\ Goto(t, "one:confirm")
  /\ Still /\ Alive /\ UNCHANGED <<noted, lp>>

OneShotConfirmed(t) ==
  /\ pc[t] = "one:confirm" /\ escrow = "paid"
  /\ EmitIf(t, ReceiveStates \ {"CLAIM_CLAIMED"}, "CLAIM_CLAIMED")
  /\ Frame

\* Invalid signature, rejected transaction, or the abort signal.
SendFail(t) ==
  /\ pc[t] \in {"commit:send", "commit:confirm", "one:send", "one:commited", "one:confirm",
                "claim:send", "claim:confirm"}
  /\ Goto(t, "idle") /\ Still /\ Frame

\* The guard also lets swaps without data pass; the watchdog refuses those.
WaitCommit(t) ==
  /\ Called(t, "waitCommit") /\ state \in {"PR_PAID", "QUOTE_SOFT_EXPIRED"} /\ AuthKnown
  /\ Goto(t, "wc:poll") /\ Still /\ Frame

WatchCommit(t) ==
  /\ \/ /\ pc[t] = "wc:poll"
        /\ \E answer \in StatusOf(escrow) :
             Goto(t, IF answer = "NOT_COMMITED" THEN "wc:expiry"
                     ELSE IF answer = "EXPIRED" THEN "wc:no" ELSE "wc:yes")
     \/ /\ pc[t] = "wc:expiry"
        /\ Goto(t, IF "auth" \in passed THEN "wc:no" ELSE "wc:poll")
  /\ Still /\ Frame

WaitCommitDone(t) ==
  /\ \/ pc[t] = "wc:no" /\ EmitIf(t, {"PR_PAID", "QUOTE_SOFT_EXPIRED"}, "QUOTE_EXPIRED")
     \/ pc[t] = "wc:yes" /\ EmitIf(t, {"PR_PAID", "QUOTE_SOFT_EXPIRED"}, "CLAIM_COMMITED")
  /\ Frame

CommitNext(t) ==
  \/ Commit(t) \/ CommitSend(t) \/ CommitConfirmed(t) \/ SendFail(t)
  \/ OneShotClaim(t) \/ OneShotConfirmed(t)
  \/ WaitCommit(t) \/ WatchCommit(t) \/ WaitCommitDone(t)

-----------------------------------------------------------------------------
(* claim and waitTillClaimed *)

Claim(t) ==
  /\ Called(t, "claim") /\ state = "CLAIM_COMMITED"
  /\ Goto(t, "claim:send") /\ Still /\ Frame

\* txsClaimWithSecret checks the escrow's expiry.
ClaimSend(t) ==
  /\ pc[t] = "claim:send" /\ "escrow" \notin passed
  /\ Send("claim") /\ Goto(t, "claim:confirm")
  /\ Still /\ Alive /\ UNCHANGED <<noted, lp>>

ClaimConfirmed(t) ==
  /\ pc[t] = "claim:confirm" /\ escrow = "paid"
  /\ EmitIf(t, {"CLAIM_COMMITED", "EXPIRED", "FAILED"}, "CLAIM_CLAIMED")
  /\ Frame

WaitClaim(t) ==
  /\ Called(t, "waitClaim") /\ state = "CLAIM_COMMITED"
  /\ Goto(t, "wcl:poll") /\ Still /\ Frame

\* The watchdog polls while the escrow is there; the timeout may end it.
WatchClaim(t) ==
  /\ pc[t] = "wcl:poll"
  /\ \/ Goto(t, "idle")
     \/ "PAID" \in StatusOf(escrow)
          /\ Goto(t, IF state = "CLAIM_CLAIMED" THEN "idle" ELSE "wcl:paid")
     \/ {"NOT_COMMITED", "EXPIRED"} \cap StatusOf(escrow) # {} /\ Goto(t, "wcl:over")
  /\ Still /\ Frame

\* The state is looked at before the claim or the refund transaction is
\* awaited, not after.
WaitClaimOver(t) ==
  /\ \/ pc[t] = "wcl:paid" /\ EmitIf(t, ReceiveStates, "CLAIM_CLAIMED")
     \/ /\ pc[t] = "wcl:over"
        /\ Goto(t, IF state \in {"CLAIM_CLAIMED", "FAILED"} THEN "idle" ELSE "wcl:failed") /\ Still
     \/ pc[t] = "wcl:failed" /\ EmitIf(t, ReceiveStates, "FAILED")
  /\ Frame

ClaimNext(t) ==
  Claim(t) \/ ClaimSend(t) \/ ClaimConfirmed(t) \/ WaitClaim(t) \/ WatchClaim(t) \/ WaitClaimOver(t)

-----------------------------------------------------------------------------
(* Contract events *)

\* Mutant: the init event is believed in whichever state it comes.
OnEventAnyInit(e) ==
  IF e = "init" THEN "CLAIM_COMMITED"
  ELSE IF state \in {"CLAIM_CLAIMED", "FAILED"} THEN state
  ELSE IF e = "claim" THEN "CLAIM_CLAIMED" ELSE "FAILED"

\* The handlers' answers: the state after event e.
OnEvent(e) ==
  IF e = "init" THEN IF state \in {"PR_PAID", "QUOTE_SOFT_EXPIRED"} THEN "CLAIM_COMMITED" ELSE state
  ELSE IF state \in {"CLAIM_CLAIMED", "FAILED"} THEN state
  ELSE IF e = "claim" THEN "CLAIM_CLAIMED" ELSE "FAILED"

\* The listener finds the swap by the escrow hash in its record; a
\* transaction id that is new is saved even if the state is not.
ListenerNext ==
  /\ \E e \in {"init", "claim", "refund"} :
       /\ NextEvent(e)
       /\ IF recorded.learnt = "none" THEN Still /\ UNCHANGED pc
          ELSE SaveAs(OnEvent(e)) /\ pc' = Waked(OnEvent(e))
  /\ Alive /\ UNCHANGED <<noted, lp>>

-----------------------------------------------------------------------------
StorageNext ==
  (Flush \/ Crash \/ Restart(PendingStates) \/ InitDone) /\ UNCHANGED lp

Next ==
  /\ UNCHANGED app
  /\ \/ Environment
     \/ \E t \in Timers : TickNext(t)
     \/ \E t \in Callers : PayNext(t) \/ SyncNext(t) \/ CommitNext(t) \/ ClaimNext(t)
     \/ ListenerNext
     \/ StorageNext

Spec == Init /\ [][Next]_vars

(***************************************************************************)
(* Fairness.  Ticks keep firing and are answered, the sync of              *)
(* wrapper.init() is answered, the chain client hands over every event and *)
(* storage writes complete.  Nothing is assumed of the application, the LP,*)
(* the chain or the clock.                                                 *)
(***************************************************************************)
Fairness ==
  /\ \A t \in Timers : WF_vars(TickNext(t) /\ UNCHANGED app)
  /\ WF_vars(\E t \in Callers : phase \in {"init", "syncing"} /\ SyncNext(t) /\ UNCHANGED app)
  /\ WF_vars(ListenerNext /\ UNCHANGED app)
  /\ WF_vars(Flush /\ UNCHANGED <<lp, app>>)
  /\ WF_vars(Restart(PendingStates) /\ UNCHANGED <<lp, app>>)
  /\ WF_vars(InitDone /\ UNCHANGED <<lp, app>>)

FairSpec == Spec /\ Fairness

-----------------------------------------------------------------------------
(* Properties *)

\* A claim transaction reveals the secret, and with it the LP takes the user's
\* payment: none is sent before the escrow is there, with the quoted terms,
\* whichever way commit and claim are sent.
SecretOnlyForEscrow == "claim" \in sent => escrow # "none" /\ learnt = "good"

\* A quote is given up for good only when nothing was committed with it that
\* could still be claimed: the authorization may be used long after the user
\* stopped waiting, and the answers about it are old.  waitTillCommited() is
\* left out, see below.
GivenUpIsUncommitted ==
  ~Makes({"waitCommit"}) /\ state = "QUOTE_EXPIRED" /\ "escrow" \notin passed
    => escrow \notin {"open", "paid"}

\* While an escrow waits for its claim, a crash leaves a record from which the
\* swap, with the data to claim it, is picked up again.  Not so with
\* waitTillCommited(), which gives up a commit that lands between its look at
\* the status and its look at the expiry.
EscrowIsTracked ==
  ~Makes({"waitCommit"}) /\ escrow = "open" /\ "escrow" \notin passed
    => durable.state \in PendingStates /\ durable.learnt = "good"

\* An escrow that waits for its claim is eventually offered for it, unless it
\* is settled or times out first: after lost events and crashes too.
EscrowIsOffered ==
  (~Makes({"waitCommit"}) /\ escrow = "open" /\ "escrow" \notin passed)
     ~> (escrow # "open" \/ "escrow" \in passed \/ (phase = "run" /\ state = "CLAIM_COMMITED"))

\* The swap implements HtlcPromise: the secret is out only for an open escrow,
\* CLAIM_CLAIMED swaps were claimed and stay so until the timeout, EXPIRED,
\* FAILED and given up ones have nothing left to claim safely.
Told(s) ==
  CASE s \in QuoteStates \cup {"PR_PAID"}             -> "quote"
    [] s = "CLAIM_COMMITED"                           -> "held"
    [] s = "CLAIM_CLAIMED"                            -> "claimed"
    [] s \in {"EXPIRED", "FAILED", "QUOTE_EXPIRED"}   -> "over"

Promise == INSTANCE HtlcPromise WITH
  late     <- "escrow" \in passed,
  revealed <- "claim" \in sent,
  told     <- Told(state),
  up       <- phase # "down",
  careful  <- ~Makes({"waitCommit"})

KeepsPromise == Promise!Spec
=============================================================================
