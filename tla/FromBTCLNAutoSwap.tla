------------------------- MODULE FromBTCLNAutoSwap -------------------------
(***************************************************************************)
(* A swap from lightning in which the LP opens the escrow: the user's      *)
(* wallet pays the LP's invoice, the LP holds the payment and opens an     *)
(* escrow that the user's secret unlocks, and the SDK, once it has seen    *)
(* and verified that escrow, broadcasts the secret for watchtowers to      *)
(* claim it.  The swap learns the escrow's data from the LP or from the    *)
(* contract event; until then it goes by its payment hash.                 *)
(***************************************************************************)
EXTENDS ReceiveSwap

VARIABLES
  lp,        \* the LP's side of the invoice: "invoice", "held" or "gone"
  offer,     \* terms of the escrow the LP opened: "none", "good" or "bad"
  listening, \* the listener awaits the data of an init event
  casting    \* a _broadcastSecret() nobody waits for awaits isExpired()

lpVars == <<lp, offer>>
sideVars == <<listening, casting>>
vars == <<receiveVars, lpVars, sideVars>>

ASSUME AutoCallsAssumption ==
  UNION Applications \subseteq Callers \X {"pay", "claim", "waitClaim", "sync"}

PendingStates == {"PR_CREATED", "QUOTE_SOFT_EXPIRED", "PR_PAID", "CLAIM_COMMITED", "EXPIRED"}
\* Mutant: ticks skip swaps that wait for their claim.
TickWithoutCommited == {"PR_CREATED", "QUOTE_SOFT_EXPIRED", "PR_PAID"}
TickStates == {"PR_CREATED", "QUOTE_SOFT_EXPIRED", "PR_PAID", "CLAIM_COMMITED"}
PaidOrLater == {"PR_PAID", "CLAIM_COMMITED", "CLAIM_CLAIMED"}

Labels == {"idle", "saving", "tick:asked", "tick:expired", "tick:live",
           "pay:poll", "pay:check", "pay:paid", "pay:gone", "wc:poll", "wc:expiry", "wc:yes", "wc:no",
           "sync:lp", "sync:check", "sync:paid", "sync:gone", "sync:expiry", "sync:status",
           "sync:apply", "sync:end", "claim:send", "claim:confirm", "wcl:poll"}

TypeOK ==
  /\ ReceiveTypeOK
  /\ lp \in {"invoice", "held", "gone"} /\ offer \in {"none", "good", "bad"}
  /\ {listening, casting} \subseteq BOOLEAN
  /\ pc \in [Tasks -> Labels]

Init == ReceiveInit /\ lp = "invoice" /\ offer = "none" /\ listening = FALSE /\ casting = FALSE

-----------------------------------------------------------------------------
(* The world *)

LpReceive == lp = "invoice" /\ "soft" \notin passed /\ lp' = "held"

\* An LP lets a payment go when the HTLC that pays it runs out, or its escrow
\* was refunded.
LpLetGo ==
  /\ \/ lp = "invoice" /\ "soft" \in passed
     \/ lp = "held" /\ escrow = "none" /\ "quote" \in passed
     \/ lp = "held" /\ escrow = "refunded"
  /\ lp' = "gone"

\* The LP opens an escrow, with terms of its choice.
LpOpen ==
  /\ lp = "held" /\ "quote" \notin passed
  /\ EscrowStep("none", "open", "init")
  /\ offer' \in {"good", "bad"}

\* A watchtower with the secret claims for the user, or the user does.
ChainClaim == sent # {} /\ offer = "good" /\ EscrowStep("open", "paid", "claim")

Clock ==
  \/ Expire("soft", {}) \/ Expire("quote", {"soft"})
  \/ escrow # "none" /\ Expire("escrow", {"quote"})

Environment ==
  /\ \/ (LpReceive \/ LpLetGo) /\ UNCHANGED <<offer, worldVars>>
     \/ LpOpen /\ UNCHANGED lp
     \/ (ChainClaim \/ ChainRefund \/ Clock) /\ UNCHANGED lpVars
  /\ UNCHANGED <<recordVars, lifeVars, pc, noted, sideVars>>

-----------------------------------------------------------------------------
(* Saving, emitting and broadcasting *)

\* getCommitStatus is asked for the escrow with the data the swap knows.
Answers == StatusOf(IF offer = learnt THEN escrow ELSE "none")

Reveal(how) == sent' = sent \cup {how} /\ UNCHANGED <<escrow, events, passed>>

\* The calls whose waitTillState the emitted state s resolves.
Waked(s) ==
  [u \in Tasks |->
     IF pc[u] = "pay:poll" /\ s \in PaidOrLater THEN IF s = "PR_PAID" THEN "wc:poll" ELSE "idle"
     ELSE IF pc[u] \in {"wc:poll", "wc:expiry"} /\ s \in {"CLAIM_COMMITED", "CLAIM_CLAIMED"}
       THEN "idle"
     ELSE IF pc[u] = "wcl:poll" /\ s \in {"CLAIM_CLAIMED", "EXPIRED"} THEN "idle"
     ELSE pc[u]]

EmitFrom(t, s, next) == SaveAs(s) /\ pc' = [Waked(s) EXCEPT ![t] = next]

EmitIf(t, from, s) ==
  IF state \in from THEN EmitFrom(t, s, "saving") ELSE Goto(t, "idle") /\ Still

Frame == Alive /\ UNCHANGED <<noted, worldVars, lpVars>>

\* Mutant: the secret goes out for a swap that is paid but not committed.
CastAnyState == casting' = (casting \/ state' \in PaidOrLater)

\* _broadcastSecret(), which only starts in CLAIM_COMMITED.
Cast == casting' = (casting \/ state' = "CLAIM_COMMITED")

\* The expiry is checked before the broadcast, which may fail.
CastDone ==
  /\ casting /\ casting' = FALSE
  /\ \/ "escrow" \notin passed /\ Reveal("secret")
     \/ UNCHANGED worldVars
  /\ Still /\ Alive /\ UNCHANGED <<pc, noted, lpVars, listening>>

-----------------------------------------------------------------------------
(* _tick *)

TickSelected == ~initiated \/ recorded.state \in TickStates

TickQuote(t) ==
  /\ Running(t) /\ TickSelected
  /\ \/ state = "PR_CREATED" /\ "soft" \in passed /\ EmitFrom(t, "QUOTE_SOFT_EXPIRED", "idle")
     \/ state = "QUOTE_SOFT_EXPIRED" /\ "quote" \in passed /\ EmitFrom(t, "QUOTE_EXPIRED", "idle")
  /\ Frame

TickAsk(t) ==
  /\ Running(t) /\ TickSelected /\ state \in {"PR_PAID", "CLAIM_COMMITED"}
  /\ Goto(t, "tick:asked") /\ Still /\ Frame

TickAnswer(t) ==
  /\ pc[t] = "tick:asked"
  /\ Goto(t, IF "escrow" \in passed THEN "tick:expired" ELSE "tick:live")
  /\ Still /\ Frame

\* The state is not looked at again after the await.
TickExpire(t) ==
  /\ pc[t] = "tick:expired"
  /\ EmitFrom(t, "EXPIRED", "idle") /\ Frame

\* Every third tick broadcasts the secret ...
TickBroadcast(t) ==
  /\ pc[t] = "tick:live" /\ state = "CLAIM_COMMITED"
  /\ Reveal("secret") /\ Goto(t, "idle")
  /\ Still /\ Alive /\ UNCHANGED <<noted, lpVars>>

\* ... and the others do not, or the messenger fails.
TickSkip(t) == pc[t] = "tick:live" /\ Goto(t, "idle") /\ Still /\ Frame

TickNext(t) ==
  /\ \/ TickQuote(t) \/ TickAsk(t) \/ TickAnswer(t)
     \/ TickExpire(t) \/ TickBroadcast(t) \/ TickSkip(t)
  /\ UNCHANGED sideVars

-----------------------------------------------------------------------------
(* waitForPayment *)

\* Mutant: the returned terms are not compared with the quote.
VerifiedNothing(terms) == TRUE

\* checkIntermediaryReturnedData: the escrow has the quoted terms, ...
Verified(terms) == terms = "good"

\* ... and enough time to claim it is left.
TimeToClaim == "escrow" \notin passed

\* A swap that is paid already only waits for the commit.
Pay(t) ==
  /\ Called(t, "pay")
  /\ \/ /\ state = "PR_CREATED" /\ Goto(t, "pay:poll")
        /\ IF initiated THEN Still ELSE SaveWith(state, learnt, TRUE)
     \/ state = "PR_PAID" /\ Goto(t, "wc:poll") /\ Still
  /\ Frame /\ UNCHANGED sideVars

\* An LP that holds the payment answers with data of its choice.
LpAnswer(t, check, gone, silent) ==
  \/ lp = "held" /\ \E terms \in {"good", "bad"} : Goto(t, IF Verified(terms) THEN check ELSE silent)
  \/ lp = "gone" /\ Goto(t, gone)
  \/ Goto(t, silent)

PayPoll(t) ==
  /\ pc[t] = "pay:poll" /\ LpAnswer(t, "pay:check", "pay:gone", "idle")
  /\ Still /\ Frame /\ UNCHANGED sideVars

PayCheck(t) ==
  /\ pc[t] = "pay:check" /\ Goto(t, IF TimeToClaim THEN "pay:paid" ELSE "idle")
  /\ Still /\ Frame /\ UNCHANGED sideVars

\* _saveRealSwapData looks at the state again.
PayApply(t) ==
  /\ \/ /\ pc[t] = "pay:paid"
        /\ IF state \in QuoteStates
             THEN /\ SaveWith("PR_PAID", "good", TRUE)
                  /\ pc' = [Waked("PR_PAID") EXCEPT ![t] = "wc:poll"]
             ELSE Goto(t, "idle") /\ Still
     \/ pc[t] = "pay:gone" /\ EmitIf(t, QuoteStates, "QUOTE_EXPIRED")
  /\ Frame /\ UNCHANGED sideVars

\* waitTillCommited's watchdog.
WatchCommit(t) ==
  /\ \/ /\ pc[t] = "wc:poll"
        /\ \E answer \in Answers :
             Goto(t, IF answer = "NOT_COMMITED" THEN "wc:expiry"
                     ELSE IF answer = "EXPIRED" THEN "wc:no" ELSE "wc:yes")
     \/ /\ pc[t] = "wc:expiry"
        /\ Goto(t, IF "quote" \in passed THEN "wc:no" ELSE "wc:poll")
  /\ Still /\ Frame /\ UNCHANGED sideVars

WaitCommitDone(t) ==
  /\ \/ pc[t] = "wc:no" /\ EmitIf(t, {"PR_PAID"}, "EXPIRED") /\ UNCHANGED casting
     \/ pc[t] = "wc:yes" /\ EmitIf(t, {"PR_PAID"}, "CLAIM_COMMITED") /\ Cast
  /\ Frame /\ UNCHANGED listening

\* Errors and the abort signal.
PayFail(t) ==
  /\ pc[t] \in {"pay:poll", "wc:poll"} /\ Goto(t, "idle")
  /\ Still /\ Frame /\ UNCHANGED sideVars

PayNext(t) ==
  \/ Pay(t) \/ PayPoll(t) \/ PayCheck(t) \/ PayApply(t)
  \/ WatchCommit(t) \/ WaitCommitDone(t) \/ PayFail(t)

-----------------------------------------------------------------------------
(* checkPastSwaps, as run by wrapper.init() and by Swapper._syncSwaps *)

SyncStart(t) ==
  /\ \/ Called(t, "sync") /\ UNCHANGED phase
     \/ t = Starter /\ phase = "init" /\ phase' = "syncing"
  /\ recorded.state \in PendingStates
  /\ Goto(t, IF state \in QuoteStates THEN "sync:lp" ELSE "sync:expiry")
  /\ Still /\ UNCHANGED <<durable, restarts, noted, worldVars, lpVars, sideVars>>

\* Data from the LP is of no use to a swap that is no quote any more.
SyncAskLp(t) ==
  /\ pc[t] = "sync:lp"
  /\ LpAnswer(t, IF state \in QuoteStates THEN "sync:check" ELSE "sync:expiry",
              "sync:gone", "sync:expiry")
  /\ Still /\ Frame /\ UNCHANGED sideVars

SyncCheck(t) ==
  /\ pc[t] = "sync:check" /\ Goto(t, IF TimeToClaim THEN "sync:paid" ELSE "sync:expiry")
  /\ Still /\ Frame /\ UNCHANGED sideVars

\* The state is looked at once more for the data, and not for the LP's word that
\* the quote expired; the caller takes the swap for changed in any case.
SyncLpApply(t) ==
  /\ \/ /\ pc[t] = "sync:paid"
        /\ IF state \in QuoteStates
             THEN state' = "PR_PAID" /\ learnt' = "good" /\ initiated' = TRUE
             ELSE UNCHANGED <<state, learnt, initiated>>
     \/ pc[t] = "sync:gone" /\ state' = "QUOTE_EXPIRED" /\ initiated' = TRUE /\ UNCHANGED learnt
  /\ noted' = [noted EXCEPT ![t].changed = TRUE]
  /\ Goto(t, "sync:expiry")
  /\ Alive /\ UNCHANGED <<recorded, worldVars, lpVars, sideVars>>

\* The HTLC's expiry is read before the commit status.
SyncExpiry(t) ==
  /\ pc[t] = "sync:expiry"
  /\ noted' = [noted EXCEPT ![t].expired = state = "PR_PAID" /\ "quote" \in passed]
  /\ Goto(t, IF state \in {"PR_PAID", "CLAIM_COMMITED", "EXPIRED"} /\ learnt # "none"
             THEN "sync:status" ELSE "sync:end")
  /\ Still /\ Alive /\ UNCHANGED <<worldVars, lpVars, sideVars>>

SyncStatus(t) ==
  /\ pc[t] = "sync:status"
  /\ \E answer \in Answers : noted' = [noted EXCEPT ![t].status = answer]
  /\ Goto(t, "sync:apply")
  /\ Still /\ Alive /\ UNCHANGED <<worldVars, lpVars, sideVars>>

\* Mutant: the expiry of the quote is applied before the commit status.
SyncedStateExpiryFirst(t) ==
  LET status == noted[t].status IN
  IF noted[t].expired THEN "QUOTE_EXPIRED"
  ELSE IF status = "PAID" THEN "CLAIM_CLAIMED"
  ELSE IF status = "COMMITED" THEN "CLAIM_COMMITED"
  ELSE IF state = "PR_PAID" /\ status # "EXPIRED" THEN state
  ELSE "FAILED"

\* syncStateFromChain: the state that follows from the current one and the answers.
SyncedState(t) ==
  LET status == noted[t].status IN
  IF state \in {"CLAIM_COMMITED", "EXPIRED"} THEN
    IF status = "PAID" THEN "CLAIM_CLAIMED"
    ELSE IF status \in {"NOT_COMMITED", "EXPIRED"} THEN "FAILED" ELSE state
  ELSE IF state = "PR_PAID" THEN
    IF status = "PAID" THEN "CLAIM_CLAIMED"
    ELSE IF status = "COMMITED" THEN "CLAIM_COMMITED"
    ELSE IF status = "EXPIRED" THEN "EXPIRED"
    ELSE IF noted[t].expired THEN "QUOTE_EXPIRED" ELSE state
  ELSE state

\* _sync also broadcasts the secret of a swap that is committed now.
SyncApply(t) ==
  /\ pc[t] = "sync:apply"
  /\ state' = SyncedState(t) /\ Cast
  /\ noted' = [noted EXCEPT ![t].changed = @ \/ state' # state]
  /\ Goto(t, "sync:end")
  /\ Alive /\ UNCHANGED <<learnt, initiated, recorded, worldVars, lpVars, listening>>

SyncEnd(t) ==
  /\ pc[t] = "sync:end"
  /\ IF noted[t].changed THEN SaveAs(state) /\ Goto(t, "saving")
                         ELSE Still /\ Goto(t, "idle")
  /\ noted' = [noted EXCEPT ![t] = Nothing]
  /\ Alive /\ UNCHANGED <<worldVars, lpVars, sideVars>>

\* As in FromBTCLNSwap, what the LP's answer has set in memory stays unsaved.
SyncFail(t) ==
  /\ phase = "run" /\ pc[t] \in {"sync:expiry", "sync:status"}
  /\ noted' = [noted EXCEPT ![t] = Nothing]
  /\ Goto(t, "idle") /\ Still /\ Alive /\ UNCHANGED <<worldVars, lpVars, sideVars>>

SyncNext(t) ==
  \/ SyncStart(t) \/ SyncAskLp(t) \/ SyncCheck(t) \/ SyncLpApply(t)
  \/ SyncExpiry(t) \/ SyncStatus(t) \/ SyncApply(t) \/ SyncEnd(t) \/ SyncFail(t)

-----------------------------------------------------------------------------
(* claim and waitTillClaimed *)

Claim(t) ==
  /\ Called(t, "claim") /\ state = "CLAIM_COMMITED"
  /\ Goto(t, "claim:send") /\ Still /\ Frame

\* txsClaimWithSecret checks the escrow's expiry; the chain may reject the
\* transaction, and the abort signal may end the wait for it.
ClaimSend(t) ==
  /\ pc[t] = "claim:send"
  /\ \/ "escrow" \notin passed /\ Reveal("claim") /\ Goto(t, "claim:confirm")
     \/ UNCHANGED worldVars /\ Goto(t, "idle")
  /\ Still /\ Alive /\ UNCHANGED <<noted, lpVars>>

ClaimConfirmed(t) ==
  /\ pc[t] = "claim:confirm"
  /\ \/ escrow = "paid" /\ EmitIf(t, {"CLAIM_COMMITED", "EXPIRED", "FAILED"}, "CLAIM_CLAIMED")
     \/ Goto(t, "idle") /\ Still
  /\ Frame

WaitClaim(t) ==
  /\ Called(t, "waitClaim") /\ state = "CLAIM_COMMITED"
  /\ Goto(t, "wcl:poll") /\ Still /\ Frame

\* Mutant: a watchdog that was aborted or answered REFUNDABLE ends in CLAIM_CLAIMED.
WatchClaimAny(t) ==
  /\ pc[t] = "wcl:poll"
  /\ IF {"NOT_COMMITED", "EXPIRED"} \cap Answers # {}
       THEN EmitIf(t, ReceiveStates \ {"CLAIM_CLAIMED", "FAILED"}, "FAILED")
       ELSE EmitIf(t, ReceiveStates \ {"CLAIM_CLAIMED"}, "CLAIM_CLAIMED")
  /\ Frame

\* The watchdog polls while the escrow is there; the timeout may end it.
WatchClaim(t) ==
  /\ pc[t] = "wcl:poll"
  /\ \/ Goto(t, "idle") /\ Still
     \/ "PAID" \in Answers /\ EmitIf(t, ReceiveStates \ {"CLAIM_CLAIMED"}, "CLAIM_CLAIMED")
     \/ /\ {"NOT_COMMITED", "EXPIRED"} \cap Answers # {}
        /\ EmitIf(t, ReceiveStates \ {"CLAIM_CLAIMED", "FAILED"}, "FAILED")
  /\ Frame

ClaimNext(t) ==
  /\ Claim(t) \/ ClaimSend(t) \/ ClaimConfirmed(t) \/ WaitClaim(t) \/ WatchClaim(t)
  /\ UNCHANGED sideVars

-----------------------------------------------------------------------------
(* Contract events *)

\* The listener looks the swap up in the storage by the escrow's hash, and for
\* an init event by the payment hash too; the row finds it, and then the swap
\* in memory must have the same hash.  A write may be under way.
Found(e) ==
  \E row \in {recorded, durable} :
    /\ row # Absent /\ row.learnt = learnt
    /\ learnt = offer \/ (e = "init" /\ learnt = "none")

InitStates == QuoteStates \cup {"PR_PAID"}

\* A swap that knows the escrow's data takes the event at once.
OnInit ==
  /\ NextEvent("init") /\ UNCHANGED listening
  /\ IF Found("init") /\ state \in InitStates /\ learnt = offer
       THEN SaveAs("CLAIM_COMMITED") /\ pc' = Waked("CLAIM_COMMITED") /\ Cast
       ELSE Still /\ UNCHANGED <<pc, casting>>

\* One that does not awaits the event's data and its verification ...
OnInitUnknown ==
  /\ NextEvent("init") /\ Found("init") /\ state \in InitStates /\ learnt = "none"
  /\ listening' = TRUE
  /\ Still /\ UNCHANGED <<pc, casting>>

\* ... and is committed if its data, then known, are those of the event.
OnInitData ==
  /\ listening /\ listening' = FALSE
  /\ LET known == IF Verified(offer) /\ TimeToClaim /\ state \in QuoteStates THEN offer ELSE learnt
     IN IF Verified(offer) /\ TimeToClaim /\ known = offer
          THEN /\ SaveWith("CLAIM_COMMITED", known, TRUE)
               /\ pc' = Waked("CLAIM_COMMITED") /\ Cast
          ELSE Still /\ UNCHANGED <<pc, casting>>
  /\ UNCHANGED worldVars

OnSettled ==
  /\ \E e \in {"claim", "refund"} :
       /\ NextEvent(e)
       /\ IF Found(e) /\ state \notin {"CLAIM_CLAIMED", "FAILED"}
            THEN LET s == IF e = "claim" THEN "CLAIM_CLAIMED" ELSE "FAILED"
                 IN SaveAs(s) /\ pc' = Waked(s)
            ELSE Still /\ UNCHANGED pc
  /\ UNCHANGED sideVars

\* Events are processed one after the other.
ListenerNext ==
  /\ IF listening THEN OnInitData ELSE OnInit \/ OnInitUnknown \/ OnSettled
  /\ Alive /\ UNCHANGED <<noted, lpVars>>

-----------------------------------------------------------------------------
StorageNext ==
  /\ \/ (Flush \/ Restart(PendingStates) \/ InitDone) /\ UNCHANGED sideVars
     \/ Crash /\ listening' = FALSE /\ casting' = FALSE
  /\ UNCHANGED lpVars

Next ==
  /\ UNCHANGED app
  /\ \/ Environment
     \/ \E t \in Timers : TickNext(t)
     \/ \E t \in Callers : PayNext(t) \/ SyncNext(t) \/ ClaimNext(t)
     \/ ListenerNext
     \/ CastDone
     \/ StorageNext

Spec == Init /\ [][Next]_vars

(***************************************************************************)
(* Fairness.  As in FromBTCLNSwap; broadcasts that are tried again and     *)
(* again succeed at last.                                                  *)
(***************************************************************************)
Fairness ==
  /\ \A t \in Timers : WF_vars(TickNext(t) /\ UNCHANGED app)
                       /\ SF_vars(TickBroadcast(t) /\ UNCHANGED <<sideVars, app>>)
  /\ WF_vars(\E t \in Callers : phase \in {"init", "syncing"} /\ SyncNext(t) /\ UNCHANGED app)
  /\ WF_vars(ListenerNext /\ UNCHANGED app)
  /\ WF_vars(Flush /\ UNCHANGED <<lpVars, sideVars, app>>)
  /\ WF_vars(Restart(PendingStates) /\ UNCHANGED <<lpVars, sideVars, app>>)
  /\ WF_vars(InitDone /\ UNCHANGED <<lpVars, sideVars, app>>)

FairSpec == Spec /\ Fairness

-----------------------------------------------------------------------------
(* Properties *)

\* With the secret the LP takes the user's payment: it is revealed, broadcast
\* or in a claim, only when the LP opened an escrow with the quoted terms.
SecretOnlyForOffer == sent # {} => escrow # "none" /\ offer = "good"

\* CLAIM_CLAIMED swaps were claimed.  FAILED ones can no longer be, or were
\* never committed in time; a full sync beside the wait for the payment is
\* left out: it applies a NOT_COMMITED that was true when it was asked.
SettledIsTrue ==
  /\ state = "CLAIM_CLAIMED" => escrow = "paid"
  /\ state = "FAILED" /\ ~Makes({"sync"}) => {"escrow", "quote"} \cap passed # {}

\* Once the secret is out, a running SDK does not give the swap up as an expired
\* quote.  A crash is left out: the secret is broadcast before the record that
\* says so is written.
RevealedIsNotForgotten ==
  restarts = 0 /\ sent # {} /\ escrow \in {"open", "paid"} => state # "QUOTE_EXPIRED"

\* A swap shown as committed gets its secret broadcast, or its escrow is gone
\* or timed out: the wait for watchtowers is not in vain.  Not so beside a full
\* sync, whose old NOT_COMMITED makes it FAILED.
CommitedIsRevealed ==
  (~Makes({"sync"}) /\ phase = "run" /\ state = "CLAIM_COMMITED")
     ~> (sent # {} \/ escrow # "open" \/ "escrow" \in passed \/ phase = "down" \/ state = "EXPIRED")
=============================================================================
