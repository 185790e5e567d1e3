------------------------ MODULE FromBTCLNSwapProofs ------------------------
(***************************************************************************)
(* Theorems about FromBTCLNSwap: type correctness, for every application;  *)
(* and, for those whose syncs and commits keep apart, the secret, given up *)
(* quotes, the record of an escrow, and that the swap implements           *)
(* HtlcPromise.  The inductive invariant says of everything that is on its *)
(* way to the state, answers of parked calls included, what backs it.      *)
(***************************************************************************)
EXTENDS FromBTCLNSwap, ReceiveSwapProofs

-----------------------------------------------------------------------------
(* Type correctness *)

\* A call that moves on to its next await, perhaps with a new answer noted.
LEMMA QuietType ==
  ASSUME TypeOK, NEW t \in Tasks, NEW next \in Labels, Goto(t, next), Still, Alive,
         UNCHANGED <<worldVars, lp, app>>, noted' \in [Tasks -> Notes]
  PROVE  TypeOK'
BY DEF TypeOK, ReceiveTypeOK, Goto, Still, Alive, recordVars, lifeVars, worldVars

\* Waking the calls that wait for a state leaves them idle.
LEMMA WakedType ==
  ASSUME TypeOK, NEW s
  PROVE  Waked(s) \in [Tasks -> Labels]
BY DEF TypeOK, Waked, Labels

\* _saveAndEmit, from a call that goes on to `next`.
LEMMA EmitType ==
  ASSUME TypeOK, NEW t \in Tasks, NEW s \in ReceiveStates, NEW next \in Labels,
         EmitFrom(t, s, next), Alive, UNCHANGED <<worldVars, lp, app>>,
         noted' \in [Tasks -> Notes]
  PROVE  TypeOK'
<1>1. ReceiveTypeOK'
  BY SaveWithType DEF TypeOK, EmitFrom, SaveAs, ReceiveTypeOK
<1>2. pc' \in [Tasks -> Labels]
  BY WakedType DEF EmitFrom
<1> QED
  BY <1>1, <1>2 DEF TypeOK

\* The guarded emit at the end of a call.
LEMMA EmitIfType ==
  ASSUME TypeOK, NEW t \in Tasks, NEW s \in ReceiveStates, NEW from,
         EmitIf(t, from, s), Alive, UNCHANGED <<worldVars, lp, app>>,
         noted' \in [Tasks -> Notes]
  PROVE  TypeOK'
<1>1. {"saving", "idle"} \subseteq Labels
  BY DEF Labels
<1> QED
  BY <1>1, EmitType, QuietType DEF EmitIf

\* The answers of getCommitStatus are commit statuses.
LEMMA StatusType ==
  ASSUME TypeOK
  PROVE  StatusOf(escrow) \subseteq {"NOT_COMMITED", "COMMITED", "REFUNDABLE", "PAID", "EXPIRED"}
BY DEF TypeOK, ReceiveTypeOK, StatusOf

\* The LP's answers move a call on to one of the three awaits given.
LEMMA LpAnswerType ==
  ASSUME TypeOK, NEW t \in Tasks, NEW check \in Labels, NEW gone \in Labels, NEW silent \in Labels,
         LpAnswer(t, check, gone, silent), Still, Alive, UNCHANGED <<worldVars, lp, app>>
  PROVE  TypeOK'
<1>1. noted' \in [Tasks -> Notes]
  BY DEF LpAnswer, TypeOK, ReceiveTypeOK, Notes
<1>2. PICK next \in Labels : Goto(t, next)
  BY DEF LpAnswer
<1> QED
  BY <1>1, <1>2, QuietType

-----------------------------------------------------------------------------

\* Each step of the world keeps the types.
LEMMA EnvironmentType ==
  ASSUME TypeOK, Environment, UNCHANGED app
  PROVE  TypeOK'
<1>1. CASE (LpReceive \/ LpLetGo) /\ UNCHANGED worldVars
  <2>1. lp' \in {"invoice", "held", "gone"}
    BY <1>1 DEF LpReceive, LpLetGo
  <2> QED
    BY <1>1, <2>1 DEF Environment, TypeOK, ReceiveTypeOK, worldVars, recordVars, lifeVars
<1>2. CASE (ChainCommit \/ ChainClaim \/ ChainRefund) /\ UNCHANGED lp
  <2>1. ReceiveTypeOK'
    BY <1>2, EscrowStepType
    DEF Environment, TypeOK, ChainCommit, ChainClaim, ChainRefund, Still, Alive
  <2> QED
    BY <1>2, <2>1 DEF Environment, TypeOK
<1>3. CASE Clock /\ UNCHANGED lp
  <2>1. ReceiveTypeOK'
    BY <1>3, ExpireType DEF Environment, TypeOK, Clock, Still, Alive
  <2> QED
    BY <1>3, <2>1 DEF Environment, TypeOK
<1> QED
  BY <1>1, <1>2, <1>3 DEF Environment

\* Ticks.
LEMMA TickType ==
  ASSUME TypeOK, NEW t \in Timers, TickNext(t), UNCHANGED app
  PROVE  TypeOK'
<1>1. t \in Tasks /\ noted \in [Tasks -> Notes]
  BY DEF Tasks, TypeOK, ReceiveTypeOK
<1>2. {"idle", "tick:asked", "tick:expired"} \subseteq Labels
  BY DEF Labels
<1>3. CASE TickQuote(t)
  BY <1>1, <1>2, <1>3, EmitType DEF TickQuote, Frame, ReceiveStates
<1>4. CASE TickAsk(t)
  BY <1>1, <1>2, <1>4, QuietType DEF TickAsk, Frame
<1>5. CASE TickAnswer(t)
  BY <1>1, <1>2, <1>5, QuietType DEF TickAnswer, Frame
<1>6. CASE TickExpire(t)
  BY <1>1, <1>2, <1>6, EmitType DEF TickExpire, Frame, ReceiveStates
<1> QED
  BY <1>3, <1>4, <1>5, <1>6 DEF TickNext

\* The wait for the payment of the invoice.
LEMMA PayType ==
  ASSUME TypeOK, NEW t \in Callers, PayNext(t), UNCHANGED app
  PROVE  TypeOK'
<1>1. t \in Tasks /\ noted \in [Tasks -> Notes]
  BY DEF Tasks, TypeOK, ReceiveTypeOK
<1>2. {"idle", "saving", "pay:poll", "pay:check", "pay:paid", "pay:gone"} \subseteq Labels
  BY DEF Labels
<1>3. CASE Pay(t)
  <2>1. CASE initiated
    BY <1>1, <1>2, <1>3, <2>1, QuietType DEF Pay, Frame
  <2>2. CASE ~initiated
    <3>1. ReceiveTypeOK'
      BY <1>1, <1>3, <2>2, SaveWithType DEF Pay, Frame, TypeOK, ReceiveTypeOK
    <3> QED
      BY <1>2, <1>3, <3>1 DEF Pay, Goto, Frame, TypeOK
  <2> QED
    BY <2>1, <2>2
<1>4. CASE PayPoll(t)
  BY <1>1, <1>2, <1>4, LpAnswerType DEF PayPoll
<1>5. CASE PayCheck(t)
  BY <1>1, <1>2, <1>5, QuietType DEF PayCheck, Frame
<1>6. CASE PayApply(t)
  <2>1. noted' \in [Tasks -> Notes]
    BY <1>6 DEF PayApply, TypeOK, ReceiveTypeOK, Nothing, Notes
  <2>2. noted[t].terms \in {"none", "good", "bad"}
    BY <1>1 DEF Notes
  <2>3. CASE pc[t] = "pay:paid" /\ state \in QuoteStates
    <3>1. SaveWith("PR_PAID", noted[t].terms, initiated) /\ Goto(t, "saving")
      BY <1>6, <2>3 DEF PayApply
    <3>2. ReceiveTypeOK'
      BY <1>6, <2>1, <2>2, <3>1, SaveWithType DEF PayApply, TypeOK, ReceiveTypeOK, ReceiveStates
    <3> QED
      BY <1>2, <1>6, <3>1, <3>2 DEF PayApply, Goto, TypeOK
  <2>4. CASE pc[t] = "pay:paid" /\ state \notin QuoteStates
    BY <1>1, <1>2, <1>6, <2>1, <2>4, QuietType DEF PayApply
  <2>5. CASE pc[t] = "pay:gone"
    BY <1>1, <1>6, <2>1, <2>5, EmitIfType DEF PayApply, ReceiveStates
  <2> QED
    BY <1>6, <2>3, <2>4, <2>5 DEF PayApply
<1> QED
  BY <1>3, <1>4, <1>5, <1>6 DEF PayNext

\* checkPastSwaps.
LEMMA SyncType ==
  ASSUME TypeOK, NEW t \in Callers, SyncNext(t), UNCHANGED app
  PROVE  TypeOK'
<1>1. t \in Tasks /\ noted \in [Tasks -> Notes]
  BY DEF Tasks, TypeOK, ReceiveTypeOK
<1>2. {"idle", "saving", "sync:lp", "sync:check", "sync:paid", "sync:gone", "sync:expiry",
       "sync:status", "sync:apply", "sync:end"} \subseteq Labels
  BY DEF Labels
<1>3. CASE SyncStart(t)
  BY <1>1, <1>2, <1>3 DEF SyncStart, Goto, Still, recordVars, worldVars, TypeOK, ReceiveTypeOK
<1>4. CASE SyncAskLp(t)
  BY <1>1, <1>2, <1>4, LpAnswerType DEF SyncAskLp
<1>5. CASE SyncCheck(t)
  BY <1>1, <1>2, <1>5, QuietType DEF SyncCheck, Frame
<1>6. CASE SyncLpApply(t)
  <2>1. noted' \in [Tasks -> Notes]
    BY <1>1, <1>6 DEF SyncLpApply, Notes
  <2>2. noted[t].terms \in {"none", "good", "bad"}
    BY <1>1 DEF Notes
  <2>3. state' \in ReceiveStates /\ learnt' \in {"none", "good", "bad"}
    BY <1>6, <2>2 DEF SyncLpApply, TypeOK, ReceiveTypeOK, ReceiveStates
  <2> QED
    BY <1>2, <1>6, <2>1, <2>3
    DEF SyncLpApply, Goto, Alive, lifeVars, worldVars, TypeOK, ReceiveTypeOK
<1>7. CASE SyncExpiry(t)
  <2>1. noted' \in [Tasks -> Notes]
    BY <1>1, <1>7 DEF SyncExpiry, Notes, Paid
  <2> QED
    BY <1>1, <1>2, <1>7, <2>1, QuietType DEF SyncExpiry
<1>8. CASE SyncStatus(t)
  <2>1. noted' \in [Tasks -> Notes]
    BY <1>1, <1>8, StatusType DEF SyncStatus, Notes
  <2> QED
    BY <1>1, <1>2, <1>8, <2>1, QuietType DEF SyncStatus
<1>9. CASE SyncApply(t)
  <2>1. state' \in ReceiveStates
    BY <1>9 DEF SyncApply, SyncedState, TypeOK, ReceiveTypeOK, ReceiveStates
  <2>2. noted' \in [Tasks -> Notes]
    BY <1>1, <1>9 DEF SyncApply, Notes
  <2> QED
    BY <1>2, <1>9, <2>1, <2>2
    DEF SyncApply, Goto, Alive, lifeVars, worldVars, TypeOK, ReceiveTypeOK
<1>10. CASE SyncEnd(t)
  <2>1. noted' \in [Tasks -> Notes]
    BY <1>1, <1>10 DEF SyncEnd, Nothing, Notes
  <2>2. CASE ~noted[t].changed
    BY <1>1, <1>2, <1>10, <2>1, <2>2, QuietType DEF SyncEnd
  <2>3. CASE noted[t].changed
    <3>1. ReceiveTypeOK'
      BY <1>10, <2>1, <2>3, SaveWithType DEF SyncEnd, SaveAs, TypeOK, ReceiveTypeOK
    <3> QED
      BY <1>2, <1>10, <2>3, <3>1 DEF SyncEnd, Goto, TypeOK
  <2> QED
    BY <2>2, <2>3
<1>11. CASE SyncFail(t)
  <2>1. noted' \in [Tasks -> Notes]
    BY <1>1, <1>11 DEF SyncFail, Nothing, Notes
  <2> QED
    BY <1>1, <1>2, <1>11, <2>1, QuietType DEF SyncFail
<1> QED
  BY <1>3, <1>4, <1>5, <1>6, <1>7, <1>8, <1>9, <1>10, <1>11 DEF SyncNext

\* Broadcasting a transaction and going on to `next`.
LEMMA SendType ==
  ASSUME TypeOK, NEW t \in Tasks, NEW next \in Labels, NEW kind \in {"commit", "claim"},
         Send(kind), Goto(t, next), Still, Alive, UNCHANGED <<noted, lp, app>>
  PROVE  TypeOK'
<1>1. ReceiveTypeOK'
  BY WorldType DEF Send, TypeOK, ReceiveTypeOK
<1> QED
  BY <1>1 DEF TypeOK, Goto

\* commit, commitAndClaim and waitTillCommited.
LEMMA CommitType ==
  ASSUME TypeOK, NEW t \in Callers, CommitNext(t), UNCHANGED app
  PROVE  TypeOK'
<1>1. t \in Tasks /\ noted \in [Tasks -> Notes]
  BY DEF Tasks, TypeOK, ReceiveTypeOK
<1>2. {"idle", "commit:send", "one:send", "commit:confirm", "one:commited", "one:confirm",
       "wc:poll", "wc:expiry", "wc:yes", "wc:no"} \subseteq Labels
  BY DEF Labels
<1>3. {"CLAIM_COMMITED", "CLAIM_CLAIMED", "QUOTE_EXPIRED"} \subseteq ReceiveStates
  BY DEF ReceiveStates
<1>4. CASE Commit(t)
  BY <1>1, <1>2, <1>4, QuietType DEF Commit, Frame
<1>5. CASE CommitSend(t)
  BY <1>1, <1>2, <1>5, SendType DEF CommitSend
<1>6. CASE CommitConfirmed(t)
  BY <1>1, <1>3, <1>6, EmitIfType DEF CommitConfirmed, Frame
<1>7. CASE SendFail(t)
  BY <1>1, <1>2, <1>7, QuietType DEF SendFail, Frame
<1>8. CASE OneShotClaim(t)
  BY <1>1, <1>2, <1>8, SendType DEF OneShotClaim
<1>9. CASE OneShotConfirmed(t)
  BY <1>1, <1>3, <1>9, EmitIfType DEF OneShotConfirmed, Frame
<1>10. CASE WaitCommit(t)
  BY <1>1, <1>2, <1>10, QuietType DEF WaitCommit, Frame
<1>11. CASE WatchCommit(t)
  <2>1. PICK next \in Labels : Goto(t, next)
    BY <1>2, <1>11 DEF WatchCommit
  <2> QED
    BY <1>1, <1>11, <2>1, QuietType DEF WatchCommit, Frame
<1>12. CASE WaitCommitDone(t)
  BY <1>1, <1>3, <1>12, EmitIfType DEF WaitCommitDone, Frame
<1> QED
  BY <1>4, <1>5, <1>6, <1>7, <1>8, <1>9, <1>10, <1>11, <1>12 DEF CommitNext

\* claim and waitTillClaimed.
LEMMA ClaimType ==
  ASSUME TypeOK, NEW t \in Callers, ClaimNext(t), UNCHANGED app
  PROVE  TypeOK'
<1>1. t \in Tasks /\ noted \in [Tasks -> Notes]
  BY DEF Tasks, TypeOK, ReceiveTypeOK
<1>2. {"idle", "claim:send", "claim:confirm", "wcl:poll", "wcl:paid", "wcl:over", "wcl:failed"} \subseteq Labels
  BY DEF Labels
<1>3. {"CLAIM_CLAIMED", "FAILED"} \subseteq ReceiveStates
  BY DEF ReceiveStates
<1>4. CASE Claim(t)
  BY <1>1, <1>2, <1>4, QuietType DEF Claim, Frame
<1>5. CASE ClaimSend(t)
  BY <1>1, <1>2, <1>5, SendType DEF ClaimSend
<1>6. CASE ClaimConfirmed(t)
  BY <1>1, <1>3, <1>6, EmitIfType DEF ClaimConfirmed, Frame
<1>7. CASE WaitClaim(t)
  BY <1>1, <1>2, <1>7, QuietType DEF WaitClaim, Frame
<1>8. CASE WatchClaim(t)
  BY <1>1, <1>2, <1>8, QuietType DEF WatchClaim, Frame
<1>9. CASE WaitClaimOver(t)
  <2>1. CASE pc[t] = "wcl:over" /\ state \in {"CLAIM_CLAIMED", "FAILED"}
    BY <1>1, <1>2, <1>9, <2>1, QuietType DEF WaitClaimOver, Frame
  <2>2. CASE pc[t] = "wcl:over" /\ state \notin {"CLAIM_CLAIMED", "FAILED"}
    BY <1>1, <1>2, <1>9, <2>2, QuietType DEF WaitClaimOver, Frame
  <2>3. CASE pc[t] \in {"wcl:paid", "wcl:failed"}
    BY <1>1, <1>3, <1>9, <2>3, EmitIfType DEF WaitClaimOver, Frame
  <2> QED
    BY <1>9, <2>1, <2>2, <2>3 DEF WaitClaimOver
<1> QED
  BY <1>4, <1>5, <1>6, <1>7, <1>8, <1>9 DEF ClaimNext

\* The listener.
LEMMA ListenerType ==
  ASSUME TypeOK, ListenerNext, UNCHANGED app
  PROVE  TypeOK'
<1>1. PICK e \in {"init", "claim", "refund"} :
        /\ NextEvent(e)
        /\ IF recorded.learnt = "none" THEN Still /\ UNCHANGED pc
           ELSE SaveAs(OnEvent(e)) /\ pc' = Waked(OnEvent(e))
  BY DEF ListenerNext
<1>2. events' \in Seq({"init", "claim", "refund"})
  BY <1>1, NextEventType DEF TypeOK
<1>3. OnEvent(e) \in ReceiveStates
  BY DEF OnEvent, TypeOK, ReceiveTypeOK, ReceiveStates
<1>4. pc' \in [Tasks -> Labels]
  BY <1>1, WakedType DEF TypeOK
<1>5. recorded' \in Records
  BY <1>1, <1>3, PersistedType
  DEF TypeOK, ReceiveTypeOK, Still, recordVars, SaveAs, SaveWith
<1>6. state' \in ReceiveStates /\ UNCHANGED <<learnt, initiated>>
  BY <1>1, <1>3 DEF TypeOK, ReceiveTypeOK, Still, recordVars, SaveAs, SaveWith
<1> QED
  BY <1>1, <1>2, <1>4, <1>5, <1>6
  DEF ListenerNext, NextEvent, Alive, lifeVars, TypeOK, ReceiveTypeOK

\* Every step keeps the types.
LEMMA NextType ==
  ASSUME TypeOK, [Next]_vars
  PROVE  TypeOK'
<1>1. CASE StorageNext /\ UNCHANGED app
  <2>1. {"idle", "commit:send"} \subseteq Labels
    BY DEF Labels
  <2> QED
    BY <1>1, <2>1, StorageType DEF StorageNext, TypeOK
<1>2. CASE UNCHANGED vars
  BY <1>2 DEF vars, receiveVars, worldVars, recordVars, lifeVars, TypeOK, ReceiveTypeOK
<1> QED
  BY <1>1, <1>2, EnvironmentType, TickType, PayType, SyncType, CommitType, ClaimType, ListenerType
  DEF Next

\* TypeOK: the swap object, its record, the escrow and the call slots of
\* FromBTCLNSwap.ts stay well-typed through every call, event, crash and restart.
THEOREM TypeCorrect == Spec => []TypeOK
<1>1. Init => TypeOK
  <2>1. <<>> \in Seq({"init", "claim", "refund"})
    OBVIOUS
  <2>2. "PR_CREATED" \in ReceiveStates /\ Absent \in Records /\ Nothing \in Notes /\ "idle" \in Labels
    BY DEF ReceiveStates, Records, Notes, Nothing, Labels
  <2>3. 0 \in 0..MaxRestarts
    BY ReceiveRestartsAssumption
  <2> QED
    BY <2>1, <2>2, <2>3 DEF Init, ReceiveInit, TypeOK, ReceiveTypeOK
<1>2. TypeOK /\ [Next]_vars => TypeOK'
  BY NextType
<1> QED
  BY <1>1, <1>2, PTL DEF Spec

-----------------------------------------------------------------------------
(***************************************************************************)
(* The inductive invariant.  It says what each state, each record, each    *)
(* event under way and each answer a call holds in its hand still prove of *)
(* the escrow, and where the authorization a commit was made with is kept. *)
(***************************************************************************)

Late    == "escrow" \in passed
Careful == ~Makes({"waitCommit"})

\* No escrow waits for a claim, and none will before the timeout.
Over == Late \/ escrow = "refunded" \/ (escrow = "none" /\ ("auth" \in passed \/ lp = "gone"))

\* What state s proves, whether held, stored or about to be written.
Backed(s) ==
  /\ s = "CLAIM_COMMITED" => escrow # "none"
  /\ s = "CLAIM_CLAIMED" => escrow = "paid"
  /\ s = "EXPIRED" => Late
  /\ s = "FAILED" => Over
  /\ s = "QUOTE_EXPIRED" => Over \/ ~Careful
  /\ s # "BTC_TX_CONFIRMED"   \* a state of FromBTCSwap only

AllBacked == Backed(state) /\ Backed(recorded.state) /\ Backed(durable.state)

PayLabels    == {"pay:poll", "pay:check", "pay:paid", "pay:gone"}
SyncLabels   == {"sync:lp", "sync:check", "sync:paid", "sync:gone", "sync:expiry",
                 "sync:status", "sync:apply", "sync:end"}
CommitLabels == {"commit:saving", "commit:send", "commit:confirm",
                 "one:send", "one:commited", "one:confirm"}
ClaimLabels  == {"claim:send", "claim:confirm", "wcl:poll", "wcl:paid", "wcl:over", "wcl:failed"}
AuthLabels   == {"pay:check", "pay:paid", "sync:check", "sync:paid"}

\* What a commit status noted earlier still proves when it is applied.
Answered(status, expired) ==
  /\ status = "PAID" => escrow = "paid"
  /\ status = "COMMITED" => escrow # "none"
  /\ status \in {"EXPIRED", "REFUNDABLE"} => Over
  /\ status = "NOT_COMMITED" => (expired \/ state \in {"CLAIM_COMMITED", "EXPIRED"} => Over)

\* What call t may rely on at the await it is parked at.
InHand(t) ==
  /\ pc[t] = "tick:expired" => Late
  /\ pc[t] = "wc:yes" => escrow # "none"
  /\ pc[t] \in {"wc:poll", "wc:expiry", "wc:no"} => ~Careful
  /\ pc[t] \in ClaimLabels => escrow # "none"
  /\ pc[t] = "wcl:paid" => escrow = "paid"
  /\ pc[t] \in {"wcl:over", "wcl:failed"} => Over
  /\ pc[t] \in {"pay:gone", "sync:gone"} => lp = "gone"
  /\ pc[t] \in AuthLabels => noted[t].terms = "good"
  /\ noted[t].expired => "auth" \in passed
  /\ pc[t] = "sync:apply" => Answered(noted[t].status, noted[t].expired)

\* Where a call can be parked, by what the application makes and the phase.
InPlace(t) ==
  /\ pc[t] \in SyncLabels => phase = "syncing" \/ <<t, "sync">> \in app
  /\ pc[t] \in {"sync:lp", "sync:check", "sync:paid", "sync:gone"} /\ phase = "syncing"
       => state \in QuoteStates
  /\ pc[t] \in PayLabels => <<t, "pay">> \in app /\ initiated
  /\ pc[t] \in CommitLabels => Makes({"commit", "oneshot"})

Phases ==
  /\ phase \in {"down", "init"} => recorded = durable /\ \A t \in Tasks : pc[t] = "idle"
  /\ phase = "syncing" =>
       \A t \in Tasks : pc[t] # "idle" => t = Starter /\ pc[t] \in SyncLabels \cup {"saving"}
  /\ phase \in {"init", "syncing"} => initiated

\* Events under way are true, and stay so.
EventTrue(e) ==
  /\ e = "init" => escrow # "none"
  /\ e = "claim" => escrow = "paid"
  /\ e = "refund" => escrow = "refunded"

EventsTrue == \A e \in Announced : EventTrue(e)

\* What the LP's side and the transactions sent say of the escrow.
Chain ==
  /\ escrow # "none" => "commit" \in sent
  /\ "claim" \in sent => escrow # "none"
  /\ "commit" \in sent => Makes({"commit", "oneshot"})
  /\ lp = "invoice" => escrow = "none"
  /\ lp = "gone" => escrow \in {"none", "refunded"}

\* No authorization was handed out: the LP holds no payment, and has let none go.
NoAuth == lp = "invoice" \/ (lp = "gone" /\ escrow = "none" /\ "auth" \notin passed)

Unlearnt ==
  NoAuth => /\ learnt = "none" /\ recorded.learnt = "none" /\ durable.learnt = "none"
            /\ \A t \in Tasks : pc[t] \notin AuthLabels

Known == {learnt, recorded.learnt, durable.learnt} \subseteq {"none", "good"}

\* A commit was sent, or a call is about to send one.
CommitPossible == "commit" \in sent \/ \E t \in Tasks : pc[t] \in CommitLabels

\* The record keeps the authorization, or was removed with good reason.
KeptIn(rec) == rec.learnt = "good" \/ (rec = Absent /\ (Over \/ ~Careful))

Kept == CommitPossible => learnt = "good" /\ KeptIn(recorded) /\ KeptIn(durable)

\* An authorization just learnt is on its way into the record: the sync has
\* yet to end, or the write to complete.
Live     == {"PR_CREATED", "QUOTE_SOFT_EXPIRED", "PR_PAID", "CLAIM_COMMITED"}
Learning == \E t \in Tasks : pc[t] \in SyncLabels /\ noted[t].changed
Storing  == \E t \in Tasks : pc[t] = "saving" /\ (<<t, "pay">> \in app \/ phase = "syncing")

Written ==
  phase # "down" =>
    /\ learnt # "none" => initiated
    /\ ~Makes({"sync"}) /\ state \in Live =>
         /\ recorded.learnt = learnt \/ Learning
         /\ durable.learnt = learnt \/ Learning \/ Storing

IInv ==
  /\ TypeOK /\ AllBacked /\ Phases /\ EventsTrue /\ Chain
  /\ \A t \in Tasks : InHand(t) /\ InPlace(t)
  /\ Unlearnt /\ Known /\ Kept /\ Written

\* The applications the invariant is about: a full sync does not run beside a
\* commit (what it would do there the run tobtc_sync_race shows on ToBTCSwap), ...
SyncAlone ==
  \A a \in Applications : \A t, u \in Callers :
    <<t, "sync">> \in a => <<u, "commit">> \notin a /\ <<u, "oneshot">> \notin a

\* ... and a commit follows the wait for the payment in the same sequence of
\* calls, as in execute(): it does not overtake the write of what the wait learnt.
PayThenCommit ==
  \A a \in Applications : \A t, u \in Callers :
    <<t, "pay">> \in a /\ (<<u, "commit">> \in a \/ <<u, "oneshot">> \in a) => t = u

-----------------------------------------------------------------------------
(* Consequences of the invariant the steps below rely on *)

\* Where a sync of the application may run, no escrow is ever opened.
LEMMA NoCommitBesideSync ==
  ASSUME IInv, SyncAlone, Makes({"sync"})
  PROVE  /\ ~CommitPossible /\ escrow = "none" /\ ~Makes({"commit", "oneshot"})
<1>1. app \in Applications /\ app \subseteq Callers \X (ExecuteCalls \cup OneShotCalls
                                  \cup {"waitCommit", "waitClaim", "sync"})
  BY LnCallsAssumption DEF IInv, TypeOK, ReceiveTypeOK
<1>2. PICK c \in app : c[2] = "sync"
  BY DEF Makes
<1>3. c[1] \in Callers /\ <<c[1], "sync">> \in app
  BY <1>1, <1>2
<1>4. ASSUME NEW d \in app, d[2] \in {"commit", "oneshot"} PROVE FALSE
  <2>1. d[1] \in Callers /\ <<d[1], d[2]>> \in app
    BY <1>1
  <2> QED
    BY <1>1, <1>3, <1>4, <2>1 DEF SyncAlone
<1>5. ~Makes({"commit", "oneshot"})
  BY <1>4 DEF Makes
<1> QED
  BY <1>5 DEF IInv, Chain, CommitPossible, InPlace

\* A call of the application runs in the phase "run"; so do commits and claims.
LEMMA Where ==
  ASSUME IInv, NEW t \in Tasks, pc[t] # "idle"
  PROVE  \/ phase = "run"
         \/ phase = "syncing" /\ t = Starter /\ pc[t] \in SyncLabels \cup {"saving"}
BY DEF IInv, Phases, TypeOK, ReceiveTypeOK

\* In the phase "run", only a sync of the application is at a step of a sync.
LEMMA SyncIsMade ==
  ASSUME IInv, phase = "run", NEW t \in Tasks, pc[t] \in SyncLabels
  PROVE  Makes({"sync"})
BY DEF IInv, InPlace, Makes
-----------------------------------------------------------------------------
(* Steps that move a call on *)

\* Call t goes on to `next`, perhaps with a new note, and nothing else changes.
Quiet(t, next) ==
  /\ Goto(t, next) /\ Still /\ Alive /\ UNCHANGED <<worldVars, lp, app>>
  /\ \A u \in Tasks \ {t} : noted'[u] = noted[u]

\* A step of one call up to its next await keeps the invariant, if what the call
\* then relies on is so.
LEMMA QuietInv ==
  ASSUME IInv, TypeOK', NEW t \in Tasks, NEW next \in Labels, Quiet(t, next),
         InHand(t)', InPlace(t)',
         phase = "run" \/ (phase = "syncing" /\ t = Starter /\ next \in SyncLabels \cup {"idle"}),
         next \in CommitLabels => learnt = "good" /\ KeptIn(recorded) /\ KeptIn(durable),
         next \in AuthLabels => ~NoAuth,
         pc[t] \in SyncLabels /\ noted[t].changed => next \in SyncLabels /\ noted'[t].changed,
         pc[t] # "saving"
  PROVE  IInv'
<1> USE DEF Quiet
<1>1. UNCHANGED <<escrow, events, passed, sent, state, learnt, initiated, recorded,
                  durable, phase, restarts, lp, app>>
  BY DEF Still, Alive, recordVars, lifeVars, worldVars
<1>2. pc'[t] = next /\ \A u \in Tasks \ {t} : pc'[u] = pc[u]
  BY DEF Goto, IInv, TypeOK
<1>3. AllBacked' /\ EventsTrue' /\ Chain' /\ Known'
  BY <1>1 DEF IInv, AllBacked, Backed, Late, Over, Careful, Makes, EventsTrue, Announced,
              EventTrue, Chain, Known
<1>4. Phases'
  BY <1>1, <1>2 DEF IInv, Phases
<1>5. ASSUME NEW u \in Tasks PROVE InHand(u)' /\ InPlace(u)'
  <2>1. CASE u = t
    BY <2>1
  <2>2. CASE u # t
    <3>1. pc'[u] = pc[u] /\ noted'[u] = noted[u]
      BY <1>2, <2>2
    <3>2. InHand(u) /\ InPlace(u)
      BY DEF IInv
    <3>3. InHand(u)'
      BY <1>1, <3>1, <3>2 DEF InHand, Answered, Over, Late, Careful, Makes
    <3>4. InPlace(u)'
      BY <1>1, <3>1, <3>2 DEF InPlace, Makes
    <3> QED
      BY <3>3, <3>4
  <2> QED
    BY <2>1, <2>2
<1>6. Unlearnt'
  BY <1>1, <1>2 DEF IInv, Unlearnt, NoAuth
<1>7. Kept'
  BY <1>1, <1>2 DEF IInv, Kept, CommitPossible, KeptIn, Over, Late, Careful, Makes
<1>8. Written'
  <2>1. Learning => Learning'
    BY <1>2 DEF Learning
  <2>2. Storing => Storing'
    BY <1>1, <1>2 DEF Storing
  <2> QED
    BY <1>1, <2>1, <2>2 DEF IInv, Written, Makes
<1> QED
  BY <1>3, <1>4, <1>5, <1>6, <1>7, <1>8 DEF IInv

\* Steps of a tick, of a wait for the escrow or of a claim: the call holds no
\* authorization, and its phase is "run".
LEMMA PlainInv ==
  ASSUME IInv, TypeOK', NEW t \in Tasks, NEW next \in Labels, Quiet(t, next), UNCHANGED noted,
         next \notin SyncLabels \cup PayLabels \cup CommitLabels \cup AuthLabels,
         pc[t] \notin SyncLabels \cup {"saving"}, phase = "run", InHand(t)'
  PROVE  IInv'
<1>1. pc'[t] = next
  BY DEF Quiet, Goto, IInv, TypeOK
<1>2. InPlace(t)'
  BY <1>1 DEF InPlace, SyncLabels
<1> QED
  BY <1>2, QuietInv
-----------------------------------------------------------------------------
(* Steps that save and emit *)

\* Calls go on as they were, or end: some wait for their save.
Ends == \A u \in Tasks :
  \/ pc'[u] = pc[u] /\ noted'[u] = noted[u]
  \/ pc'[u] \in {"idle", "saving"} /\ pc[u] # "saving" /\ noted'[u] \in {noted[u], Nothing}

\* _saveAndEmit, while the process runs, of a state the escrow backs keeps the
\* invariant: the record follows, and what was learnt stays with it.
LEMMA SaveInv ==
  ASSUME IInv, SyncAlone, TypeOK', NEW s \in ReceiveStates, SaveAs(s), Backed(s),
         s \in Live => state \in Live, phase = "run", Alive, Ends,
         UNCHANGED <<escrow, passed, sent, lp, app>>, Announced' \subseteq Announced
  PROVE  IInv'
<1>1. /\ state' = s /\ learnt' = learnt /\ initiated' = initiated
      /\ recorded' = Persisted(s, learnt, initiated)
      /\ UNCHANGED <<escrow, passed, sent, lp, app, durable, phase, restarts>>
  BY DEF SaveAs, SaveWith, Alive, lifeVars
<1>2. AllBacked'
  BY <1>1 DEF IInv, AllBacked, Backed, Persisted, Absent, Late, Over, Careful, Makes
<1>3. EventsTrue' /\ Chain' /\ Phases'
  BY <1>1 DEF IInv, EventsTrue, EventTrue, Chain, Makes, Phases
<1>4. Known'
  BY <1>1 DEF IInv, Known, Persisted, Absent
<1>5. ASSUME NEW u \in Tasks PROVE InHand(u)' /\ InPlace(u)'
  <2>1. CASE pc'[u] = pc[u] /\ noted'[u] = noted[u]
    <3>1. InHand(u) /\ InPlace(u)
      BY DEF IInv
    <3>2. pc[u] = "sync:apply" => s # "CLAIM_COMMITED"
      BY SyncIsMade, NoCommitBesideSync DEF SyncLabels, Backed
    <3>3. Late => Over
      BY DEF Over
    <3>4. Answered(noted[u].status, noted[u].expired) /\ s # "CLAIM_COMMITED"
            => Answered(noted[u].status, noted[u].expired)'
      BY <1>1, <2>1, <3>3 DEF Answered, Backed, Over, Late
    <3>5. InHand(u)'
      BY <1>1, <2>1, <3>1, <3>2, <3>4 DEF InHand, Over, Late, Careful, Makes
    <3>6. InPlace(u)'
      BY <1>1, <2>1, <3>1 DEF InPlace, Makes
    <3> QED
      BY <3>5, <3>6
  <2>2. CASE pc'[u] \in {"idle", "saving"} /\ noted'[u] \in {noted[u], Nothing}
    <3>1. noted'[u].expired => "auth" \in passed
      BY <2>2 DEF IInv, InHand, Nothing
    <3> QED
      BY <1>1, <2>2, <3>1
      DEF InHand, InPlace, ClaimLabels, AuthLabels, SyncLabels, PayLabels, CommitLabels
  <2> QED
    BY <2>1, <2>2 DEF Ends
<1>6. Unlearnt'
  <2>1. \A u \in Tasks : pc[u] \notin AuthLabels => pc'[u] \notin AuthLabels
    BY DEF Ends, AuthLabels
  <2> QED
    BY <1>1, <2>1 DEF IInv, Unlearnt, NoAuth, Persisted, Absent
<1>7. Kept'
  <2>1. CommitPossible' => CommitPossible
    BY <1>1 DEF CommitPossible, Ends, CommitLabels
  <2>2. (Over \/ ~Careful) => (Over \/ ~Careful)'
    BY <1>1 DEF Over, Late, Careful, Makes
  <2>3. s = "QUOTE_EXPIRED" => Over \/ ~Careful
    BY DEF Backed
  <2>4. CommitPossible => KeptIn(recorded)' /\ KeptIn(durable)'
    BY <1>1, <2>2, <2>3 DEF IInv, Kept, KeptIn, Persisted
  <2> QED
    BY <1>1, <2>1, <2>4 DEF IInv, Kept
<1>8. Written'
  <2>1. Makes({"sync"})' <=> Makes({"sync"})
    BY <1>1 DEF Makes
  <2>2. ~Makes({"sync"}) => ~Learning
    BY SyncIsMade DEF Learning
  <2>3. Storing => Storing'
    BY <1>1 DEF Storing, Ends
  <2>4. Written
    BY DEF IInv
  <2>5. ASSUME ~Makes({"sync"}), s \in Live
        PROVE  recorded'.learnt = learnt /\ (durable.learnt = learnt \/ Storing)
    <3>1. recorded.learnt = learnt /\ (durable.learnt = learnt \/ Storing)
      BY <2>2, <2>4, <2>5 DEF Written
    <3> QED
      BY <1>1, <2>5, <3>1 DEF Persisted, Live
  <2> QED
    BY <1>1, <2>1, <2>3, <2>4, <2>5 DEF Written
<1> QED
  BY <1>2, <1>3, <1>4, <1>5, <1>6, <1>7, <1>8 DEF IInv

\* The calls an emitted state wakes end; so does, or waits, the one that emits it.
LEMMA EmitEnds ==
  ASSUME TypeOK, NEW t \in Tasks, NEW s, NEW next \in {"idle", "saving"},
         pc' = [Waked(s) EXCEPT ![t] = next] \/ (pc' = [pc EXCEPT ![t] = next]),
         pc[t] # "saving", noted' = noted \/ noted' = [noted EXCEPT ![t] = Nothing]
  PROVE  Ends
BY DEF TypeOK, ReceiveTypeOK, Ends, Waked

\* The guarded emit at the end of a call.
LEMMA EmitIfInv ==
  ASSUME IInv, SyncAlone, TypeOK', NEW t \in Tasks, NEW from, NEW s \in ReceiveStates,
         EmitIf(t, from, s), Backed(s), s \in Live => from \subseteq Live,
         phase = "run", pc[t] \notin SyncLabels \cup {"saving"},
         Alive, UNCHANGED <<worldVars, lp, app>>,
         noted' = noted \/ noted' = [noted EXCEPT ![t] = Nothing]
  PROVE  IInv'
<1>1. CASE state \in from
  <2>1. SaveAs(s) /\ Ends
    BY <1>1, EmitEnds DEF EmitIf, EmitFrom, IInv
  <2> QED
    BY <1>1, <2>1, SaveInv DEF worldVars, Announced
<1>2. CASE state \notin from
  <2>1. Quiet(t, "idle")
    BY <1>2 DEF EmitIf, Quiet, IInv, TypeOK, ReceiveTypeOK
  <2>2. pc'[t] = "idle" /\ "idle" \in Labels
    BY <2>1 DEF Quiet, Goto, IInv, TypeOK, Labels
  <2>3. noted'[t].expired => "auth" \in passed'
    BY DEF IInv, InHand, worldVars, Nothing, TypeOK, ReceiveTypeOK
  <2>4. InHand(t)' /\ InPlace(t)'
    BY <2>2, <2>3
    DEF InHand, InPlace, ClaimLabels, AuthLabels, SyncLabels, PayLabels, CommitLabels
  <2> QED
    BY <2>1, <2>2, <2>4, QuietInv DEF CommitLabels, AuthLabels
<1> QED
  BY <1>1, <1>2
-----------------------------------------------------------------------------
(* The steps, one action at a time *)

\* A tick that emits, ends.
LEMMA TickEmitInv ==
  ASSUME IInv, SyncAlone, TypeOK', NEW t \in Tasks, NEW s \in ReceiveStates, EmitFrom(t, s, "idle"),
         Backed(s), s \in Live => state \in Live, phase = "run", pc[t] # "saving",
         Frame, UNCHANGED app
  PROVE  IInv'
<1>1. SaveAs(s) /\ Ends
  BY EmitEnds DEF EmitFrom, IInv, Frame
<1> QED
  BY <1>1, SaveInv DEF Frame, worldVars, Announced

\* A tick gives a quote up, or a swap, only for an expiry that has passed.
LEMMA TickInv ==
  ASSUME IInv, SyncAlone, TypeOK', NEW t \in Timers, TickNext(t), UNCHANGED app
  PROVE  IInv'
<1>1. t \in Tasks
  BY DEF Tasks
<1>2. CASE TickQuote(t)
  BY <1>1, <1>2, TickEmitInv DEF TickQuote, Running, Backed, Live, ReceiveStates
<1>3. CASE TickAsk(t)
  <2>1. Quiet(t, "tick:asked") /\ phase = "run" /\ pc[t] = "idle"
    BY <1>3 DEF TickAsk, Quiet, Frame, Running
  <2>2. pc'[t] = "tick:asked" /\ noted' = noted
    BY <1>1, <1>3 DEF TickAsk, Goto, Frame, IInv, TypeOK
  <2>3. InHand(t)'
    BY <1>1, <1>3, <2>2 DEF TickAsk, Frame, worldVars, IInv, InHand, ClaimLabels, AuthLabels
  <2> QED
    BY <1>1, <1>3, <2>1, <2>3, PlainInv
    DEF TickAsk, Frame, Labels, SyncLabels, PayLabels, CommitLabels, AuthLabels
<1>4. CASE TickAnswer(t)
  <2>1. PICK next \in {"tick:expired", "idle"} :
          Goto(t, next) /\ (next = "tick:expired" => Late)
    BY <1>4 DEF TickAnswer, Late
  <2>2. Quiet(t, next) /\ phase = "run"
    BY <1>1, <1>4, <2>1, Where DEF TickAnswer, Quiet, Frame, SyncLabels
  <2>3. pc'[t] = next /\ noted' = noted
    BY <1>1, <1>4, <2>1 DEF TickAnswer, Goto, Frame, IInv, TypeOK
  <2>4. InHand(t)'
    BY <1>1, <1>4, <2>1, <2>3
    DEF TickAnswer, Frame, worldVars, IInv, InHand, ClaimLabels, AuthLabels, Late
  <2> QED
    BY <1>1, <1>4, <2>2, <2>4, PlainInv
    DEF TickAnswer, Frame, Labels, SyncLabels, PayLabels, CommitLabels, AuthLabels
<1>5. CASE TickExpire(t)
  <2>1. Late /\ phase = "run"
    BY <1>1, <1>5, Where DEF TickExpire, IInv, InHand, SyncLabels
  <2> QED
    BY <1>1, <1>5, <2>1, TickEmitInv DEF TickExpire, Backed, Live, ReceiveStates
<1> QED
  BY <1>2, <1>3, <1>4, <1>5 DEF TickNext

\* What an answer of the LP gives a call: terms that match the quote if it goes
\* on to `check`, a payment let go if it goes on to `gone`.
LEMMA AnswerInHand ==
  ASSUME IInv, NEW t \in Tasks, NEW check, NEW gone, NEW silent, LpAnswer(t, check, gone, silent)
  PROVE  \E next \in {check, gone, silent} :
           /\ Goto(t, next)
           /\ \A u \in Tasks \ {t} : noted'[u] = noted[u]
           /\ noted'[t].expired = noted[t].expired /\ noted'[t].changed = noted[t].changed
           /\ \/ next = check /\ lp = "held" /\ noted'[t].terms = "good"
              \/ next = gone /\ lp = "gone"
              \/ next = silent
<1>1. noted \in [Tasks -> Notes]
  BY DEF IInv, TypeOK, ReceiveTypeOK
<1>2. CASE lp = "held" /\ \E terms \in {"good", "bad"} :
             /\ noted' = [noted EXCEPT ![t].terms = terms]
             /\ Goto(t, IF Verified(terms) THEN check ELSE silent)
  <2>1. PICK terms \in {"good", "bad"} :
             /\ noted' = [noted EXCEPT ![t].terms = terms]
             /\ Goto(t, IF Verified(terms) THEN check ELSE silent)
    BY <1>2
  <2>2. /\ noted'[t].terms = terms /\ noted'[t].expired = noted[t].expired
        /\ noted'[t].changed = noted[t].changed
        /\ \A u \in Tasks \ {t} : noted'[u] = noted[u]
    BY <1>1, <2>1 DEF Notes
  <2> QED
    BY <1>2, <2>1, <2>2 DEF Verified
<1>3. CASE lp = "gone" /\ Goto(t, gone) /\ UNCHANGED noted
  BY <1>3
<1>4. CASE Goto(t, silent) /\ UNCHANGED noted
  BY <1>4
<1> QED
  BY <1>2, <1>3, <1>4 DEF LpAnswer

\* The first waitForPayment() stores the quote.
LEMMA PayStartInv ==
  ASSUME IInv, SyncAlone, TypeOK', NEW t \in Callers, Pay(t), UNCHANGED app
  PROVE  IInv'
<1>1. t \in Tasks /\ "pay:poll" \in Labels
  BY DEF Tasks, Labels
<1>2. /\ <<t, "pay">> \in app /\ phase = "run" /\ pc[t] = "idle" /\ Unpaid
      /\ pc'[t] = "pay:poll" /\ \A u \in Tasks \ {t} : pc'[u] = pc[u]
      /\ Goto(t, "pay:poll")
      /\ UNCHANGED <<escrow, events, passed, sent, durable, phase, restarts, noted, lp, app>>
  BY <1>1 DEF Pay, Called, Running, Goto, Frame, Alive, lifeVars, worldVars, IInv, TypeOK
<1>3. CASE initiated
  <2>1. Quiet(t, "pay:poll")
    BY <1>2, <1>3 DEF Pay, Quiet, Frame
  <2>2. InHand(t)'
    BY <1>1, <1>2 DEF IInv, InHand, ClaimLabels, AuthLabels
  <2>3. InPlace(t)'
    BY <1>2, <1>3, <2>1
    DEF InPlace, SyncLabels, PayLabels, CommitLabels, Quiet, Still, recordVars
  <2> QED
    BY <1>1, <1>2, <2>1, <2>2, <2>3, QuietInv DEF CommitLabels, AuthLabels, SyncLabels
<1>4. CASE ~initiated
  <2>1. /\ UNCHANGED <<state, learnt>> /\ initiated' = TRUE
        /\ recorded' = [state |-> state, learnt |-> learnt]
    BY <1>2, <1>4 DEF Pay, SaveWith, Persisted, Unpaid
  <2>2. learnt = "none" /\ ~CommitPossible
    BY <1>2, <1>4 DEF IInv, Written, Kept, TypeOK, ReceiveTypeOK
  <2>3. AllBacked'
    BY <1>2, <2>1 DEF IInv, AllBacked, Backed, Late, Over, Careful, Makes
  <2>4. EventsTrue' /\ Chain' /\ Phases' /\ Known'
    BY <1>2, <2>1 DEF IInv, EventsTrue, EventTrue, Announced, Chain, Makes, Phases, Known
  <2>5. ASSUME NEW u \in Tasks PROVE InHand(u)'
    BY <1>2, <2>1 DEF IInv, InHand, Answered, Over, Late, Careful, Makes, ClaimLabels, AuthLabels
  <2>6. ASSUME NEW u \in Tasks PROVE InPlace(u)'
    BY <1>2, <2>1 DEF IInv, InPlace, Makes, SyncLabels, PayLabels, CommitLabels
  <2>7. Unlearnt'
    BY <1>2, <2>1 DEF IInv, Unlearnt, NoAuth, AuthLabels
  <2>8. ~CommitPossible'
    BY <1>2, <2>2 DEF CommitPossible, CommitLabels
  <2>9. Written'
    <3>1. Learning => Learning'
      BY <1>1, <1>2 DEF Learning, SyncLabels
    <3>2. Storing => Storing'
      BY <1>1, <1>2 DEF Storing
    <3> QED
      BY <1>2, <2>1, <3>1, <3>2 DEF IInv, Written, Makes
  <2> QED
    BY <2>3, <2>4, <2>5, <2>6, <2>7, <2>8, <2>9 DEF IInv, Kept
<1> QED
  BY <1>3, <1>4

\* The payment is reported with what the LP signed: the swap learns it, and the
\* call waits for it to be stored.
LEMMA PaidInv ==
  ASSUME IInv, SyncAlone, TypeOK', NEW t \in Callers, pc[t] = "pay:paid", state \in QuoteStates,
         PayApply(t), UNCHANGED app
  PROVE  IInv'
<1>1. t \in Tasks
  BY DEF Tasks
<1>2. /\ <<t, "pay">> \in app /\ initiated /\ phase = "run" /\ noted[t].terms = "good" /\ ~NoAuth
  BY <1>1, Where DEF IInv, InPlace, InHand, Unlearnt, PayLabels, SyncLabels, AuthLabels
<1>3. /\ state' = "PR_PAID" /\ learnt' = "good" /\ UNCHANGED initiated
      /\ recorded' = [state |-> "PR_PAID", learnt |-> "good"]
      /\ pc'[t] = "saving" /\ \A u \in Tasks \ {t} : pc'[u] = pc[u]
      /\ noted'[t] = Nothing /\ \A u \in Tasks \ {t} : noted'[u] = noted[u]
      /\ UNCHANGED <<escrow, events, passed, sent, durable, phase, restarts, lp, app>>
  BY <1>1, <1>2
  DEF PayApply, SaveWith, Persisted, Goto, Alive, lifeVars, worldVars, IInv, TypeOK, ReceiveTypeOK
<1>4. AllBacked'
  BY <1>3 DEF IInv, AllBacked, Backed, Late, Over, Careful, Makes
<1>5. EventsTrue' /\ Chain' /\ Phases' /\ Known'
  BY <1>2, <1>3 DEF IInv, EventsTrue, EventTrue, Announced, Chain, Makes, Phases, Known
<1>6. ASSUME NEW u \in Tasks PROVE InHand(u)' /\ InPlace(u)'
  <2>1. CASE u = t
    BY <1>3, <2>1
    DEF InHand, InPlace, ClaimLabels, AuthLabels, SyncLabels, PayLabels, CommitLabels, Nothing
  <2>2. CASE u # t
    <3>1. InHand(u)'
      BY <1>3, <2>2 DEF IInv, InHand, Answered, Over, Late, Careful, Makes
    <3>2. InPlace(u)'
      BY <1>2, <1>3, <2>2 DEF IInv, InPlace, Makes
    <3> QED
      BY <3>1, <3>2
  <2> QED
    BY <2>1, <2>2
<1>7. Unlearnt'
  BY <1>2, <1>3 DEF Unlearnt, NoAuth
<1>8. Kept'
  <2>1. CommitPossible' => CommitPossible
    BY <1>3 DEF CommitPossible, CommitLabels
  <2> QED
    BY <1>3, <2>1 DEF IInv, Kept, KeptIn, Over, Late, Careful, Makes
<1>9. Written'
  BY <1>1, <1>2, <1>3 DEF Written, Storing
<1> QED
  BY <1>4, <1>5, <1>6, <1>7, <1>8, <1>9 DEF IInv

\* waitForPayment().
LEMMA PayInv ==
  ASSUME IInv, SyncAlone, TypeOK', NEW t \in Callers, PayNext(t), UNCHANGED app
  PROVE  IInv'
<1>1. t \in Tasks /\ {"idle", "pay:check", "pay:paid", "pay:gone"} \subseteq Labels
  BY DEF Tasks, Labels
<1>2. CASE Pay(t)
  BY <1>2, PayStartInv
<1>3. CASE PayPoll(t)
  <2>1. phase = "run" /\ pc[t] = "pay:poll" /\ <<t, "pay">> \in app /\ initiated
    BY <1>1, <1>3, Where DEF PayPoll, IInv, InPlace, PayLabels, SyncLabels
  <2>2. PICK next \in {"pay:check", "pay:gone", "idle"} :
           /\ Goto(t, next)
           /\ \A u \in Tasks \ {t} : noted'[u] = noted[u]
           /\ noted'[t].expired = noted[t].expired
           /\ \/ next = "pay:check" /\ lp = "held" /\ noted'[t].terms = "good"
              \/ next = "pay:gone" /\ lp = "gone"
              \/ next = "idle"
    BY <1>1, <1>3, AnswerInHand DEF PayPoll
  <2>3. Quiet(t, next)
    BY <1>3, <2>2 DEF PayPoll, Quiet
  <2>4. pc'[t] = next
    BY <1>1, <2>2 DEF Goto, IInv, TypeOK
  <2>5. InHand(t)'
    BY <1>1, <1>3, <2>2, <2>4 DEF PayPoll, worldVars, IInv, InHand, ClaimLabels, AuthLabels
  <2>6. InPlace(t)'
    BY <1>3, <2>1, <2>2, <2>4
    DEF PayPoll, Still, recordVars, InPlace, SyncLabels, PayLabels, CommitLabels
  <2>7. next \in AuthLabels => ~NoAuth
    BY <2>2 DEF AuthLabels, NoAuth
  <2> QED
    BY <1>1, <2>1, <2>2, <2>3, <2>5, <2>6, <2>7, QuietInv DEF SyncLabels, CommitLabels
<1>4. CASE PayCheck(t)
  <2>1. /\ phase = "run" /\ pc[t] = "pay:check" /\ <<t, "pay">> \in app /\ initiated /\ ~NoAuth
        /\ noted[t].terms = "good"
    BY <1>1, <1>4, Where
    DEF PayCheck, IInv, InPlace, InHand, Unlearnt, PayLabels, SyncLabels, AuthLabels
  <2>2. PICK next \in {"pay:paid", "idle"} : Goto(t, next)
    BY <1>4 DEF PayCheck
  <2>3. Quiet(t, next)
    BY <1>4, <2>2 DEF PayCheck, Quiet, Frame
  <2>4. pc'[t] = next /\ noted' = noted
    BY <1>1, <1>4, <2>2 DEF Goto, IInv, TypeOK, PayCheck, Frame
  <2>5. InHand(t)'
    BY <1>1, <1>4, <2>1, <2>4 DEF PayCheck, Frame, worldVars, IInv, InHand, ClaimLabels, AuthLabels
  <2>6. InPlace(t)'
    BY <1>4, <2>1, <2>4
    DEF PayCheck, Still, recordVars, InPlace, SyncLabels, PayLabels, CommitLabels
  <2> QED
    BY <1>1, <2>1, <2>3, <2>5, <2>6, QuietInv DEF SyncLabels, CommitLabels
<1>5. CASE PayApply(t)
  <2>1. phase = "run" /\ noted' = [noted EXCEPT ![t] = Nothing] /\ Alive /\ UNCHANGED <<worldVars, lp, app>>
    BY <1>1, <1>5, Where DEF PayApply, SyncLabels
  <2>2. CASE pc[t] = "pay:paid" /\ state \in QuoteStates
    BY <1>5, <2>2, PaidInv
  <2>3. CASE pc[t] = "pay:paid" /\ state \notin QuoteStates
    <3>1. EmitIf(t, QuoteStates, "QUOTE_EXPIRED")
      BY <1>5, <2>3 DEF PayApply, EmitIf
    <3>2. EmitIf(t, {}, "PR_PAID")
      BY <3>1, <2>3 DEF EmitIf
    <3> QED
      BY <1>1, <2>1, <2>3, <3>2, EmitIfInv DEF Backed, SyncLabels, ReceiveStates
  <2>4. CASE pc[t] = "pay:gone"
    <3>1. EmitIf(t, QuoteStates, "QUOTE_EXPIRED")
      BY <1>5, <2>4 DEF PayApply
    <3>2. Backed("QUOTE_EXPIRED")
      BY <1>1, <2>4 DEF IInv, InHand, Chain, Backed, Over
    <3> QED
      BY <1>1, <2>1, <2>4, <3>1, <3>2, EmitIfInv DEF Live, SyncLabels, ReceiveStates
  <2> QED
    BY <1>5, <2>2, <2>3, <2>4 DEF PayApply
<1> QED
  BY <1>2, <1>3, <1>4, <1>5 DEF PayNext
-----------------------------------------------------------------------------

\* Where a sync runs.
LEMMA InSync ==
  ASSUME IInv, NEW t \in Tasks, pc[t] \in SyncLabels
  PROVE  \/ phase = "run" /\ <<t, "sync">> \in app
         \/ phase = "syncing" /\ t = Starter
BY Where DEF IInv, InPlace, SyncLabels

\* A step of a sync that asks something keeps the invariant.
LEMMA SyncQuietInv ==
  ASSUME IInv, TypeOK', NEW t \in Tasks, pc[t] \in SyncLabels, NEW next \in SyncLabels, Quiet(t, next),
         noted'[t].changed = noted[t].changed, InHand(t)',
         next \in {"sync:lp", "sync:check", "sync:paid", "sync:gone"}
           => pc[t] \in {"sync:lp", "sync:check", "sync:paid", "sync:gone"},
         next \in AuthLabels => ~NoAuth
  PROVE  IInv'
<1>1. pc'[t] = next /\ UNCHANGED <<state, phase, app>>
  BY DEF Quiet, Goto, IInv, TypeOK, Still, recordVars, Alive, lifeVars
<1>2. InPlace(t)'
  BY <1>1, InSync DEF IInv, InPlace, SyncLabels, PayLabels, CommitLabels
<1>3. next \in Labels /\ next \notin CommitLabels /\ pc[t] # "saving"
  BY DEF SyncLabels, Labels, CommitLabels
<1> QED
  BY <1>2, <1>3, InSync, QuietInv

\* The sync of wrapper.init() is the first call after a restart.
LEMMA InitSyncInv ==
  ASSUME IInv, TypeOK', NEW t \in Callers, SyncStart(t), phase = "init", UNCHANGED app
  PROVE  IInv'
<1>1. t \in Tasks /\ t = Starter /\ phase' = "syncing"
  BY DEF SyncStart, Called, Running, Tasks
<1>2. PICK next \in {"sync:lp", "sync:expiry"} : Goto(t, next) /\ (next = "sync:lp" => Unpaid)
  BY DEF SyncStart
<1>3. /\ pc'[t] = next /\ \A u \in Tasks \ {t} : pc'[u] = pc[u]
      /\ UNCHANGED <<escrow, events, passed, sent, state, learnt, initiated, recorded,
                     durable, restarts, noted, lp, app>>
  BY <1>1, <1>2 DEF SyncStart, Still, recordVars, worldVars, Goto, IInv, TypeOK
<1>4. initiated /\ recorded = durable /\ \A u \in Tasks : pc[u] = "idle"
  BY DEF IInv, Phases
<1>5. AllBacked' /\ EventsTrue' /\ Chain' /\ Known'
  BY <1>3 DEF IInv, AllBacked, Backed, Late, Over, Careful, Makes, EventsTrue, EventTrue,
              Announced, Chain, Known
<1>6. Phases'
  BY <1>1, <1>3, <1>4 DEF Phases, SyncLabels
<1>7. ASSUME NEW u \in Tasks PROVE InHand(u)' /\ InPlace(u)'
  <2>1. pc'[u] = "idle" \/ (u = t /\ pc'[u] = next)
    BY <1>3, <1>4
  <2>2. pc'[u] = "sync:lp" => Unpaid
    BY <1>2, <2>1
  <2>3. noted'[u].expired => "auth" \in passed'
    BY <1>3 DEF IInv, InHand
  <2>4. InHand(u)'
    BY <2>1, <2>3 DEF InHand, ClaimLabels, AuthLabels
  <2>5. InPlace(u)'
    BY <1>1, <1>3, <2>1, <2>2
    DEF InPlace, SyncLabels, PayLabels, CommitLabels, Unpaid, QuoteStates
  <2> QED
    BY <2>4, <2>5
<1>8. Unlearnt'
  BY <1>3 DEF IInv, Unlearnt, NoAuth, AuthLabels
<1>9. Kept'
  <2>1. CommitPossible' => CommitPossible
    BY <1>3 DEF CommitPossible, CommitLabels
  <2> QED
    BY <1>3, <2>1 DEF IInv, Kept, KeptIn, Over, Late, Careful, Makes
<1>10. Written'
  <2>1. ~Learning /\ ~Storing
    BY <1>4 DEF Learning, Storing, SyncLabels
  <2> QED
    BY <1>1, <1>3, <2>1 DEF IInv, Written, Makes
<1> QED
  BY <1>5, <1>6, <1>7, <1>8, <1>9, <1>10 DEF IInv

\* The LP's answer is applied by the sync without a second look at the state.
LEMMA SyncLpApplyInv ==
  ASSUME IInv, SyncAlone, TypeOK', NEW t \in Callers, SyncLpApply(t), UNCHANGED app
  PROVE  IInv'
<1>1. t \in Tasks /\ pc[t] \in {"sync:paid", "sync:gone"}
  BY DEF Tasks, SyncLpApply
<1>2. /\ phase \in {"run", "syncing"}
      /\ phase = "run" => <<t, "sync">> \in app
      /\ phase = "syncing" => t = Starter
  BY <1>1, InSync DEF SyncLabels
<1>3. /\ initiated' = TRUE
      /\ pc'[t] = "sync:expiry" /\ \A u \in Tasks \ {t} : pc'[u] = pc[u]
      /\ noted'[t] = [noted[t] EXCEPT !.changed = TRUE]
      /\ \A u \in Tasks \ {t} : noted'[u] = noted[u]
      /\ UNCHANGED <<escrow, events, passed, sent, recorded, durable, phase, restarts, lp, app>>
  BY <1>1
  DEF SyncLpApply, Goto, Alive, lifeVars, worldVars, IInv, TypeOK, ReceiveTypeOK
<1>4. \/ pc[t] = "sync:paid" /\ state' = "PR_PAID" /\ learnt' = "good" /\ ~NoAuth
      \/ pc[t] = "sync:gone" /\ state' = "QUOTE_EXPIRED" /\ learnt' = learnt /\ Over
  <2>1. CASE pc[t] = "sync:paid"
    BY <1>1, <2>1 DEF SyncLpApply, IInv, InHand, Unlearnt, AuthLabels
  <2>2. CASE pc[t] = "sync:gone"
    BY <1>1, <2>2 DEF SyncLpApply, IInv, InHand, Chain, Over
  <2> QED
    BY <1>1, <2>1, <2>2
<1>5. AllBacked'
  BY <1>3, <1>4 DEF IInv, AllBacked, Backed, Late, Over, Careful, Makes
<1>6. EventsTrue' /\ Chain' /\ Known'
  BY <1>3, <1>4 DEF IInv, EventsTrue, EventTrue, Announced, Chain, Makes, Known
<1>7. Phases'
  BY <1>2, <1>3 DEF IInv, Phases, SyncLabels
<1>8. ASSUME NEW u \in Tasks PROVE InHand(u)' /\ InPlace(u)'
  <2>1. noted'[u].expired => "auth" \in passed'
    <3>1. noted[u].expired => "auth" \in passed
      BY DEF IInv, InHand
    <3>2. noted \in [Tasks -> Notes]
      BY DEF IInv, TypeOK, ReceiveTypeOK
    <3>3. noted'[u].expired = noted[u].expired
      BY <1>1, <1>3, <3>2 DEF Notes
    <3> QED
      BY <1>3, <3>1, <3>3
  <2>2. CASE u = t
    BY <1>2, <1>3, <2>1, <2>2
    DEF InHand, InPlace, ClaimLabels, AuthLabels, SyncLabels, PayLabels, CommitLabels
  <2>3. CASE u # t
    <3>1. pc'[u] = pc[u] /\ noted'[u] = noted[u]
      BY <1>3, <2>3
    <3>2. phase = "syncing" => pc[u] \in {"idle"}
      BY <1>2, <2>3 DEF IInv, Phases
    <3>3. InHand(u)'
      BY <1>3, <1>4, <3>1 DEF IInv, InHand, Answered, Over, Late, Careful, Makes
    <3>4. InPlace(u)'
      BY <1>3, <3>1, <3>2 DEF IInv, InPlace, Makes
    <3> QED
      BY <3>3, <3>4
  <2> QED
    BY <2>2, <2>3
<1>9. Unlearnt'
  BY <1>3, <1>4 DEF IInv, Unlearnt, NoAuth, AuthLabels
<1>10. Kept'
  <2>1. CommitPossible' => CommitPossible
    BY <1>3 DEF CommitPossible, CommitLabels
  <2> QED
    BY <1>3, <1>4, <2>1 DEF IInv, Kept, KeptIn, Over, Late, Careful, Makes
<1>11. Written'
  <2>1. noted'[t].changed
    BY <1>1, <1>3 DEF IInv, TypeOK, ReceiveTypeOK, Notes
  <2>2. Learning'
    BY <1>1, <1>3, <2>1 DEF Learning, SyncLabels
  <2> QED
    BY <1>3, <2>2 DEF Written
<1> QED
  BY <1>5, <1>6, <1>7, <1>8, <1>9, <1>10, <1>11 DEF IInv

\* syncStateFromChain: the state it chooses is backed by what was answered.
LEMMA SyncedBacked ==
  ASSUME IInv, NEW t \in Tasks, pc[t] = "sync:apply"
  PROVE  /\ Backed(SyncedState(t))
         /\ SyncedState(t) \in Live => state \in Live
         /\ SyncedState(t) \in {"CLAIM_COMMITED", "EXPIRED"} =>
              escrow # "none" \/ Late \/ state \in {"CLAIM_COMMITED", "EXPIRED"}
<1>1. /\ Answered(noted[t].status, noted[t].expired) /\ Backed(state)
      /\ noted[t].status \in {"NOT_COMMITED", "COMMITED", "REFUNDABLE", "PAID", "EXPIRED"}
  BY DEF IInv, InHand, AllBacked, TypeOK, ReceiveTypeOK, Notes
<1> QED
  BY <1>1 DEF SyncedState, Answered, Backed, Live, Paid

\* The sync applies its answers to the state of now, which they still prove.
LEMMA SyncApplyInv ==
  ASSUME IInv, SyncAlone, TypeOK', NEW t \in Callers, SyncApply(t), UNCHANGED app
  PROVE  IInv'
<1>1. t \in Tasks /\ pc[t] = "sync:apply"
  BY DEF Tasks, SyncApply
<1>2. /\ phase \in {"run", "syncing"}
      /\ phase = "run" => <<t, "sync">> \in app /\ Makes({"sync"})
      /\ phase = "syncing" => t = Starter
  BY <1>1, InSync, SyncIsMade DEF SyncLabels
<1>3. /\ state' = SyncedState(t)
      /\ pc'[t] = "sync:end" /\ \A u \in Tasks \ {t} : pc'[u] = pc[u]
      /\ noted'[t] = [noted[t] EXCEPT !.changed = noted[t].changed \/ state' # state]
      /\ \A u \in Tasks \ {t} : noted'[u] = noted[u]
      /\ UNCHANGED <<escrow, events, passed, sent, learnt, initiated, recorded, durable, phase,
                     restarts, lp, app>>
  BY <1>1 DEF SyncApply, Goto, Alive, lifeVars, worldVars, IInv, TypeOK, ReceiveTypeOK
<1>4. /\ Backed(state') /\ (state' \in Live => state \in Live)
      /\ state' \in {"CLAIM_COMMITED", "EXPIRED"} =>
              escrow # "none" \/ Late \/ state \in {"CLAIM_COMMITED", "EXPIRED"}
  BY <1>1, <1>3, SyncedBacked
<1>5. AllBacked'
  BY <1>3, <1>4 DEF IInv, AllBacked, Backed, Late, Over, Careful, Makes
<1>6. EventsTrue' /\ Chain' /\ Known'
  BY <1>3 DEF IInv, EventsTrue, EventTrue, Announced, Chain, Makes, Known
<1>7. Phases'
  BY <1>2, <1>3 DEF IInv, Phases, SyncLabels
<1>8. ASSUME NEW u \in Tasks PROVE InHand(u)' /\ InPlace(u)'
  <2>1. noted'[u].expired => "auth" \in passed'
    <3>1. noted[u].expired => "auth" \in passed
      BY DEF IInv, InHand
    <3>2. noted \in [Tasks -> Notes]
      BY DEF IInv, TypeOK, ReceiveTypeOK
    <3>3. noted'[u].expired = noted[u].expired
      BY <1>1, <1>3, <3>2 DEF Notes
    <3> QED
      BY <1>3, <3>1, <3>3
  <2>2. CASE u = t
    <3>1. InHand(u)'
      BY <1>3, <2>1, <2>2 DEF InHand, ClaimLabels, AuthLabels
    <3>2. InPlace(u)'
      BY <1>2, <1>3, <2>2 DEF InPlace, SyncLabels, PayLabels, CommitLabels
    <3> QED
      BY <3>1, <3>2
  <2>3. CASE u # t
    <3>1. pc'[u] = pc[u] /\ noted'[u] = noted[u]
      BY <1>3, <2>3
    <3>2. phase = "syncing" => pc[u] = "idle"
      BY <1>2, <2>3 DEF IInv, Phases
    <3>3. phase = "run" => escrow = "none"
      BY <1>2, NoCommitBesideSync
    <3>4. Late => Over
      BY DEF Over
    <3>5. pc[u] = "sync:apply" => Answered(noted[u].status, noted[u].expired)'
      BY <1>2, <1>3, <1>4, <3>1, <3>2, <3>3, <3>4 DEF IInv, InHand, Answered, Over, Late
    <3>6. InHand(u)'
      BY <1>3, <3>1, <3>5 DEF IInv, InHand, Over, Late, Careful, Makes
    <3>7. InPlace(u)'
      BY <1>3, <3>1, <3>2 DEF IInv, InPlace, Makes
    <3> QED
      BY <3>6, <3>7
  <2> QED
    BY <2>2, <2>3
<1>9. Unlearnt'
  BY <1>3 DEF IInv, Unlearnt, NoAuth, AuthLabels
<1>10. Kept'
  <2>1. CommitPossible' => CommitPossible
    BY <1>3 DEF CommitPossible, CommitLabels
  <2> QED
    BY <1>3, <2>1 DEF IInv, Kept, KeptIn, Over, Late, Careful, Makes
<1>11. Written'
  <2>1. noted[t].changed => noted'[t].changed
    BY <1>1, <1>3 DEF IInv, TypeOK, ReceiveTypeOK, Notes
  <2>2. Learning => Learning'
    BY <1>1, <1>3, <2>1 DEF Learning, SyncLabels
  <2>3. Storing => Storing'
    BY <1>1, <1>3 DEF Storing
  <2> QED
    BY <1>3, <1>4, <2>2, <2>3 DEF IInv, Written, Makes
<1> QED
  BY <1>5, <1>6, <1>7, <1>8, <1>9, <1>10, <1>11 DEF IInv

\* The sync of wrapper.init() writes what it changed.
LEMMA InitSyncEndInv ==
  ASSUME IInv, TypeOK', NEW t \in Callers, SyncEnd(t), noted[t].changed, phase = "syncing",
         UNCHANGED app
  PROVE  IInv'
<1>1. t \in Tasks /\ pc[t] = "sync:end" /\ t = Starter /\ initiated
  BY Where DEF Tasks, SyncEnd, IInv, Phases
<1>2. /\ recorded' = IF state = "QUOTE_EXPIRED" THEN Absent ELSE [state |-> state, learnt |-> learnt]
      /\ pc'[t] = "saving" /\ \A u \in Tasks \ {t} : pc'[u] = pc[u]
      /\ noted'[t] = Nothing /\ \A u \in Tasks \ {t} : noted'[u] = noted[u]
      /\ UNCHANGED <<escrow, events, passed, sent, state, learnt, initiated, durable, phase,
                     restarts, lp, app>>
  BY <1>1 DEF SyncEnd, SaveAs, SaveWith, Persisted, Goto, Alive, lifeVars, worldVars,
              IInv, TypeOK, ReceiveTypeOK
<1>3. AllBacked'
  BY <1>2 DEF IInv, AllBacked, Backed, Absent, Late, Over, Careful, Makes
<1>4. EventsTrue' /\ Chain' /\ Known' /\ Phases'
  BY <1>1, <1>2 DEF IInv, EventsTrue, EventTrue, Announced, Chain, Makes, Known, Absent, Phases
<1>5. ASSUME NEW u \in Tasks PROVE InHand(u)' /\ InPlace(u)'
  <2>1. CASE u = t
    BY <1>2, <2>1
    DEF InHand, InPlace, ClaimLabels, AuthLabels, SyncLabels, PayLabels, CommitLabels, Nothing
  <2>2. CASE u # t
    <3>1. InHand(u)'
      BY <1>2, <2>2 DEF IInv, InHand, Answered, Over, Late, Careful, Makes
    <3>2. InPlace(u)'
      BY <1>2, <2>2 DEF IInv, InPlace, Makes
    <3> QED
      BY <3>1, <3>2
  <2> QED
    BY <2>1, <2>2
<1>6. Unlearnt'
  BY <1>2 DEF IInv, Unlearnt, NoAuth, AuthLabels, Absent
<1>7. Kept'
  <2>1. CommitPossible' => CommitPossible
    BY <1>2 DEF CommitPossible, CommitLabels
  <2>2. (Over \/ ~Careful) => (Over \/ ~Careful)'
    BY <1>2 DEF Over, Late, Careful, Makes
  <2>3. state = "QUOTE_EXPIRED" => Over \/ ~Careful
    BY DEF IInv, AllBacked, Backed
  <2>4. CommitPossible => KeptIn(recorded)' /\ KeptIn(durable)'
    BY <1>2, <2>2, <2>3 DEF IInv, Kept, KeptIn
  <2> QED
    BY <1>2, <2>1, <2>4 DEF IInv, Kept
<1>8. Written'
  <2>1. Storing'
    BY <1>1, <1>2 DEF Storing, IInv, Phases
  <2> QED
    BY <1>1, <1>2, <2>1 DEF Written, Live
<1> QED
  BY <1>3, <1>4, <1>5, <1>6, <1>7, <1>8 DEF IInv

\* The sync emits what it changed, or hands it to the write of wrapper.init().
LEMMA SyncEndInv ==
  ASSUME IInv, SyncAlone, TypeOK', NEW t \in Callers, SyncEnd(t), UNCHANGED app
  PROVE  IInv'
<1>1. t \in Tasks /\ pc[t] = "sync:end" /\ noted' = [noted EXCEPT ![t] = Nothing]
  BY DEF Tasks, SyncEnd
<1>2. phase \in {"run", "syncing"} /\ (phase = "syncing" => t = Starter)
  BY <1>1, InSync DEF SyncLabels
<1>3. CASE noted[t].changed /\ phase = "run"
  <2>1. SaveAs(state) /\ pc' = [pc EXCEPT ![t] = "saving"]
    BY <1>3 DEF SyncEnd, Goto
  <2>2. Ends
    BY <1>1, <2>1, EmitEnds DEF IInv
  <2>3. Backed(state) /\ state \in ReceiveStates
    BY DEF IInv, AllBacked, TypeOK, ReceiveTypeOK
  <2> QED
    BY <1>3, <2>1, <2>2, <2>3, SaveInv DEF SyncEnd, worldVars, Announced
<1>4. CASE noted[t].changed /\ phase = "syncing"
  BY <1>4, InitSyncEndInv
<1>5. CASE ~noted[t].changed
  <2>1. Quiet(t, "idle")
    BY <1>1, <1>5 DEF SyncEnd, Quiet, IInv, TypeOK, ReceiveTypeOK
  <2>2. pc'[t] = "idle" /\ ~noted'[t].expired
    BY <1>1, <2>1 DEF Quiet, Goto, IInv, TypeOK, ReceiveTypeOK, Nothing
  <2>3. InHand(t)' /\ InPlace(t)'
    BY <2>2 DEF InHand, InPlace, ClaimLabels, AuthLabels, SyncLabels, PayLabels, CommitLabels
  <2> QED
    BY <1>1, <1>2, <1>5, <2>1, <2>3, QuietInv DEF Labels, CommitLabels, AuthLabels
<1> QED
  BY <1>2, <1>3, <1>4, <1>5

\* An answer of getCommitStatus, as the sync notes it.
LEMMA StatusAnswered ==
  ASSUME IInv, NEW answer \in StatusOf(escrow), NEW expired \in BOOLEAN, expired => "auth" \in passed
  PROVE  Answered(answer, expired)
<1>1. escrow \in {"none", "open", "paid", "refunded"} /\ Backed(state)
  BY DEF IInv, AllBacked, TypeOK, ReceiveTypeOK
<1> QED
  BY <1>1 DEF StatusOf, Answered, Backed, Over, Late

\* A sync that fails ends without a trace: only applications without a commit
\* make one while the process runs, and their records may lag.
LEMMA SyncFailInv ==
  ASSUME IInv, TypeOK', NEW t \in Tasks, SyncFail(t), pc[t] \in SyncLabels, Makes({"sync"}),
         UNCHANGED app
  PROVE  IInv'
<1>1. /\ UNCHANGED <<escrow, events, passed, sent, state, learnt, initiated, recorded,
                     durable, phase, restarts, lp, app>>
      /\ pc'[t] = "idle" /\ noted'[t] = Nothing /\ phase = "run"
      /\ \A u \in Tasks \ {t} : pc'[u] = pc[u] /\ noted'[u] = noted[u]
  BY DEF SyncFail, Goto, Still, Alive, recordVars, lifeVars, worldVars, IInv, TypeOK, ReceiveTypeOK
<1>2. AllBacked' /\ EventsTrue' /\ Chain' /\ Known'
  BY <1>1 DEF IInv, AllBacked, Backed, Late, Over, Careful, Makes, EventsTrue, Announced,
              EventTrue, Chain, Known
<1>3. Phases'
  BY <1>1 DEF IInv, Phases
<1>4. ASSUME NEW u \in Tasks PROVE InHand(u)' /\ InPlace(u)'
  <2>1. CASE u = t
    BY <1>1, <2>1
    DEF InHand, InPlace, ClaimLabels, AuthLabels, SyncLabels, PayLabels, CommitLabels, Nothing
  <2>2. CASE u # t
    <3>1. InHand(u)'
      BY <1>1, <2>2 DEF IInv, InHand, Answered, Over, Late, Careful, Makes
    <3>2. InPlace(u)'
      BY <1>1, <2>2 DEF IInv, InPlace, Makes
    <3> QED
      BY <3>1, <3>2
  <2> QED
    BY <2>1, <2>2
<1>5. Unlearnt'
  BY <1>1 DEF IInv, Unlearnt, NoAuth, AuthLabels
<1>6. Kept'
  <2>1. CommitPossible' => CommitPossible
    BY <1>1 DEF CommitPossible, CommitLabels
  <2> QED
    BY <1>1, <2>1 DEF IInv, Kept, KeptIn, Over, Late, Careful, Makes
<1>7. Written'
  BY <1>1 DEF IInv, Written, Makes
<1> QED
  BY <1>2, <1>3, <1>4, <1>5, <1>6, <1>7 DEF IInv

\* checkPastSwaps.
LEMMA SyncInv ==
  ASSUME IInv, SyncAlone, TypeOK', NEW t \in Callers, SyncNext(t), UNCHANGED app
  PROVE  IInv'
<1>1. t \in Tasks /\ pc \in [Tasks -> Labels] /\ noted \in [Tasks -> Notes]
  BY DEF Tasks, IInv, TypeOK, ReceiveTypeOK
<1>2. CASE SyncStart(t)
  <2>1. CASE phase = "init"
    BY <1>2, <2>1, InitSyncInv
  <2>2. CASE phase # "init"
    <3>1. PICK next \in {"sync:lp", "sync:expiry"} : Goto(t, next)
      BY <1>2 DEF SyncStart
    <3>2. phase = "run" /\ <<t, "sync">> \in app /\ pc[t] = "idle" /\ Quiet(t, next)
      BY <1>2, <2>2, <3>1
      DEF SyncStart, Called, Running, Quiet, Alive, lifeVars
    <3>3. pc'[t] = next /\ noted' = noted /\ UNCHANGED <<passed, phase, app>>
      BY <1>1, <1>2, <3>1, <3>2 DEF Goto, SyncStart, Quiet, Alive, lifeVars, worldVars
    <3>4. InHand(t)'
      BY <1>1, <3>3 DEF IInv, InHand, ClaimLabels, AuthLabels
    <3>5. InPlace(t)'
      BY <3>2, <3>3 DEF InPlace, SyncLabels, PayLabels, CommitLabels
    <3> QED
      BY <1>1, <3>2, <3>4, <3>5, QuietInv DEF Labels, CommitLabels, AuthLabels, SyncLabels
  <2> QED
    BY <2>1, <2>2
<1>3. CASE SyncAskLp(t)
  <2>1. PICK next \in {"sync:check", "sync:gone", "sync:expiry"} :
           /\ Goto(t, next)
           /\ \A u \in Tasks \ {t} : noted'[u] = noted[u]
           /\ noted'[t].expired = noted[t].expired /\ noted'[t].changed = noted[t].changed
           /\ \/ next = "sync:check" /\ lp = "held" /\ noted'[t].terms = "good"
              \/ next = "sync:gone" /\ lp = "gone"
              \/ next = "sync:expiry"
    BY <1>1, <1>3, AnswerInHand DEF SyncAskLp
  <2>2. pc[t] = "sync:lp" /\ Quiet(t, next) /\ pc'[t] = next /\ UNCHANGED <<passed, lp>>
    BY <1>1, <1>3, <2>1 DEF SyncAskLp, Quiet, Goto, worldVars
  <2>3. InHand(t)'
    BY <1>1, <2>1, <2>2 DEF IInv, InHand, ClaimLabels, AuthLabels
  <2>4. next \in AuthLabels => ~NoAuth
    BY <2>1 DEF AuthLabels, NoAuth
  <2> QED
    BY <1>1, <2>1, <2>2, <2>3, <2>4, SyncQuietInv DEF SyncLabels
<1>4. CASE SyncCheck(t)
  <2>1. PICK next \in {"sync:paid", "sync:expiry"} : Goto(t, next)
    BY <1>4 DEF SyncCheck
  <2>2. pc[t] = "sync:check" /\ Quiet(t, next) /\ pc'[t] = next /\ UNCHANGED <<passed, noted>>
    BY <1>1, <1>4, <2>1 DEF SyncCheck, Frame, Quiet, Goto, worldVars
  <2>3. InHand(t)' /\ ~NoAuth
    BY <1>1, <2>1, <2>2 DEF IInv, InHand, Unlearnt, ClaimLabels, AuthLabels
  <2> QED
    BY <1>1, <2>1, <2>2, <2>3, SyncQuietInv DEF SyncLabels
<1>5. CASE SyncLpApply(t)
  BY <1>5, SyncLpApplyInv
<1>6. CASE SyncExpiry(t)
  <2>1. PICK next \in {"sync:status", "sync:end"} : Goto(t, next)
    BY <1>6 DEF SyncExpiry
  <2>2. /\ \A u \in Tasks \ {t} : noted'[u] = noted[u]
        /\ noted'[t].changed = noted[t].changed /\ (noted'[t].expired => "auth" \in passed)
    BY <1>1, <1>6 DEF SyncExpiry, Notes
  <2>3. pc[t] = "sync:expiry" /\ Quiet(t, next) /\ pc'[t] = next /\ UNCHANGED passed
    BY <1>1, <1>6, <2>1, <2>2 DEF SyncExpiry, Quiet, Goto, worldVars
  <2>4. InHand(t)'
    BY <2>1, <2>2, <2>3 DEF InHand, ClaimLabels, AuthLabels
  <2> QED
    BY <1>1, <2>1, <2>2, <2>3, <2>4, SyncQuietInv DEF SyncLabels, AuthLabels
<1>7. CASE SyncStatus(t)
  <2>1. PICK answer \in StatusOf(escrow) : noted' = [noted EXCEPT ![t].status = answer]
    BY <1>7 DEF SyncStatus
  <2>2. /\ \A u \in Tasks \ {t} : noted'[u] = noted[u]
        /\ noted'[t].changed = noted[t].changed /\ noted'[t].expired = noted[t].expired
        /\ noted'[t].status = answer /\ noted[t].expired \in BOOLEAN
    BY <1>1, <2>1 DEF Notes
  <2>3. /\ pc[t] = "sync:status" /\ Quiet(t, "sync:apply") /\ pc'[t] = "sync:apply"
        /\ UNCHANGED <<passed, escrow, lp, state>>
    BY <1>1, <1>7, <2>2 DEF SyncStatus, Quiet, Goto, Still, recordVars, worldVars
  <2>4. noted[t].expired => "auth" \in passed
    BY <1>1 DEF IInv, InHand
  <2>5. Answered(noted[t].status, noted[t].expired)'
    BY <2>2, <2>3, <2>4, StatusAnswered DEF Answered, Over, Late
  <2>6. InHand(t)'
    BY <2>2, <2>3, <2>4, <2>5 DEF InHand, ClaimLabels, AuthLabels
  <2> QED
    BY <1>1, <2>2, <2>3, <2>6, SyncQuietInv DEF SyncLabels, AuthLabels
<1>8. CASE SyncApply(t)
  BY <1>8, SyncApplyInv
<1>9. CASE SyncEnd(t)
  BY <1>9, SyncEndInv
<1>10. CASE SyncFail(t)
  <2>1. pc[t] \in SyncLabels /\ phase = "run" /\ Makes({"sync"})
    BY <1>1, <1>10, SyncIsMade DEF SyncFail, SyncLabels
  <2> QED
    BY <1>1, <1>10, <2>1, SyncFailInv
<1> QED
  BY <1>2, <1>3, <1>4, <1>5, <1>6, <1>7, <1>8, <1>9, <1>10 DEF SyncNext
-----------------------------------------------------------------------------

\* When commit() finds the swap paid, every record holds the authorization: the
\* wait for the payment ended with its write, and no sync has learnt it since.
LEMMA CommitKept ==
  ASSUME IInv, SyncAlone, PayThenCommit, NEW t \in Callers, Commit(t)
  PROVE  /\ learnt = "good" /\ KeptIn(recorded) /\ KeptIn(durable)
         /\ Makes({"commit", "oneshot"})
<1>1. /\ phase = "run" /\ pc[t] = "idle" /\ state = "PR_PAID" /\ learnt # "none"
      /\ \E call \in {"commit", "oneshot"} : <<t, call>> \in app
  BY DEF Commit, Called, Running, AuthKnown
<1>2. PICK call \in {"commit", "oneshot"} : <<t, call>> \in app
  BY <1>1
<1>3. Makes({"commit", "oneshot"})
  <2>1. <<t, call>>[2] = call
    OBVIOUS
  <2> QED
    BY <1>2, <2>1 DEF Makes
<1>4. ~Makes({"sync"})
  BY <1>3, NoCommitBesideSync
<1>5. ~Learning
  BY <1>1, <1>4, SyncIsMade DEF Learning
<1>6. ~Storing
  <2>1. app \in Applications /\ app \subseteq Callers \X (ExecuteCalls \cup OneShotCalls
                                  \cup {"waitCommit", "waitClaim", "sync"})
    BY LnCallsAssumption DEF IInv, TypeOK, ReceiveTypeOK
  <2>2. ASSUME NEW u \in Tasks, pc[u] = "saving", <<u, "pay">> \in app PROVE FALSE
    <3>1. u \in Callers
      BY <2>1, <2>2
    <3>2. u = t
      BY <1>2, <2>1, <2>2, <3>1 DEF PayThenCommit
    <3> QED
      BY <1>1, <2>2, <3>2
  <2> QED
    BY <1>1, <2>2 DEF Storing
<1>7. recorded.learnt = learnt /\ durable.learnt = learnt
  BY <1>1, <1>4, <1>5, <1>6 DEF IInv, Written, Live
<1>8. learnt = "good"
  BY <1>1 DEF IInv, Known
<1> QED
  BY <1>3, <1>7, <1>8 DEF KeptIn

\* Broadcasting a transaction: the first commit by a call that kept the
\* authorization, the claim when the escrow is there.
LEMMA SendInv ==
  ASSUME IInv, TypeOK', NEW t \in Tasks, NEW next \in Labels, NEW kind \in {"commit", "claim"},
         Send(kind), Goto(t, next), Still, Alive, UNCHANGED <<noted, lp, app>>,
         pc[t] \in {"commit:send", "one:send", "one:commited", "claim:send"},
         next \in {"commit:confirm", "idle", "one:commited", "one:confirm", "claim:confirm"},
         next \in CommitLabels \/ kind = "commit" => pc[t] \in CommitLabels,
         kind = "claim" \/ next \in ClaimLabels => escrow # "none"
  PROVE  IInv'
<1>1. /\ UNCHANGED <<escrow, events, passed, state, learnt, initiated, recorded,
                     durable, phase, restarts, noted, lp, app>>
      /\ sent' = sent \cup {kind}
  BY DEF Send, Still, Alive, recordVars, lifeVars
<1>2. pc'[t] = next /\ \A u \in Tasks \ {t} : pc'[u] = pc[u]
  BY DEF Goto, IInv, TypeOK
<1>3. phase = "run" /\ (pc[t] \in CommitLabels => Makes({"commit", "oneshot"}) /\ CommitPossible)
  BY Where DEF SyncLabels, IInv, InPlace, CommitPossible
<1>4. AllBacked' /\ EventsTrue' /\ Known' /\ Phases'
  BY <1>1, <1>3 DEF IInv, AllBacked, Backed, Late, Over, Careful, Makes, EventsTrue, EventTrue,
              Announced, Known, Phases
<1>5. Chain'
  BY <1>1, <1>3 DEF IInv, Chain, Makes
<1>6. ASSUME NEW u \in Tasks PROVE InHand(u)' /\ InPlace(u)'
  <2>1. CASE u = t
    <3>1. noted'[u].expired => "auth" \in passed'
      BY <1>1 DEF IInv, InHand
    <3>2. InHand(u)'
      BY <1>1, <1>2, <2>1, <3>1 DEF InHand, AuthLabels, ClaimLabels
    <3>3. InPlace(u)'
      BY <1>1, <1>2, <1>3, <2>1 DEF InPlace, SyncLabels, PayLabels, Makes
    <3> QED
      BY <3>2, <3>3
  <2>2. CASE u # t
    <3>1. InHand(u)'
      BY <1>1, <1>2, <2>2 DEF IInv, InHand, Answered, Over, Late, Careful, Makes
    <3>2. InPlace(u)'
      BY <1>1, <1>2, <2>2 DEF IInv, InPlace, Makes
    <3> QED
      BY <3>1, <3>2
  <2> QED
    BY <2>1, <2>2
<1>7. Unlearnt'
  BY <1>1, <1>2 DEF IInv, Unlearnt, NoAuth, AuthLabels
<1>8. Kept'
  <2>1. CommitPossible' => CommitPossible
    BY <1>1, <1>2, <1>3 DEF CommitPossible
  <2> QED
    BY <1>1, <2>1 DEF IInv, Kept, KeptIn, Over, Late, Careful, Makes
<1>9. Written'
  <2>1. Learning => Learning'
    BY <1>1, <1>2 DEF Learning, SyncLabels
  <2>2. Storing => Storing'
    BY <1>1, <1>2 DEF Storing
  <2> QED
    BY <1>1, <2>1, <2>2 DEF IInv, Written, Makes
<1> QED
  BY <1>4, <1>5, <1>6, <1>7, <1>8, <1>9 DEF IInv

\* A step of a plain call, with what it may then rely on.
LEMMA PlainStep ==
  ASSUME IInv, TypeOK', NEW t \in Callers, NEW next \in Labels, Goto(t, next), Still, Frame,
         UNCHANGED app, phase = "run", pc[t] \notin SyncLabels \cup {"saving"},
         next \in {"idle", "wc:poll", "wc:expiry", "wc:yes", "wc:no",
                   "claim:send", "claim:confirm", "wcl:poll", "wcl:paid", "wcl:over", "wcl:failed"},
         next = "wc:yes" => escrow # "none",
         next \in {"wc:poll", "wc:expiry", "wc:no"} => ~Careful,
         next \in ClaimLabels => escrow # "none",
         next = "wcl:paid" => escrow = "paid",
         next \in {"wcl:over", "wcl:failed"} => Over
  PROVE  IInv'
<1>1. t \in Tasks /\ Quiet(t, next)
  BY DEF Tasks, Quiet, Frame
<1>2. /\ pc'[t] = next /\ UNCHANGED <<noted, escrow, passed, lp, app>>
      /\ noted[t].expired => "auth" \in passed
  BY <1>1 DEF Goto, Frame, worldVars, IInv, TypeOK, InHand
<1>3. InHand(t)'
  BY <1>2 DEF InHand, AuthLabels, Over, Late, Careful, Makes
<1> QED
  BY <1>1, <1>2, <1>3, PlainInv
  DEF Frame, SyncLabels, PayLabels, CommitLabels, AuthLabels

\* commit, commitAndClaim and waitTillCommited.
LEMMA CommitInv ==
  ASSUME IInv, SyncAlone, PayThenCommit, TypeOK', NEW t \in Callers, CommitNext(t), UNCHANGED app
  PROVE  IInv'
<1>1. t \in Tasks /\ pc \in [Tasks -> Labels]
  BY DEF Tasks, IInv, TypeOK
<1>2. {"idle", "commit:send", "one:send", "commit:confirm", "one:commited", "one:confirm",
       "wc:poll", "wc:expiry", "wc:yes", "wc:no"} \subseteq Labels
  BY DEF Labels
<1>3. {"CLAIM_COMMITED", "CLAIM_CLAIMED", "QUOTE_EXPIRED"} \subseteq ReceiveStates
  BY DEF ReceiveStates
<1>4. {"PR_PAID", "QUOTE_SOFT_EXPIRED"} \subseteq Live
  BY DEF Live
<1>5. CASE Commit(t)
  <2>1. PICK next \in {"commit:send", "one:send"} : Goto(t, next)
    BY <1>5 DEF Commit
  <2>2. phase = "run" /\ pc[t] = "idle" /\ Quiet(t, next)
    BY <1>5, <2>1 DEF Commit, Called, Running, Quiet, Frame
  <2>3. pc'[t] = next /\ UNCHANGED <<noted, passed, app>>
    BY <1>1, <1>5, <2>1 DEF Goto, Commit, Frame, worldVars
  <2>4. InHand(t)'
    BY <1>1, <2>3 DEF IInv, InHand, ClaimLabels, AuthLabels
  <2>5. InPlace(t)'
    BY <1>5, <2>3, CommitKept DEF InPlace, SyncLabels, PayLabels, Makes
  <2> QED
    BY <1>1, <1>2, <1>5, <2>2, <2>4, <2>5, CommitKept, QuietInv DEF AuthLabels, SyncLabels
<1>6. CASE CommitSend(t)
  <2>1. pc[t] \in {"commit:send", "one:send"}
    BY <1>6 DEF CommitSend
  <2>2. PICK next \in {"commit:confirm", "idle", "one:commited"} : Goto(t, next)
    BY <1>6 DEF CommitSend
  <2> QED
    BY <1>1, <1>2, <1>6, <2>1, <2>2, SendInv DEF CommitSend, CommitLabels, ClaimLabels
<1>7. CASE CommitConfirmed(t)
  <2>1. phase = "run" /\ Backed("CLAIM_COMMITED") /\ pc[t] = "commit:confirm"
    BY <1>1, <1>7, Where DEF CommitConfirmed, SyncLabels, Backed
  <2> QED
    BY <1>1, <1>3, <1>4, <1>7, <2>1, EmitIfInv DEF CommitConfirmed, Frame, SyncLabels
<1>8. CASE SendFail(t)
  <2>1. phase = "run" /\ pc[t] \notin SyncLabels \cup {"saving"}
    BY <1>1, <1>8, Where DEF SendFail, SyncLabels
  <2> QED
    BY <1>2, <1>8, <2>1, PlainStep DEF SendFail, ClaimLabels
<1>9. CASE OneShotClaim(t)
  BY <1>1, <1>2, <1>9, SendInv DEF OneShotClaim, CommitLabels, ClaimLabels
<1>10. CASE OneShotConfirmed(t)
  <2>1. phase = "run" /\ Backed("CLAIM_CLAIMED") /\ pc[t] = "one:confirm"
    BY <1>1, <1>10, Where DEF OneShotConfirmed, SyncLabels, Backed
  <2> QED
    BY <1>1, <1>3, <1>10, <2>1, EmitIfInv DEF OneShotConfirmed, Frame, SyncLabels, Live
<1>11. CASE WaitCommit(t)
  <2>1. <<t, "waitCommit">> \in app /\ <<t, "waitCommit">>[2] = "waitCommit"
    BY <1>11 DEF WaitCommit, Called
  <2>2. ~Careful
    BY <2>1 DEF Careful, Makes
  <2> QED
    BY <1>2, <1>11, <2>2, PlainStep DEF WaitCommit, Called, Running, SyncLabels, ClaimLabels
<1>12. CASE WatchCommit(t)
  <2>1. phase = "run" /\ ~Careful /\ pc[t] \in {"wc:poll", "wc:expiry"}
    BY <1>1, <1>12, Where DEF WatchCommit, SyncLabels, IInv, InHand
  <2>2. PICK next \in {"wc:poll", "wc:expiry", "wc:yes", "wc:no"} :
          Goto(t, next) /\ (next = "wc:yes" => escrow # "none")
    BY <1>12 DEF WatchCommit, StatusOf, IInv, TypeOK, ReceiveTypeOK
  <2> QED
    BY <1>2, <1>12, <2>1, <2>2, PlainStep DEF WatchCommit, SyncLabels, ClaimLabels
<1>13. CASE WaitCommitDone(t)
  <2>1. phase = "run" /\ pc[t] \in {"wc:no", "wc:yes"} /\ noted' = noted
    BY <1>1, <1>13, Where DEF WaitCommitDone, SyncLabels, Frame
  <2>2. CASE pc[t] = "wc:no"
    <3>1. Backed("QUOTE_EXPIRED") /\ EmitIf(t, {"PR_PAID", "QUOTE_SOFT_EXPIRED"}, "QUOTE_EXPIRED")
      BY <1>1, <1>13, <2>2 DEF WaitCommitDone, IInv, InHand, Backed
    <3> QED
      BY <1>1, <1>3, <1>13, <2>1, <2>2, <3>1, EmitIfInv DEF WaitCommitDone, Frame, SyncLabels, Live
  <2>3. CASE pc[t] = "wc:yes"
    <3>1. Backed("CLAIM_COMMITED") /\ EmitIf(t, {"PR_PAID", "QUOTE_SOFT_EXPIRED"}, "CLAIM_COMMITED")
      BY <1>1, <1>13, <2>3 DEF WaitCommitDone, IInv, InHand, Backed
    <3> QED
      BY <1>1, <1>3, <1>4, <1>13, <2>1, <2>3, <3>1, EmitIfInv DEF WaitCommitDone, Frame, SyncLabels
  <2> QED
    BY <2>1, <2>2, <2>3
<1> QED
  BY <1>5, <1>6, <1>7, <1>8, <1>9, <1>10, <1>11, <1>12, <1>13 DEF CommitNext

\* claim and waitTillClaimed.
LEMMA ClaimInv ==
  ASSUME IInv, SyncAlone, TypeOK', NEW t \in Callers, ClaimNext(t), UNCHANGED app
  PROVE  IInv'
<1>1. t \in Tasks /\ pc \in [Tasks -> Labels]
  BY DEF Tasks, IInv, TypeOK
<1>2. {"idle", "claim:send", "claim:confirm", "wcl:poll", "wcl:paid", "wcl:over", "wcl:failed"} \subseteq Labels
  BY DEF Labels
<1>3. {"CLAIM_CLAIMED", "FAILED"} \subseteq ReceiveStates /\ {"CLAIM_CLAIMED", "FAILED"} \cap Live = {}
  BY DEF ReceiveStates, Live
<1>4. pc[t] \in ClaimLabels => phase = "run" /\ escrow # "none" /\ pc[t] \notin SyncLabels \cup {"saving"}
  BY <1>1, Where DEF IInv, InHand, ClaimLabels, SyncLabels
<1>5. CASE Claim(t)
  <2>1. phase = "run" /\ escrow # "none" /\ pc[t] = "idle"
    BY <1>5 DEF Claim, Called, Running, IInv, AllBacked, Backed
  <2> QED
    BY <1>2, <1>5, <2>1, PlainStep DEF Claim, SyncLabels
<1>6. CASE ClaimSend(t)
  <2>1. escrow # "none"
    BY <1>4, <1>6 DEF ClaimSend, ClaimLabels
  <2> QED
    BY <1>1, <1>2, <1>6, <2>1, SendInv DEF ClaimSend, CommitLabels
<1>7. CASE ClaimConfirmed(t)
  BY <1>1, <1>3, <1>4, <1>7, EmitIfInv DEF ClaimConfirmed, Frame, ClaimLabels, Backed
<1>8. CASE WaitClaim(t)
  <2>1. phase = "run" /\ escrow # "none" /\ pc[t] = "idle"
    BY <1>8 DEF WaitClaim, Called, Running, IInv, AllBacked, Backed
  <2> QED
    BY <1>2, <1>8, <2>1, PlainStep DEF WaitClaim, SyncLabels
<1>9. CASE WatchClaim(t)
  <2>1. phase = "run" /\ escrow # "none" /\ pc[t] \notin SyncLabels \cup {"saving"}
    BY <1>4, <1>9 DEF WatchClaim, ClaimLabels
  <2>2. CASE Goto(t, "idle")
    BY <1>2, <1>9, <2>1, <2>2, PlainStep DEF WatchClaim, ClaimLabels
  <2>3. CASE "PAID" \in StatusOf(escrow) /\ Goto(t, "wcl:paid")
    <3>1. escrow = "paid"
      BY <2>3 DEF StatusOf, IInv, TypeOK, ReceiveTypeOK
    <3> QED
      BY <1>2, <1>9, <2>1, <2>3, <3>1, PlainStep DEF WatchClaim
  <2>4. CASE {"NOT_COMMITED", "EXPIRED"} \cap StatusOf(escrow) # {} /\ Goto(t, "wcl:over")
    <3>1. Over
      BY <2>1, <2>4 DEF StatusOf, Over, Late, IInv, TypeOK, ReceiveTypeOK
    <3> QED
      BY <1>2, <1>9, <2>1, <2>4, <3>1, PlainStep DEF WatchClaim
  <2> QED
    BY <1>9, <2>2, <2>3, <2>4 DEF WatchClaim
<1>10. CASE WaitClaimOver(t)
  <2>1. /\ pc[t] = "wcl:paid" \/ Over
        /\ phase = "run" /\ escrow # "none" /\ pc[t] \notin SyncLabels \cup {"saving"}
    BY <1>1, <1>4, <1>10 DEF WaitClaimOver, IInv, InHand, ClaimLabels
  <2>2. CASE pc[t] = "wcl:over"
    <3>1. PICK next \in {"idle", "wcl:failed"} : Goto(t, next) /\ Still
      BY <1>10, <2>2 DEF WaitClaimOver
    <3>2. Over
      BY <2>1, <2>2
    <3> QED
      BY <1>2, <1>10, <2>1, <3>1, <3>2, PlainStep DEF WaitClaimOver
  <2>3. CASE pc[t] = "wcl:failed"
    BY <1>1, <1>3, <1>10, <2>1, <2>3, EmitIfInv DEF WaitClaimOver, Frame, Backed
  <2>4. CASE pc[t] = "wcl:paid"
    <3>1. Backed("CLAIM_CLAIMED")
      BY <1>1, <2>4 DEF IInv, InHand, Backed
    <3> QED
      BY <1>1, <1>3, <1>10, <2>1, <2>4, <3>1, EmitIfInv DEF WaitClaimOver, Frame
  <2> QED
    BY <1>10, <2>2, <2>3, <2>4 DEF WaitClaimOver
<1> QED
  BY <1>5, <1>6, <1>7, <1>8, <1>9, <1>10 DEF ClaimNext
-----------------------------------------------------------------------------

\* What a step of the LP, the chain or the clock never undoes.
Grows ==
  /\ Late => Late'
  /\ Over => Over'
  /\ "auth" \in passed => "auth" \in passed'
  /\ escrow # "none" => escrow' # "none"
  /\ escrow \in {"paid", "refunded"} => escrow' = escrow
  /\ lp = "gone" => lp' = "gone"
  /\ NoAuth' => NoAuth

\* The authorization of an LP that let the payment go is of no use any more, and
\* an LP that never held one signed none.
LEMMA EnvironmentGrows ==
  ASSUME IInv, Environment
  PROVE  Grows
<1>1. escrow \in {"none", "open", "paid", "refunded"} /\ lp \in {"invoice", "held", "gone"}
  BY DEF IInv, TypeOK, ReceiveTypeOK
<1>2. CASE (LpReceive \/ LpLetGo) /\ UNCHANGED worldVars
  <2>1. UNCHANGED <<escrow, passed>> /\ lp # "gone"
    BY <1>1, <1>2 DEF LpReceive, LpLetGo, worldVars
  <2>2. NoAuth' => NoAuth
    BY <1>2, <2>1 DEF LpReceive, LpLetGo, NoAuth
  <2>3. Over => Over'
    BY <2>1 DEF Over, Late
  <2> QED
    BY <2>1, <2>2, <2>3 DEF Grows, Late
<1>3. CASE ChainCommit /\ UNCHANGED lp
  <2>1. "commit" \in sent /\ "auth" \notin passed /\ escrow = "none" /\ escrow' = "open" /\ UNCHANGED passed
    BY <1>3 DEF ChainCommit, EscrowStep
  <2>2. lp # "gone" /\ lp # "invoice"
    BY <2>1 DEF IInv, Kept, CommitPossible, Unlearnt, NoAuth
  <2> QED
    BY <1>3, <2>1, <2>2 DEF Grows, Late, Over, NoAuth
<1>4. CASE (ChainClaim \/ ChainRefund) /\ UNCHANGED lp
  BY <1>1, <1>4 DEF ChainClaim, ChainRefund, EscrowStep, Grows, Late, Over, NoAuth, IInv, Chain
<1>5. CASE Clock /\ UNCHANGED lp
  BY <1>1, <1>5 DEF Clock, Expire, Grows, Late, Over, NoAuth
<1> QED
  BY <1>2, <1>3, <1>4, <1>5 DEF Environment

\* The LP, the chain and the clock.
LEMMA EnvironmentInv ==
  ASSUME IInv, TypeOK', Environment, UNCHANGED app
  PROVE  IInv'
<1>1. Grows
  BY EnvironmentGrows
<1>2. UNCHANGED <<state, learnt, initiated, recorded, durable, phase, restarts, pc, noted, app>>
  BY DEF Environment, recordVars, lifeVars
<1>3. AllBacked'
  BY <1>1, <1>2 DEF Grows, IInv, AllBacked, Backed, Late, Careful, Makes
<1>4. EventsTrue'
  <2>1. CASE (LpReceive \/ LpLetGo) /\ UNCHANGED worldVars
    BY <2>1 DEF worldVars, IInv, EventsTrue, EventTrue, Announced
  <2>2. CASE Clock /\ UNCHANGED lp
    BY <2>2 DEF Clock, Expire, IInv, EventsTrue, EventTrue, Announced
  <2>3. CASE ChainCommit
    BY <1>1, <2>3, StepAnnounced DEF ChainCommit, EscrowStep, IInv, TypeOK, EventsTrue, EventTrue, Grows
  <2>4. CASE ChainClaim
    BY <1>1, <2>4, StepAnnounced DEF ChainClaim, EscrowStep, IInv, TypeOK, EventsTrue, EventTrue, Grows
  <2>5. CASE ChainRefund
    BY <1>1, <2>5, StepAnnounced DEF ChainRefund, EscrowStep, IInv, TypeOK, EventsTrue, EventTrue, Grows
  <2> QED
    BY <2>1, <2>2, <2>3, <2>4, <2>5 DEF Environment
<1>5. Chain'
  <2>1. sent' = sent
    BY DEF Environment, ChainCommit, ChainClaim, ChainRefund, EscrowStep, Clock, Expire, worldVars
  <2>2. escrow' # "none" => "commit" \in sent
    BY DEF IInv, Chain, Environment, ChainCommit, ChainClaim, ChainRefund, EscrowStep, Clock, Expire,
           worldVars
  <2>3. ChainCommit => lp = "held"
    BY DEF ChainCommit, EscrowStep, IInv, Kept, CommitPossible, Unlearnt, NoAuth, TypeOK
  <2>4. /\ lp' = "invoice" => escrow' = "none"
        /\ lp' = "gone" => escrow' \in {"none", "refunded"}
    <3>1. CASE (LpReceive \/ LpLetGo) /\ UNCHANGED worldVars
      BY <3>1 DEF LpReceive, LpLetGo, worldVars, IInv, Chain
    <3>2. CASE ChainCommit /\ UNCHANGED lp
      BY <2>3, <3>2
    <3>3. CASE (ChainClaim \/ ChainRefund \/ Clock) /\ UNCHANGED lp
      BY <3>3 DEF ChainClaim, ChainRefund, EscrowStep, Clock, Expire, IInv, Chain
    <3> QED
      BY <3>1, <3>2, <3>3 DEF Environment
  <2> QED
    BY <1>1, <1>2, <2>1, <2>2, <2>3, <2>4 DEF IInv, Chain, Makes, Grows
<1>6. ASSUME NEW u \in Tasks PROVE InHand(u)' /\ InPlace(u)'
  <2>1. InHand(u)'
    BY <1>1, <1>2 DEF IInv, InHand, Answered, Grows, Careful, Makes
  <2>2. InPlace(u)'
    BY <1>2 DEF IInv, InPlace, Makes
  <2> QED
    BY <2>1, <2>2
<1>7. Unlearnt' /\ Known' /\ Phases'
  BY <1>1, <1>2 DEF IInv, Unlearnt, Known, Phases, Grows
<1>8. Kept'
  <2>1. CommitPossible' => CommitPossible
    BY <1>2 DEF CommitPossible, Environment, ChainCommit, ChainClaim, ChainRefund, EscrowStep, Clock,
                Expire, worldVars
  <2> QED
    BY <1>1, <1>2, <2>1 DEF IInv, Kept, KeptIn, Grows, Careful, Makes
<1>9. Written'
  BY <1>2 DEF IInv, Written, Learning, Storing, Makes
<1> QED
  BY <1>3, <1>4, <1>5, <1>6, <1>7, <1>8, <1>9 DEF IInv

\* The listener hands over an event, which is true.
LEMMA ListenerInv ==
  ASSUME IInv, SyncAlone, TypeOK', ListenerNext, UNCHANGED app
  PROVE  IInv'
<1>1. PICK e \in {"init", "claim", "refund"} :
        /\ NextEvent(e)
        /\ IF recorded.learnt = "none" THEN Still /\ UNCHANGED pc
           ELSE SaveAs(OnEvent(e)) /\ pc' = Waked(OnEvent(e))
  BY DEF ListenerNext
<1>2. EventTrue(e) /\ Announced' \subseteq Announced
  BY <1>1, NextAnnounced DEF IInv, TypeOK, EventsTrue
<1>3. phase = "run" /\ UNCHANGED <<escrow, passed, sent, lp, app, noted>> /\ Alive
  BY <1>1 DEF NextEvent, ListenerNext
<1>4. CASE recorded.learnt = "none"
  <2>1. UNCHANGED <<state, learnt, initiated, recorded, durable, phase, restarts, pc, noted>>
    BY <1>1, <1>3, <1>4 DEF Still, recordVars, Alive, lifeVars
  <2>2. EventsTrue'
    BY <1>2, <1>3 DEF IInv, EventsTrue, EventTrue
  <2>3. AllBacked' /\ Chain' /\ Unlearnt' /\ Known' /\ Phases'
    BY <1>3, <2>1 DEF IInv, AllBacked, Backed, Over, Late, Careful, Makes, Chain, Unlearnt, NoAuth,
                      Known, Phases
  <2>4. ASSUME NEW u \in Tasks PROVE InHand(u)' /\ InPlace(u)'
    BY <1>3, <2>1 DEF IInv, InHand, Answered, Over, Late, Careful, Makes, InPlace
  <2>5. Kept' /\ Written'
    BY <1>3, <2>1 DEF IInv, Kept, KeptIn, CommitPossible, Over, Late, Careful, Makes, Written,
                      Learning, Storing
  <2> QED
    BY <2>2, <2>3, <2>4, <2>5 DEF IInv
<1>5. CASE recorded.learnt # "none"
  <2>1. SaveAs(OnEvent(e)) /\ pc' = Waked(OnEvent(e))
    BY <1>1, <1>5
  <2>2. OnEvent(e) \in ReceiveStates /\ Backed(OnEvent(e)) /\ (OnEvent(e) \in Live => state \in Live)
    BY <1>2 DEF OnEvent, ReceiveStates, Live, EventTrue, Backed, Over, IInv, AllBacked,
                TypeOK, ReceiveTypeOK
  <2>3. Ends
    BY <1>3, <2>1 DEF Ends, Waked
  <2> QED
    BY <1>2, <1>3, <2>1, <2>2, <2>3, SaveInv
<1> QED
  BY <1>4, <1>5

\* Writes complete, the process crashes, and the record is revived.
LEMMA StorageInv ==
  ASSUME IInv, TypeOK', StorageNext, UNCHANGED app
  PROVE  IInv'
<1>1. CASE Flush
  <2>1. /\ durable' = recorded
        /\ UNCHANGED <<escrow, events, passed, sent, state, learnt, initiated, recorded, phase,
                       restarts, noted, lp, app>>
    BY <1>1 DEF Flush, StorageNext, Still, recordVars, worldVars
  <2>2. \A u \in Tasks : \/ pc'[u] = pc[u]
                         \/ pc[u] = "saving" /\ pc'[u] = "idle"
                         \/ pc[u] = "commit:saving" /\ pc'[u] = "commit:send"
    BY <1>1 DEF Flush, Resumed
  <2>3. AllBacked' /\ EventsTrue' /\ Chain' /\ Known'
    BY <2>1 DEF IInv, AllBacked, Backed, Over, Late, Careful, Makes, EventsTrue, EventTrue, Announced,
                Chain, Known
  <2>4. Phases'
    BY <2>1, <2>2 DEF IInv, Phases, SyncLabels
  <2>5. ASSUME NEW u \in Tasks PROVE InHand(u)' /\ InPlace(u)'
    <3>1. InHand(u)'
      BY <2>1, <2>2 DEF IInv, InHand, Answered, Over, Late, Careful, Makes, ClaimLabels, AuthLabels
    <3>2. InPlace(u)'
      BY <2>1, <2>2 DEF IInv, InPlace, Makes, SyncLabels, PayLabels, CommitLabels
    <3> QED
      BY <3>1, <3>2
  <2>6. Unlearnt'
    BY <2>1, <2>2 DEF IInv, Unlearnt, NoAuth, AuthLabels
  <2>7. Kept'
    <3>1. CommitPossible' => CommitPossible
      BY <2>1, <2>2 DEF CommitPossible, CommitLabels
    <3> QED
      BY <2>1, <3>1 DEF IInv, Kept, KeptIn, Over, Late, Careful, Makes
  <2>8. Written'
    <3>1. Learning => Learning'
      BY <2>1, <2>2 DEF Learning, SyncLabels
    <3> QED
      BY <2>1, <3>1 DEF IInv, Written, Makes
  <2> QED
    BY <2>3, <2>4, <2>5, <2>6, <2>7, <2>8 DEF IInv
<1>2. CASE Crash
  <2>1. /\ recorded' = durable /\ phase' = "down"
        /\ \A u \in Tasks : pc'[u] = "idle" /\ noted'[u] = Nothing
        /\ UNCHANGED <<escrow, events, passed, sent, state, learnt, initiated, durable, lp, app>>
    BY <1>2 DEF Crash, StorageNext, worldVars
  <2>2. AllBacked' /\ EventsTrue' /\ Chain' /\ Known' /\ Phases'
    BY <2>1 DEF IInv, AllBacked, Backed, Over, Late, Careful, Makes, EventsTrue, EventTrue, Announced,
                Chain, Known, Phases
  <2>3. ASSUME NEW u \in Tasks PROVE InHand(u)' /\ InPlace(u)'
    BY <2>1
    DEF InHand, InPlace, ClaimLabels, AuthLabels, SyncLabels, PayLabels, CommitLabels, Nothing
  <2>4. Unlearnt'
    BY <2>1 DEF IInv, Unlearnt, NoAuth, AuthLabels
  <2>5. Kept'
    <3>1. CommitPossible' => CommitPossible
      BY <2>1 DEF CommitPossible, CommitLabels
    <3> QED
      BY <2>1, <3>1 DEF IInv, Kept, KeptIn, Over, Late, Careful, Makes
  <2>6. Written'
    BY <2>1 DEF Written
  <2> QED
    BY <2>2, <2>3, <2>4, <2>5, <2>6 DEF IInv
<1>3. CASE Restart(PendingStates)
  <2>1. /\ phase = "down" /\ durable # Absent /\ state' = durable.state /\ learnt' = durable.learnt
        /\ initiated' = TRUE /\ phase' \in {"init", "run"}
        /\ UNCHANGED <<escrow, passed, sent, recorded, durable, restarts, pc, noted, lp, app>>
    BY <1>3 DEF Restart, StorageNext
  <2>2. recorded = durable /\ \A u \in Tasks : pc[u] = "idle"
    BY <2>1 DEF IInv, Phases
  <2>3. EventsTrue'
    BY <1>3, <2>1, RestartAnnounced DEF IInv, TypeOK, EventsTrue, EventTrue
  <2>4. AllBacked' /\ Chain' /\ Known' /\ Phases'
    BY <2>1, <2>2 DEF IInv, AllBacked, Backed, Over, Late, Careful, Makes, Chain, Known, Phases
  <2>5. ASSUME NEW u \in Tasks PROVE InHand(u)' /\ InPlace(u)'
    <3>1. pc'[u] = "idle" /\ (noted'[u].expired => "auth" \in passed')
      BY <2>1, <2>2 DEF IInv, InHand
    <3> QED
      BY <3>1 DEF InHand, InPlace, ClaimLabels, AuthLabels, SyncLabels, PayLabels, CommitLabels
  <2>6. Unlearnt'
    BY <2>1, <2>2 DEF IInv, Unlearnt, NoAuth, AuthLabels
  <2>7. Kept'
    <3>1. CommitPossible' => CommitPossible
      BY <2>1 DEF CommitPossible
    <3> QED
      BY <2>1, <3>1 DEF IInv, Kept, KeptIn, Over, Late, Careful, Makes
  <2>8. Written'
    BY <2>1, <2>2 DEF Written
  <2> QED
    BY <2>3, <2>4, <2>5, <2>6, <2>7, <2>8 DEF IInv
<1>4. CASE InitDone
  <2>1. /\ phase = "syncing" /\ phase' = "run" /\ \A u \in Tasks : pc[u] = "idle"
        /\ UNCHANGED <<escrow, events, passed, sent, state, learnt, initiated, recorded, durable,
                       restarts, pc, noted, lp, app>>
    BY <1>4 DEF InitDone, StorageNext, Still, recordVars, worldVars
  <2>2. AllBacked' /\ EventsTrue' /\ Chain' /\ Known' /\ Phases' /\ Unlearnt'
    BY <2>1 DEF IInv, AllBacked, Backed, Over, Late, Careful, Makes, EventsTrue, EventTrue, Announced,
                Chain, Known, Phases, Unlearnt, NoAuth
  <2>3. ASSUME NEW u \in Tasks PROVE InHand(u)' /\ InPlace(u)'
    <3>1. pc'[u] = "idle" /\ (noted'[u].expired => "auth" \in passed')
      BY <2>1 DEF IInv, InHand
    <3> QED
      BY <3>1 DEF InHand, InPlace, ClaimLabels, AuthLabels, SyncLabels, PayLabels, CommitLabels
  <2>4. Kept'
    BY <2>1 DEF IInv, Kept, CommitPossible, KeptIn, Over, Late, Careful, Makes
  <2>5. Written'
    BY <2>1 DEF IInv, Written, Learning, Storing, Makes, SyncLabels
  <2> QED
    BY <2>2, <2>3, <2>4, <2>5 DEF IInv
<1> QED
  BY <1>1, <1>2, <1>3, <1>4 DEF StorageNext

-----------------------------------------------------------------------------
(* The theorems *)

\* A quote just created.
LEMMA InitInv ==
  ASSUME Init
  PROVE  IInv
<1>1. TypeOK
  <2>1. <<>> \in Seq({"init", "claim", "refund"})
    OBVIOUS
  <2>2. "PR_CREATED" \in ReceiveStates /\ Absent \in Records /\ Nothing \in Notes /\ "idle" \in Labels
    BY DEF ReceiveStates, Records, Notes, Nothing, Labels
  <2>3. 0 \in 0..MaxRestarts
    BY ReceiveRestartsAssumption
  <2> QED
    BY <2>1, <2>2, <2>3 DEF Init, ReceiveInit, TypeOK, ReceiveTypeOK
<1>2. Announced = {}
  BY DEF Init, ReceiveInit, Announced
<1>3. ~CommitPossible
  BY DEF Init, ReceiveInit, CommitPossible, CommitLabels
<1>4. \A t \in Tasks : InHand(t) /\ InPlace(t)
  BY DEF Init, ReceiveInit, InHand, InPlace, ClaimLabels, AuthLabels, SyncLabels, PayLabels,
         CommitLabels, Nothing
<1>5. AllBacked /\ Phases /\ Chain /\ Unlearnt /\ Known /\ Written
  BY DEF Init, ReceiveInit, AllBacked, Backed, Absent, Phases, Chain, Unlearnt, AuthLabels, Known, Written
<1> QED
  BY <1>1, <1>2, <1>3, <1>4, <1>5 DEF IInv, EventsTrue, Kept

\* Every step of the swap keeps the invariant.
LEMMA NextInv ==
  ASSUME IInv, SyncAlone, PayThenCommit, [Next]_vars
  PROVE  IInv'
<1>1. TypeOK'
  BY NextType DEF IInv
<1>2. CASE UNCHANGED vars
  <2>1. UNCHANGED <<escrow, events, passed, sent, state, learnt, initiated, recorded, durable, phase,
                    restarts, pc, noted, lp, app>>
    BY <1>2 DEF vars, receiveVars, worldVars, recordVars, lifeVars
  <2>2. AllBacked' /\ EventsTrue' /\ Chain' /\ Known' /\ Phases' /\ Unlearnt'
    BY <2>1 DEF IInv, AllBacked, Backed, Over, Late, Careful, Makes, EventsTrue, EventTrue, Announced,
                Chain, Known, Phases, Unlearnt, NoAuth
  <2>3. ASSUME NEW u \in Tasks PROVE InHand(u)' /\ InPlace(u)'
    BY <2>1 DEF IInv, InHand, Answered, Over, Late, Careful, Makes, InPlace
  <2>4. Kept' /\ Written'
    BY <2>1 DEF IInv, Kept, KeptIn, CommitPossible, Over, Late, Careful, Makes, Written,
                Learning, Storing
  <2> QED
    BY <1>1, <2>2, <2>3, <2>4 DEF IInv
<1>3. CASE Next
  BY <1>1, <1>3, EnvironmentInv, TickInv, PayInv, SyncInv, CommitInv, ClaimInv, ListenerInv, StorageInv
  DEF Next
<1> QED
  BY <1>2, <1>3

\* The inductive invariant holds of every application whose syncs run apart from
\* its commits and that commits in the sequence of calls that waited.
THEOREM InductiveInvariant ==
  ASSUME SyncAlone, PayThenCommit
  PROVE  Spec => []IInv
<1>1. Init => IInv
  BY InitInv
<1>2. IInv /\ [Next]_vars => IInv'
  BY NextInv
<1> QED
  BY <1>1, <1>2, PTL DEF Spec

\* SecretOnlyForEscrow: claim() and commitAndClaim() send the secret only for an
\* escrow that is there, with the terms quoted, after any crashes in between.
THEOREM SecretCorrect ==
  ASSUME SyncAlone, PayThenCommit
  PROVE  Spec => []SecretOnlyForEscrow
<1>1. IInv => SecretOnlyForEscrow
  BY DEF IInv, Chain, Kept, CommitPossible, SecretOnlyForEscrow
<1> QED
  BY <1>1, InductiveInvariant, PTL

\* GivenUpIsUncommitted: no answer, tick, event or restart makes a swap
\* QUOTE_EXPIRED over an escrow that can still be claimed.
THEOREM GivenUpCorrect ==
  ASSUME SyncAlone, PayThenCommit
  PROVE  Spec => []GivenUpIsUncommitted
<1>1. IInv => GivenUpIsUncommitted
  BY DEF IInv, AllBacked, Backed, Over, Late, Careful, GivenUpIsUncommitted
<1> QED
  BY <1>1, InductiveInvariant, PTL

\* EscrowIsTracked: a crash at any moment while an escrow waits for its claim
\* leaves a record, in a state the next init() picks up, with the data to claim.
THEOREM TrackedCorrect ==
  ASSUME SyncAlone, PayThenCommit
  PROVE  Spec => []EscrowIsTracked
<1>1. IInv => EscrowIsTracked
  <2> SUFFICES ASSUME IInv, ~Makes({"waitCommit"}), escrow = "open", "escrow" \notin passed
               PROVE  durable.state \in PendingStates /\ durable.learnt = "good"
    BY DEF EscrowIsTracked
  <2>1. ~Over /\ Careful
    BY DEF Over, Late, Careful
  <2>2. durable.learnt = "good"
    BY <2>1 DEF IInv, Chain, Kept, CommitPossible, KeptIn
  <2>3. durable \in Records /\ Backed(durable.state)
    BY DEF IInv, AllBacked, TypeOK, ReceiveTypeOK
  <2>4. durable.state \in ReceiveStates
    BY <2>2, <2>3 DEF Records, Absent
  <2> QED
    BY <2>1, <2>2, <2>3, <2>4 DEF Backed, ReceiveStates, PendingStates
<1> QED
  BY <1>1, InductiveInvariant, PTL
-----------------------------------------------------------------------------
(* The refinement of HtlcPromise *)

\* What each state tells is so, if the escrow backs the state.
LEMMA WhatIsTold ==
  ASSUME NEW s \in ReceiveStates, Backed(s)
  PROVE  /\ Promise!SoIs(Told(s)) /\ Told(s) \in {"quote", "held", "claimed", "over"}
         /\ Told(s) = "claimed" => s = "CLAIM_CLAIMED"
BY DEF Promise!SoIs, Told, QuoteStates, ReceiveStates, Backed, Over, Late, Careful

\* Only a paid escrow is told to be claimed, and a swap told over holds none
\* unless the escrow timed out.
LEMMA ClaimedIsPaid ==
  ASSUME IInv, state = "CLAIM_CLAIMED"
  PROVE  escrow = "paid" /\ (Over => Late)
BY DEF IInv, AllBacked, Backed, Over

\* A step that leaves the escrow alone, while the process runs.
Tells ==
  /\ UNCHANGED <<escrow, passed, lp, app>> /\ phase # "down" /\ phase' # "down"
  /\ state = "CLAIM_CLAIMED" => state' = state \/ Late
  /\ \/ sent' = sent
     \/ sent' = sent \cup {"commit"} /\ state' = state
     \/ sent' = sent \cup {"claim"} /\ state' = state /\ escrow # "none"

\* Such a step, which gives nothing up, is a step of the promise or none.
LEMMA TellsRefines ==
  ASSUME IInv, IInv', Tells
  PROVE  [Promise!Next]_(Promise!vars)
<1>1. UNCHANGED <<escrow, "escrow" \in passed, ~Makes({"waitCommit"})>>
  BY DEF Tells, Makes
<1>2. phase # "down" /\ phase' # "down"
  BY DEF Tells
<1>3. CASE sent' = sent \cup {"claim"} /\ "claim" \notin sent /\ state' = state /\ escrow # "none"
  <2>1. Promise!Reveal
    BY <1>1, <1>2, <1>3 DEF Promise!Reveal, Told
  <2> QED
    BY <1>1, <2>1 DEF Promise!Next
<1>4. CASE ("claim" \in sent)' = ("claim" \in sent) /\ Told(state)' = Told(state)
  BY <1>1, <1>2, <1>4 DEF Promise!vars
<1>5. CASE ("claim" \in sent)' = ("claim" \in sent) /\ Told(state)' # Told(state)
  <2>1. Promise!SoIs(Told(state)') /\ Told(state)' \in {"quote", "held", "claimed", "over"}
    <3>1. state' \in ReceiveStates /\ Backed(state')
      BY DEF IInv, AllBacked, Backed, Over, Late, Careful, Makes, Tells, TypeOK, ReceiveTypeOK
    <3> QED
      BY <3>1, WhatIsTold
  <2>2. Told(state) = "claimed" => state = "CLAIM_CLAIMED"
    BY WhatIsTold DEF IInv, TypeOK, ReceiveTypeOK, AllBacked
  <2>3. Promise!Tell
    BY <1>1, <1>2, <1>5, <2>1, <2>2 DEF Promise!Tell, Tells, Late
  <2> QED
    BY <1>1, <2>3 DEF Promise!Next
<1>6. \/ sent' = sent \cup {"claim"} /\ "claim" \notin sent /\ state' = state /\ escrow # "none"
      \/ ("claim" \in sent)' = ("claim" \in sent)
  BY DEF Tells
<1> QED
  BY <1>3, <1>4, <1>5, <1>6

\* A guarded emit that does not start from CLAIM_CLAIMED, or goes there.
LEMMA EmitIfTells ==
  ASSUME IInv, NEW t, NEW from, NEW s, EmitIf(t, from, s),
         Alive, UNCHANGED <<worldVars, lp, app>>, phase # "down",
         state = "CLAIM_CLAIMED" /\ state \in from => s = "CLAIM_CLAIMED" \/ Late
  PROVE  Tells
BY DEF Tells, EmitIf, EmitFrom, SaveAs, SaveWith, Still, recordVars, Alive, lifeVars, worldVars

\* A step that leaves the state alone.
LEMMA StillTells ==
  ASSUME Still, Alive, UNCHANGED <<worldVars, lp, app>>, phase # "down"
  PROVE  Tells
BY DEF Tells, Still, recordVars, Alive, lifeVars, worldVars

\* No tick sends anything.
LEMMA TickTells ==
  ASSUME IInv, NEW t \in Timers, TickNext(t), UNCHANGED app
  PROVE  Tells
<1>1. t \in Tasks
  BY DEF Tasks
<1>2. phase # "down"
  BY <1>1, Where DEF TickNext, TickQuote, TickAsk, TickAnswer, TickExpire, Running
<1>3. CASE TickAsk(t) \/ TickAnswer(t)
  BY <1>2, <1>3, StillTells DEF TickAsk, TickAnswer, Frame
<1>4. CASE TickQuote(t)
  BY <1>2, <1>4 DEF TickQuote, EmitFrom, SaveAs, SaveWith, Frame, Alive, lifeVars, worldVars, Tells
<1>5. CASE TickExpire(t)
  <2>1. Late
    BY <1>1, <1>5 DEF TickExpire, IInv, InHand
  <2> QED
    BY <1>2, <1>5, <2>1
    DEF TickExpire, EmitFrom, SaveAs, SaveWith, Frame, Alive, lifeVars, worldVars, Tells
<1> QED
  BY <1>3, <1>4, <1>5 DEF TickNext

\* waitForPayment() sends nothing.
LEMMA PayTells ==
  ASSUME IInv, NEW t \in Callers, PayNext(t), UNCHANGED app
  PROVE  Tells
<1>1. t \in Tasks
  BY DEF Tasks
<1>2. phase # "down"
  BY <1>1, Where DEF PayNext, Pay, PayPoll, PayCheck, PayApply, Called, Running
<1>3. CASE Pay(t)
  BY <1>2, <1>3
  DEF Pay, SaveWith, Still, recordVars, Frame, Alive, lifeVars, worldVars, Tells
<1>4. CASE PayPoll(t) \/ PayCheck(t)
  BY <1>2, <1>4, StillTells DEF PayPoll, PayCheck, Frame
<1>5. CASE PayApply(t)
  BY <1>2, <1>5
  DEF PayApply, EmitIf, EmitFrom, SaveAs, SaveWith, Still, recordVars, QuoteStates,
      Alive, lifeVars, worldVars, Tells
<1> QED
  BY <1>3, <1>4, <1>5 DEF PayNext

\* The sync of wrapper.init() asks the LP about unpaid swaps only; a sync beside
\* calls finds no claimed ones.
LEMMA SyncTells ==
  ASSUME IInv, SyncAlone, NEW t \in Callers, SyncNext(t), UNCHANGED app
  PROVE  Tells
<1>1. t \in Tasks
  BY DEF Tasks
<1>2. phase # "down"
  BY <1>1, Where DEF SyncNext, SyncStart, SyncAskLp, SyncCheck, SyncLpApply, SyncExpiry, SyncStatus,
                     SyncApply, SyncEnd, SyncFail, Called, Running
<1>3. CASE SyncStart(t)
  BY <1>2, <1>3 DEF SyncStart, Still, recordVars, worldVars, Tells
<1>4. CASE SyncAskLp(t) \/ SyncCheck(t) \/ SyncExpiry(t) \/ SyncStatus(t) \/ SyncFail(t)
  BY <1>2, <1>4, StillTells DEF SyncAskLp, SyncCheck, SyncExpiry, SyncStatus, SyncFail, Frame
<1>5. CASE SyncLpApply(t)
  <2>1. pc[t] \in {"sync:paid", "sync:gone"}
    BY <1>5 DEF SyncLpApply
  <2>2. state # "CLAIM_CLAIMED"
    <3>1. CASE phase = "run"
      BY <1>1, <2>1, <3>1, SyncIsMade, NoCommitBesideSync, ClaimedIsPaid DEF SyncLabels
    <3>2. CASE phase = "syncing"
      BY <1>1, <2>1, <3>2 DEF IInv, InPlace, QuoteStates
    <3> QED
      BY <1>1, <2>1, <3>1, <3>2, InSync DEF SyncLabels
  <2> QED
    BY <1>2, <1>5, <2>2 DEF SyncLpApply, Alive, lifeVars, worldVars, Tells
<1>6. CASE SyncApply(t)
  BY <1>2, <1>6 DEF SyncApply, SyncedState, Paid, Alive, lifeVars, worldVars, Tells
<1>7. CASE SyncEnd(t)
  BY <1>2, <1>7
  DEF SyncEnd, SaveAs, SaveWith, Still, recordVars, Alive, lifeVars, worldVars, Tells
<1> QED
  BY <1>3, <1>4, <1>5, <1>6, <1>7 DEF SyncNext

\* commit() hands out the commit, and the secret after it is confirmed only.
LEMMA CommitTells ==
  ASSUME IInv, NEW t \in Callers, CommitNext(t), UNCHANGED app
  PROVE  Tells
<1>1. t \in Tasks
  BY DEF Tasks
<1>2. phase # "down"
  BY <1>1, Where DEF CommitNext, Commit, CommitSend, CommitConfirmed, SendFail, OneShotClaim,
                     OneShotConfirmed, WaitCommit, WatchCommit, WaitCommitDone, Called, Running
<1>3. CASE Commit(t) \/ SendFail(t) \/ WaitCommit(t) \/ WatchCommit(t)
  BY <1>2, <1>3, StillTells DEF Commit, SendFail, WaitCommit, WatchCommit, Frame
<1>4. CASE CommitSend(t) \/ OneShotClaim(t)
  BY <1>2, <1>4
  DEF CommitSend, OneShotClaim, Send, Still, recordVars, Alive, lifeVars, Tells
<1>5. CASE CommitConfirmed(t)
  BY <1>2, <1>5, EmitIfTells DEF CommitConfirmed, Frame
<1>6. CASE OneShotConfirmed(t)
  BY <1>2, <1>6, EmitIfTells DEF OneShotConfirmed, Frame
<1>7. CASE WaitCommitDone(t)
  BY <1>2, <1>7, EmitIfTells DEF WaitCommitDone, Frame
<1> QED
  BY <1>3, <1>4, <1>5, <1>6, <1>7 DEF CommitNext

\* waitTillClaimed() gives up without a second look, on an answer that only a
\* timeout leaves possible for a claimed escrow.
LEMMA ClaimTells ==
  ASSUME IInv, NEW t \in Callers, ClaimNext(t), UNCHANGED app
  PROVE  Tells
<1>1. t \in Tasks
  BY DEF Tasks
<1>2. phase # "down"
  BY <1>1, Where DEF ClaimNext, Claim, ClaimSend, ClaimConfirmed, WaitClaim, WatchClaim,
                     WaitClaimOver, Called, Running
<1>3. CASE Claim(t) \/ WaitClaim(t)
  BY <1>2, <1>3, StillTells DEF Claim, WaitClaim, Frame
<1>4. CASE ClaimSend(t)
  <2>1. escrow # "none"
    BY <1>1, <1>4 DEF ClaimSend, IInv, InHand, ClaimLabels
  <2> QED
    BY <1>2, <1>4, <2>1 DEF ClaimSend, Send, Still, recordVars, Alive, lifeVars, Tells
<1>5. CASE ClaimConfirmed(t)
  BY <1>2, <1>5, EmitIfTells DEF ClaimConfirmed, Frame
<1>6. CASE WatchClaim(t)
  BY <1>2, <1>6, StillTells DEF WatchClaim, Frame
<1>7. CASE WaitClaimOver(t)
  <2>1. pc[t] = "wcl:paid" \/ Over
    BY <1>1, <1>7 DEF WaitClaimOver, IInv, InHand
  <2> QED
    BY <1>2, <1>7, <2>1, ClaimedIsPaid, EmitIfTells, StillTells DEF WaitClaimOver, Frame
<1> QED
  BY <1>3, <1>4, <1>5, <1>6, <1>7 DEF ClaimNext

\* An event sends nothing, and ends nothing but the swap it is about.
LEMMA ListenerTells ==
  ASSUME IInv, ListenerNext, UNCHANGED app
  PROVE  Tells
BY DEF ListenerNext, NextEvent, OnEvent, SaveAs, SaveWith, Still, recordVars, Alive, lifeVars, Tells

\* While a quote may still be committed, it was not told over.
LEMMA CommitInTime ==
  ASSUME IInv, ChainCommit
  PROVE  lp = "held" /\ (Over => Late)
<1>1. "commit" \in sent /\ "auth" \notin passed /\ escrow = "none"
  BY DEF ChainCommit, EscrowStep
<1>2. lp = "held"
  BY <1>1 DEF IInv, Kept, CommitPossible, Unlearnt, NoAuth, TypeOK
<1> QED
  BY <1>1, <1>2 DEF Over

\* The LP, the chain and the clock open the escrow of a quote in use, settle it,
\* or let it time out.
LEMMA EnvironmentRefines ==
  ASSUME IInv, Environment, UNCHANGED app
  PROVE  [Promise!Next]_(Promise!vars)
<1>1. UNCHANGED <<Told(state), phase, ~Makes({"waitCommit"})>>
  BY DEF Environment, recordVars, lifeVars, Told, Makes
<1>2. CASE (LpReceive \/ LpLetGo) /\ UNCHANGED worldVars
  BY <1>1, <1>2 DEF worldVars, Promise!vars
<1>3. CASE ChainCommit
  <2>1. Told(state) = "over" => Late \/ ~Careful
    BY <1>3, CommitInTime
    DEF Told, QuoteStates, IInv, AllBacked, Backed, TypeOK, ReceiveTypeOK, ReceiveStates
  <2>2. Promise!Open
    BY <1>1, <1>3, <2>1 DEF ChainCommit, EscrowStep, Promise!Open, Late, Careful
  <2> QED
    BY <1>1, <2>2 DEF Promise!Next
<1>4. CASE ChainClaim \/ ChainRefund
  <2>1. Promise!Settle
    BY <1>1, <1>4 DEF ChainClaim, ChainRefund, EscrowStep, Promise!Settle
  <2> QED
    BY <1>1, <2>1 DEF Promise!Next
<1>5. CASE Clock
  <2>1. UNCHANGED <<escrow, sent>>
    BY <1>5 DEF Clock, Expire
  <2>2. CASE "escrow" \notin passed /\ "escrow" \in passed'
    <3>1. Promise!Timeout
      BY <1>1, <2>1, <2>2 DEF Promise!Timeout
    <3> QED
      BY <1>1, <3>1 DEF Promise!Next
  <2>3. CASE ("escrow" \in passed)' = ("escrow" \in passed)
    BY <1>1, <2>1, <2>3 DEF Promise!vars
  <2> QED
    BY <1>5, <2>2, <2>3 DEF Clock, Expire
<1> QED
  BY <1>2, <1>3, <1>4, <1>5 DEF Environment

\* Storage, crashes and restarts.
LEMMA StorageRefines ==
  ASSUME IInv, TypeOK', StorageNext, UNCHANGED app
  PROVE  [Promise!Next]_(Promise!vars)
<1>1. UNCHANGED <<escrow, passed, sent, ~Makes({"waitCommit"})>>
  BY DEF StorageNext, Flush, Crash, Restart, InitDone, worldVars, Makes
<1>2. CASE Flush \/ InitDone
  <2>1. UNCHANGED <<Told(state), phase # "down">>
    BY <1>2 DEF Flush, InitDone, Still, recordVars, Told
  <2> QED
    BY <1>1, <2>1 DEF Promise!vars
<1>3. CASE Crash
  <2>1. Promise!Stop
    BY <1>1, <1>3 DEF Crash, Promise!Stop, Told
  <2> QED
    BY <1>1, <2>1 DEF Promise!Next
<1>4. CASE Restart(PendingStates)
  <2>1. phase = "down" /\ phase' # "down" /\ durable # Absent /\ state' = durable.state
    BY <1>4 DEF Restart
  <2>2. state' \in ReceiveStates /\ Backed(state')
    BY <2>1 DEF IInv, AllBacked, TypeOK, ReceiveTypeOK
  <2>3. Promise!SoIs(Told(state')) /\ Told(state') \in {"quote", "held", "claimed", "over"}
    BY <2>2, WhatIsTold
  <2>4. Promise!Start
    BY <1>1, <2>1, <2>3 DEF Promise!Start
  <2> QED
    BY <1>1, <2>4 DEF Promise!Next
<1> QED
  BY <1>2, <1>3, <1>4 DEF StorageNext

\* Each step of the swap is a step of HtlcPromise, or changes nothing it speaks of.
LEMMA NextRefines ==
  ASSUME IInv, SyncAlone, PayThenCommit, [Next]_vars
  PROVE  [Promise!Next]_(Promise!vars)
<1>1. IInv' /\ TypeOK'
  BY NextInv DEF IInv
<1>2. CASE UNCHANGED vars
  BY <1>2 DEF vars, receiveVars, worldVars, recordVars, lifeVars, Promise!vars, Told, Makes
<1>3. CASE Environment /\ UNCHANGED app
  BY <1>3, EnvironmentRefines
<1>4. CASE StorageNext /\ UNCHANGED app
  BY <1>1, <1>4, StorageRefines
<1>5. ASSUME Tells PROVE [Promise!Next]_(Promise!vars)
  BY <1>1, <1>5, TellsRefines
<1> QED
  BY <1>2, <1>3, <1>4, <1>5, TickTells, PayTells, SyncTells, CommitTells, ClaimTells, ListenerTells
  DEF Next

\* KeepsPromise: FromBTCLNSwap implements HtlcPromise.  What the SDK tells of the
\* escrow is so, the secret goes out for an escrow that is there, a claimed swap
\* stays claimed, and a quote given up is not committed.
THEOREM KeepsPromiseCorrect ==
  ASSUME SyncAlone, PayThenCommit
  PROVE  Spec => KeepsPromise
<1>1. Init => Promise!Init
  BY DEF Init, ReceiveInit, Promise!Init, Told, QuoteStates
<1>2. IInv /\ [Next]_vars => [Promise!Next]_(Promise!vars)
  BY NextRefines
<1> QED
  BY <1>1, <1>2, InductiveInvariant, PTL DEF Spec, KeepsPromise, Promise!Spec
=============================================================================
