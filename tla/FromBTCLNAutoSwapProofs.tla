---------------------- MODULE FromBTCLNAutoSwapProofs ----------------------
(***************************************************************************)
(* Proofs about FromBTCLNAutoSwap: types, and that the secret goes out     *)
(* only for the LP's escrow with the quoted terms, whatever calls, ticks,  *)
(* events, syncs, crashes and broadcasts under way the application has.    *)
(***************************************************************************)
EXTENDS FromBTCLNAutoSwap, ReceiveSwapProofs

-----------------------------------------------------------------------------
(* The inductive invariant *)

\* The time to open the escrow is over; that of a timed out escrow is too.
Ended == "quote" \in passed

\* What state s with knowledge `known` proves, held or stored.
Backed(s, known) ==
  /\ s = "CLAIM_COMMITED" => offer = "good" /\ known = "good"
  /\ s = "CLAIM_CLAIMED" => escrow = "paid"
  /\ s = "EXPIRED" => Ended
  /\ s = "FAILED" => Ended \/ Makes({"sync"})

AllBacked ==
  /\ Backed(state, learnt)
  /\ Backed(recorded.state, recorded.learnt)
  /\ Backed(durable.state, durable.learnt)
  /\ {learnt, recorded.learnt, durable.learnt} \subseteq {"none", "good"}

SyncLabels == {"sync:lp", "sync:check", "sync:paid", "sync:gone", "sync:expiry",
               "sync:status", "sync:apply", "sync:end"}

\* What a commit status noted earlier still proves when it is applied.
Answered(status) ==
  /\ status = "PAID" => escrow = "paid"
  /\ status = "COMMITED" => offer = "good" /\ learnt = "good"
  /\ status = "EXPIRED" => Ended
  /\ status = "NOT_COMMITED" =>
       (state \in {"CLAIM_COMMITED", "EXPIRED"} => Ended \/ Makes({"sync"}))

\* What call t may rely on at the await it is parked at.
InHand(t) ==
  /\ pc[t] \in {"tick:expired", "wc:no"} => Ended
  /\ pc[t] \in {"wc:yes", "wcl:poll"} => offer = "good" /\ learnt = "good"
  /\ pc[t] \in {"claim:send", "claim:confirm"} => offer = "good"
  /\ pc[t] \in {"pay:gone", "sync:gone"} => lp = "gone"
  /\ pc[t] = "sync:status" => learnt = "good"
  /\ pc[t] = "sync:apply" => Answered(noted[t].status)
  /\ pc[t] \in SyncLabels => phase = "syncing" \/ <<t, "sync">> \in app

\* Before the sync of wrapper.init() ends, nothing else runs.
Phases ==
  /\ phase \in {"down", "init"} => \A t \in Tasks : pc[t] = "idle"
  /\ phase = "syncing" =>
       \A t \in Tasks : pc[t] # "idle" => t = Starter /\ pc[t] \in SyncLabels \cup {"saving"}
  /\ phase # "run" => ~listening /\ restarts > 0

\* Events under way are true, and stay so.
EventTrue(e) ==
  /\ e = "init" => escrow # "none"
  /\ e = "claim" => escrow = "paid"
  /\ e = "refund" => escrow = "refunded"

EventsTrue == \A e \in Announced : EventTrue(e)

\* The LP's side, the escrow, the deadlines and the secret.
Chain ==
  /\ offer = "none" <=> escrow = "none"
  /\ escrow = "paid" => offer = "good"
  /\ escrow = "refunded" => Ended
  /\ "escrow" \in passed => Ended
  /\ lp = "invoice" => escrow = "none"
  /\ lp = "gone" => escrow \in {"none", "refunded"}
  /\ sent # {} \/ casting => offer = "good"

\* The secret is out, or a step away from it, ...
Revealing == sent # {} \/ casting \/ \E t \in Tasks : pc[t] = "claim:send"

\* ... so the swap, as long as its process runs, has left the states of a quote.
Committed == {"CLAIM_COMMITED", "CLAIM_CLAIMED", "EXPIRED", "FAILED"}
Shown == restarts = 0 /\ Revealing /\ escrow \in {"open", "paid"} => state \in Committed

IInv ==
  /\ TypeOK /\ AllBacked /\ Phases /\ EventsTrue /\ Chain /\ Shown
  /\ \A t \in Tasks : InHand(t)

-----------------------------------------------------------------------------
(* What a step of a call, of the listener or of a broadcast has to show *)

\* Calls stay where they are, are woken, or go on with something to rely on.
Moves ==
  /\ pc' \in [Tasks -> Labels] /\ noted' \in [Tasks -> Notes]
  /\ \A u \in Tasks :
       \/ pc'[u] = pc[u] /\ noted'[u] = noted[u]
       \/ /\ pc[u] \notin SyncLabels \cup {"idle", "saving"} /\ pc'[u] \in {"idle", "wc:poll"}
          /\ noted'[u] = noted[u]
       \/ /\ InHand(u)'
          /\ \/ phase = "run"
             \/ phase = "syncing" /\ u = Starter /\ pc'[u] \in SyncLabels \cup {"idle", "saving"}

\* The secret is revealed, or about to be, only by a swap shown as committed.
Reveals ==
  /\ Revealing' => Revealing \/ state' \in Committed
  /\ state \in Committed => state' \in Committed \/ escrow \notin {"open", "paid"}

\* The world, the durable record and the phase stay; what the swap becomes is
\* backed, and what the calls rely on is so.
LEMMA StepInv ==
  ASSUME IInv, UNCHANGED <<escrow, passed, lp, offer, durable, restarts, phase, app>>,
         events' = events \/ \E e : NextEvent(e),
         sent' \in {sent, sent \cup {"secret"}, sent \cup {"claim"}},
         state' \in ReceiveStates, initiated' \in BOOLEAN, learnt' \in {learnt, "good"},
         Backed(state', learnt'), recorded' \in {recorded, Persisted(state', learnt', initiated')},
         Moves, casting' \in BOOLEAN, listening' \in BOOLEAN, listening' => phase = "run",
         sent' # {} \/ casting' => offer = "good",
         state' = state \/ phase = "run" \/ pc'[Starter] # "sync:apply",
         Reveals
  PROVE  IInv'
<1>1. TypeOK'
  <2>1. events' \in Seq({"init", "claim", "refund"})
    BY NextEventType DEF IInv, TypeOK, ReceiveTypeOK
  <2>2. recorded' \in Records
    BY DEF IInv, TypeOK, ReceiveTypeOK, Persisted, Records
  <2> QED
    BY <2>1, <2>2 DEF IInv, TypeOK, ReceiveTypeOK, Moves
<1>2. AllBacked'
  <2>1. Makes({"sync"})' <=> Makes({"sync"})
    BY DEF Makes
  <2>2. Backed(state, learnt)'
    BY <2>1 DEF Backed, Ended
  <2>3. Backed(recorded.state, recorded.learnt)' /\ recorded'.learnt \in {"none", "good"}
    BY <2>1 DEF IInv, AllBacked, Backed, Ended, Persisted, Absent
  <2>4. Backed(durable.state, durable.learnt)'
    BY <2>1 DEF IInv, AllBacked, Backed, Ended
  <2> QED
    BY <2>2, <2>3, <2>4 DEF IInv, AllBacked
<1>3. EventsTrue'
  <2>1. Announced' \subseteq Announced
    BY NextAnnounced DEF Announced, IInv, TypeOK
  <2> QED
    BY <2>1 DEF IInv, EventsTrue, EventTrue
<1>4. Chain'
  BY DEF IInv, Chain, Ended
<1>5. Phases'
  BY DEF IInv, Phases, Moves, TypeOK, ReceiveTypeOK
<1>6. ASSUME NEW u \in Tasks PROVE InHand(u)'
  <2>1. CASE pc'[u] = pc[u] /\ noted'[u] = noted[u]
    <3>1. InHand(u)
      BY DEF IInv
    <3>2. pc[u] = "sync:apply" => Answered(noted[u].status)'
      <4> SUFFICES ASSUME pc[u] = "sync:apply" PROVE Answered(noted[u].status)'
        OBVIOUS
      <4>1. phase = "run" => Makes({"sync"})
        BY <3>1 DEF InHand, SyncLabels, Makes
      <4>2. phase # "run" => state' = state
        BY <2>1 DEF IInv, Phases, TypeOK, ReceiveTypeOK
      <4> QED
        BY <2>1, <3>1, <4>1, <4>2 DEF InHand, Answered, Ended, Makes
    <3> QED
      BY <2>1, <3>1, <3>2 DEF InHand, Ended
  <2>2. CASE pc'[u] \in {"idle", "wc:poll"}
    BY <2>2 DEF InHand, SyncLabels
  <2> QED
    BY <2>1, <2>2 DEF Moves
<1>7. Shown'
  BY DEF IInv, Shown, Reveals
<1> QED
  BY <1>1, <1>2, <1>3, <1>4, <1>5, <1>6, <1>7 DEF IInv

\* A broadcast that starts does so in a committed swap.
LEMMA CastStarts ==
  ASSUME casting \in BOOLEAN, NEW C, C \in BOOLEAN,
         casting' = casting \/ casting' = (casting \/ C)
  PROVE  casting' \in BOOLEAN /\ (casting' => casting \/ C)
OBVIOUS

\* Where a call that is not idle runs.
LEMMA Where ==
  ASSUME IInv, NEW t \in Tasks, pc[t] # "idle"
  PROVE  \/ phase = "run"
         \/ phase = "syncing" /\ t = Starter /\ pc[t] \in SyncLabels \cup {"saving"}
BY DEF IInv, Phases, TypeOK, ReceiveTypeOK

\* A call that goes on to its next await, perhaps with a new note, perhaps with
\* a broadcast.
LEMMA QuietInv ==
  ASSUME IInv, NEW t \in Tasks, NEW next \in Labels, Goto(t, next), Still, Alive,
         UNCHANGED <<worldVars, lpVars, listening, app>>, casting' = casting \/ Cast,
         noted' \in [Tasks -> Notes], \A u \in Tasks \ {t} : noted'[u] = noted[u],
         InHand(t)', next = "claim:send" => state \in Committed,
         phase = "run" \/ (phase = "syncing" /\ t = Starter /\ next \in SyncLabels \cup {"idle", "saving"})
  PROVE  IInv'
<1>1. UNCHANGED <<escrow, passed, lp, offer, durable, restarts, phase, app, events, sent,
                  state, learnt, initiated, recorded, listening>>
  BY DEF Still, Alive, recordVars, lifeVars, worldVars, lpVars
<1>2. pc' \in [Tasks -> Labels] /\ pc'[t] = next /\ \A u \in Tasks \ {t} : pc'[u] = pc[u]
  BY DEF Goto, IInv, TypeOK
<1>3. Moves
  BY <1>2 DEF Moves
<1>4. casting' \in BOOLEAN /\ (casting' => casting \/ state = "CLAIM_COMMITED")
  <2>1. casting' = casting \/ casting' = (casting \/ state = "CLAIM_COMMITED")
    BY <1>1 DEF Cast
  <2> QED
    BY <2>1, CastStarts DEF IInv, TypeOK
<1>5. /\ state \in ReceiveStates /\ initiated \in BOOLEAN /\ Backed(state, learnt)
      /\ casting \in BOOLEAN /\ listening \in BOOLEAN /\ (listening => phase = "run")
      /\ (sent # {} \/ casting => offer = "good")
  BY DEF IInv, TypeOK, ReceiveTypeOK, AllBacked, Phases, Chain
<1>6. casting' => offer = "good"
  BY <1>4, <1>5 DEF Backed
<1>7. Reveals
  BY <1>1, <1>2, <1>4 DEF Reveals, Revealing, Committed
<1> QED
  BY <1>1, <1>3, <1>4, <1>5, <1>6, <1>7, StepInv

\* Waking calls keeps their types.
LEMMA WakedMoves ==
  ASSUME IInv, NEW s
  PROVE  /\ Waked(s) \in [Tasks -> Labels]
         /\ \A u \in Tasks : \/ Waked(s)[u] = pc[u]
                             \/ /\ pc[u] \notin SyncLabels \cup {"idle", "saving", "claim:send"}
                                /\ Waked(s)[u] \in {"idle", "wc:poll"}
         /\ \A u \in Tasks : Waked(s)[u] = "claim:send" => pc[u] = "claim:send"
BY DEF IInv, TypeOK, Waked, Labels, SyncLabels

\* _saveAndEmit by call t, which goes on to `next`; becoming committed may start
\* a broadcast.
LEMMA EmitInv ==
  ASSUME IInv, NEW t \in Tasks, NEW s \in ReceiveStates, EmitFrom(t, s, "saving") \/ EmitFrom(t, s, "idle"),
         Frame, UNCHANGED <<listening, app>>, phase = "run",
         casting' = casting \/ casting' = (casting \/ s = "CLAIM_COMMITED"),
         Backed(s, learnt), s \in Committed \/ state \notin Committed
  PROVE  IInv'
<1>1. PICK next \in {"saving", "idle"} : EmitFrom(t, s, next)
  OBVIOUS
<1>2. /\ UNCHANGED <<escrow, passed, lp, offer, durable, restarts, phase, app, events, sent,
                     learnt, initiated, listening, noted>>
      /\ state' = s /\ recorded' = Persisted(s, learnt, initiated)
      /\ pc' = [Waked(s) EXCEPT ![t] = next]
  BY <1>1 DEF EmitFrom, SaveAs, SaveWith, Frame, Alive, lifeVars, worldVars, lpVars
<1>3. next \in Labels
  BY DEF Labels
<1>4. pc' \in [Tasks -> Labels] /\ pc'[t] = next /\ \A u \in Tasks \ {t} : pc'[u] = Waked(s)[u]
  BY <1>2, <1>3, WakedMoves
<1>5. InHand(t)'
  BY <1>4 DEF InHand, SyncLabels
<1>6. Moves
  BY <1>2, <1>4, <1>5, WakedMoves DEF Moves, IInv, TypeOK, ReceiveTypeOK
<1>7. /\ initiated \in BOOLEAN /\ casting \in BOOLEAN /\ listening \in BOOLEAN
      /\ (sent # {} \/ casting => offer = "good")
  BY DEF IInv, TypeOK, ReceiveTypeOK, Chain
<1>8. casting' \in BOOLEAN /\ (casting' => casting \/ s = "CLAIM_COMMITED")
  BY <1>7, CastStarts
<1>9. Revealing' => Revealing \/ s = "CLAIM_COMMITED"
  BY <1>2, <1>4, <1>8, WakedMoves DEF Revealing
<1>10. Reveals
  BY <1>2, <1>9 DEF Reveals, Committed
<1>11. casting' \in BOOLEAN /\ (sent' # {} \/ casting' => offer = "good")
  BY <1>2, <1>7, <1>8 DEF Backed
<1>12. Backed(state', learnt') /\ recorded' = Persisted(state', learnt', initiated')
  BY <1>2
<1> QED
  BY <1>2, <1>6, <1>7, <1>10, <1>11, <1>12, StepInv

\* The guarded emit at the end of a call.
LEMMA EmitIfInv ==
  ASSUME IInv, NEW t \in Tasks, NEW from, NEW s \in ReceiveStates, EmitIf(t, from, s),
         Frame, UNCHANGED <<listening, app>>, phase = "run",
         casting' = casting \/ Cast, Backed(s, learnt), s \in Committed \/ from \cap Committed = {}
  PROVE  IInv'
<1>1. CASE state \in from
  <2>1. EmitFrom(t, s, "saving")
    BY <1>1 DEF EmitIf
  <2>2. casting' = casting \/ casting' = (casting \/ s = "CLAIM_COMMITED")
    BY <2>1 DEF Cast, EmitFrom, SaveAs, SaveWith
  <2> QED
    BY <1>1, <2>1, <2>2, EmitInv
<1>2. CASE state \notin from
  <2>1. Goto(t, "idle") /\ Still
    BY <1>2 DEF EmitIf
  <2>2. InHand(t)' /\ "idle" \in Labels /\ noted' = noted /\ noted \in [Tasks -> Notes]
    BY <2>1 DEF Goto, InHand, SyncLabels, IInv, TypeOK, ReceiveTypeOK, Frame, Labels
  <2> QED
    BY <2>1, <2>2, QuietInv DEF Frame
<1> QED
  BY <1>1, <1>2-----------------------------------------------------------------------------
(* Ticks *)

\* The secret goes out for a swap that may reveal it: call t goes on to `next`.
LEMMA RevealInv ==
  ASSUME IInv, NEW t \in Tasks, NEW next \in {"idle", "claim:confirm"}, NEW how \in {"secret", "claim"},
         Goto(t, next), Reveal(how), Still, Alive, UNCHANGED <<noted, lpVars, sideVars, app>>,
         phase = "run", offer = "good", Revealing \/ state \in Committed
  PROVE  IInv'
<1>1. /\ UNCHANGED <<escrow, passed, lp, offer, durable, restarts, phase, app, events, state, learnt,
                     initiated, recorded, casting, listening, noted>>
      /\ sent' = sent \cup {how}
  BY DEF Reveal, Still, Alive, recordVars, lifeVars, lpVars, sideVars
<1>2. pc' \in [Tasks -> Labels] /\ pc'[t] = next /\ \A u \in Tasks \ {t} : pc'[u] = pc[u]
  BY DEF Goto, IInv, TypeOK, Labels
<1>3. InHand(t)'
  BY <1>1, <1>2 DEF InHand, SyncLabels
<1>4. Moves
  BY <1>1, <1>2, <1>3 DEF Moves, IInv, TypeOK, ReceiveTypeOK
<1>5. /\ state \in ReceiveStates /\ initiated \in BOOLEAN /\ Backed(state, learnt)
      /\ casting \in BOOLEAN /\ listening \in BOOLEAN
  BY DEF IInv, TypeOK, ReceiveTypeOK, AllBacked
<1>6. Reveals
  BY <1>1, <1>2 DEF Reveals, Revealing
<1>7. Backed(state', learnt')
  BY <1>1, <1>5
<1> QED
  BY <1>1, <1>4, <1>5, <1>6, <1>7, StepInv

\* Ticks let quotes expire, ask for the escrow's expiry and act on the answer.
LEMMA TickInv ==
  ASSUME IInv, NEW t \in Tasks, TickNext(t), UNCHANGED app
  PROVE  IInv'
<1> USE DEF sideVars
<1>1. CASE TickQuote(t)
  <2>1. PICK s \in {"QUOTE_SOFT_EXPIRED", "QUOTE_EXPIRED"} :
          EmitFrom(t, s, "idle") /\ state \notin Committed
    BY <1>1 DEF TickQuote, Committed
  <2>2. Backed(s, learnt) /\ s \in ReceiveStates
    BY DEF Backed, ReceiveStates
  <2> QED
    BY <1>1, <2>1, <2>2, EmitInv DEF TickNext, TickQuote, Running
<1>2. CASE TickAsk(t) \/ TickAnswer(t) \/ TickSkip(t)
  <2>1. phase = "run"
    BY <1>2, Where DEF TickAsk, TickAnswer, TickSkip, Running, SyncLabels
  <2>2. PICK next \in {"tick:asked", "tick:expired", "tick:live", "idle"} :
          Goto(t, next) /\ Still /\ Frame /\ (next = "tick:expired" => "escrow" \in passed)
    BY <1>2 DEF TickAsk, TickAnswer, TickSkip
  <2>3. InHand(t)'
    BY <2>2 DEF InHand, SyncLabels, Goto, IInv, TypeOK, Chain, Ended, Frame, worldVars
  <2>4. next \in Labels /\ noted' = noted /\ noted \in [Tasks -> Notes]
    BY <2>2 DEF Labels, IInv, TypeOK, ReceiveTypeOK, Frame
  <2> QED
    BY <2>1, <2>2, <2>3, <2>4, QuietInv DEF TickNext, Frame
<1>3. CASE TickExpire(t)
  <2>1. phase = "run" /\ Ended
    BY <1>3, Where DEF TickExpire, SyncLabels, IInv, InHand
  <2>2. Backed("EXPIRED", learnt) /\ "EXPIRED" \in ReceiveStates \cap Committed
    BY <2>1 DEF Backed, ReceiveStates, Committed
  <2> QED
    BY <1>3, <2>1, <2>2, EmitInv DEF TickExpire, TickNext
<1>4. CASE TickBroadcast(t)
  <2>1. phase = "run"
    BY <1>4, Where DEF TickBroadcast, SyncLabels
  <2>2. state \in Committed /\ offer = "good"
    BY <1>4 DEF TickBroadcast, Committed, IInv, AllBacked, Backed
  <2> QED
    BY <1>4, <2>1, <2>2, RevealInv DEF TickBroadcast, TickNext
<1> QED
  BY <1>1, <1>2, <1>3, <1>4 DEF TickNext
-----------------------------------------------------------------------------
(* claim and waitTillClaimed *)

\* What an answer about the swap's escrow proves.
LEMMA AnswersTrue ==
  ASSUME IInv, NEW answer \in Answers
  PROVE  /\ Answered(answer)
         /\ answer \in {"PAID", "COMMITED", "REFUNDABLE"} => offer = "good" /\ learnt = "good"
<1>1. learnt \in {"none", "good"}
  BY DEF IInv, AllBacked
<1>2. CASE offer = learnt
  <2>1. answer \in StatusOf(escrow) /\ (escrow # "none" => learnt = "good")
    BY <1>1, <1>2 DEF Answers, IInv, Chain
  <2> QED
    BY <1>1, <1>2, <2>1 DEF StatusOf, Answered, IInv, Chain, TypeOK, ReceiveTypeOK, Ended, Makes, AllBacked, Backed
<1>3. CASE offer # learnt
  <2>1. answer \in {"EXPIRED", "NOT_COMMITED"} /\ (answer = "EXPIRED" => "escrow" \in passed)
    BY <1>3 DEF Answers, StatusOf
  <2> QED
    BY <1>1, <1>3, <2>1 DEF Answered, IInv, Chain, Ended, AllBacked, Backed
<1> QED
  BY <1>2, <1>3

\* Claims and waits for a claim end in CLAIM_CLAIMED only if the escrow was paid,
\* and a wait ends in FAILED only if it can no longer be.
LEMMA ClaimInv ==
  ASSUME IInv, NEW t \in Tasks, ClaimNext(t), UNCHANGED app
  PROVE  IInv'
<1> USE DEF sideVars
<1>1. CASE Claim(t) \/ WaitClaim(t)
  <2>1. phase = "run" /\ state = "CLAIM_COMMITED" /\ offer = "good" /\ learnt = "good"
    BY <1>1 DEF Claim, WaitClaim, Called, Running, IInv, AllBacked, Backed
  <2>2. PICK next \in {"claim:send", "wcl:poll"} : Goto(t, next) /\ Still /\ Frame
    BY <1>1 DEF Claim, WaitClaim
  <2>3. InHand(t)'
    BY <2>1, <2>2 DEF InHand, SyncLabels, Goto, IInv, TypeOK, Frame, Still, recordVars, lpVars
  <2>4. next \in Labels /\ noted' = noted /\ noted \in [Tasks -> Notes] /\ state \in Committed
    BY <2>1, <2>2 DEF Labels, IInv, TypeOK, ReceiveTypeOK, Frame, Committed
  <2> QED
    BY <2>1, <2>2, <2>3, <2>4, QuietInv DEF ClaimNext, Frame
<1>2. CASE ClaimSend(t)
  <2>1. phase = "run" /\ offer = "good" /\ Revealing
    BY <1>2, Where DEF ClaimSend, SyncLabels, Revealing, IInv, InHand
  <2>2. CASE Reveal("claim") /\ Goto(t, "claim:confirm")
    BY <1>2, <2>1, <2>2, RevealInv DEF ClaimSend, ClaimNext
  <2>3. CASE UNCHANGED worldVars /\ Goto(t, "idle")
    <3>1. InHand(t)' /\ "idle" \in Labels /\ noted' = noted /\ noted \in [Tasks -> Notes]
      BY <1>2, <2>3 DEF InHand, SyncLabels, Goto, IInv, TypeOK, ReceiveTypeOK, ClaimSend, Labels
    <3> QED
      BY <1>2, <2>1, <2>3, <3>1, QuietInv DEF ClaimSend, ClaimNext
  <2> QED
    BY <1>2, <2>2, <2>3 DEF ClaimSend
<1>3. CASE ClaimConfirmed(t) \/ WatchClaim(t)
  <2>1. phase = "run"
    BY <1>3, Where DEF ClaimConfirmed, WatchClaim, SyncLabels
  <2>2. CASE Goto(t, "idle") /\ Still
    <3>1. InHand(t)' /\ "idle" \in Labels /\ noted' = noted /\ noted \in [Tasks -> Notes] /\ Frame
      BY <1>3, <2>2 DEF InHand, SyncLabels, Goto, IInv, TypeOK, ReceiveTypeOK, ClaimConfirmed,
                        WatchClaim, Frame, Labels
    <3> QED
      BY <2>1, <2>2, <3>1, QuietInv DEF ClaimNext, Frame
  <2>3. ASSUME NEW s \in {"CLAIM_CLAIMED", "FAILED"}, EmitFrom(t, s, "saving"),
               IF s = "CLAIM_CLAIMED" THEN escrow = "paid" ELSE Ended
        PROVE  IInv'
    <3>1. Backed(s, learnt) /\ s \in ReceiveStates \cap Committed
      BY <2>3 DEF Backed, ReceiveStates, Committed
    <3>2. Frame
      BY <1>3 DEF ClaimConfirmed, WatchClaim
    <3> QED
      BY <2>1, <2>3, <3>1, <3>2, EmitInv DEF ClaimNext
  <2>4. CASE ClaimConfirmed(t)
    BY <2>2, <2>3, <2>4 DEF ClaimConfirmed, EmitIf
  <2>5. CASE WatchClaim(t)
    <3>1. offer = "good" /\ learnt = "good" /\ escrow # "none"
      BY <2>5 DEF WatchClaim, IInv, InHand, Chain
    <3>2. /\ "PAID" \in Answers => escrow = "paid"
          /\ {"NOT_COMMITED", "EXPIRED"} \cap Answers # {} => Ended
      BY <3>1 DEF Answers, StatusOf, IInv, Chain, TypeOK, ReceiveTypeOK, Ended
    <3>3. CASE "PAID" \in Answers /\ EmitFrom(t, "CLAIM_CLAIMED", "saving")
      BY <2>3, <3>2, <3>3
    <3>4. CASE /\ {"NOT_COMMITED", "EXPIRED"} \cap Answers # {}
               /\ EmitFrom(t, "FAILED", "saving")
      BY <2>3, <3>2, <3>4
    <3> QED
      BY <2>2, <2>5, <3>3, <3>4 DEF WatchClaim, EmitIf
  <2> QED
    BY <1>3, <2>4, <2>5
<1> QED
  BY <1>1, <1>2, <1>3 DEF ClaimNext

-----------------------------------------------------------------------------
(* waitForPayment *)

\* Paying the invoice and waiting for the LP's escrow: the swap becomes PR_PAID
\* with the quoted terms only, and CLAIM_COMMITED on an answer about that escrow.
LEMMA PayInv ==
  ASSUME IInv, NEW t \in Tasks, PayNext(t), UNCHANGED app
  PROVE  IInv'
<1> USE DEF sideVars
<1>0. noted \in [Tasks -> Notes] /\ pc \in [Tasks -> Labels] /\ listening \in BOOLEAN /\ casting \in BOOLEAN
      /\ initiated \in BOOLEAN /\ learnt \in {"none", "good"} /\ state \in ReceiveStates
      /\ Backed(state, learnt) /\ (sent # {} \/ casting => offer = "good") /\ (listening => phase = "run")
  BY DEF IInv, TypeOK, ReceiveTypeOK, AllBacked, Chain, Phases
<1>1. phase = "run"
  BY Where DEF PayNext, Pay, PayPoll, PayCheck, PayApply, WatchCommit, WaitCommitDone, PayFail,
               Called, Running, SyncLabels
<1>2. ASSUME NEW next \in {"idle", "pay:check", "pay:gone", "pay:paid", "wc:poll", "wc:expiry",
                           "wc:yes", "wc:no"},
             Goto(t, next), Still, Frame, UNCHANGED sideVars,
             next = "pay:gone" => lp = "gone", next = "wc:no" => Ended,
             next = "wc:yes" => offer = "good" /\ learnt = "good"
      PROVE  IInv'
  <2>1. UNCHANGED <<lp, offer, learnt, passed>> /\ noted' = noted
    BY <1>2 DEF Frame, Still, recordVars, lpVars, worldVars
  <2>2. pc'[t] = next
    BY <1>0, <1>2 DEF Goto
  <2>3. InHand(t)'
    BY <1>2, <2>1, <2>2 DEF InHand, SyncLabels, Ended
  <2>4. next \in Labels
    BY DEF Labels
  <2> QED
    BY <1>0, <1>1, <1>2, <2>1, <2>3, <2>4, QuietInv DEF Frame
<1>3. CASE Pay(t)
  <2>1. PICK next \in {"pay:poll", "wc:poll"} : Goto(t, next)
    BY <1>3 DEF Pay
  <2>2. /\ UNCHANGED <<escrow, passed, lp, offer, durable, restarts, phase, app, events, sent, state, learnt,
                       listening, casting, noted>>
        /\ initiated' \in BOOLEAN
        /\ recorded' \in {recorded, Persisted(state', learnt', initiated')}
    BY <1>0, <1>3 DEF Pay, Frame, Alive, lifeVars, worldVars, lpVars, Still, recordVars, SaveWith
  <2>3. pc' \in [Tasks -> Labels] /\ pc'[t] = next /\ \A u \in Tasks \ {t} : pc'[u] = pc[u]
    BY <1>0, <2>1 DEF Goto, Labels
  <2>4. InHand(t)'
    BY <2>3 DEF InHand, SyncLabels
  <2>5. Moves
    BY <1>0, <1>1, <2>2, <2>3, <2>4 DEF Moves
  <2>6. Reveals
    BY <2>2, <2>3 DEF Reveals, Revealing
  <2>7. Backed(state', learnt') /\ learnt' \in {learnt, "good"} /\ state' \in ReceiveStates
    BY <1>0, <2>2
  <2> QED
    BY <1>0, <2>2, <2>5, <2>6, <2>7, StepInv
<1>4. CASE PayPoll(t) \/ PayCheck(t) \/ PayFail(t)
  <2>1. PICK next \in {"idle", "pay:check", "pay:gone", "pay:paid"} :
          Goto(t, next) /\ (next = "pay:gone" => lp = "gone")
    BY <1>4 DEF PayPoll, PayCheck, PayFail, LpAnswer
  <2>2. Still /\ Frame /\ UNCHANGED sideVars
    BY <1>4 DEF PayPoll, PayCheck, PayFail
  <2> QED
    BY <1>2, <2>1, <2>2
<1>5. CASE WatchCommit(t)
  <2>1. PICK next \in {"wc:poll", "wc:expiry", "wc:yes", "wc:no"} :
          /\ Goto(t, next)
          /\ next = "wc:no" => Ended
          /\ next = "wc:yes" => offer = "good" /\ learnt = "good"
    <3>1. CASE pc[t] = "wc:poll"
      <4>1. PICK answer \in Answers :
               Goto(t, IF answer = "NOT_COMMITED" THEN "wc:expiry"
                       ELSE IF answer = "EXPIRED" THEN "wc:no" ELSE "wc:yes")
        BY <1>5, <3>1 DEF WatchCommit
      <4>2. answer \in {"NOT_COMMITED", "EXPIRED", "PAID", "COMMITED", "REFUNDABLE"}
        BY DEF Answers, StatusOf, IInv, TypeOK, ReceiveTypeOK
      <4>3. /\ answer = "EXPIRED" => Ended
            /\ answer \notin {"NOT_COMMITED", "EXPIRED"} => offer = "good" /\ learnt = "good"
        BY <4>2, AnswersTrue DEF Answered
      <4> QED
        BY <4>1, <4>3
    <3>2. CASE pc[t] = "wc:expiry"
      BY <1>5, <3>2 DEF WatchCommit, Ended
    <3> QED
      BY <1>5, <3>1, <3>2 DEF WatchCommit
  <2> QED
    BY <1>2, <1>5, <2>1 DEF WatchCommit
<1>6. CASE PayApply(t)
  <2>1. CASE pc[t] = "pay:paid" /\ state \in QuoteStates
    <3>1. /\ UNCHANGED <<escrow, passed, lp, offer, durable, restarts, phase, app, events, sent,
                         listening, casting, noted>>
          /\ initiated' = TRUE /\ state' = "PR_PAID" /\ learnt' = "good"
          /\ recorded' = Persisted(state', learnt', initiated')
          /\ pc' = [Waked("PR_PAID") EXCEPT ![t] = "wc:poll"]
      BY <1>6, <2>1 DEF PayApply, Frame, Alive, lifeVars, worldVars, lpVars, SaveWith
    <3>2. pc' \in [Tasks -> Labels] /\ pc'[t] = "wc:poll" /\ \A u \in Tasks \ {t} : pc'[u] = Waked("PR_PAID")[u]
      BY <3>1, WakedMoves DEF Labels
    <3>3. InHand(t)'
      BY <3>2 DEF InHand, SyncLabels
    <3>4. Moves
      BY <1>0, <1>1, <3>1, <3>2, <3>3, WakedMoves DEF Moves
    <3>5. Reveals
      BY <2>1, <3>1, <3>2, WakedMoves DEF Reveals, Revealing, QuoteStates, Committed
    <3>6. Backed(state', learnt') /\ learnt' \in {learnt, "good"} /\ state' \in ReceiveStates
      BY <3>1 DEF Backed, ReceiveStates
    <3> QED
      BY <1>0, <1>1, <3>1, <3>4, <3>5, <3>6, StepInv
  <2>2. CASE pc[t] = "pay:paid" /\ state \notin QuoteStates
    BY <1>2, <1>6, <2>2 DEF PayApply
  <2>3. CASE pc[t] = "pay:gone"
    <3>1. EmitIf(t, QuoteStates, "QUOTE_EXPIRED") /\ Frame /\ UNCHANGED sideVars
      BY <1>6, <2>3 DEF PayApply
    <3>2. Backed("QUOTE_EXPIRED", learnt) /\ "QUOTE_EXPIRED" \in ReceiveStates /\ QuoteStates \cap Committed = {}
      BY DEF Backed, ReceiveStates, QuoteStates, Committed
    <3> QED
      BY <1>1, <3>1, <3>2, EmitIfInv
  <2> QED
    BY <1>6, <2>1, <2>2, <2>3 DEF PayApply
<1>7. CASE WaitCommitDone(t)
  <2>1. CASE pc[t] = "wc:no" /\ EmitIf(t, {"PR_PAID"}, "EXPIRED") /\ UNCHANGED casting
    <3>1. Backed("EXPIRED", learnt) /\ "EXPIRED" \in ReceiveStates \cap Committed
      BY <2>1 DEF Backed, ReceiveStates, Committed, IInv, InHand
    <3> QED
      BY <1>1, <1>7, <2>1, <3>1, EmitIfInv DEF WaitCommitDone
  <2>2. CASE pc[t] = "wc:yes" /\ EmitIf(t, {"PR_PAID"}, "CLAIM_COMMITED") /\ Cast
    <3>1. Backed("CLAIM_COMMITED", learnt) /\ "CLAIM_COMMITED" \in ReceiveStates \cap Committed
      BY <2>2 DEF Backed, ReceiveStates, Committed, IInv, InHand
    <3> QED
      BY <1>1, <1>7, <2>2, <3>1, EmitIfInv DEF WaitCommitDone
  <2> QED
    BY <1>7, <2>1, <2>2 DEF WaitCommitDone
<1> QED
  BY <1>3, <1>4, <1>5, <1>6, <1>7 DEF PayNext

-----------------------------------------------------------------------------
(* checkPastSwaps *)

\* A sync that only goes on to its next await, with what it noted.
LEMMA SyncQuietInv ==
  ASSUME IInv, NEW t \in Tasks, pc[t] \in SyncLabels, NEW next \in SyncLabels \cup {"idle"},
         NEW note \in Notes, Goto(t, next), noted' = [noted EXCEPT ![t] = note], Still, Alive,
         UNCHANGED <<worldVars, lpVars, sideVars, app>>,
         next = "sync:gone" => lp = "gone", next = "sync:status" => learnt = "good",
         next = "sync:apply" => Answered(note.status)
  PROVE  IInv'
<1>1. /\ UNCHANGED <<escrow, passed, lp, offer, phase, app, learnt, state, listening, casting>>
  BY DEF Still, Alive, recordVars, lifeVars, worldVars, lpVars, sideVars
<1>2. /\ noted \in [Tasks -> Notes] /\ pc \in [Tasks -> Labels]
      /\ next \in Labels
  BY DEF IInv, TypeOK, ReceiveTypeOK, Labels, SyncLabels
<1>3. noted' \in [Tasks -> Notes] /\ noted'[t] = note /\ \A u \in Tasks \ {t} : noted'[u] = noted[u]
  BY <1>2
<1>4. pc'[t] = next
  BY <1>2 DEF Goto
<1>5. (pc[t] \in SyncLabels => phase = "syncing" \/ <<t, "sync">> \in app)
  BY DEF IInv, InHand
<1>6. pc[t] # "idle"
  BY DEF SyncLabels
<1>7. phase = "run" \/ (phase = "syncing" /\ t = Starter)
  BY <1>6, Where
<1>8. Answered(note.status)' <=> Answered(note.status)
  BY <1>1 DEF Answered, Ended, Makes
<1>9. InHand(t)'
  BY <1>1, <1>3, <1>4, <1>5, <1>8 DEF InHand, SyncLabels
<1>10. next # "claim:send" /\ next \in SyncLabels \cup {"idle", "saving"}
  BY DEF SyncLabels
<1> QED
  BY <1>1, <1>2, <1>3, <1>7, <1>9, <1>10, QuietInv

\* The sync of wrapper.init() and one the application asks for start alike.
LEMMA SyncStartInv ==
  ASSUME IInv, NEW t \in Tasks, SyncStart(t), UNCHANGED app
  PROVE  IInv'
<1>1. PICK next \in {"sync:lp", "sync:expiry"} : Goto(t, next)
  BY DEF SyncStart
<1>2. /\ UNCHANGED <<escrow, passed, sent, events, lp, offer, durable, restarts, app, state, learnt, initiated,
                     recorded, listening, casting, noted>>
  BY DEF SyncStart, Still, recordVars, worldVars, lpVars, sideVars
<1>3. noted \in [Tasks -> Notes] /\ pc \in [Tasks -> Labels] /\ next \in Labels
  BY DEF IInv, TypeOK, ReceiveTypeOK, Labels
<1>4. pc' \in [Tasks -> Labels] /\ pc'[t] = next /\ \A u \in Tasks \ {t} : pc'[u] = pc[u]
  BY <1>1, <1>3 DEF Goto
<1>5. CASE Called(t, "sync") /\ UNCHANGED phase
  <2>1. phase = "run" /\ <<t, "sync">> \in app
    BY <1>5 DEF Called, Running
  <2>2. InHand(t)'
    BY <1>2, <1>4, <2>1 DEF InHand, SyncLabels
  <2>3. Still /\ UNCHANGED <<worldVars, lpVars, sideVars>> /\ Alive
    BY <1>2, <1>5 DEF SyncStart, Alive, lifeVars
  <2> QED
    BY <1>1, <1>2, <1>3, <2>1, <2>2, <2>3, QuietInv
<1>6. CASE t = Starter /\ phase = "init" /\ phase' = "syncing"
  <2>1. \A u \in Tasks : pc[u] = "idle"
    BY <1>6 DEF IInv, Phases
  <2>2. ~listening /\ restarts > 0
    BY <1>6 DEF IInv, Phases
  <2>3. TypeOK'
    BY <1>2, <1>4, <1>6 DEF IInv, TypeOK, ReceiveTypeOK
  <2>4. AllBacked' /\ Chain'
    BY <1>2 DEF IInv, AllBacked, Backed, Ended, Makes, Chain
  <2>5. EventsTrue'
    BY <1>2 DEF IInv, EventsTrue, EventTrue, Announced
  <2>6. Phases'
    BY <1>2, <1>4, <1>6, <2>1, <2>2 DEF Phases, SyncLabels
  <2>7. Shown'
    BY <1>2, <2>2 DEF Shown, IInv, TypeOK, ReceiveTypeOK
  <2>8. \A u \in Tasks : InHand(u)'
    BY <1>2, <1>4, <1>6, <2>1 DEF InHand, SyncLabels
  <2> QED
    BY <2>3, <2>4, <2>5, <2>6, <2>7, <2>8 DEF IInv
<1> QED
  BY <1>5, <1>6 DEF SyncStart

\* The LP's answer, the expiry and the commit status are asked for in turn.
LEMMA SyncAskInv ==
  ASSUME IInv, NEW t \in Tasks, UNCHANGED app,
         SyncAskLp(t) \/ SyncCheck(t) \/ SyncExpiry(t) \/ SyncStatus(t)
  PROVE  IInv'
<1> USE DEF sideVars
<1>1. noted[t] \in Notes /\ noted = [noted EXCEPT ![t] = noted[t]]
  BY DEF IInv, TypeOK, ReceiveTypeOK
<1>2. CASE SyncAskLp(t) \/ SyncCheck(t)
  <2>1. PICK next \in {"sync:check", "sync:gone", "sync:paid", "sync:expiry"} :
          Goto(t, next) /\ (next = "sync:gone" => lp = "gone")
    BY <1>2 DEF SyncAskLp, SyncCheck, LpAnswer
  <2>2. /\ pc[t] \in SyncLabels /\ next \in SyncLabels
        /\ noted' = [noted EXCEPT ![t] = noted[t]]
    BY <1>1, <1>2 DEF SyncAskLp, SyncCheck, SyncLabels, Frame
  <2>3. Still /\ Alive /\ UNCHANGED <<worldVars, lpVars, sideVars>>
    BY <1>2 DEF SyncAskLp, SyncCheck, Frame
  <2> QED
    BY <1>1, <2>1, <2>2, <2>3, SyncQuietInv
<1>3. CASE SyncExpiry(t)
  <2>1. PICK next \in {"sync:status", "sync:end"} :
          Goto(t, next) /\ (next = "sync:status" => learnt # "none")
    BY <1>3 DEF SyncExpiry
  <2>2. next = "sync:status" => learnt = "good"
    BY <2>1 DEF IInv, AllBacked
  <2> DEFINE note == [noted[t] EXCEPT !.expired = state = "PR_PAID" /\ "quote" \in passed]
  <2>3. noted' = [noted EXCEPT ![t] = note] /\ note \in Notes
    BY <1>1, <1>3 DEF SyncExpiry, Notes
  <2>4. pc[t] \in SyncLabels /\ next \in SyncLabels /\ next # "sync:gone" /\ next # "sync:apply"
    BY <1>3 DEF SyncExpiry, SyncLabels
  <2> HIDE DEF note
  <2> QED
    BY <1>3, <2>1, <2>2, <2>3, <2>4, SyncQuietInv DEF SyncExpiry
<1>4. CASE SyncStatus(t)
  <2>1. PICK answer \in Answers : noted' = [noted EXCEPT ![t].status = answer]
    BY <1>4 DEF SyncStatus
  <2>2. Answered(answer)
    BY AnswersTrue
  <2> DEFINE note == [noted[t] EXCEPT !.status = answer]
  <2>3. answer \in {"NOT_COMMITED", "EXPIRED", "PAID", "COMMITED", "REFUNDABLE"}
    BY DEF Answers, StatusOf, IInv, TypeOK, ReceiveTypeOK
  <2>4. noted' = [noted EXCEPT ![t] = note] /\ note \in Notes /\ note.status = answer
    BY <1>1, <2>1, <2>3 DEF Notes
  <2>5. pc[t] \in SyncLabels /\ "sync:apply" \in SyncLabels
    BY <1>4 DEF SyncStatus, SyncLabels
  <2> HIDE DEF note
  <2> QED
    BY <1>4, <2>2, <2>4, <2>5, SyncQuietInv DEF SyncStatus
<1> QED
  BY <1>2, <1>3, <1>4

\* A sync that fails ends as it stands.
LEMMA SyncFailInv ==
  ASSUME IInv, NEW t \in Tasks, SyncFail(t), UNCHANGED app
  PROVE  IInv'
<1>1. noted' \in [Tasks -> Notes] /\ \A u \in Tasks \ {t} : noted'[u] = noted[u]
  BY DEF SyncFail, Nothing, Notes, IInv, TypeOK, ReceiveTypeOK
<1>2. InHand(t)' /\ "idle" \in Labels
  BY DEF SyncFail, Goto, InHand, SyncLabels, Labels, IInv, TypeOK
<1> QED
  BY <1>1, <1>2, QuietInv DEF SyncFail, sideVars

\* What the sync makes of the answers is what they still prove, and a swap that
\* was committed does not fall back to a quote.
LEMMA SyncedStateBacked ==
  ASSUME IInv, NEW t \in Tasks, pc[t] = "sync:apply"
  PROVE  /\ SyncedState(t) \in ReceiveStates
         /\ Backed(SyncedState(t), learnt)
         /\ state \in Committed => SyncedState(t) \in Committed
<1>1. Answered(noted[t].status) /\ Backed(state, learnt) /\ state \in ReceiveStates
  BY DEF IInv, InHand, AllBacked, TypeOK, ReceiveTypeOK
<1>2. noted[t].status \in {"NOT_COMMITED", "COMMITED", "REFUNDABLE", "PAID", "EXPIRED"}
  BY DEF IInv, TypeOK, ReceiveTypeOK, Notes
<1>3. SyncedState(t) \in ReceiveStates
  BY <1>1 DEF SyncedState, ReceiveStates
<1>4. Backed(SyncedState(t), learnt)
  BY <1>1, <1>2 DEF SyncedState, Backed, Answered, Makes
<1>5. state \in Committed => SyncedState(t) \in Committed
  BY <1>1 DEF SyncedState, Committed
<1> QED
  BY <1>3, <1>4, <1>5

\* The LP's answer is taken by a quote, its word that the quote expired by any
\* swap: but then the LP's escrow is not there.
LEMMA SyncLpApplyInv ==
  ASSUME IInv, NEW t \in Tasks, SyncLpApply(t), UNCHANGED app
  PROVE  IInv'
<1>0. noted \in [Tasks -> Notes] /\ pc \in [Tasks -> Labels] /\ listening \in BOOLEAN /\ casting \in BOOLEAN
      /\ initiated \in BOOLEAN /\ learnt \in {"none", "good"} /\ state \in ReceiveStates
      /\ Backed(state, learnt) /\ (sent # {} \/ casting => offer = "good") /\ (listening => phase = "run")
  BY DEF IInv, TypeOK, ReceiveTypeOK, AllBacked, Chain, Phases
<1>1. /\ UNCHANGED <<escrow, passed, lp, offer, durable, restarts, phase, app, events, sent, recorded,
                     listening, casting>>
      /\ noted' = [noted EXCEPT ![t].changed = TRUE]
      /\ Goto(t, "sync:expiry")
  BY DEF SyncLpApply, Alive, lifeVars, worldVars, lpVars, sideVars
<1>2. pc' \in [Tasks -> Labels] /\ pc'[t] = "sync:expiry" /\ \A u \in Tasks \ {t} : pc'[u] = pc[u]
  BY <1>0, <1>1 DEF Goto, Labels
<1>3. noted' \in [Tasks -> Notes] /\ \A u \in Tasks \ {t} : noted'[u] = noted[u]
  BY <1>0, <1>1 DEF Notes
<1>4. pc[t] \in SyncLabels /\ pc[t] # "idle"
  BY DEF SyncLpApply, SyncLabels
<1>5. phase = "run" \/ (phase = "syncing" /\ t = Starter)
  BY <1>4, Where
<1>6. InHand(t)'
  BY <1>1, <1>2, <1>4 DEF InHand, SyncLabels, IInv
<1>7. Moves
  BY <1>2, <1>3, <1>5, <1>6 DEF Moves, SyncLabels
<1>8. Revealing' <=> Revealing
  BY <1>1, <1>2, <1>4 DEF Revealing, SyncLabels
<1>9. phase = "run" \/ pc'[Starter] # "sync:apply"
  BY <1>2, <1>5
<1>10. CASE pc[t] = "sync:paid"
  <2>1. /\ state' \in ReceiveStates /\ initiated' \in BOOLEAN /\ learnt' \in {learnt, "good"}
        /\ Backed(state', learnt')
    BY <1>0, <1>10 DEF SyncLpApply, Backed, ReceiveStates
  <2>2. Reveals
    BY <1>8, <1>10 DEF SyncLpApply, Reveals, Committed, QuoteStates
  <2> QED
    BY <1>0, <1>1, <1>7, <1>9, <2>1, <2>2, StepInv
<1>11. CASE pc[t] = "sync:gone"
  <2>1. /\ state' = "QUOTE_EXPIRED" /\ initiated' \in BOOLEAN /\ learnt' \in {learnt, "good"}
        /\ Backed(state', learnt') /\ state' \in ReceiveStates
    BY <1>11 DEF SyncLpApply, Backed, ReceiveStates
  <2>2. escrow \notin {"open", "paid"}
    BY <1>11 DEF IInv, InHand, Chain
  <2>3. Reveals
    BY <1>8, <2>2 DEF Reveals
  <2> QED
    BY <1>0, <1>1, <1>7, <1>9, <2>1, <2>3, StepInv
<1> QED
  BY <1>10, <1>11 DEF SyncLpApply

\* The answers are applied, and a committed swap's secret is broadcast.
LEMMA SyncApplyInv ==
  ASSUME IInv, NEW t \in Tasks, SyncApply(t), UNCHANGED app
  PROVE  IInv'
<1>0. noted \in [Tasks -> Notes] /\ pc \in [Tasks -> Labels] /\ listening \in BOOLEAN /\ casting \in BOOLEAN
      /\ initiated \in BOOLEAN /\ (sent # {} \/ casting => offer = "good") /\ (listening => phase = "run")
  BY DEF IInv, TypeOK, ReceiveTypeOK, Chain, Phases
<1>1. /\ UNCHANGED <<escrow, passed, lp, offer, durable, restarts, phase, app, events, sent, recorded,
                     listening, learnt, initiated>>
      /\ Goto(t, "sync:end") /\ state' = SyncedState(t)
  BY DEF SyncApply, Alive, lifeVars, worldVars, lpVars
<1>2. pc' \in [Tasks -> Labels] /\ pc'[t] = "sync:end" /\ \A u \in Tasks \ {t} : pc'[u] = pc[u]
  BY <1>0, <1>1 DEF Goto, Labels
<1>3. noted' \in [Tasks -> Notes] /\ \A u \in Tasks \ {t} : noted'[u] = noted[u]
  <2>1. PICK b \in BOOLEAN : noted' = [noted EXCEPT ![t].changed = b]
    <3>1. noted[t].changed \in BOOLEAN
      BY <1>0 DEF Notes
    <3> QED
      BY <3>1 DEF SyncApply
  <2> QED
    BY <1>0, <2>1 DEF Notes
<1>4. pc[t] \in SyncLabels /\ pc[t] = "sync:apply" /\ pc[t] # "idle"
  BY DEF SyncApply, SyncLabels
<1>5. phase = "run" \/ (phase = "syncing" /\ t = Starter)
  BY <1>4, Where
<1>6. InHand(t)'
  BY <1>1, <1>2, <1>4 DEF InHand, SyncLabels, IInv
<1>7. Moves
  BY <1>2, <1>3, <1>5, <1>6 DEF Moves, SyncLabels
<1>8. /\ state' \in ReceiveStates /\ Backed(state', learnt')
      /\ state \in Committed => state' \in Committed
  BY <1>1, <1>4, SyncedStateBacked
<1>9. phase = "run" \/ pc'[Starter] # "sync:apply"
  BY <1>2, <1>5
<1>10. casting' = (casting \/ state' = "CLAIM_COMMITED")
  BY DEF SyncApply, Cast
<1>11. casting' \in BOOLEAN /\ (casting' => casting \/ state' = "CLAIM_COMMITED")
  BY <1>0, <1>10
<1>12. Reveals
  BY <1>1, <1>2, <1>4, <1>8, <1>11 DEF Reveals, Revealing, Committed
<1>13. sent' # {} \/ casting' => offer = "good"
  BY <1>0, <1>1, <1>8, <1>11 DEF Backed
<1> QED
  BY <1>0, <1>1, <1>7, <1>8, <1>9, <1>11, <1>12, <1>13, StepInv

\* A changed swap is saved and emitted at the end.
LEMMA SyncEndInv ==
  ASSUME IInv, NEW t \in Tasks, SyncEnd(t), UNCHANGED app
  PROVE  IInv'
<1>0. noted \in [Tasks -> Notes] /\ pc \in [Tasks -> Labels] /\ listening \in BOOLEAN /\ casting \in BOOLEAN
      /\ initiated \in BOOLEAN /\ learnt \in {"none", "good"} /\ state \in ReceiveStates
      /\ Backed(state, learnt) /\ (sent # {} \/ casting => offer = "good") /\ (listening => phase = "run")
  BY DEF IInv, TypeOK, ReceiveTypeOK, AllBacked, Chain, Phases
<1>1. PICK next \in {"saving", "idle"} : Goto(t, next)
  BY DEF SyncEnd
<1>2. /\ UNCHANGED <<escrow, passed, lp, offer, durable, restarts, phase, app, events, sent, state, learnt,
                     initiated, listening, casting>>
      /\ recorded' \in {recorded, Persisted(state', learnt', initiated')}
  BY DEF SyncEnd, Alive, lifeVars, worldVars, lpVars, sideVars, SaveAs, SaveWith, Still, recordVars
<1>3. noted' \in [Tasks -> Notes] /\ \A u \in Tasks \ {t} : noted'[u] = noted[u]
  BY <1>0 DEF SyncEnd, Notes, Nothing
<1>4. pc' \in [Tasks -> Labels] /\ pc'[t] = next /\ \A u \in Tasks \ {t} : pc'[u] = pc[u]
  BY <1>0, <1>1 DEF Goto, Labels
<1>5. pc[t] \in SyncLabels /\ pc[t] # "idle"
  BY DEF SyncEnd, SyncLabels
<1>6. phase = "run" \/ (phase = "syncing" /\ t = Starter)
  BY <1>5, Where DEF SyncEnd
<1>7. InHand(t)'
  BY <1>4 DEF InHand, SyncLabels
<1>8. Moves
  BY <1>3, <1>4, <1>6, <1>7 DEF Moves
<1>9. Reveals
  BY <1>2, <1>4 DEF Reveals, Revealing
<1>10. Backed(state', learnt') /\ learnt' \in {learnt, "good"} /\ state' \in ReceiveStates
  BY <1>0, <1>2
<1> QED
  BY <1>0, <1>2, <1>8, <1>9, <1>10, StepInv
-----------------------------------------------------------------------------
(* Contract events and broadcasts under way *)

\* What the listener or a broadcast under way does to the swap is backed, and
\* wakes calls at most.
LEMMA AsideInv ==
  ASSUME IInv, NEW s \in ReceiveStates, NEW known \in {learnt, "good"}, NEW begun \in BOOLEAN,
         SaveWith(s, known, begun), pc' = Waked(s), Backed(s, known), s \in Committed,
         UNCHANGED <<escrow, passed, sent, noted, app>>, Alive, UNCHANGED lpVars, phase = "run",
         events' = events \/ \E e : NextEvent(e), listening' \in BOOLEAN,
         casting' = casting \/ casting' = (casting \/ s = "CLAIM_COMMITED")
  PROVE  IInv'
<1>1. /\ UNCHANGED <<escrow, passed, lp, offer, durable, restarts, phase, app, sent, noted>>
      /\ state' = s /\ learnt' = known /\ initiated' = begun
      /\ recorded' = Persisted(state', learnt', initiated')
  BY DEF SaveWith, Alive, lifeVars, lpVars
<1>2. noted \in [Tasks -> Notes] /\ casting \in BOOLEAN /\ (sent # {} \/ casting => offer = "good")
  BY DEF IInv, TypeOK, ReceiveTypeOK, Chain
<1>3. Moves
  BY <1>1, <1>2, WakedMoves DEF Moves
<1>4. casting' \in BOOLEAN /\ (casting' => casting \/ s = "CLAIM_COMMITED")
  BY <1>2, CastStarts
<1>5. Reveals
  BY <1>1 DEF Reveals
<1>6. sent' # {} \/ casting' => offer = "good"
  BY <1>1, <1>2, <1>4 DEF Backed
<1>7. Backed(state', learnt')
  BY <1>1
<1> QED
  BY <1>1, <1>3, <1>4, <1>5, <1>6, <1>7, StepInv

\* Nothing happens to the swap: an event is taken, or data awaited, or a broadcast ends.
LEMMA IdleInv ==
  ASSUME IInv, Still, Alive, UNCHANGED <<escrow, passed, pc, noted, app, lpVars>>,
         sent' \in {sent, sent \cup {"secret"}}, sent' # sent => casting,
         events' = events \/ \E e : NextEvent(e), listening' \in BOOLEAN, listening' => phase = "run",
         casting' = casting \/ casting' = FALSE
  PROVE  IInv'
<1>1. /\ UNCHANGED <<escrow, passed, lp, offer, durable, restarts, phase, app, noted, state, learnt,
                     initiated, recorded>>
  BY DEF Still, Alive, recordVars, lifeVars, lpVars
<1>2. /\ noted \in [Tasks -> Notes] /\ casting \in BOOLEAN /\ (sent # {} \/ casting => offer = "good")
      /\ pc \in [Tasks -> Labels] /\ state \in ReceiveStates /\ initiated \in BOOLEAN /\ Backed(state, learnt)
  BY DEF IInv, TypeOK, ReceiveTypeOK, Chain, AllBacked
<1>3. Moves
  BY <1>1, <1>2 DEF Moves
<1>4. casting' \in BOOLEAN /\ (casting' => casting)
  <2>1. CASE casting' = casting
    BY <1>2, <2>1
  <2>2. CASE casting' = FALSE
    <3>1. ~casting' /\ casting' \in BOOLEAN
      BY <2>2
    <3> QED
      BY <3>1
  <2> QED
    BY <2>1, <2>2
<1>5. sent' # {} => sent # {} \/ casting
  OBVIOUS
<1>6. Reveals
  BY <1>1, <1>4, <1>5 DEF Reveals, Revealing
<1>7. sent' # {} \/ casting' => offer = "good"
  BY <1>2, <1>4, <1>5
<1>8. Backed(state', learnt')
  BY <1>1, <1>2
<1> QED
  BY <1>1, <1>2, <1>3, <1>4, <1>6, <1>7, <1>8, StepInv

\* An event found for the swap is true of the escrow the swap knows.
LEMMA FoundTrue ==
  ASSUME IInv, NEW e \in {"init", "claim", "refund"}, NextEvent(e)
  PROVE  /\ EventTrue(e) /\ phase = "run"
         /\ offer = learnt => offer = "good" /\ learnt = "good"
<1>1. EventTrue(e)
  BY NextAnnounced DEF IInv, EventsTrue, TypeOK
<1>2. offer # "none"
  BY <1>1 DEF EventTrue, IInv, Chain
<1> QED
  BY <1>1, <1>2 DEF NextEvent, IInv, AllBacked

\* The listener applies what the contract says, and a swap that did not know
\* its escrow is committed after its terms were verified.
LEMMA ListenerInv ==
  ASSUME IInv, ListenerNext, UNCHANGED app
  PROVE  IInv'
<1> USE DEF sideVars
<1>0. listening \in BOOLEAN /\ casting \in BOOLEAN /\ initiated \in BOOLEAN /\ learnt \in {"none", "good"}
      /\ (listening => phase = "run")
  BY DEF IInv, TypeOK, ReceiveTypeOK, AllBacked, Phases
<1>1. Alive /\ UNCHANGED <<noted, lpVars>>
  BY DEF ListenerNext
<1>2. ASSUME NEW e \in {"init", "claim", "refund"}, NextEvent(e), Still, UNCHANGED <<pc, casting>>,
             listening' = listening \/ listening' = TRUE
      PROVE  IInv'
  <2>1. UNCHANGED <<escrow, passed, sent>> /\ phase = "run"
    BY <1>2 DEF NextEvent
  <2>2. listening' \in BOOLEAN
    BY <1>0, <1>2
  <2> QED
    BY <1>1, <1>2, <2>1, <2>2, IdleInv
<1>3. ASSUME NEW e \in {"init", "claim", "refund"}, NextEvent(e), NEW s \in Committed, SaveAs(s), pc' = Waked(s),
             UNCHANGED listening, Backed(s, learnt),
             casting' = casting \/ casting' = (casting \/ s = "CLAIM_COMMITED")
      PROVE  IInv'
  <2>1. UNCHANGED <<escrow, passed, sent>> /\ phase = "run"
    BY <1>3 DEF NextEvent
  <2>2. listening' \in BOOLEAN /\ s \in ReceiveStates
    BY <1>0, <1>3 DEF Committed, ReceiveStates
  <2>3. SaveWith(s, learnt, initiated)
    BY <1>3 DEF SaveAs
  <2> QED
    BY <1>0, <1>1, <1>3, <2>1, <2>2, <2>3, AsideInv
<1>4. CASE OnInit
  <2>1. CASE Found("init") /\ state \in InitStates /\ learnt = offer
    <3>1. SaveAs("CLAIM_COMMITED") /\ pc' = Waked("CLAIM_COMMITED") /\ Cast /\ NextEvent("init")
          /\ UNCHANGED listening
      BY <1>4, <2>1 DEF OnInit
    <3>2. Backed("CLAIM_COMMITED", learnt) /\ "CLAIM_COMMITED" \in Committed
      BY <2>1, <3>1, FoundTrue DEF Backed, Committed
    <3>3. casting' = (casting \/ "CLAIM_COMMITED" = "CLAIM_COMMITED")
      BY <3>1 DEF Cast, SaveAs, SaveWith
    <3> QED
      BY <1>3, <3>1, <3>2, <3>3
  <2>2. CASE ~(Found("init") /\ state \in InitStates /\ learnt = offer)
    BY <1>2, <1>4, <2>2 DEF OnInit
  <2> QED
    BY <2>1, <2>2
<1>5. CASE OnInitUnknown
  BY <1>2, <1>5 DEF OnInitUnknown
<1>6. CASE OnSettled
  <2>1. PICK e \in {"claim", "refund"} :
          /\ NextEvent(e)
          /\ IF Found(e) /\ state \notin {"CLAIM_CLAIMED", "FAILED"}
               THEN LET s == IF e = "claim" THEN "CLAIM_CLAIMED" ELSE "FAILED"
                    IN SaveAs(s) /\ pc' = Waked(s)
               ELSE Still /\ UNCHANGED pc
    BY <1>6 DEF OnSettled
  <2>2. UNCHANGED <<listening, casting>>
    BY <1>6 DEF OnSettled
  <2>3. ASSUME NEW s, s = IF e = "claim" THEN "CLAIM_CLAIMED" ELSE "FAILED", SaveAs(s), pc' = Waked(s)
        PROVE  IInv'
    <3>1. EventTrue(e)
      BY <2>1, FoundTrue
    <3>2. Backed(s, learnt) /\ s \in Committed
      BY <2>3, <3>1 DEF Backed, Committed, EventTrue, IInv, Chain
    <3> QED
      BY <1>3, <2>1, <2>2, <2>3, <3>2
  <2>4. CASE Still /\ UNCHANGED pc
    BY <1>2, <2>1, <2>2, <2>4
  <2> QED
    BY <2>1, <2>3, <2>4
<1>7. CASE listening /\ OnInitData
  <2>1. phase = "run" /\ UNCHANGED worldVars /\ listening' = FALSE
    BY <1>0, <1>7 DEF OnInitData
  <2>2. CASE Still /\ UNCHANGED <<pc, casting>>
    <3>1. UNCHANGED <<escrow, passed, sent, events>> /\ listening' \in BOOLEAN
      BY <2>1 DEF worldVars
    <3> QED
      BY <1>1, <2>1, <2>2, <3>1, IdleInv
  <2>3. CASE ~(Still /\ UNCHANGED <<pc, casting>>)
    <3>1. PICK known \in {learnt, "good"} :
            /\ offer = "good" /\ known = "good"
            /\ SaveWith("CLAIM_COMMITED", known, TRUE)
            /\ pc' = Waked("CLAIM_COMMITED") /\ Cast
      BY <1>7, <2>3 DEF OnInitData, Verified
    <3>2. casting' = (casting \/ "CLAIM_COMMITED" = "CLAIM_COMMITED")
      BY <3>1 DEF Cast, SaveWith
    <3>3. Backed("CLAIM_COMMITED", known) /\ "CLAIM_COMMITED" \in Committed \cap ReceiveStates
      BY <3>1 DEF Backed, Committed, ReceiveStates
    <3>4. UNCHANGED <<escrow, passed, sent, events>> /\ listening' \in BOOLEAN
      BY <2>1 DEF worldVars
    <3> QED
      BY <1>1, <2>1, <3>1, <3>2, <3>3, <3>4, AsideInv
  <2> QED
    BY <2>2, <2>3
<1> QED
  BY <1>4, <1>5, <1>6, <1>7 DEF ListenerNext

\* A broadcast under way ends: the secret is out, or was not accepted.
LEMMA CastInv ==
  ASSUME IInv, CastDone, UNCHANGED app
  PROVE  IInv'
<1>1. /\ UNCHANGED <<escrow, passed, pc, noted, lpVars, listening, events>> /\ Still /\ Alive
      /\ sent' \in {sent, sent \cup {"secret"}} /\ casting /\ casting' = FALSE
  BY DEF CastDone, Reveal, worldVars
<1>2. listening' \in BOOLEAN /\ (listening' => phase = "run")
  BY <1>1 DEF IInv, TypeOK, Phases
<1> QED
  BY <1>1, <1>2, IdleInv

-----------------------------------------------------------------------------
(* The world, the storage and the life of the process *)

\* The world goes on: no deadline, escrow or event that was is taken back.
LEMMA EnvironmentInv ==
  ASSUME IInv, Environment, UNCHANGED app
  PROVE  IInv'
<1>1. /\ UNCHANGED <<state, learnt, initiated, recorded, durable, phase, restarts, pc, noted, listening, casting>>
      /\ Still /\ Alive /\ UNCHANGED noted
  BY DEF Environment, Still, Alive, recordVars, lifeVars, sideVars
<1>2. ReceiveTypeOK'
  <2>1. CASE UNCHANGED worldVars
    BY <1>1, <2>1 DEF worldVars, IInv, TypeOK, ReceiveTypeOK
  <2>2. CASE LpOpen \/ ChainClaim \/ ChainRefund
    <3>1. CASE LpOpen
      BY <1>1, <3>1, EscrowStepType DEF LpOpen, IInv, TypeOK
    <3>2. CASE ChainClaim
      BY <1>1, <3>2, EscrowStepType DEF ChainClaim, IInv, TypeOK
    <3>3. CASE ChainRefund
      BY <1>1, <3>3, EscrowStepType DEF ChainRefund, IInv, TypeOK
    <3> QED
      BY <2>2, <3>1, <3>2, <3>3
  <2>3. CASE Clock
    <3>1. PICK d \in {"soft", "quote", "escrow"}, earlier \in SUBSET {"soft", "quote"} : Expire(d, earlier)
      BY <2>3 DEF Clock
    <3>2. d \in {"soft", "quote", "sig", "auth", "window", "send", "escrow"}
      OBVIOUS
    <3> QED
      BY <1>1, <3>1, <3>2, ExpireType DEF IInv, TypeOK
  <2> QED
    BY <2>1, <2>2, <2>3 DEF Environment
<1>3. \/ UNCHANGED <<escrow, events, passed, offer>> /\ (LpReceive \/ LpLetGo)
      \/ LpOpen /\ UNCHANGED lp
      \/ (ChainClaim \/ ChainRefund) /\ UNCHANGED <<lp, offer>>
      \/ Clock /\ UNCHANGED <<lp, offer, escrow, events>>
  BY DEF Environment, worldVars, lpVars, Clock, Expire
<1>4. /\ sent' = sent
      /\ Ended => Ended'
      /\ escrow' \in {escrow, "open", "paid", "refunded"}
      /\ escrow = "paid" => escrow' = "paid"
      /\ escrow = "refunded" => escrow' = "refunded"
      /\ escrow' \in {"open", "paid"} => escrow' = escrow \/ escrow = "open" \/ offer = "none"
      /\ offer = "good" => offer' = "good"
      /\ lp = "gone" => lp' = "gone"
  BY <1>1, <1>3 DEF Environment, worldVars, LpReceive, LpLetGo, LpOpen, ChainClaim, ChainRefund, Clock, Expire,
                    EscrowStep, Ended, IInv, Chain
<1>5. TypeOK'
  BY <1>1, <1>2, <1>3 DEF IInv, TypeOK, LpReceive, LpLetGo, LpOpen
<1>6. Makes({"sync"})' <=> Makes({"sync"})
  BY DEF Makes
<1>7. AllBacked'
  BY <1>1, <1>4, <1>6 DEF IInv, AllBacked, Backed
<1>8. EventsTrue'
  <2>1. \A e \in Announced : EventTrue(e)'
    BY <1>4 DEF IInv, EventsTrue, EventTrue, TypeOK, ReceiveTypeOK
  <2>2. CASE events' = events
    BY <2>1, <2>2 DEF EventsTrue, Announced
  <2>3. CASE LpOpen
    BY <2>1, <2>3, StepAnnounced DEF LpOpen, EscrowStep, EventsTrue, EventTrue, IInv, TypeOK
  <2>4. CASE ChainClaim
    BY <2>1, <2>4, StepAnnounced DEF ChainClaim, EscrowStep, EventsTrue, EventTrue, IInv, TypeOK
  <2>5. CASE ChainRefund
    BY <2>1, <2>5, StepAnnounced DEF ChainRefund, EscrowStep, EventsTrue, EventTrue, IInv, TypeOK
  <2> QED
    BY <1>3, <2>2, <2>3, <2>4, <2>5
<1>9. Chain'
  <2>1. CASE LpReceive \/ LpLetGo
    BY <1>1, <1>3, <1>4, <2>1 DEF IInv, Chain, Ended, LpReceive, LpLetGo, LpOpen, ChainClaim, ChainRefund, Clock,
                                  Expire, EscrowStep, TypeOK, ReceiveTypeOK
  <2>2. CASE LpOpen
    BY <1>1, <1>3, <1>4, <2>2 DEF IInv, Chain, Ended, LpOpen, EscrowStep, TypeOK, ReceiveTypeOK, LpReceive, LpLetGo,
                                  ChainClaim, ChainRefund, Clock, Expire
  <2>3. CASE (ChainClaim \/ ChainRefund) /\ UNCHANGED <<lp, offer>>
    BY <1>1, <1>4, <2>3 DEF IInv, Chain, Ended, ChainClaim, ChainRefund, EscrowStep, TypeOK, ReceiveTypeOK
  <2>4. CASE Clock /\ UNCHANGED <<lp, offer, escrow, events>>
    BY <1>1, <1>4, <2>4 DEF IInv, Chain, Ended, Clock, Expire, TypeOK, ReceiveTypeOK
  <2> QED
    BY <1>3, <2>1, <2>2, <2>3, <2>4
<1>10. Phases'
  BY <1>1 DEF IInv, Phases
<1>11. Shown'
  <2>1. Revealing' <=> Revealing
    BY <1>1, <1>4 DEF Revealing
  <2>2. Revealing => offer = "good"
    BY DEF Revealing, IInv, Chain, InHand
  <2> QED
    BY <1>1, <1>4, <2>1, <2>2 DEF IInv, Shown
<1>12. ASSUME NEW u \in Tasks PROVE InHand(u)'
  <2>1. InHand(u)
    BY DEF IInv
  <2>2. Answered(noted[u].status) => Answered(noted[u].status)'
    BY <1>1, <1>4, <1>6 DEF Answered
  <2> QED
    BY <1>1, <1>4, <2>1, <2>2 DEF InHand
<1> QED
  BY <1>5, <1>7, <1>8, <1>9, <1>10, <1>11, <1>12 DEF IInv

\* Writes complete, the process crashes and starts again: the invariant speaks
\* of what is stored as it does of what is held.
LEMMA StorageInv ==
  ASSUME IInv, StorageNext, UNCHANGED app
  PROVE  IInv'
<1>0. /\ ReceiveTypeOK /\ pc \in [Tasks -> Labels] /\ {"idle", "commit:send"} \subseteq Labels \cup {"commit:send"}
      /\ pc \in [Tasks -> Labels \cup {"commit:send"}] /\ noted \in [Tasks -> Notes]
  BY DEF IInv, TypeOK, ReceiveTypeOK, Labels
<1>1. ReceiveTypeOK'
  BY <1>0, StorageType DEF StorageNext
<1>2. /\ UNCHANGED <<escrow, passed, sent, lp, offer, app>>
      /\ Announced' \subseteq Announced
  <2>1. Announced' \subseteq Announced
    BY <1>0, RestartAnnounced DEF StorageNext, Flush, Crash, InitDone, worldVars, Announced
  <2> QED
    BY <2>1 DEF StorageNext, Flush, Crash, Restart, InitDone, worldVars, lpVars
<1>3. EventsTrue'
  BY <1>2 DEF IInv, EventsTrue, EventTrue
<1>4. Makes({"sync"})' <=> Makes({"sync"})
  BY DEF Makes
<1>5. casting' \in BOOLEAN /\ listening' \in BOOLEAN /\ (casting' => casting)
  <2>1. CASE UNCHANGED sideVars
    BY <2>1 DEF IInv, TypeOK, sideVars
  <2>2. CASE listening' = FALSE /\ casting' = FALSE
    <3>1. ~casting' /\ casting' \in BOOLEAN /\ listening' \in BOOLEAN
      BY <2>2
    <3> QED
      BY <3>1
  <2> QED
    BY <2>1, <2>2 DEF StorageNext
<1>6. Chain'
  BY <1>2, <1>5 DEF IInv, Chain, Ended
<1>7. AllBacked'
  BY <1>2, <1>4 DEF IInv, AllBacked, Backed, Ended, StorageNext, Flush, Crash, Restart, InitDone, Still, recordVars
<1>8. CASE Flush /\ UNCHANGED sideVars
  <2>1. /\ UNCHANGED <<state, learnt, noted, phase, restarts, listening, casting>>
        /\ \A u \in Tasks : pc'[u] = pc[u] \/ (pc[u] = "saving" /\ pc'[u] = "idle")
    BY <1>0, <1>8 DEF Flush, Resumed, Labels, Still, recordVars, sideVars
  <2>2. pc' \in [Tasks -> Labels]
    BY <1>0, <1>8 DEF Flush, Resumed, Labels
  <2>3. Phases'
    BY <2>1 DEF IInv, Phases
  <2>4. Shown'
    BY <1>2, <2>1 DEF IInv, Shown, Revealing
  <2>5. ASSUME NEW u \in Tasks PROVE InHand(u)'
    <3>1. InHand(u) /\ (Answered(noted[u].status) => Answered(noted[u].status)')
      BY <1>2, <1>4, <2>1 DEF IInv, Answered, Ended
    <3>2. CASE pc'[u] = pc[u]
      BY <1>2, <2>1, <3>1, <3>2 DEF InHand, Ended
    <3>3. CASE pc'[u] = "idle"
      BY <3>3 DEF InHand, SyncLabels
    <3> QED
      BY <2>1, <3>2, <3>3
  <2>6. TypeOK'
    BY <1>1, <1>2, <1>5, <2>2 DEF IInv, TypeOK
  <2> QED
    BY <1>3, <1>6, <1>7, <2>3, <2>4, <2>5, <2>6 DEF IInv
<1>9. CASE Crash /\ listening' = FALSE /\ casting' = FALSE
  <2>1. /\ pc' = [t \in Tasks |-> "idle"] /\ phase' = "down" /\ restarts' = restarts + 1
        /\ restarts \in Nat
    BY <1>0, <1>9 DEF Crash, ReceiveTypeOK
  <2>2. restarts' > 0 /\ restarts' # 0
    BY <2>1
  <2>3. ~listening'
    BY <1>9
  <2>4. pc' \in [Tasks -> Labels] /\ \A u \in Tasks : pc'[u] = "idle"
    BY <2>1 DEF Labels
  <2>5. Phases' /\ Shown' /\ \A u \in Tasks : InHand(u)'
    BY <2>1, <2>2, <2>3, <2>4 DEF Phases, Shown, InHand, SyncLabels
  <2>6. TypeOK'
    BY <1>1, <1>2, <1>5, <2>4 DEF IInv, TypeOK
  <2> QED
    BY <1>3, <1>6, <1>7, <2>5, <2>6 DEF IInv
<1>10. CASE Restart(PendingStates) /\ UNCHANGED sideVars
  <2>1. /\ UNCHANGED <<pc, noted, restarts, listening>> /\ phase = "down" /\ phase' \in {"run", "init"}
    BY <1>10 DEF Restart, sideVars
  <2>2. restarts > 0 /\ restarts # 0 /\ ~listening /\ \A u \in Tasks : pc[u] = "idle"
    BY <2>1, <1>0 DEF IInv, Phases, ReceiveTypeOK
  <2>3. Phases' /\ Shown' /\ \A u \in Tasks : InHand(u)'
    BY <2>1, <2>2 DEF Phases, Shown, InHand, SyncLabels
  <2>4. TypeOK'
    BY <1>0, <1>1, <1>2, <1>5, <2>1 DEF IInv, TypeOK
  <2> QED
    BY <1>3, <1>6, <1>7, <2>3, <2>4 DEF IInv
<1>11. CASE InitDone /\ UNCHANGED sideVars
  <2>1. /\ UNCHANGED <<pc, noted, restarts, listening, casting, state, learnt>> /\ phase' = "run" /\ phase = "syncing"
        /\ \A u \in Tasks : pc[u] = "idle"
    BY <1>11 DEF InitDone, sideVars, Still, recordVars
  <2>2. Phases' /\ \A u \in Tasks : InHand(u)'
    BY <2>1 DEF Phases, InHand, SyncLabels
  <2>3. Shown'
    BY <1>2, <2>1 DEF IInv, Shown, Revealing
  <2>4. TypeOK'
    BY <1>0, <1>1, <1>2, <1>5, <2>1 DEF IInv, TypeOK
  <2> QED
    BY <1>3, <1>6, <1>7, <2>2, <2>3, <2>4 DEF IInv
<1> QED
  BY <1>8, <1>9, <1>10, <1>11 DEF StorageNext

\* A quote as create() returns it proves nothing and relies on nothing.
LEMMA InitInv ==
  ASSUME Init
  PROVE  IInv
<1>1. pc = [t \in Tasks |-> "idle"] /\ events = <<>> /\ ~casting /\ ~listening /\ sent = {}
  BY DEF Init, ReceiveInit
<1>2. TypeOK
  <2>1. <<>> \in Seq({"init", "claim", "refund"})
    OBVIOUS
  <2>2. noted \in [Tasks -> Notes] /\ pc \in [Tasks -> Labels]
    BY DEF Init, ReceiveInit, Notes, Nothing, Labels
  <2>3. Absent \in Records /\ listening \in BOOLEAN /\ casting \in BOOLEAN /\ initiated \in BOOLEAN
    BY DEF Init, ReceiveInit, Records
  <2>4. ReceiveTypeOK
    BY <2>1, <2>2, <2>3, ReceiveRestartsAssumption DEF Init, ReceiveInit, ReceiveTypeOK, ReceiveStates
  <2> QED
    BY <2>2, <2>3, <2>4 DEF Init, TypeOK
<1>3. EventsTrue
  BY <1>1 DEF EventsTrue, Announced
<1>4. AllBacked /\ Chain /\ Phases /\ Shown
  BY <1>1 DEF Init, ReceiveInit, AllBacked, Backed, Absent, Chain, Phases, Shown, Revealing
<1>5. \A t \in Tasks : InHand(t)
  BY <1>1 DEF InHand, SyncLabels
<1> QED
  BY <1>2, <1>3, <1>4, <1>5 DEF IInv
-----------------------------------------------------------------------------
(* Theorems *)

\* Whatever calls, ticks, events, syncs, crashes and restarts the application
\* has, the inductive invariant holds.
THEOREM InductiveInvariant == Spec => []IInv
<1>1. Init => IInv
  BY InitInv
<1>2. IInv /\ [Next]_vars => IInv'
  <2> SUFFICES ASSUME IInv, [Next]_vars PROVE IInv'
    OBVIOUS
  <2>1. CASE Next
    <3>1. UNCHANGED app
      BY <2>1 DEF Next
    <3>2. ASSUME NEW t \in Timers, TickNext(t) PROVE IInv'
      BY <3>1, <3>2, TickInv DEF Tasks
    <3>3. ASSUME NEW t \in Callers, PayNext(t) PROVE IInv'
      BY <3>1, <3>3, PayInv DEF Tasks
    <3>4. ASSUME NEW t \in Callers, SyncNext(t) PROVE IInv'
      BY <3>1, <3>4, SyncStartInv, SyncAskInv, SyncLpApplyInv, SyncApplyInv, SyncEndInv, SyncFailInv
      DEF SyncNext, Tasks
    <3>5. ASSUME NEW t \in Callers, ClaimNext(t) PROVE IInv'
      BY <3>1, <3>5, ClaimInv DEF Tasks
    <3>6. CASE Environment \/ ListenerNext \/ CastDone \/ StorageNext
      BY <3>1, <3>6, EnvironmentInv, ListenerInv, CastInv, StorageInv
    <3> QED
      BY <2>1, <3>2, <3>3, <3>4, <3>5, <3>6 DEF Next
  <2>2. CASE UNCHANGED vars
    <3>1. UNCHANGED <<escrow, events, passed, sent, state, learnt, initiated, recorded, durable, phase, restarts,
                      pc, noted, app, lp, offer, listening, casting>>
      BY <2>2 DEF vars, receiveVars, worldVars, recordVars, lifeVars, lpVars, sideVars
    <3>2. Still /\ Alive /\ UNCHANGED lpVars
      BY <3>1 DEF Still, Alive, recordVars, lifeVars, lpVars
    <3>3. listening \in BOOLEAN /\ (listening => phase = "run")
      BY DEF IInv, TypeOK, Phases
    <3> QED
      BY <3>1, <3>2, <3>3, IdleInv
  <2> QED
    BY <2>1, <2>2
<1> QED
  BY <1>1, <1>2, PTL DEF Spec

\* Every variable keeps its type.
THEOREM TypeCorrect == Spec => []TypeOK
<1>1. IInv => TypeOK
  BY DEF IInv
<1> QED
  BY <1>1, InductiveInvariant, PTL

\* The secret is broadcast, or in a claim, only when the LP opened an escrow with
\* the quoted terms: no LP gets the secret, and the user's payment, for less.
THEOREM SecretCorrect == Spec => []SecretOnlyForOffer
<1>1. IInv => SecretOnlyForOffer
  BY DEF IInv, Chain, SecretOnlyForOffer
<1> QED
  BY <1>1, InductiveInvariant, PTL

\* A swap shown as claimed was, and one shown as failed had run out of time.
THEOREM SettledCorrect == Spec => []SettledIsTrue
<1>1. IInv => SettledIsTrue
  BY DEF IInv, AllBacked, Backed, Ended, SettledIsTrue
<1> QED
  BY <1>1, InductiveInvariant, PTL

\* Once the secret is out, a process that did not crash does not take the swap
\* for an expired quote.
THEOREM RevealedCorrect == Spec => []RevealedIsNotForgotten
<1>1. IInv => RevealedIsNotForgotten
  BY DEF IInv, Shown, Revealing, Committed, RevealedIsNotForgotten
<1> QED
  BY <1>1, InductiveInvariant, PTL
=============================================================================
