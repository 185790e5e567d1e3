------------------------- MODULE FromBTCSwapProofs -------------------------
(***************************************************************************)
(* Proofs about FromBTCSwap: types, that what the swap shows of its        *)
(* deposit and its escrow is so, that a deposit is not forgotten, and that *)
(* it is made once, whatever calls, ticks, events, syncs and crashes the   *)
(* swap goes through.                                                      *)
(***************************************************************************)
EXTENDS FromBTCSwap, ReceiveSwapProofs

-----------------------------------------------------------------------------
(***************************************************************************)
(* The inductive invariant.  It says what each state, record, event and    *)
(* answer still proves of the escrow and of the deposit, and where the     *)
(* record of a swap is that may hold one.  What depends on how the         *)
(* application calls the swap is said under that condition.                *)
(***************************************************************************)

Late   == "escrow" \in passed
Placed == escrow # "none"

\* No escrow waits for a claim, and none will before the timeout.
Dead == Late \/ escrow = "refunded" \/ (escrow = "none" /\ "auth" \in passed)

\* The application makes this call from one slot.
Alone(call) == \A t, u \in Callers : {<<t, call>>, <<u, call>>} \subseteq app => t = u

\* No call applies an answer that is older than what it is applied to, and
\* commits do not overtake each other's save.
Careful  == ~Makes({"waitCommit", "sync"})
Reliable == Careful /\ Alone("commit")

\* What state s with knowledge `known` proves, held or stored.
Backed(s, known) ==
  /\ s \in OpenStates => Placed
  /\ s = "BTC_TX_CONFIRMED" => confirmed /\ known = "good"
  /\ s = "CLAIM_CLAIMED" => escrow = "paid"
  /\ s = "FAILED" => Late \/ Makes({"sync"})
  /\ s = "QUOTE_EXPIRED" => Dead \/ ~Careful
  /\ s # "PR_PAID"   \* a state of the lightning swaps only

AllBacked ==
  /\ Backed(state, learnt)
  /\ Backed(recorded.state, recorded.learnt)
  /\ Backed(durable.state, durable.learnt)

SyncLabels   == {"sync:expiry", "sync:status", "sync:apply", "sync:asked", "sync:end"}
CommitLabels == {"commit:saving", "commit:send", "commit:confirm"}
PlacedLabels == {"tick:asked", "tick:seen", "tick:confirmed", "wc:yes", "send:look", "send:wallet",
                 "btc:wait", "sync:asked", "wcl:poll", "wcl:failed"}

\* The record of a swap that may have an escrow.
Kept(rec) == rec # Absent \/ Dead

\* What a commit status noted earlier still proves when it is applied.
Answered(status, expired) ==
  /\ status = "PAID" => escrow = "paid"
  /\ status = "COMMITED" => Placed
  /\ status \in {"EXPIRED", "REFUNDABLE"} => Late
  /\ status = "NOT_COMMITED" =>
       /\ state \in OpenStates => Late \/ Makes({"sync"})
       /\ expired => Dead

\* What call t may rely on at the await it is parked at.
InHand(t) ==
  /\ pc[t] \in PlacedLabels => Placed
  /\ pc[t] = "tick:confirmed" => confirmed
  /\ pc[t] = "wcl:failed" => Late
  /\ pc[t] = "wcl:paid" => escrow = "paid"
  /\ pc[t] \in {"wc:poll", "wc:expiry", "wc:no"} => ~Careful
  /\ pc[t] \in CommitLabels => <<t, "commit">> \in app /\ initiated
  /\ pc[t] \in {"commit:send", "commit:confirm"} => (Reliable => Kept(durable))
  /\ pc[t] \in {"send:look", "send:wallet"} => <<t, "send">> \in app
  /\ pc[t] = "send:wallet" => (Alone("send") => deposits = 0)
  /\ pc[t] \in SyncLabels => phase = "syncing" \/ <<t, "sync">> \in app
  /\ noted[t].expired => "auth" \in passed
  /\ pc[t] = "sync:apply" => Answered(noted[t].status, noted[t].expired)

\* Before the sync of wrapper.init() ends, nothing else runs.
Phases ==
  /\ phase \in {"down", "init"} => recorded = durable /\ \A t \in Tasks : pc[t] = "idle"
  /\ phase = "syncing" =>
       \A t \in Tasks : pc[t] # "idle" => t = Starter /\ pc[t] \in SyncLabels \cup {"saving"}

\* Events under way are true, and stay so.
EventTrue(e) ==
  /\ e = "init" => Placed
  /\ e = "claim" => escrow = "paid"
  /\ e = "refund" => escrow = "refunded"

EventsTrue == \A e \in Announced : EventTrue(e)

\* The escrow, its deadlines and the transaction that opens it.
Chain ==
  /\ Placed => "commit" \in sent
  /\ escrow = "refunded" => Late
  /\ "send" \in passed => "auth" \in passed
  /\ Late => "auth" \in passed

Saving == \E t \in Tasks : pc[t] = "commit:saving"

\* A commit goes out only when the record is durable.
Tracked ==
  Reliable =>
    /\ initiated /\ phase # "down" => Kept(recorded) /\ (Kept(durable) \/ Saving)
    /\ "commit" \in sent => initiated /\ Kept(durable)

Paying == Alone("send") => deposits <= 1

IInv ==
  /\ TypeOK /\ AllBacked /\ Phases /\ EventsTrue /\ Chain /\ Tracked /\ Paying
  /\ \A t \in Tasks : InHand(t)
-----------------------------------------------------------------------------
(* What a step of a call or of the listener has to show *)

\* Calls stay where they are, are woken, or go on with something to rely on.
Moves ==
  /\ pc' \in [Tasks -> Labels] /\ noted' \in [Tasks -> Notes]
  /\ \A u \in Tasks :
       \/ pc'[u] = pc[u] /\ noted'[u] = noted[u]
       \/ /\ pc[u] \notin SyncLabels \cup {"idle", "saving"} /\ pc'[u] = "idle"
          /\ noted'[u] = noted[u]
       \/ /\ InHand(u)'
          /\ \/ phase = "run"
             \/ phase = "syncing" /\ u = Starter /\ pc'[u] \in SyncLabels \cup {"idle", "saving"}
  /\ \A u \in Tasks : pc[u] = "commit:saving" => pc'[u] = "commit:saving"

\* The deposit is the one.
Pays ==
  /\ deposits' \in 0..MaxDeposits
  /\ deposits' = deposits \/ (Alone("send") => deposits' <= 1 /\ \A u \in Tasks : pc'[u] # "send:wallet")

\* The commit goes out for a swap whose record is durable, and a swap is
\* initiated together with its first save.
Sends ==
  /\ sent' = sent \/ (sent' = sent \cup {"commit"} /\ initiated /\ (Reliable => Kept(durable)))
  /\ \/ initiated' = initiated
     \/ initiated' /\ phase = "run" /\ recorded' = Persisted(state', learnt', TRUE) /\ Saving'

\* The escrow, the clocks, the durable record and the phase stay; what the swap
\* becomes is backed, and what the calls rely on is so.
LEMMA StepInv ==
  ASSUME IInv, UNCHANGED <<escrow, passed, confirmed, durable, restarts, phase, app>>,
         events' = events \/ \E e : NextEvent(e),
         state' \in ReceiveStates, initiated' \in BOOLEAN, learnt' \in {learnt, "good"},
         Backed(state', learnt'), recorded' \in {recorded, Persisted(state', learnt', initiated')},
         Moves, Pays, Sends, recorded' = recorded \/ phase \in {"run", "syncing"},
         state' = state \/ phase = "run" \/ pc'[Starter] # "sync:apply"
  PROVE  IInv'
<1>0. (Makes({"sync"})' <=> Makes({"sync"})) /\ (Careful' <=> Careful)
  BY DEF Makes, Careful
<1>1. (Alone("send")' <=> Alone("send")) /\ (Reliable' <=> Reliable)
  BY <1>0 DEF Alone, Reliable
<1>2. (Late' <=> Late) /\ (Placed' <=> Placed) /\ (Dead' <=> Dead)
  BY DEF Late, Placed, Dead
<1>3. Kept(durable)' <=> Kept(durable)
  BY <1>2 DEF Kept
<1>4. TypeOK'
  <2>1. events' \in Seq({"init", "claim", "refund"})
    BY NextEventType DEF IInv, TypeOK, ReceiveTypeOK
  <2>2. recorded' \in Records
    BY DEF IInv, TypeOK, ReceiveTypeOK, Persisted, Records
  <2>3. sent' \subseteq {"commit", "claim", "secret"}
    BY DEF IInv, TypeOK, ReceiveTypeOK, Sends
  <2> QED
    BY <2>1, <2>2, <2>3 DEF IInv, TypeOK, ReceiveTypeOK, Moves, Pays
<1>5. AllBacked'
  <2>1. Backed(state, learnt)'
    BY <1>0, <1>2 DEF Backed
  <2>2. Backed(recorded.state, recorded.learnt)'
    BY <1>0, <1>2 DEF IInv, AllBacked, Backed, Persisted, Absent, OpenStates, DepositStates
  <2>3. Backed(durable.state, durable.learnt)'
    BY <1>0, <1>2 DEF IInv, AllBacked, Backed
  <2> QED
    BY <2>1, <2>2, <2>3 DEF AllBacked
<1>6. EventsTrue'
  <2>1. Announced' \subseteq Announced
    BY NextAnnounced DEF Announced, IInv, TypeOK
  <2> QED
    BY <2>1 DEF IInv, EventsTrue, EventTrue, Placed
<1>7. Chain'
  BY <1>2 DEF IInv, Chain, Sends
<1>8. Phases'
  <2>1. phase \in {"down", "init"} => recorded' = recorded
    BY DEF IInv, Phases, Moves
  <2> QED
    BY <2>1 DEF IInv, Phases, Moves, TypeOK, ReceiveTypeOK
<1>9. Tracked'
  <2>1. ASSUME Reliable, initiated', phase # "down"
        PROVE  Kept(recorded)' /\ (Kept(durable) \/ Saving')
    <3>1. recorded' = recorded \/ recorded' # Absent \/ Dead
      BY <2>1 DEF Persisted, Absent, Backed, Reliable, ReceiveStates
    <3>2. CASE initiated' = initiated
      <4>1. Saving => Saving'
        BY DEF Saving, Moves
      <4> QED
        BY <1>2, <2>1, <3>1, <3>2, <4>1 DEF IInv, Tracked, Kept
    <3>3. CASE recorded' = Persisted(state', learnt', TRUE) /\ Saving'
      <4>1. recorded' # Absent \/ Dead
        BY <2>1, <3>3 DEF Persisted, Absent, Backed, Reliable, ReceiveStates
      <4> QED
        BY <1>2, <3>3, <4>1 DEF Kept
    <3> QED
      BY <3>2, <3>3 DEF Sends
  <2>2. ASSUME Reliable, "commit" \in sent' PROVE initiated' /\ Kept(durable)
    BY <2>2 DEF IInv, Tracked, Sends
  <2> QED
    BY <1>1, <1>3, <2>1, <2>2 DEF Tracked
<1>10. Paying'
  BY <1>1 DEF IInv, Paying, Pays
<1>11. ASSUME NEW u \in Tasks PROVE InHand(u)'
  <2>1. CASE pc'[u] = pc[u] /\ noted'[u] = noted[u]
    <3>1. InHand(u)
      BY DEF IInv
    <3>2. pc[u] = "sync:apply" => Answered(noted[u].status, noted[u].expired)'
      <4> SUFFICES ASSUME pc[u] = "sync:apply" PROVE Answered(noted[u].status, noted[u].expired)'
        OBVIOUS
      <4>1. phase = "run" => Makes({"sync"})
        BY <3>1 DEF InHand, SyncLabels, Makes
      <4>2. phase # "run" => state' = state
        BY <2>1 DEF IInv, Phases, TypeOK, ReceiveTypeOK
      <4> QED
        BY <1>0, <1>2, <2>1, <3>1, <4>1, <4>2 DEF InHand, Answered
    <3>3. pc[u] = "send:wallet" => (Alone("send") => deposits' = 0)
      BY <2>1, <3>1 DEF InHand, Pays
    <3>4. initiated => initiated'
      BY DEF Sends
    <3> QED
      BY <1>0, <1>1, <1>2, <1>3, <2>1, <3>1, <3>2, <3>3, <3>4 DEF InHand
  <2>2. CASE pc'[u] = "idle" /\ noted'[u] = noted[u]
    <3>1. InHand(u)
      BY DEF IInv
    <3> QED
      BY <2>2, <3>1 DEF InHand, SyncLabels, PlacedLabels, CommitLabels
  <2> QED
    BY <2>1, <2>2 DEF Moves
<1> QED
  BY <1>4, <1>5, <1>6, <1>7, <1>8, <1>9, <1>10, <1>11 DEF IInv
\* Where a call that is not idle runs.
LEMMA Where ==
  ASSUME IInv, NEW t \in Tasks, pc[t] # "idle"
  PROVE  \/ phase = "run"
         \/ phase = "syncing" /\ t = Starter /\ pc[t] \in SyncLabels \cup {"saving"}
BY DEF IInv, Phases, TypeOK, ReceiveTypeOK

\* A call that goes on to its next await, perhaps with a new note, and perhaps
\* with a transaction sent.
LEMMA QuietInv ==
  ASSUME IInv, NEW t \in Tasks, NEW next \in Labels, Goto(t, next), Still, Alive,
         UNCHANGED <<escrow, events, passed, confirmed, app>>, pc[t] # "commit:saving",
         noted' \in [Tasks -> Notes], \A u \in Tasks \ {t} : noted'[u] = noted[u],
         InHand(t)', Pays, sent' = sent \/ (sent' = sent \cup {"commit"} /\ initiated /\ (Reliable => Kept(durable))),
         phase = "run" \/ (phase = "syncing" /\ t = Starter /\ next \in SyncLabels \cup {"idle", "saving"})
  PROVE  IInv'
<1>1. UNCHANGED <<escrow, passed, confirmed, durable, restarts, phase, app, state, learnt, initiated, recorded>>
  BY DEF Still, Alive, recordVars, lifeVars
<1>2. pc' \in [Tasks -> Labels] /\ pc'[t] = next /\ \A u \in Tasks \ {t} : pc'[u] = pc[u]
  BY DEF Goto, IInv, TypeOK
<1>3. Moves
  BY <1>2 DEF Moves
<1>4. /\ state \in ReceiveStates /\ initiated \in BOOLEAN /\ Backed(state, learnt)
  BY DEF IInv, TypeOK, ReceiveTypeOK, AllBacked
<1>5. Sends
  BY <1>1 DEF Sends
<1>6. Backed(state', learnt')
  BY <1>1, <1>4
<1> QED
  BY <1>1, <1>3, <1>4, <1>5, <1>6, StepInv

\* Waking calls keeps their types.
LEMMA WakedMoves ==
  ASSUME IInv, NEW s
  PROVE  /\ Waked(s) \in [Tasks -> Labels]
         /\ \A u \in Tasks : \/ Waked(s)[u] = pc[u]
                             \/ /\ pc[u] \notin SyncLabels \cup {"idle", "saving", "commit:saving"}
                                /\ Waked(s)[u] = "idle"
BY DEF IInv, TypeOK, Waked, Labels, SyncLabels

\* _saveAndEmit by call t, which goes on to `next`.
LEMMA EmitInv ==
  ASSUME IInv, NEW t \in Tasks, NEW s \in ReceiveStates, NEW known \in {learnt, "good"},
         NEW next \in {"saving", "idle", "btc:wait"}, EmitWith(t, s, known, next),
         Frame, UNCHANGED app, phase = "run", pc[t] # "commit:saving", Backed(s, known),
         next = "btc:wait" => Placed
  PROVE  IInv'
<1>1. /\ UNCHANGED <<escrow, events, passed, sent, deposits, confirmed, durable, restarts, phase, app,
                     initiated, noted>>
      /\ state' = s /\ learnt' = known /\ recorded' = Persisted(s, known, initiated)
      /\ pc' = [Waked(s) EXCEPT ![t] = next]
  BY DEF EmitWith, SaveWith, Frame, Alive, lifeVars, worldVars, btcVars
<1>2. next \in Labels
  BY DEF Labels
<1>3. pc' \in [Tasks -> Labels] /\ pc'[t] = next /\ \A u \in Tasks \ {t} : pc'[u] = Waked(s)[u]
  BY <1>1, <1>2, WakedMoves
<1>4. InHand(t)'
  BY <1>1, <1>3 DEF InHand, SyncLabels, PlacedLabels, CommitLabels, Placed, IInv
<1>5. Moves
  BY <1>1, <1>3, <1>4, WakedMoves DEF Moves, IInv, TypeOK, ReceiveTypeOK
<1>6. Pays /\ Sends
  BY <1>1 DEF Pays, Sends, IInv, TypeOK
<1>7. initiated \in BOOLEAN
  BY DEF IInv, TypeOK, ReceiveTypeOK
<1>8. Backed(state', learnt') /\ recorded' = Persisted(state', learnt', initiated')
  BY <1>1
<1> QED
  BY <1>1, <1>5, <1>6, <1>7, <1>8, StepInv

\* A call that ends without a word.
LEMMA EndInv ==
  ASSUME IInv, NEW t \in Tasks, Goto(t, "idle"), Still, Frame, UNCHANGED app, phase = "run",
         pc[t] # "commit:saving"
  PROVE  IInv'
<1>1. pc'[t] = "idle" /\ noted' = noted /\ noted \in [Tasks -> Notes] /\ "idle" \in Labels
  BY DEF Goto, Frame, IInv, TypeOK, ReceiveTypeOK, Labels
<1>2. InHand(t)'
  BY <1>1 DEF InHand, SyncLabels, PlacedLabels, CommitLabels, IInv, Frame, worldVars
<1>3. Pays
  BY DEF Pays, Frame, btcVars, IInv, TypeOK
<1> QED
  BY <1>1, <1>2, <1>3, QuietInv DEF Frame, worldVars, btcVars

\* The guarded emit at the end of a call.
LEMMA EmitIfInv ==
  ASSUME IInv, NEW t \in Tasks, NEW from, NEW s \in ReceiveStates, EmitIf(t, from, s),
         Frame, UNCHANGED app, phase = "run", pc[t] # "commit:saving", Backed(s, learnt)
  PROVE  IInv'
<1>1. CASE EmitWith(t, s, learnt, "saving")
  BY <1>1, EmitInv
<1>2. CASE Goto(t, "idle") /\ Still
  BY <1>2, EndInv
<1> QED
  BY <1>1, <1>2 DEF EmitIf, EmitFrom

-----------------------------------------------------------------------------
(* Ticks and the deposit *)

\* What getBitcoinPayment answers is so.
LEMMA DepositAnswered ==
  /\ DepositAnswer \in {"none", "seen", "confirmed"}
  /\ DepositAnswer = "none" => deposits = 0
  /\ DepositAnswer = "confirmed" => confirmed
BY DEF DepositAnswer

\* Ticks let quotes expire and look for the deposit of a committed swap.
LEMMA TickInv ==
  ASSUME IInv, NEW t \in Timers, TickNext(t), UNCHANGED app
  PROVE  IInv'
<1>0. t \in Tasks /\ InHand(t) /\ Backed(state, learnt) /\ state \in ReceiveStates
  BY DEF Tasks, IInv, AllBacked, TypeOK, ReceiveTypeOK
<1>1. phase = "run" /\ pc[t] # "commit:saving"
  BY <1>0, Where DEF TickNext, TickExpire, TickAsk, TickAnswer, TickApply, Running, SyncLabels
<1>2. CASE TickExpire(t)
  <2>1. PICK s \in {"QUOTE_SOFT_EXPIRED", "EXPIRED"} : EmitWith(t, s, learnt, "idle") /\ (s = "EXPIRED" => state = "CLAIM_COMMITED")
    BY <1>2 DEF TickExpire, EmitFrom
  <2>2. Backed(s, learnt) /\ s \in ReceiveStates
    BY <1>0, <2>1 DEF Backed, ReceiveStates, OpenStates, DepositStates
  <2> QED
    BY <1>0, <1>1, <1>2, <2>1, <2>2, EmitInv DEF TickExpire
<1>3. CASE TickAsk(t) \/ TickAnswer(t)
  <2>1. Placed
    BY <1>0, <1>3 DEF TickAsk, TickAnswer, Backed, InHand, PlacedLabels, OpenStates, DepositStates
  <2>2. PICK next \in {"tick:asked", "tick:seen", "tick:confirmed", "idle"} :
          Goto(t, next) /\ Still /\ Frame /\ (next = "tick:confirmed" => confirmed)
    BY <1>3, DepositAnswered DEF TickAsk, TickAnswer
  <2>3. /\ pc'[t] = next /\ noted' = noted /\ noted \in [Tasks -> Notes] /\ next \in Labels
        /\ UNCHANGED <<escrow, passed, confirmed, deposits, sent, events>>
    BY <1>0, <2>2 DEF Goto, Frame, IInv, TypeOK, ReceiveTypeOK, Labels, worldVars, btcVars
  <2>4. InHand(t)'
    BY <1>0, <2>1, <2>2, <2>3 DEF InHand, SyncLabels, PlacedLabels, CommitLabels, Placed
  <2>5. Pays
    BY <2>3 DEF Pays, IInv, TypeOK
  <2> QED
    BY <1>0, <1>1, <2>2, <2>3, <2>4, <2>5, QuietInv DEF Frame
<1>4. CASE TickApply(t)
  <2>1. PICK s \in {state, "BTC_TX_CONFIRMED"} : /\ EmitWith(t, s, "good", "idle")
                                                 /\ s = state \/ pc[t] = "tick:confirmed"
    BY <1>4 DEF TickApply
  <2>2. Backed(s, "good") /\ s \in ReceiveStates
    BY <1>0, <2>1 DEF Backed, ReceiveStates, OpenStates, DepositStates, InHand, PlacedLabels
  <2> QED
    BY <1>0, <1>1, <1>4, <2>1, <2>2, EmitInv DEF TickApply
<1> QED
  BY <1>2, <1>3, <1>4 DEF TickNext

\* The deposit of a call that looked before it paid is the first.
LEMMA SendInv ==
  ASSUME IInv, NEW t \in Callers, SendNext(t), UNCHANGED app
  PROVE  IInv'
<1>0. /\ t \in Tasks /\ InHand(t) /\ Backed(state, learnt) /\ state \in ReceiveStates
      /\ deposits \in 0..MaxDeposits /\ noted \in [Tasks -> Notes]
  BY DEF Tasks, IInv, AllBacked, TypeOK, ReceiveTypeOK
<1>1. phase = "run" /\ pc[t] # "commit:saving"
  BY <1>0, Where DEF SendNext, Send, SendLooked, SendWallet, BitcoinSeen, BitcoinConfirmed, BitcoinAbort,
                     Called, Running, SyncLabels
<1>2. CASE Send(t) \/ SendLooked(t)
  <2>1. Placed /\ <<t, "send">> \in app
    BY <1>0, <1>2 DEF Send, SendLooked, Called, Backed, InHand, PlacedLabels, OpenStates, DepositStates
  <2>2. PICK next \in {"send:look", "send:wallet", "btc:wait", "idle"} :
          Goto(t, next) /\ Still /\ Frame /\ (next = "send:wallet" => deposits = 0)
    BY <1>2, DepositAnswered DEF Send, SendLooked, AwaitDeposit
  <2>3. /\ pc'[t] = next /\ noted' = noted /\ next \in Labels
        /\ UNCHANGED <<escrow, passed, confirmed, deposits, sent, events>>
    BY <1>0, <2>2 DEF Goto, Frame, IInv, TypeOK, Labels, worldVars, btcVars
  <2>4. InHand(t)'
    BY <1>0, <2>1, <2>2, <2>3 DEF InHand, SyncLabels, PlacedLabels, CommitLabels, Placed
  <2>5. Pays
    BY <1>0, <2>3 DEF Pays
  <2> QED
    BY <1>0, <1>1, <2>2, <2>3, <2>4, <2>5, QuietInv DEF Frame
<1>3. CASE SendWallet(t)
  <2>1. Placed /\ <<t, "send">> \in app /\ (Alone("send") => deposits = 0) /\ pc[t] = "send:wallet"
    BY <1>0, <1>3 DEF SendWallet, InHand, PlacedLabels
  <2>2. PICK next \in {"btc:wait", "idle"} : Goto(t, next) /\ Still /\ Alive
    BY <1>3 DEF SendWallet, AwaitDeposit
  <2>3. /\ pc'[t] = next /\ next \in Labels /\ \A u \in Tasks \ {t} : pc'[u] = pc[u]
        /\ UNCHANGED <<escrow, passed, confirmed, sent, events, noted>>
    BY <1>0, <1>3, <2>2 DEF SendWallet, Goto, IInv, TypeOK, Labels, worldVars
  <2>4. deposits' = deposits \/ (deposits < MaxDeposits /\ deposits' = deposits + 1)
    BY <1>3 DEF SendWallet
  <2>5. Alone("send") => \A u \in Tasks : pc'[u] # "send:wallet"
    <3> SUFFICES ASSUME Alone("send"), NEW u \in Tasks \ {t}, pc[u] = "send:wallet" PROVE FALSE
      BY <2>3
    <3>1. <<u, "send">> \in app
      BY DEF IInv, InHand
    <3>2. u \in Callers
      BY <3>1, OnchainCallsAssumption DEF IInv, TypeOK, ReceiveTypeOK
    <3> QED
      BY <2>1, <3>1, <3>2 DEF Alone
  <2>6. Pays
    BY <1>0, <2>1, <2>4, <2>5, DepositsAssumption DEF Pays
  <2>7. InHand(t)'
    BY <1>0, <2>1, <2>3 DEF InHand, SyncLabels, PlacedLabels, CommitLabels, Placed
  <2> QED
    BY <1>0, <1>1, <2>2, <2>3, <2>6, <2>7, QuietInv
<1>4. CASE BitcoinSeen(t)
  <2>1. Placed /\ Backed(state, "good")
    BY <1>0, <1>4 DEF BitcoinSeen, InHand, PlacedLabels, Backed
  <2> QED
    BY <1>0, <1>1, <1>4, <2>1, EmitInv DEF BitcoinSeen
<1>5. CASE BitcoinConfirmed(t)
  <2>1. PICK s \in {state, "BTC_TX_CONFIRMED"} : EmitWith(t, s, "good", "saving")
    BY <1>5 DEF BitcoinConfirmed
  <2>2. Backed(s, "good") /\ s \in ReceiveStates
    BY <1>0, <1>5, <2>1 DEF BitcoinConfirmed, Backed, ReceiveStates, InHand, PlacedLabels
  <2> QED
    BY <1>0, <1>1, <1>5, <2>1, <2>2, EmitInv DEF BitcoinConfirmed
<1>6. CASE BitcoinAbort(t)
  BY <1>0, <1>1, <1>6, EndInv DEF BitcoinAbort
<1> QED
  BY <1>2, <1>3, <1>4, <1>5, <1>6 DEF SendNext
-----------------------------------------------------------------------------
(* Commits and claims *)

\* What getCommitStatus answers proves.
LEMMA StatusTrue ==
  ASSUME IInv, NEW answer \in StatusOf(escrow)
  PROVE  /\ answer \in {"NOT_COMMITED", "COMMITED", "REFUNDABLE", "PAID", "EXPIRED"}
         /\ answer = "PAID" <=> escrow = "paid"
         /\ answer = "COMMITED" => Placed
         /\ answer \in {"EXPIRED", "REFUNDABLE"} => Late
         /\ answer = "NOT_COMMITED" => (Placed => Late) /\ ("auth" \in passed => Dead)
<1>1. escrow \in {"none", "open", "paid", "refunded"} /\ (escrow = "refunded" => Late)
  BY DEF IInv, TypeOK, ReceiveTypeOK, Chain
<1> QED
  BY <1>1 DEF StatusOf, Placed, Dead, Late

\* A call that commits knows where the record is.
LEMMA CommitInv ==
  ASSUME IInv, NEW t \in Callers, CommitNext(t), UNCHANGED app
  PROVE  IInv'
<1>0. /\ t \in Tasks /\ InHand(t) /\ Backed(state, learnt) /\ state \in ReceiveStates
      /\ deposits \in 0..MaxDeposits /\ noted \in [Tasks -> Notes] /\ initiated \in BOOLEAN /\ learnt \in {"none", "good", "bad"}
  BY DEF Tasks, IInv, AllBacked, TypeOK, ReceiveTypeOK
<1>1. phase = "run" /\ pc[t] # "commit:saving"
  BY <1>0, Where DEF CommitNext, Commit, CommitSend, CommitConfirmed, CommitFail, WaitCommit, WatchCommit,
                     WaitCommitDone, Called, Running, SyncLabels
<1>2. CASE Commit(t)
  <2>1. <<t, "commit">> \in app /\ pc[t] = "idle"
    BY <1>2 DEF Commit, Called, Running
  <2>2. UNCHANGED <<escrow, events, passed, sent, deposits, confirmed, durable, restarts, phase, noted, state, learnt>>
    BY <1>2 DEF Commit, Frame, Alive, lifeVars, worldVars, btcVars, Still, recordVars, SaveWith
  <2>3. CASE initiated
    <3>1. Goto(t, "commit:send") /\ Still
      BY <1>2, <2>3 DEF Commit
    <3>2. Reliable => ~Saving
      <4> SUFFICES ASSUME Reliable, NEW u \in Tasks, pc[u] = "commit:saving" PROVE FALSE
        BY DEF Saving
      <4>1. <<u, "commit">> \in app
        BY DEF IInv, InHand, CommitLabels
      <4>2. u \in Callers
        BY <4>1, OnchainCallsAssumption DEF IInv, TypeOK, ReceiveTypeOK
      <4> QED
        BY <2>1, <4>1, <4>2 DEF Reliable, Alone
    <3>3. Reliable => Kept(durable)
      BY <1>1, <2>3, <3>2 DEF IInv, Tracked
    <3>4. pc'[t] = "commit:send" /\ "commit:send" \in Labels
      BY <1>0, <3>1 DEF Goto, IInv, TypeOK, Labels
    <3>5. (Reliable' <=> Reliable) /\ (Kept(durable)' <=> Kept(durable))
      BY <2>2 DEF Reliable, Careful, Makes, Alone, Kept, Dead, Late
    <3>6. InHand(t)'
      BY <1>0, <2>1, <2>2, <2>3, <3>1, <3>3, <3>4, <3>5 DEF InHand, SyncLabels, PlacedLabels, CommitLabels, Still, recordVars
    <3>7. Pays
      BY <1>0, <2>2 DEF Pays
    <3> QED
      BY <1>0, <1>1, <1>2, <2>2, <3>1, <3>4, <3>6, <3>7, QuietInv DEF Commit, Frame
  <2>4. CASE ~initiated
    <3>1. Goto(t, "commit:saving") /\ initiated' /\ recorded' = Persisted(state', learnt', TRUE)
      BY <1>2, <2>4 DEF Commit, SaveWith
    <3>2. pc' \in [Tasks -> Labels] /\ pc'[t] = "commit:saving" /\ \A u \in Tasks \ {t} : pc'[u] = pc[u]
      BY <1>0, <3>1 DEF Goto, IInv, TypeOK, Labels
    <3>3. InHand(t)'
      BY <1>0, <2>1, <2>2, <3>1, <3>2 DEF InHand, SyncLabels, PlacedLabels, CommitLabels
    <3>4. Moves
      BY <1>0, <1>1, <2>2, <3>2, <3>3 DEF Moves
    <3>5. Pays /\ Sends
      BY <1>0, <1>1, <2>2, <3>1, <3>2 DEF Pays, Sends, Saving
    <3>6. Backed(state', learnt') /\ initiated' = TRUE
      BY <1>0, <1>2, <2>2, <2>4 DEF Commit, SaveWith
    <3> QED
      BY <1>0, <1>1, <2>2, <3>1, <3>4, <3>5, <3>6, StepInv
  <2> QED
    BY <1>0, <2>3, <2>4
<1>3. CASE CommitSend(t)
  <2>1. pc[t] = "commit:send" /\ <<t, "commit">> \in app /\ initiated /\ (Reliable => Kept(durable))
    BY <1>0, <1>3 DEF CommitSend, InHand, CommitLabels
  <2>2. /\ UNCHANGED <<escrow, events, passed, deposits, confirmed, durable, restarts, phase, noted, state, learnt, initiated>>
        /\ sent' = sent \cup {"commit"} /\ Goto(t, "commit:confirm") /\ Still /\ Alive
    BY <1>3 DEF CommitSend, Alive, lifeVars, btcVars, Still, recordVars
  <2>3. pc'[t] = "commit:confirm" /\ "commit:confirm" \in Labels
    BY <1>0, <2>2 DEF Goto, IInv, TypeOK, Labels
  <2>4. (Reliable' <=> Reliable) /\ (Kept(durable)' <=> Kept(durable))
    BY <2>2 DEF Reliable, Careful, Makes, Alone, Kept, Dead, Late
  <2>5. InHand(t)'
    BY <1>0, <2>1, <2>2, <2>3, <2>4 DEF InHand, SyncLabels, PlacedLabels, CommitLabels
  <2>6. Pays
    BY <1>0, <2>2 DEF Pays
  <2> QED
    BY <1>0, <1>1, <2>1, <2>2, <2>3, <2>5, <2>6, QuietInv
<1>4. CASE CommitConfirmed(t)
  <2>1. Backed("CLAIM_COMMITED", learnt) /\ "CLAIM_COMMITED" \in ReceiveStates
    BY <1>4 DEF CommitConfirmed, Backed, Placed, ReceiveStates
  <2> QED
    BY <1>0, <1>1, <1>4, <2>1, EmitIfInv DEF CommitConfirmed
<1>5. CASE CommitFail(t)
  BY <1>0, <1>1, <1>5, EndInv DEF CommitFail
<1>6. CASE WaitCommit(t) \/ WatchCommit(t)
  <2>1. ~Careful
    BY <1>0, <1>6 DEF WaitCommit, WatchCommit, Called, InHand, Careful, Makes
  <2>2. PICK next \in {"wc:poll", "wc:expiry", "wc:no", "wc:yes"} :
          Goto(t, next) /\ Still /\ Frame /\ (next = "wc:yes" => Placed)
    <3>1. CASE WaitCommit(t)
      BY <3>1 DEF WaitCommit
    <3>2. CASE pc[t] = "wc:expiry" /\ WatchCommit(t)
      BY <3>2 DEF WatchCommit
    <3>3. CASE pc[t] = "wc:poll" /\ WatchCommit(t)
      <4>1. PICK answer \in StatusOf(escrow) :
              Goto(t, IF answer = "NOT_COMMITED" THEN "wc:expiry"
                      ELSE IF answer = "EXPIRED" THEN "wc:no" ELSE "wc:yes")
        BY <3>3 DEF WatchCommit
      <4>2. answer \in {"NOT_COMMITED", "EXPIRED"} \/ Placed
        <5>1. escrow \in {"none", "open", "paid", "refunded"}
          BY DEF IInv, TypeOK, ReceiveTypeOK
        <5> QED
          BY <5>1 DEF StatusOf, Placed
      <4> QED
        BY <3>3, <4>1, <4>2 DEF WatchCommit
    <3> QED
      BY <1>6, <3>1, <3>2, <3>3 DEF WatchCommit
  <2>3. /\ pc'[t] = next /\ noted' = noted /\ next \in Labels
        /\ UNCHANGED <<escrow, passed, confirmed, deposits, sent, events>>
    BY <1>0, <2>2 DEF Goto, Frame, IInv, TypeOK, Labels, worldVars, btcVars
  <2>4. ~Careful'
    BY <2>1 DEF Careful, Makes
  <2>5. InHand(t)'
    BY <1>0, <2>2, <2>3, <2>4 DEF InHand, SyncLabels, PlacedLabels, CommitLabels, Placed
  <2>6. Pays
    BY <1>0, <2>3 DEF Pays
  <2> QED
    BY <1>0, <1>1, <2>2, <2>3, <2>5, <2>6, QuietInv DEF Frame
<1>7. CASE WaitCommitDone(t)
  <2>1. PICK s \in {"QUOTE_EXPIRED", "CLAIM_COMMITED"} :
          /\ EmitIf(t, QuoteStates, s)
          /\ s = "QUOTE_EXPIRED" => ~Careful
          /\ s = "CLAIM_COMMITED" => Placed
    BY <1>0, <1>7 DEF WaitCommitDone, InHand, PlacedLabels
  <2>2. Backed(s, learnt) /\ s \in ReceiveStates
    BY <2>1 DEF Backed, ReceiveStates, OpenStates, DepositStates
  <2> QED
    BY <1>0, <1>1, <1>7, <2>1, <2>2, EmitIfInv DEF WaitCommitDone
<1> QED
  BY <1>2, <1>3, <1>4, <1>5, <1>6, <1>7 DEF CommitNext

\* A claim is shown for an escrow that was claimed, a failure for one that timed out.
LEMMA ClaimInv ==
  ASSUME IInv, NEW t \in Callers, ClaimNext(t), UNCHANGED app
  PROVE  IInv'
<1>0. /\ t \in Tasks /\ InHand(t) /\ Backed(state, learnt) /\ state \in ReceiveStates
      /\ deposits \in 0..MaxDeposits /\ noted \in [Tasks -> Notes]
  BY DEF Tasks, IInv, AllBacked, TypeOK, ReceiveTypeOK
<1>1. phase = "run" /\ pc[t] # "commit:saving"
  BY <1>0, Where DEF ClaimNext, Claim, ClaimSend, ClaimConfirmed, ClaimFailed, WaitClaim, WatchClaim,
                     ClaimSettled, Called, Running, SyncLabels
<1>2. "PAID" \in StatusOf(escrow) => escrow = "paid"
  BY StatusTrue
<1>3. ASSUME escrow = "paid" PROVE Backed("CLAIM_CLAIMED", learnt) /\ Backed("CLAIM_CLAIMED", "good")
  BY <1>3 DEF Backed, OpenStates, DepositStates
<1>4. "CLAIM_CLAIMED" \in ReceiveStates /\ "FAILED" \in ReceiveStates
  BY DEF ReceiveStates
<1>5. ASSUME NEW next \in {"claim:send", "claim:confirm", "claim:failed",
                           "wcl:poll", "wcl:paid", "wcl:failed", "idle"},
             Goto(t, next), Still, Frame, next = "wcl:poll" => Placed, next = "wcl:failed" => Placed /\ Late,
             next = "wcl:paid" => escrow = "paid"
      PROVE  IInv'
  <2>1. /\ pc'[t] = next /\ noted' = noted /\ next \in Labels
        /\ UNCHANGED <<escrow, passed, confirmed, deposits, sent, events>>
    BY <1>0, <1>5 DEF Goto, Frame, IInv, TypeOK, Labels, worldVars, btcVars
  <2>2. InHand(t)'
    BY <1>0, <1>5, <2>1 DEF InHand, SyncLabels, PlacedLabels, CommitLabels, Placed, Late
  <2>3. Pays
    BY <1>0, <2>1 DEF Pays
  <2> QED
    BY <1>0, <1>1, <1>5, <2>1, <2>2, <2>3, QuietInv DEF Frame
<1>6. CASE Claim(t) \/ ClaimSend(t) \/ WaitClaim(t)
  BY <1>0, <1>5, <1>6 DEF Claim, ClaimSend, WaitClaim, Backed, OpenStates, DepositStates
<1>7. CASE ClaimConfirmed(t)
  BY <1>0, <1>1, <1>3, <1>4, <1>5, <1>7, EmitIfInv DEF ClaimConfirmed
<1>8. CASE ClaimFailed(t)
  BY <1>2, <1>5, <1>8 DEF ClaimFailed
<1>9. CASE WatchClaim(t)
  <2>1. Placed
    BY <1>0, <1>9 DEF WatchClaim, InHand, PlacedLabels
  <2>2. {"NOT_COMMITED", "EXPIRED"} \cap StatusOf(escrow) # {} => Late
    BY <2>1, StatusTrue
  <2>3. CASE Goto(t, "idle")
    BY <1>5, <1>9, <2>3 DEF WatchClaim
  <2>4. CASE "PAID" \in StatusOf(escrow) /\ Goto(t, "wcl:paid")
    BY <1>2, <1>5, <1>9, <2>4 DEF WatchClaim
  <2>5. CASE Late /\ Goto(t, "wcl:failed")
    BY <1>5, <1>9, <2>1, <2>5 DEF WatchClaim
  <2> QED
    BY <1>9, <2>2, <2>3, <2>4, <2>5 DEF WatchClaim
<1>10. CASE ClaimSettled(t)
  <2>1. CASE pc[t] = "wcl:paid" /\ EmitWith(t, "CLAIM_CLAIMED", "good", "saving")
    <3>1. Backed("CLAIM_CLAIMED", "good")
      BY <1>0, <1>3, <2>1 DEF InHand
    <3> QED
      BY <1>0, <1>1, <1>4, <1>10, <2>1, <3>1, EmitInv DEF ClaimSettled
  <2>2. CASE pc[t] = "wcl:failed" /\ EmitFrom(t, "FAILED", "saving")
    <3>1. Backed("FAILED", learnt)
      BY <1>0, <2>2 DEF InHand, Backed, OpenStates, DepositStates
    <3> QED
      BY <1>0, <1>1, <1>4, <1>10, <2>2, <3>1, EmitInv DEF ClaimSettled, EmitFrom
  <2>3. CASE Goto(t, "idle") /\ Still
    BY <1>5, <1>10, <2>3 DEF ClaimSettled
  <2> QED
    BY <1>10, <2>1, <2>2, <2>3 DEF ClaimSettled
<1> QED
  BY <1>6, <1>7, <1>8, <1>9, <1>10 DEF ClaimNext
-----------------------------------------------------------------------------
(* checkPastSwaps *)

\* wrapper.init() starts its sync when nothing else runs.
LEMMA SyncStartInv ==
  ASSUME IInv, NEW t \in Callers, SyncStart(t), UNCHANGED app
  PROVE  IInv'
<1>0. /\ t \in Tasks /\ noted \in [Tasks -> Notes] /\ deposits \in 0..MaxDeposits /\ InHand(t)
  BY DEF Tasks, IInv, TypeOK, ReceiveTypeOK
<1>1. /\ UNCHANGED <<escrow, events, passed, sent, deposits, confirmed, durable, restarts, noted,
                     state, learnt, initiated, recorded>>
      /\ Goto(t, "sync:expiry") /\ Still
  BY DEF SyncStart, Still, recordVars, worldVars, btcVars
<1>2. pc' \in [Tasks -> Labels] /\ pc'[t] = "sync:expiry" /\ \A u \in Tasks \ {t} : pc'[u] = pc[u]
  BY <1>0, <1>1 DEF Goto, IInv, TypeOK, Labels
<1>3. CASE Called(t, "sync") /\ UNCHANGED phase
  <2>1. InHand(t)'
    BY <1>0, <1>1, <1>2, <1>3 DEF InHand, Called, SyncLabels, PlacedLabels, CommitLabels
  <2>2. Pays /\ "sync:expiry" \in Labels
    BY <1>0, <1>1 DEF Pays, Labels
  <2> QED
    BY <1>0, <1>1, <1>3, <2>1, <2>2, QuietInv DEF Called, Running, Alive, lifeVars
<1>4. CASE t = Starter /\ phase = "init" /\ phase' = "syncing"
  <2>1. \A u \in Tasks \ {t} : pc'[u] = "idle"
    BY <1>2, <1>4 DEF IInv, Phases
  <2>2. Phases'
    BY <1>2, <1>4, <2>1 DEF Phases, SyncLabels
  <2>3. (Dead' <=> Dead) /\ (Careful' <=> Careful) /\ (Late' <=> Late) /\ (Placed' <=> Placed)
    BY <1>1 DEF Dead, Late, Placed, Careful, Makes
  <2>4. (Reliable' <=> Reliable) /\ (Alone("send")' <=> Alone("send")) /\ (Makes({"sync"})' <=> Makes({"sync"}))
    BY <2>3 DEF Reliable, Alone, Makes
  <2>5. AllBacked' /\ EventsTrue' /\ Chain' /\ Paying'
    BY <1>1, <2>3, <2>4 DEF IInv, AllBacked, Backed, EventsTrue, EventTrue, Announced, Chain, Paying, Placed
  <2>6. ~Saving
    BY <1>4 DEF Saving, IInv, Phases
  <2>7. Tracked'
    BY <1>1, <1>4, <2>3, <2>4, <2>6 DEF IInv, Tracked, Kept
  <2>8. \A u \in Tasks : InHand(u)'
    BY <1>1, <1>2, <1>4, <2>1 DEF IInv, InHand, SyncLabels, PlacedLabels, CommitLabels
  <2>9. TypeOK'
    BY <1>1, <1>2, <1>4 DEF IInv, TypeOK, ReceiveTypeOK
  <2> QED
    BY <2>2, <2>5, <2>7, <2>8, <2>9 DEF IInv
<1> QED
  BY <1>3, <1>4 DEF SyncStart

\* Answers are noted, and prove what they are noted for.
LEMMA SyncNoteInv ==
  ASSUME IInv, NEW t \in Callers, SyncExpiry(t) \/ SyncStatus(t), UNCHANGED app
  PROVE  IInv'
<1>0. /\ t \in Tasks /\ noted \in [Tasks -> Notes] /\ deposits \in 0..MaxDeposits /\ InHand(t) /\ Backed(state, learnt)
  BY DEF Tasks, IInv, AllBacked, TypeOK, ReceiveTypeOK
<1>1. /\ UNCHANGED <<escrow, events, passed, sent, deposits, confirmed, durable, restarts, phase,
                     state, learnt, initiated, recorded>>
      /\ pc[t] \in {"sync:expiry", "sync:status"} /\ Still /\ Alive
  BY DEF SyncExpiry, SyncStatus, Still, Alive, recordVars, lifeVars, worldVars, btcVars
<1>2. /\ phase = "run" \/ (phase = "syncing" /\ t = Starter)
      /\ phase = "syncing" \/ <<t, "sync">> \in app
  BY <1>0, <1>1, Where DEF InHand, SyncLabels
<1>3. Pays
  BY <1>0, <1>1 DEF Pays
<1>4. CASE SyncExpiry(t)
  <2>1. /\ noted' \in [Tasks -> Notes] /\ \A u \in Tasks \ {t} : noted'[u] = noted[u]
        /\ noted'[t].expired => "auth" \in passed
    BY <1>0, <1>4 DEF SyncExpiry, Notes
  <2>2. Goto(t, "sync:status") /\ pc'[t] = "sync:status" /\ "sync:status" \in Labels
    BY <1>0, <1>4 DEF SyncExpiry, Goto, IInv, TypeOK, Labels
  <2>3. InHand(t)'
    BY <1>1, <1>2, <2>1, <2>2 DEF InHand, SyncLabels, PlacedLabels, CommitLabels
  <2> QED
    BY <1>0, <1>1, <1>2, <1>3, <2>1, <2>2, <2>3, QuietInv DEF SyncLabels
<1>5. CASE SyncStatus(t)
  <2>1. PICK answer \in StatusOf(escrow) : noted' = [noted EXCEPT ![t].status = answer]
    BY <1>5 DEF SyncStatus
  <2>2. /\ answer \in {"NOT_COMMITED", "COMMITED", "REFUNDABLE", "PAID", "EXPIRED"}
        /\ answer = "PAID" => escrow = "paid"
        /\ answer = "COMMITED" => Placed
        /\ answer \in {"EXPIRED", "REFUNDABLE"} => Late
        /\ answer = "NOT_COMMITED" => (Placed => Late) /\ ("auth" \in passed => Dead)
    BY StatusTrue
  <2>3. /\ noted' \in [Tasks -> Notes] /\ \A u \in Tasks \ {t} : noted'[u] = noted[u]
        /\ noted'[t].status = answer /\ noted'[t].expired = noted[t].expired
    BY <1>0, <2>1, <2>2 DEF Notes
  <2>4. Goto(t, "sync:apply") /\ pc'[t] = "sync:apply" /\ "sync:apply" \in Labels
    BY <1>0, <1>5 DEF SyncStatus, Goto, IInv, TypeOK, Labels
  <2>5. noted[t].expired => "auth" \in passed
    BY <1>0 DEF InHand
  <2>6. Answered(answer, noted[t].expired)
    BY <1>0, <2>2, <2>5 DEF Answered, Backed
  <2>7. Answered(noted[t].status, noted[t].expired)'
    BY <1>1, <2>3, <2>6 DEF Answered, Placed, Late, Dead, Makes
  <2>8. InHand(t)'
    BY <1>1, <1>2, <2>3, <2>4, <2>5, <2>7 DEF InHand, SyncLabels, PlacedLabels, CommitLabels
  <2> QED
    BY <1>0, <1>1, <1>2, <1>3, <2>3, <2>4, <2>8, QuietInv DEF SyncLabels
<1> QED
  BY <1>4, <1>5

\* A sync that fails ends as it stands.
LEMMA SyncFailInv ==
  ASSUME IInv, NEW t \in Callers, SyncFail(t), UNCHANGED app
  PROVE  IInv'
<1>1. t \in Tasks /\ noted \in [Tasks -> Notes] /\ pc \in [Tasks -> Labels] /\ deposits \in 0..MaxDeposits
  BY DEF Tasks, IInv, TypeOK, ReceiveTypeOK
<1>2. /\ noted' \in [Tasks -> Notes] /\ noted'[t] = Nothing /\ pc'[t] = "idle"
      /\ \A u \in Tasks \ {t} : noted'[u] = noted[u]
  BY <1>1 DEF SyncFail, Goto, Nothing, Notes
<1>3. InHand(t)' /\ "idle" \in Labels
  BY <1>2 DEF InHand, SyncLabels, PlacedLabels, CommitLabels, Nothing, Labels
<1>4. Pays /\ pc[t] # "commit:saving"
  BY <1>1 DEF SyncFail, Pays, btcVars
<1> QED
  BY <1>1, <1>2, <1>3, <1>4, QuietInv DEF SyncFail, worldVars, btcVars

\* What the sync makes of its answers is what they still prove.
LEMMA SyncChangeInv ==
  ASSUME IInv, NEW t \in Callers, SyncApply(t) \/ SyncDeposit(t) \/ SyncEnd(t), UNCHANGED app
  PROVE  IInv'
<1>0. /\ t \in Tasks /\ noted \in [Tasks -> Notes] /\ deposits \in 0..MaxDeposits /\ InHand(t) /\ Backed(state, learnt)
      /\ state \in ReceiveStates /\ learnt \in {"none", "good", "bad"} /\ initiated \in BOOLEAN
      /\ noted[t].status \in {"NOT_COMMITED", "COMMITED", "REFUNDABLE", "PAID", "EXPIRED"}
  BY DEF Tasks, IInv, AllBacked, TypeOK, ReceiveTypeOK, Notes
<1>1. /\ UNCHANGED <<escrow, events, passed, sent, deposits, confirmed, durable, restarts, phase, initiated>>
      /\ pc[t] \in {"sync:apply", "sync:asked", "sync:end"}
  BY DEF SyncApply, SyncDeposit, SyncEnd, SaveAs, SaveWith, Still, Alive, recordVars, lifeVars, worldVars, btcVars
<1>2. /\ phase = "run" \/ (phase = "syncing" /\ t = Starter)
      /\ phase = "syncing" \/ <<t, "sync">> \in app
  BY <1>0, <1>1, Where DEF InHand, SyncLabels
<1>3. Pays /\ Sends
  BY <1>0, <1>1 DEF Pays, Sends
<1>4. ASSUME NEW next \in {"sync:asked", "sync:end", "saving", "idle"}, Goto(t, next),
             noted' \in [Tasks -> Notes], \A u \in Tasks \ {t} : noted'[u] = noted[u],
             noted'[t].expired => noted[t].expired, next = "sync:asked" => Placed,
             state' \in ReceiveStates, learnt' \in {learnt, "good"}, Backed(state', learnt'),
             recorded' \in {recorded, Persisted(state', learnt', initiated')}
      PROVE  IInv'
  <2>1. pc' \in [Tasks -> Labels] /\ pc'[t] = next /\ \A u \in Tasks \ {t} : pc'[u] = pc[u]
    BY <1>0, <1>4 DEF Goto, IInv, TypeOK, Labels
  <2>2. InHand(t)'
    BY <1>0, <1>1, <1>2, <1>4, <2>1 DEF InHand, SyncLabels, PlacedLabels, CommitLabels, Placed
  <2>3. Moves
    BY <1>0, <1>1, <1>2, <1>4, <2>1, <2>2 DEF Moves, SyncLabels
  <2>4. state' = state \/ phase = "run" \/ pc'[Starter] # "sync:apply"
    BY <1>2, <1>4, <2>1
  <2> QED
    BY <1>0, <1>1, <1>2, <1>3, <1>4, <2>3, <2>4, StepInv
<1>5. CASE SyncApply(t)
  <2>1. pc[t] = "sync:apply" /\ Answered(noted[t].status, noted[t].expired)
    BY <1>0, <1>5 DEF SyncApply, InHand
  <2>2. /\ state' = SyncedState(t) /\ recorded' = recorded
        /\ learnt' = IF state' = "CLAIM_CLAIMED" /\ state # state' THEN "good" ELSE learnt
    BY <1>5 DEF SyncApply
  <2>3. SyncedState(t) \in ReceiveStates
    BY <1>0 DEF SyncedState, ReceiveStates
  <2>4. Backed(SyncedState(t), learnt')
    BY <1>0, <2>1, <2>2 DEF SyncedState, Backed, Answered, QuoteStates, OpenStates, DepositStates, Dead
  <2>5. PICK next \in {"sync:asked", "sync:end"} : Goto(t, next) /\ (next = "sync:asked" => Placed)
    BY <2>1, <1>5 DEF SyncApply, Answered
  <2>6. /\ noted' \in [Tasks -> Notes] /\ \A u \in Tasks \ {t} : noted'[u] = noted[u]
        /\ noted'[t].expired = noted[t].expired
    BY <1>0, <1>5 DEF SyncApply, Notes
  <2> QED
    BY <1>0, <1>4, <2>2, <2>3, <2>4, <2>5, <2>6
<1>6. CASE SyncDeposit(t)
  <2>1. Placed
    BY <1>0, <1>6 DEF SyncDeposit, InHand, PlacedLabels
  <2>2. /\ state' \in {state, "BTC_TX_CONFIRMED"} /\ learnt' \in {learnt, "good"} /\ recorded' = recorded
        /\ state' # state => confirmed /\ learnt' = "good"
    BY <1>6, DepositAnswered DEF SyncDeposit
  <2>3. Backed(state', learnt') /\ state' \in ReceiveStates
    BY <1>0, <2>1, <2>2 DEF Backed, ReceiveStates
  <2>4. /\ noted' \in [Tasks -> Notes] /\ \A u \in Tasks \ {t} : noted'[u] = noted[u]
        /\ noted'[t].expired = noted[t].expired
    <3>1. CASE noted' = noted
      BY <1>0, <3>1
    <3>2. CASE noted' # noted
      <4>1. PICK b \in BOOLEAN : noted' = [noted EXCEPT ![t].changed = b]
        <5>1. noted' = [noted EXCEPT ![t].changed = noted[t].changed \/ learnt = "none" \/ DepositAnswer = "confirmed"]
          BY <1>6, <3>2 DEF SyncDeposit
        <5>2. (noted[t].changed \/ learnt = "none" \/ DepositAnswer = "confirmed") \in BOOLEAN
          OBVIOUS
        <5> QED
          BY <5>1, <5>2
      <4> QED
        BY <1>0, <4>1 DEF Notes
    <3> QED
      BY <3>1, <3>2
  <2> QED
    BY <1>4, <1>6, <2>2, <2>3, <2>4 DEF SyncDeposit
<1>7. CASE SyncEnd(t)
  <2>1. PICK next \in {"saving", "idle"} : Goto(t, next)
    BY <1>7 DEF SyncEnd
  <2>2. /\ state' = state /\ learnt' = learnt
        /\ recorded' \in {recorded, Persisted(state', learnt', initiated')}
    BY <1>7 DEF SyncEnd, SaveAs, SaveWith, Still, recordVars
  <2>3. noted' \in [Tasks -> Notes] /\ (\A u \in Tasks \ {t} : noted'[u] = noted[u]) /\ ~noted'[t].expired
    BY <1>0, <1>7 DEF SyncEnd, Notes, Nothing
  <2>4. Backed(state', learnt')
    BY <1>0, <2>2
  <2> QED
    BY <1>0, <1>4, <2>1, <2>2, <2>3, <2>4
<1> QED
  BY <1>5, <1>6, <1>7
-----------------------------------------------------------------------------
(* The listener, the world and the storage *)

\* Events tell what happened to the escrow.
LEMMA ListenerInv ==
  ASSUME IInv, ListenerNext, UNCHANGED app
  PROVE  IInv'
<1>0. /\ noted \in [Tasks -> Notes] /\ deposits \in 0..MaxDeposits /\ Backed(state, learnt)
      /\ state \in ReceiveStates /\ initiated \in BOOLEAN /\ pc \in [Tasks -> Labels]
  BY DEF IInv, AllBacked, TypeOK, ReceiveTypeOK
<1>1. PICK e \in {"init", "claim", "refund"} :
        /\ NextEvent(e)
        /\ IF recorded = Absent THEN Still /\ UNCHANGED pc
           ELSE /\ SaveWith(OnEvent(e), IF e = "claim" THEN "good" ELSE learnt, initiated)
                /\ pc' = Waked(OnEvent(e))
  BY DEF ListenerNext
<1>2. /\ UNCHANGED <<escrow, passed, sent, deposits, confirmed, durable, restarts, phase, noted>>
      /\ phase = "run"
  BY <1>1 DEF ListenerNext, NextEvent, Alive, lifeVars, btcVars
<1>3. EventTrue(e)
  BY <1>1, NextAnnounced DEF IInv, TypeOK, EventsTrue
<1>4. Pays
  BY <1>0, <1>2 DEF Pays
<1>5. CASE Still /\ UNCHANGED pc
  <2>1. Moves
    BY <1>0, <1>2, <1>5 DEF Moves
  <2>2. UNCHANGED <<state, learnt, initiated, recorded>>
    BY <1>5 DEF Still, recordVars
  <2>3. Sends /\ Backed(state', learnt')
    BY <1>0, <1>2, <2>2 DEF Sends
  <2> QED
    BY <1>0, <1>1, <1>2, <1>4, <2>1, <2>2, <2>3, StepInv
<1>6. CASE SaveWith(OnEvent(e), IF e = "claim" THEN "good" ELSE learnt, initiated) /\ pc' = Waked(OnEvent(e))
  <2>1. Moves
    BY <1>0, <1>2, <1>6, WakedMoves DEF Moves
  <2>2. /\ state' = OnEvent(e) /\ learnt' \in {learnt, "good"} /\ initiated' = initiated
        /\ recorded' = Persisted(state', learnt', initiated')
    BY <1>6 DEF SaveWith
  <2>3. OnEvent(e) \in ReceiveStates
    BY <1>0 DEF OnEvent, ReceiveStates
  <2>4. escrow = "refunded" => Late
    BY DEF IInv, Chain
  <2>5. Backed(OnEvent(e), learnt')
    BY <1>0, <1>3, <2>2, <2>4 DEF OnEvent, EventTrue, Backed, OpenStates, DepositStates
  <2>6. Sends /\ Backed(state', learnt')
    BY <1>2, <2>2, <2>5 DEF Sends
  <2> QED
    BY <1>0, <1>1, <1>2, <1>4, <2>1, <2>2, <2>3, <2>6, StepInv
<1> QED
  BY <1>1, <1>5, <1>6

\* What was true of the escrow, its clocks and the deposit stays true.
LEMMA EnvironmentInv ==
  ASSUME IInv, Environment, UNCHANGED app
  PROVE  IInv'
<1>0. UNCHANGED <<state, learnt, initiated, recorded, durable, phase, restarts, pc, noted, deposits>>
  BY DEF Environment, recordVars, lifeVars, btcVars
<1>1. TypeOK'
  <2>1. CASE ChainCommit \/ ChainClaim \/ ChainRefund
    <3>1. PICK to \in {"open", "paid", "refunded"}, from \in {"none", "open"}, e \in {"init", "claim", "refund"} :
            EscrowStep(from, to, e)
      BY <2>1 DEF ChainCommit, ChainClaim, ChainRefund
    <3>2. ReceiveTypeOK'
      BY <1>0, <3>1, EscrowStepType DEF IInv, TypeOK, Still, Alive, recordVars, lifeVars
    <3>3. UNCHANGED confirmed
      BY <2>1, <3>1 DEF Environment, btcVars, EscrowStep, worldVars, Confirm, Clock, Expire, IInv, TypeOK, ReceiveTypeOK
    <3> QED
      BY <1>0, <3>2, <3>3 DEF IInv, TypeOK
  <2>2. CASE Clock /\ UNCHANGED btcVars
    <3>1. ReceiveTypeOK'
      BY <1>0, <2>2, ExpireType DEF Clock, IInv, TypeOK, Still, Alive, recordVars, lifeVars
    <3> QED
      BY <1>0, <2>2, <3>1 DEF IInv, TypeOK, btcVars
  <2>3. CASE Confirm /\ UNCHANGED worldVars
    BY <1>0, <2>3 DEF IInv, TypeOK, ReceiveTypeOK, Confirm, worldVars
  <2> QED
    BY <2>1, <2>2, <2>3 DEF Environment
<1>2. /\ Placed => Placed'
      /\ Late => Late'
      /\ Dead => Dead'
      /\ confirmed => confirmed'
      /\ escrow = "paid" => escrow' = "paid"
      /\ "auth" \in passed => "auth" \in passed'
      /\ UNCHANGED sent
  BY DEF Environment, ChainCommit, ChainClaim, ChainRefund, Clock, Confirm, EscrowStep, Expire, worldVars,
         btcVars, Placed, Late, Dead, IInv, Chain
<1>3. Chain'
  BY DEF Environment, ChainCommit, ChainClaim, ChainRefund, Clock, Confirm, EscrowStep, Expire, worldVars,
         btcVars, Placed, Late, IInv, Chain
<1>4. (Makes({"sync"})' <=> Makes({"sync"})) /\ (Careful' <=> Careful) /\ (Reliable' <=> Reliable)
      /\ (Alone("send")' <=> Alone("send"))
  BY DEF Makes, Careful, Reliable, Alone
<1>5. AllBacked'
  <2>1. Backed(state, learnt)'
    BY <1>0, <1>2, <1>4 DEF IInv, AllBacked, Backed
  <2>2. Backed(recorded.state, recorded.learnt)'
    BY <1>0, <1>2, <1>4 DEF IInv, AllBacked, Backed
  <2>3. Backed(durable.state, durable.learnt)'
    BY <1>0, <1>2, <1>4 DEF IInv, AllBacked, Backed
  <2> QED
    BY <2>1, <2>2, <2>3 DEF AllBacked
<1>6. EventsTrue'
  <2>1. PICK e : /\ Announced' \subseteq Announced \cup {e}
                 /\ (e \in Announced \/ EventTrue(e)')
    <3>1. CASE ChainCommit
      <4>1. EventTrue("init")'
        BY <3>1 DEF ChainCommit, EscrowStep, EventTrue, Placed
      <4> QED
        BY <3>1, <4>1, StepAnnounced DEF ChainCommit, IInv, TypeOK
    <3>2. CASE ChainClaim
      <4>1. EventTrue("claim")'
        BY <3>2 DEF ChainClaim, EscrowStep, EventTrue, Placed
      <4> QED
        BY <3>2, <4>1, StepAnnounced DEF ChainClaim, IInv, TypeOK
    <3>3. CASE ChainRefund
      <4>1. EventTrue("refund")'
        BY <3>3 DEF ChainRefund, EscrowStep, EventTrue, Placed
      <4> QED
        BY <3>3, <4>1, StepAnnounced DEF ChainRefund, IInv, TypeOK
    <3>4. CASE UNCHANGED events
      <4>1. EventTrue("none")' /\ Announced' = Announced
        BY <3>4 DEF EventTrue, Announced
      <4> QED
        BY <4>1
    <3> QED
      BY <3>1, <3>2, <3>3, <3>4 DEF Environment, Clock, Expire, worldVars
  <2>2. escrow = "refunded" => escrow' = "refunded"
    BY DEF Environment, ChainCommit, ChainClaim, ChainRefund, Clock, EscrowStep, Expire, worldVars
  <2> QED
    BY <1>2, <2>1, <2>2 DEF IInv, EventsTrue, EventTrue
<1>7. ASSUME NEW u \in Tasks PROVE InHand(u)'
  <2>1. InHand(u)
    BY DEF IInv
  <2>2. pc[u] = "sync:apply" => Answered(noted[u].status, noted[u].expired)'
    BY <1>0, <1>2, <1>4, <2>1 DEF InHand, Answered
  <2> QED
    BY <1>0, <1>2, <1>4, <2>1, <2>2 DEF InHand, Kept
<1>8. Tracked' /\ Paying' /\ Phases'
  BY <1>0, <1>2, <1>4 DEF IInv, Tracked, Paying, Phases, Kept, Saving
<1> QED
  BY <1>1, <1>3, <1>5, <1>6, <1>7, <1>8 DEF IInv

\* A write, a crash and a restart keep a record of what may have an escrow.
LEMMA StorageInv ==
  ASSUME IInv, StorageNext, UNCHANGED app
  PROVE  IInv'
<1>1. UNCHANGED <<escrow, passed, sent, deposits, confirmed>> /\ Announced' \subseteq Announced
  BY RestartAnnounced DEF StorageNext, Flush, Crash, Restart, InitDone, worldVars, btcVars, Announced, IInv, TypeOK
<1>2. TypeOK'
  <2>1. {"idle", "commit:send"} \subseteq Labels
    BY DEF Labels
  <2>2. ReceiveTypeOK' /\ pc' \in [Tasks -> Labels]
    BY <2>1, StorageType DEF StorageNext, IInv, TypeOK
  <2> QED
    BY <1>1, <2>2 DEF IInv, TypeOK
<1>3. (Late' <=> Late) /\ (Placed' <=> Placed) /\ (Dead' <=> Dead)
  BY <1>1 DEF Late, Placed, Dead
<1>4. (Makes({"sync"})' <=> Makes({"sync"})) /\ (Careful' <=> Careful) /\ (Reliable' <=> Reliable)
      /\ (Alone("send")' <=> Alone("send"))
  BY DEF Makes, Careful, Reliable, Alone
<1>5. \A s, known : Backed(s, known)' <=> Backed(s, known)
  BY <1>1, <1>3, <1>4 DEF Backed
<1>6. EventsTrue' /\ Chain' /\ Paying'
  BY <1>1, <1>3, <1>4 DEF IInv, EventsTrue, EventTrue, Chain, Paying
<1>7. AllBacked'
  <2>1. Backed(state', learnt') /\ Backed(recorded'.state, recorded'.learnt) /\ Backed(durable'.state, durable'.learnt)
    BY DEF StorageNext, Flush, Crash, Restart, InitDone, Still, recordVars, IInv, AllBacked
  <2> QED
    BY <1>1, <1>3, <1>4, <2>1 DEF AllBacked, Backed
<1>8. CASE Flush
  <2>1. /\ UNCHANGED <<state, initiated, recorded, phase, noted>> /\ durable' = recorded
        /\ \A u \in Tasks : pc'[u] = Resumed(pc[u])
    BY <1>8 DEF Flush, Still, recordVars
  <2>2. phase \in {"run", "syncing"}
    BY <1>8 DEF Flush, IInv, Phases, Resumed, TypeOK, ReceiveTypeOK
  <2>3. (Kept(recorded)' <=> Kept(recorded)) /\ (Kept(durable)' <=> Kept(recorded))
    BY <1>3, <2>1 DEF Kept
  <2>4. Tracked'
    BY <1>1, <1>4, <2>1, <2>2, <2>3 DEF IInv, Tracked
  <2>5. Phases'
    BY <2>1, <2>2 DEF IInv, Phases, Resumed, SyncLabels
  <2>6. ASSUME NEW u \in Tasks PROVE InHand(u)'
    <3>1. InHand(u) /\ pc'[u] = Resumed(pc[u])
      BY <2>1 DEF IInv
    <3>2. CASE pc[u] = "saving"
      BY <2>1, <3>1, <3>2, <1>1 DEF InHand, Resumed, SyncLabels, PlacedLabels, CommitLabels
    <3>3. CASE pc[u] = "commit:saving"
      <4>1. initiated /\ <<u, "commit">> \in app
        BY <3>1, <3>3 DEF InHand, CommitLabels
      <4>2. Reliable => Kept(durable)'
        BY <2>2, <2>3, <4>1 DEF IInv, Tracked
      <4> QED
        BY <1>1, <1>4, <2>1, <3>1, <3>3, <4>1, <4>2 DEF InHand, Resumed, SyncLabels, PlacedLabels, CommitLabels
    <3>4. CASE pc[u] \notin {"saving", "commit:saving"}
      <4>1. pc'[u] = pc[u] /\ noted'[u] = noted[u]
        BY <2>1, <3>1, <3>4 DEF Resumed
      <4>2. pc[u] \in {"commit:send", "commit:confirm"} => initiated
        BY <3>1 DEF InHand, CommitLabels
      <4>3. pc[u] \in {"commit:send", "commit:confirm"} => (Reliable => Kept(durable)')
        BY <2>2, <2>3, <4>2 DEF IInv, Tracked
      <4>4. pc[u] = "sync:apply" => Answered(noted[u].status, noted[u].expired)'
        BY <1>1, <1>3, <1>4, <2>1, <3>1 DEF InHand, Answered
      <4> QED
        BY <1>1, <1>3, <1>4, <2>1, <3>1, <4>1, <4>3, <4>4 DEF InHand
    <3> QED
      BY <3>2, <3>3, <3>4
  <2> QED
    BY <1>2, <1>6, <1>7, <2>4, <2>5, <2>6 DEF IInv
<1>9. CASE Crash
  <2>1. /\ phase' = "down" /\ recorded' = durable /\ UNCHANGED <<initiated, durable>>
        /\ \A u \in Tasks : pc'[u] = "idle" /\ ~noted'[u].expired
    BY <1>9 DEF Crash, Nothing
  <2>2. \A u \in Tasks : InHand(u)'
    BY <2>1 DEF InHand, SyncLabels, PlacedLabels, CommitLabels
  <2>3. Tracked' /\ Phases'
    BY <1>1, <1>3, <1>4, <2>1 DEF IInv, Tracked, Phases, Kept
  <2> QED
    BY <1>2, <1>6, <1>7, <2>2, <2>3 DEF IInv
<1>10. CASE Restart(PendingStates) \/ InitDone
  <2>1. /\ \A u \in Tasks : pc[u] = "idle" /\ pc'[u] = "idle" /\ noted'[u] = noted[u]
        /\ phase' \in {"init", "run"} /\ UNCHANGED <<recorded, durable>>
    BY <1>10 DEF Restart, InitDone, Still, recordVars, IInv, Phases
  <2>2. \A u \in Tasks : InHand(u)'
    BY <1>1, <2>1 DEF IInv, InHand, SyncLabels, PlacedLabels, CommitLabels
  <2>3. phase' = "init" => recorded = durable
    BY <1>10 DEF Restart, InitDone, IInv, Phases
  <2>4. Phases'
    BY <2>1, <2>3 DEF Phases
  <2>5. Tracked'
    <3>1. CASE Restart(PendingStates)
      <4>1. durable # Absent /\ recorded = durable /\ initiated'
        BY <3>1 DEF Restart, IInv, Phases
      <4> QED
        BY <1>1, <1>3, <1>4, <2>1, <4>1 DEF IInv, Tracked, Kept
    <3>2. CASE InitDone
      <4>1. initiated' = initiated /\ phase # "down" /\ ~Saving
        BY <2>1, <3>2 DEF InitDone, Still, recordVars, Saving
      <4> QED
        BY <1>1, <1>3, <1>4, <2>1, <4>1 DEF IInv, Tracked, Kept
    <3> QED
      BY <1>10, <3>1, <3>2
  <2> QED
    BY <1>2, <1>6, <1>7, <2>2, <2>4, <2>5 DEF IInv
<1> QED
  BY <1>8, <1>9, <1>10 DEF StorageNext

-----------------------------------------------------------------------------
(* The theorems *)

\* A quote as create() returns it satisfies the invariant.
LEMMA InitInv ==
  ASSUME Init
  PROVE  IInv
<1>1. TypeOK
  <2>1. <<>> \in Seq({"init", "claim", "refund"})
    OBVIOUS
  <2>2. "PR_CREATED" \in ReceiveStates /\ Absent \in Records /\ Nothing \in Notes /\ "idle" \in Labels
    BY DEF ReceiveStates, Records, Notes, Nothing, Labels
  <2>3. 0 \in 0..MaxRestarts /\ 0 \in 0..MaxDeposits
    BY ReceiveRestartsAssumption, DepositsAssumption
  <2> QED
    BY <2>1, <2>2, <2>3 DEF Init, ReceiveInit, TypeOK, ReceiveTypeOK
<1>2. Announced = {}
  BY DEF Init, ReceiveInit, Announced
<1>3. AllBacked /\ Phases /\ EventsTrue /\ Chain
  BY <1>2 DEF Init, ReceiveInit, AllBacked, Backed, Phases, EventsTrue, Chain, Placed, Late, Absent,
              OpenStates, DepositStates
<1>4. Tracked /\ Paying /\ \A t \in Tasks : InHand(t)
  BY DEF Init, ReceiveInit, Tracked, Paying, InHand, Nothing, SyncLabels, PlacedLabels, CommitLabels
<1> QED
  BY <1>1, <1>3, <1>4 DEF IInv

\* Every step keeps the invariant.
LEMMA NextInv ==
  ASSUME IInv, [Next]_vars
  PROVE  IInv'
<1>1. CASE UNCHANGED vars
  <2>1. UNCHANGED <<escrow, passed, sent, deposits, confirmed, state, learnt, initiated, recorded, durable, phase,
                    restarts, pc, noted, app, events>>
    BY <1>1 DEF vars, receiveVars, worldVars, recordVars, lifeVars, btcVars
  <2>2. Moves /\ Pays /\ Sends
    BY <2>1 DEF Moves, Pays, Sends, IInv, TypeOK, ReceiveTypeOK
  <2>3. state \in ReceiveStates /\ initiated \in BOOLEAN /\ Backed(state, learnt)
    BY DEF IInv, AllBacked, TypeOK, ReceiveTypeOK
  <2>4. Backed(state', learnt')
    BY <2>1, <2>3
  <2> QED
    BY <2>1, <2>2, <2>3, <2>4, StepInv
<1>2. CASE Next
  BY <1>2, EnvironmentInv, TickInv, SyncStartInv, SyncNoteInv, SyncChangeInv, SyncFailInv, CommitInv, SendInv, ClaimInv,
     ListenerInv, StorageInv DEF Next, SyncNext
<1> QED
  BY <1>1, <1>2

\* The inductive invariant holds, whatever the application calls.
THEOREM InductiveInvariant == Spec => []IInv
<1>1. Init => IInv
  BY InitInv
<1>2. IInv /\ [Next]_vars => IInv'
  BY NextInv
<1> QED
  BY <1>1, <1>2, PTL DEF Spec

\* Every variable keeps its type.
THEOREM TypeCorrect == Spec => []TypeOK
<1>1. IInv => TypeOK
  BY DEF IInv
<1> QED
  BY <1>1, InductiveInvariant, PTL

\* ShownIsTrue: what the swap shows of its deposit and its escrow is so, also
\* when it was concluded from answers that are old by now.
THEOREM ShownCorrect == Spec => []ShownIsTrue
<1>1. IInv => ShownIsTrue
  BY DEF IInv, AllBacked, Backed, Late, ShownIsTrue
<1> QED
  BY <1>1, InductiveInvariant, PTL

\* One slot commits: a second commit() beside the first would not wait for its
\* save.
OneCommitter ==
  \A a \in Applications : \A t, u \in Callers :
    {<<t, "commit">>, <<u, "commit">>} \subseteq a => t = u

\* One slot runs execute(): two at once would both find no deposit.
OneSender ==
  \A a \in Applications : \A t, u \in Callers :
    {<<t, "send">>, <<u, "send">>} \subseteq a => t = u

\* DepositIsTracked: the record of a swap whose escrow may be claimed is one
\* that wrapper.init() picks up again.
THEOREM TrackedCorrect ==
  ASSUME OneCommitter
  PROVE  Spec => []DepositIsTracked
<1>1. IInv => DepositIsTracked
  <2> SUFFICES ASSUME IInv, ~Makes({"waitCommit", "sync"}), escrow = "open", "escrow" \notin passed
               PROVE  durable.state \in PendingStates
    BY DEF DepositIsTracked
  <2>1. app \in Applications /\ durable \in Records
    BY DEF IInv, TypeOK, ReceiveTypeOK
  <2>2. Reliable /\ ~Makes({"sync"})
    BY <2>1 DEF OneCommitter, Reliable, Careful, Alone, Makes
  <2>3. durable # Absent
    BY <2>2 DEF IInv, Tracked, Chain, Kept, Placed, Dead, Late
  <2>4. Backed(durable.state, durable.learnt)
    BY DEF IInv, AllBacked
  <2> QED
    BY <2>1, <2>2, <2>3, <2>4 DEF Records, ReceiveStates, Backed, Late, PendingStates
<1> QED
  BY <1>1, InductiveInvariant, PTL

\* PaidOnce: execute() called again, also after a crash, does not pay again.
THEOREM PaidCorrect ==
  ASSUME OneSender
  PROVE  Spec => []PaidOnce
<1>1. IInv => PaidOnce
  BY DEF IInv, TypeOK, ReceiveTypeOK, Paying, Alone, OneSender, PaidOnce
<1> QED
  BY <1>1, InductiveInvariant, PTL
=============================================================================
