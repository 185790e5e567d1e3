------------------------ MODULE SpvFromBTCSwapProofs ------------------------
(***************************************************************************)
(* Theorems about SpvFromBTCSwap that hold for every set of timers and     *)
(* callers, every choice of calls the application makes and any number of  *)
(* restarts.  The argument has three layers: nothing happens before the    *)
(* PSBT is signed (Begun), every state and every answer under way has its  *)
(* evidence on the chains (Evidence), and a swap is given up only after a  *)
(* double-spend (GivenUp).                                                 *)
(***************************************************************************)
EXTENDS SpvFromBTCSwap, TLAPS

USE EnabledAssumption, SlotsAssumption, RestartsAssumption, ReadsAssumption

-----------------------------------------------------------------------------
(* Types, and what holds before the PSBT is signed *)

\* Until submitPsbt signs, there is no record, no call under way but
\* submitPsbt itself, and nothing the LP could broadcast.
Begun ==
  /\ initiated => state # "CREATED"
  /\ ~initiated =>
       /\ state \in {"CREATED", "QUOTE_SOFT_EXPIRED", "QUOTE_EXPIRED"}
       /\ recorded = "absent" /\ durable = "absent" /\ handling = "nothing"
       /\ ~lpHas
       /\ \A u \in Tasks : pc[u] \in {"idle", "su:check"}

Shape == TypeOK /\ Begun

\* The calls that an emitted state wakes are idle, the others stay.
LEMMA WakedPc ==
  ASSUME NEW s
  PROVE  /\ Waked(s) \in [Tasks -> {Waked(s)[u] : u \in Tasks}]
         /\ \A u \in Tasks : Waked(s)[u] \in {pc[u], "idle"}
BY DEF Waked

\* Emitting a state from a call keeps the swap, its record and pc in shape.
LEMMA EmitShape ==
  ASSUME Shape, NEW t \in Tasks, NEW s \in SwapStates \ {"CREATED"}, NEW next \in Labels,
         EmitFrom(t, s, next), initiated \/ (next = "idle" /\ s \in {"QUOTE_SOFT_EXPIRED", "QUOTE_EXPIRED"}),
         Frame, UNCHANGED worldVars
  PROVE  Shape'
<1>1. Waked(s) \in [Tasks -> Labels] /\ \A u \in Tasks : Waked(s)[u] \in {pc[u], "idle"}
  BY WakedPc DEF Waked, Shape, TypeOK, Labels
<1>2. recorded' \in Records /\ (~initiated => recorded' = recorded)
  BY DEF EmitFrom, SaveAndEmit, Persisted, Shape, TypeOK, Records
<1>3. TypeOK'
  BY <1>1, <1>2 DEF EmitFrom, SaveAndEmit, ToldBy, Frame, worldVars, clocks, Shape, TypeOK, WorldTypeOK
<1>4. Begun'
  BY <1>1, <1>2 DEF EmitFrom, SaveAndEmit, Frame, worldVars, clocks, Shape, Begun, TypeOK
<1> QED BY <1>3, <1>4 DEF Shape

\* A step that only moves call t on.
LEMMA QuietShape ==
  ASSUME Shape, NEW t \in Tasks, NEW next \in Labels, Goto(t, next), Quiet, Frame,
         initiated \/ next \in {"idle", "su:check"}, UNCHANGED worldVars
  PROVE  Shape'
<1>1. pc' \in [Tasks -> Labels] /\ \A u \in Tasks : pc'[u] \in {pc[u], next}
  BY DEF Goto, Shape, TypeOK
<1> QED
  BY <1>1 DEF Quiet, Frame, worldVars, clocks, Shape, TypeOK, WorldTypeOK, Begun

\* Bitcoin, the contract, the LP and the clocks keep the shape.
LEMMA EnvironmentShape ==
  ASSUME Shape, Environment
  PROVE  Shape'
<1> USE DEF Environment, sdkVars, clocks, Shape, TypeOK, WorldTypeOK, Begun, BtcStates, Withdrawals, ChainEvents
<1>1. CASE LpBroadcast BY <1>1 DEF LpBroadcast
<1>2. CASE Confirm BY <1>2 DEF Confirm
<1>3. CASE DoubleSpend BY <1>3 DEF DoubleSpend
<1>4. CASE Front BY <1>4 DEF Front, Settle
<1>5. CASE ChainClaim BY <1>5 DEF ChainClaim, Settle
<1>6. CASE Close BY <1>6 DEF Close, Settle
<1>7. CASE QuoteExpire BY <1>7 DEF QuoteExpire
<1>8. CASE Expire BY <1>8 DEF Expire
<1> QED BY <1>1, <1>2, <1>3, <1>4, <1>5, <1>6, <1>7, <1>8 DEF WorldNext

\* Where the two reads of _syncStateFromBitcoin lead.
LEMMA AnswerLabels ==
  ASSUME Shape, NEW t \in Tasks, PaymentAnswer(t) \/ InputsAnswer(t)
  PROVE  \E next \in {"btc:seen", "btc:confirmed", "btc:inputs", "btc:spent", "btc:unseen"} :
           /\ Goto(t, next) /\ Quiet /\ Frame /\ UNCHANGED worldVars
           /\ initiated
           /\ next = "btc:confirmed" => btc = "confirmed"
           /\ next = "btc:spent" => InputSpent
<1>1. initiated BY DEF PaymentAnswer, InputsAnswer, Shape, Begun
<1>2. CASE PaymentAnswer(t)
  <2>1. CASE btc = "mempool" BY <1>1, <1>2, <2>1 DEF PaymentAnswer
  <2>2. CASE btc = "confirmed" BY <1>1, <1>2, <2>2 DEF PaymentAnswer
  <2>3. CASE btc \notin {"mempool", "confirmed"}
    <3>1. Goto(t, "btc:inputs") BY <1>2, <2>3 DEF PaymentAnswer
    <3> QED BY <1>1, <1>2, <3>1 DEF PaymentAnswer
  <2> QED BY <2>1, <2>2, <2>3
<1>3. CASE InputsAnswer(t)
  <2>1. CASE InputSpent BY <1>1, <1>3, <2>1 DEF InputsAnswer
  <2>2. CASE ~InputSpent BY <1>1, <1>3, <2>2 DEF InputsAnswer
  <2> QED BY <2>1, <2>2
<1> QED BY <1>2, <1>3

\* What the answers to the two reads make of the state.
LEMMA BitcoinStateCases ==
  ASSUME Shape, NEW t \in Tasks, HasBitcoinAnswer(t)
  PROVE  /\ initiated
         /\ BitcoinState(t) \in SwapStates \ {"CREATED"}
         /\ \/ BitcoinState(t) = state
            \/ BitcoinState(t) = "BROADCASTED"
            \/ BitcoinState(t) = "BTC_TX_CONFIRMED" /\ pc[t] = "btc:confirmed"
            \/ BitcoinState(t) \in {"QUOTE_EXPIRED", "FAILED"} /\ pc[t] = "btc:spent"
<1>1. initiated /\ state \in SwapStates \ {"CREATED"}
  BY DEF HasBitcoinAnswer, Shape, Begun, TypeOK
<1> QED BY <1>1 DEF HasBitcoinAnswer, BitcoinState, Lost, SwapStates

\* Every step of _tick keeps the shape.
LEMMA TickNextShape ==
  ASSUME Shape, NEW t \in Timers, TickNext(t)
  PROVE  Shape'
<1>0. t \in Tasks BY DEF Tasks
<1>1. /\ {"idle", "btc:payment", "btc:seen", "btc:confirmed", "btc:inputs", "btc:spent", "btc:unseen"} \subseteq Labels
      /\ {"QUOTE_SOFT_EXPIRED", "QUOTE_EXPIRED"} \subseteq SwapStates \ {"CREATED"}
  BY DEF Labels, SwapStates
<1> USE <1>0
<1>2. CASE TickQuote(t)
  BY <1>1, <1>2, EmitShape DEF TickQuote
<1>3. CASE TickAsk(t)
  <2>1. initiated BY <1>3 DEF TickAsk, Shape, Begun
  <2> QED BY <1>1, <1>3, <2>1, QuietShape DEF TickAsk
<1>4. CASE TickApply(t)
  BY <1>1, <1>4, BitcoinStateCases, EmitShape, QuietShape DEF TickApply
<1>5. CASE PaymentAnswer(t) \/ InputsAnswer(t)
  BY <1>1, <1>5, AnswerLabels, QuietShape
<1> QED BY <1>2, <1>3, <1>4, <1>5 DEF TickNext

\* Every step of checkPastSwaps keeps the shape.
LEMMA SyncNextShape ==
  ASSUME Shape, NEW t \in Callers, SyncNext(t)
  PROVE  Shape'
<1>0. t \in Tasks BY DEF Tasks
<1>1. {"idle", "btc:payment", "btc:seen", "btc:confirmed", "btc:inputs", "btc:spent", "btc:unseen",
       "sync:vault", "sync:vaultChanged", "sync:fronted", "sync:claimed", "sync:closed",
       "sync:save", "sync:remove"} \subseteq Labels
  BY DEF Labels
<1> USE <1>0
<1>2. CASE SyncStart(t)
  <2>1. initiated /\ phase' \in {"run", "down", "init", "syncing"}
    BY <1>2 DEF SyncStart, Shape, TypeOK, Begun, PendingStates
  <2> QED
    BY <1>1, <1>2, <2>1
    DEF SyncStart, Goto, Quiet, worldVars, clocks, Shape, TypeOK, WorldTypeOK, Begun
<1>3. CASE SyncBitcoin(t)
  <2>1. initiated /\ AfterExpiry(BitcoinState(t)) \in SwapStates \ {"CREATED"}
    BY <1>3, BitcoinStateCases DEF SyncBitcoin, AfterExpiry, SwapStates
  <2>2. PICK next \in Labels : Goto(t, next)
    BY <1>1, <1>3 DEF SyncBitcoin
  <2> QED
    BY <1>3, <2>1, <2>2
    DEF SyncBitcoin, Goto, Frame, worldVars, clocks, Shape, TypeOK, WorldTypeOK, Begun
<1>4. CASE SyncVault(t)
  <2>1. initiated BY <1>4 DEF SyncVault, Shape, Begun
  <2>2. withdrawal \in Withdrawals BY DEF Shape, TypeOK, WorldTypeOK
  <2>3. PICK next \in Labels : Goto(t, next)
    <3>1. CASE withdrawal = "fronted" BY <1>1, <1>4, <3>1 DEF SyncVault
    <3>2. CASE withdrawal = "claimed" BY <1>1, <1>4, <3>2 DEF SyncVault
    <3>3. CASE withdrawal = "closed" BY <1>1, <1>4, <3>3 DEF SyncVault
    <3>4. CASE withdrawal \notin {"fronted", "claimed", "closed"}
      BY <1>1, <1>4, <3>4 DEF SyncVault
    <3> QED BY <3>1, <3>2, <3>3, <3>4
  <2> QED BY <1>4, <2>1, <2>3, QuietShape DEF SyncVault
<1>5. CASE SyncVaultApply(t)
  <2>1. initiated /\ state' \in SwapStates \ {"CREATED"}
    BY <1>5 DEF SyncVaultApply, Shape, Begun, SwapStates
  <2> QED
    BY <1>1, <1>5, <2>1
    DEF SyncVaultApply, Goto, Frame, worldVars, clocks, Shape, TypeOK, WorldTypeOK, Begun
<1>6. CASE SyncWrite(t)
  <2>1. initiated /\ recorded' \in Records
    BY <1>6 DEF SyncWrite, Shape, TypeOK, Begun, Records
  <2> QED
    BY <1>1, <1>6, <2>1
    DEF SyncWrite, Goto, Frame, worldVars, clocks, Shape, TypeOK, WorldTypeOK, Begun
<1>7. CASE SyncFail(t)
  BY <1>1, <1>7, QuietShape DEF SyncFail
<1>8. CASE PaymentAnswer(t) \/ InputsAnswer(t)
  BY <1>1, <1>8, AnswerLabels, QuietShape
<1> QED BY <1>2, <1>3, <1>4, <1>5, <1>6, <1>7, <1>8 DEF SyncNext

\* Every step of submitPsbt keeps the shape.
LEMMA SubmitNextShape ==
  ASSUME Shape, NEW t \in Callers, SubmitNext(t)
  PROVE  Shape'
<1>0. t \in Tasks BY DEF Tasks
<1>1. /\ {"idle", "su:check", "su:saving", "su:post", "su:posted", "su:declined"} \subseteq Labels
      /\ {"SIGNED", "POSTED", "DECLINED"} \subseteq SwapStates \ {"CREATED"}
      /\ "SIGNED" \in Records
  BY DEF Labels, SwapStates, Records
<1> USE <1>0
<1>2. CASE Submit(t)
  BY <1>1, <1>2, QuietShape DEF Submit
<1>3. CASE SubmitSign(t)
  BY <1>1, <1>3 DEF SubmitSign, Goto, worldVars, clocks, Shape, TypeOK, WorldTypeOK, Begun
<1>4. CASE SubmitFail(t)
  BY <1>1, <1>4, QuietShape DEF SubmitFail
<1>5. CASE SubmitPost(t)
  <2>1. initiated BY <1>5 DEF SubmitPost, Shape, Begun
  <2>2. PICK next \in Labels : Goto(t, next)
    BY <1>1, <1>5 DEF SubmitPost
  <2>3. lpHas' \in BOOLEAN
    BY <1>5 DEF SubmitPost, Shape, TypeOK, WorldTypeOK
  <2> QED
    BY <1>5, <2>1, <2>2, <2>3
    DEF SubmitPost, Goto, Quiet, Frame, clocks, Shape, TypeOK, WorldTypeOK, Begun
<1>6. CASE SubmitDone(t)
  <2>1. initiated BY <1>6 DEF SubmitDone, Shape, Begun
  <2> QED BY <1>1, <1>6, <2>1, EmitShape DEF SubmitDone
<1> QED BY <1>2, <1>3, <1>4, <1>5, <1>6 DEF SubmitNext

\* Every step of the waits and of claim keeps the shape.
LEMMA SettleNextShape ==
  ASSUME Shape, NEW t \in Callers, SettleNext(t)
  PROVE  Shape'
<1>0. t \in Tasks BY DEF Tasks
<1>1. /\ {"idle", "wb:poll", "wb:seen", "wb:last", "wb:confirmed", "cl:send", "cl:done", "cl:failed",
          "cl:claimed", "ws:poll", "ws:fronted", "ws:claimed", "ws:closed"} \subseteq Labels
      /\ {"BROADCASTED", "BTC_TX_CONFIRMED", "CLAIMED", "FRONTED", "CLOSED"} \subseteq SwapStates \ {"CREATED"}
  BY DEF Labels, SwapStates
<1> USE <1>0
<1>2. CASE WaitBitcoin(t) BY <1>1, <1>2, QuietShape DEF WaitBitcoin
<1>3. CASE WaitBitcoinPoll(t)
  <2>1. initiated BY <1>3 DEF WaitBitcoinPoll, Shape, Begun
  <2> QED BY <1>1, <1>3, <2>1, QuietShape DEF WaitBitcoinPoll
<1>4. CASE WaitBitcoinSeen(t)
  <2>1. initiated BY <1>4 DEF WaitBitcoinSeen, Shape, Begun
  <2> QED BY <1>1, <1>4, <2>1, QuietShape, EmitShape DEF WaitBitcoinSeen
<1>5. CASE WaitBitcoinDone(t)
  <2>1. initiated BY <1>5 DEF WaitBitcoinDone, Shape, Begun
  <2> QED BY <1>1, <1>5, <2>1, QuietShape, EmitShape DEF WaitBitcoinDone
<1>6. CASE Claim(t)
  <2>1. PICK next \in {"cl:send", "cl:failed"} : Goto(t, next)
    BY <1>6 DEF Claim
  <2> QED BY <1>1, <1>6, <2>1, QuietShape DEF Claim
<1>7. CASE ClaimSent(t)
  <2>1. initiated BY <1>7 DEF ClaimSent, Shape, Begun
  <2> QED BY <1>1, <1>7, <2>1, QuietShape DEF ClaimSent
<1>8. CASE ClaimFailed(t)
  <2>1. initiated BY <1>8 DEF ClaimFailed, Shape, Begun
  <2> QED BY <1>1, <1>8, <2>1, QuietShape DEF ClaimFailed
<1>9. CASE ClaimDone(t)
  <2>1. initiated BY <1>9 DEF ClaimDone, Shape, Begun
  <2> QED BY <1>1, <1>9, <2>1, QuietShape, EmitShape DEF ClaimDone
<1>10. CASE WaitSettled(t) BY <1>1, <1>10, QuietShape DEF WaitSettled
<1>11. CASE WaitSettledPoll(t)
  <2>1. initiated BY <1>11 DEF WaitSettledPoll, Shape, Begun
  <2> QED BY <1>1, <1>11, <2>1, QuietShape DEF WaitSettledPoll
<1>12. CASE WaitSettledDone(t)
  <2>1. initiated BY <1>12 DEF WaitSettledDone, Shape, Begun
  <2>2. pc' \in [Tasks -> Labels] /\ state' \in SwapStates \ {"CREATED"} /\ recorded' \in Records
    BY <1>1, <1>12, <2>1, WakedPc
    DEF WaitSettledDone, Goto, Waked, Persisted, Shape, TypeOK, Begun, Records
  <2> QED
    BY <1>12, <2>1, <2>2
    DEF WaitSettledDone, Frame, worldVars, clocks, Shape, TypeOK, WorldTypeOK, Begun
<1>13. CASE WaitSettledClosed(t)
  <2>1. initiated BY <1>13 DEF WaitSettledClosed, Shape, Begun
  <2> QED BY <1>1, <1>13, <2>1, QuietShape, EmitShape DEF WaitSettledClosed
<1> QED
  BY <1>2, <1>3, <1>4, <1>5, <1>6, <1>7, <1>8, <1>9, <1>10, <1>11, <1>12, <1>13 DEF SettleNext

\* Taking an event leaves a queue of events.
LEMMA NextEventType ==
  ASSUME Shape, NEW e, NextEvent(e)
  PROVE  WorldTypeOK'
BY DEF NextEvent, clocks, Shape, TypeOK, WorldTypeOK

\* The listener saving and emitting a state keeps what it touches in shape.
LEMMA ListenerEmitShape ==
  ASSUME Shape, initiated, NEW s \in SwapStates \ {"CREATED"},
         SaveAndEmit(s), pc' = Waked(s)
  PROVE  /\ state' = s /\ recorded' \in Records
         /\ told' \subseteq {"settled"} /\ pc' \in [Tasks -> Labels]
BY WakedPc DEF SaveAndEmit, Persisted, Waked, ToldBy, Shape, TypeOK, Records, Labels

\* The listener keeps the shape.
LEMMA ListenerNextShape ==
  ASSUME Shape, ListenerNext
  PROVE  Shape'
<1>1. {"CLAIMED", "FRONTED", "CLOSED"} \subseteq SwapStates \ {"CREATED"}
  BY DEF SwapStates
<1>2. ASSUME NEW e, NEW s \in {"CLAIMED", "FRONTED"}, EventSettled(e, s) PROVE Shape'
  <2>1. initiated /\ state \in SwapStates \ {"CREATED"}
    BY <1>2 DEF EventSettled, Shape, TypeOK, Begun
  <2>2. WorldTypeOK' BY <1>2, NextEventType DEF EventSettled
  <2>3. CASE state \in OpenStates
    BY <1>2, <2>1, <2>2, <2>3 DEF EventSettled, Quiet, Shape, TypeOK, Begun
  <2>4. CASE state \notin OpenStates
    <3>1. /\ state' = state /\ recorded' \in Records
          /\ told' \subseteq {"settled"} /\ pc' \in [Tasks -> Labels]
      BY <1>2, <2>1, <2>4, ListenerEmitShape DEF EventSettled, SameState, Quiet, Shape, TypeOK
    <3> QED
      BY <1>2, <2>1, <2>2, <2>4, <3>1 DEF EventSettled, Shape, TypeOK, Begun
  <2> QED BY <2>3, <2>4
<1>3. CASE EventFront BY <1>2, <1>3 DEF EventFront
<1>4. CASE EventClaim BY <1>2, <1>4 DEF EventClaim
<1>5. CASE EventSettledDone
  <2>1. initiated /\ handling \in SwapStates \ {"CREATED"}
    BY <1>1, <1>5 DEF EventSettledDone, Shape, TypeOK, Begun
  <2> QED
    BY <1>5, <2>1, ListenerEmitShape
    DEF EventSettledDone, worldVars, clocks, Shape, TypeOK, WorldTypeOK, Begun
<1>6. CASE EventClose
  <2>1. initiated BY <1>6 DEF EventClose, Shape, Begun
  <2>2. WorldTypeOK' BY <1>6, NextEventType DEF EventClose
  <2>3. /\ state' \in SwapStates \ {"CREATED"} /\ recorded' \in Records
        /\ told' \subseteq {"settled"} /\ pc' \in [Tasks -> Labels]
    BY <1>1, <1>6, <2>1, ListenerEmitShape DEF EventClose, Quiet, Shape, TypeOK, Begun
  <2> QED
    BY <1>6, <2>1, <2>2, <2>3 DEF EventClose, Frame, Shape, TypeOK, Begun
<1>7. CASE EventUnknown
  <2>1. WorldTypeOK' BY <1>7, NextEventType DEF EventUnknown
  <2> QED
    BY <1>7, <2>1 DEF EventUnknown, NextEvent, Quiet, Frame, clocks, Shape, TypeOK, Begun
<1> QED BY <1>3, <1>4, <1>5, <1>6, <1>7 DEF ListenerNext

\* Writes, crashes and restarts keep the shape.
LEMMA StorageNextShape ==
  ASSUME Shape, StorageNext
  PROVE  Shape'
<1> USE DEF worldVars, clocks, Shape, TypeOK, WorldTypeOK, Begun
<1>1. CASE Flush
  <2>1. pc' \in [Tasks -> Labels] /\ \A u \in Tasks : pc'[u] \in {pc[u], "su:post"} /\ (pc'[u] = pc[u] \/ pc[u] = "su:saving")
    BY <1>1 DEF Flush, Labels
  <2> QED BY <1>1, <2>1 DEF Flush
<1>2. CASE Crash
  <2>1. pc' \in [Tasks -> Labels] BY <1>2 DEF Crash, Labels
  <2> QED BY <1>2, <2>1 DEF Crash
<1>3. CASE Restart
  <2>1. durable \in SwapStates \ {"CREATED"} BY <1>3 DEF Restart, Records
  <2>2. <<>> \in Seq(ChainEvents) OBVIOUS
  <2> QED BY <1>3, <2>1, <2>2 DEF Restart
<1>4. CASE InitDone BY <1>4 DEF InitDone
<1> QED BY <1>1, <1>2, <1>3, <1>4 DEF StorageNext

\* The shape is invariant.
LEMMA ShapeInvariant == Spec => []Shape
<1>1. Init => Shape
  <2> SUFFICES ASSUME Init PROVE Shape
    OBVIOUS
  <2>1. WorldTypeOK
    <3>1. <<>> \in Seq(ChainEvents) OBVIOUS
    <3> QED BY <3>1 DEF Init, WorldInit, WorldTypeOK, BtcStates, Withdrawals
  <2>2. pc \in [Tasks -> Labels] /\ \A u \in Tasks : pc[u] = "idle"
    BY DEF Init, Labels
  <2> QED
    BY <2>1, <2>2 DEF Init, WorldInit, Shape, TypeOK, Begun, SwapStates, Records
<1>2. Shape /\ [Next]_vars => Shape'
  <2> SUFFICES ASSUME Shape, [Next]_vars PROVE Shape'
    OBVIOUS
  <2>1. CASE UNCHANGED vars
    BY <2>1 DEF vars, sdkVars, worldVars, clocks, Shape, TypeOK, WorldTypeOK, Begun
  <2>2. CASE Environment BY <2>2, EnvironmentShape
  <2>3. CASE \E t \in Timers : TickNext(t) BY <2>3, TickNextShape
  <2>4. CASE \E t \in Callers : SyncNext(t) \/ SubmitNext(t) \/ SettleNext(t)
    BY <2>4, SyncNextShape, SubmitNextShape, SettleNextShape
  <2>5. CASE ListenerNext BY <2>5, ListenerNextShape
  <2>6. CASE StorageNext BY <2>6, StorageNextShape
  <2> QED BY <2>1, <2>2, <2>3, <2>4, <2>5, <2>6 DEF Next
<1> QED BY <1>1, <1>2, PTL DEF Spec

\* Every variable of the swap, its record and the calls under way keeps its
\* type; in particular no swap is ever stored as CREATED.
THEOREM TypeCorrect == Spec => []TypeOK
<1>1. Shape => TypeOK BY DEF Shape
<1> QED BY <1>1, ShapeInvariant, PTL

-----------------------------------------------------------------------------
(* Evidence: what is shown, stored or about to be applied is so *)

\* What the chains must show for state s.
Backed(s) ==
  /\ s = "CLAIMED" => withdrawal = "claimed"
  /\ s = "FRONTED" => withdrawal \in {"fronted", "claimed"}
  /\ s = "CLOSED" => withdrawal = "closed"
  /\ s = "BTC_TX_CONFIRMED" => btc = "confirmed"

\* What they must show for the answer that a call parked at l will act upon.
Proven(l) ==
  /\ l \in {"btc:confirmed", "wb:last", "wb:confirmed"} => btc = "confirmed"
  /\ l \in {"sync:claimed", "cl:done", "cl:claimed", "ws:claimed"} => withdrawal = "claimed"
  /\ l \in {"sync:fronted", "ws:fronted"} => withdrawal \in {"fronted", "claimed"}
  /\ l \in {"sync:closed", "ws:closed"} => withdrawal = "closed"

\* What they must show for an event of the contract.
Emitted(e) ==
  /\ e = "claimed" => withdrawal = "claimed"
  /\ e = "fronted" => withdrawal \in {"fronted", "claimed"}
  /\ e = "closed" => withdrawal = "closed"

Evidence ==
  /\ Backed(state) /\ Backed(recorded) /\ Backed(durable) /\ Backed(handling)
  /\ \A u \in Tasks : Proven(pc[u])
  /\ \A i \in 1..Len(events) : Emitted(events[i])
  /\ ToldTheTruth

\* The chains, as far as evidence is concerned.
chains == <<btc, withdrawal, events>>

\* Emitting a backed state from a call keeps everything backed.
LEMMA EmitEvidence ==
  ASSUME Shape, Evidence, NEW t \in Tasks, NEW s \in SwapStates, NEW next \in Labels,
         EmitFrom(t, s, next), Backed(s), Proven(next), UNCHANGED <<durable, handling, chains>>
  PROVE  Evidence'
<1>1. \A u \in Tasks : pc'[u] \in {pc[u], "idle", next}
  BY WakedPc DEF EmitFrom, Waked
<1>2. \A u \in Tasks : Proven(pc[u])'
  BY <1>1 DEF chains, Evidence, Proven
<1>3. Backed(state)' /\ Backed(recorded)' /\ ToldTheTruth'
  BY DEF EmitFrom, SaveAndEmit, Persisted, ToldBy, chains, Evidence, Backed, ToldTheTruth
<1> QED
  BY <1>2, <1>3 DEF chains, Evidence, Backed, Emitted

\* Moving call t on to an answer that is so.
LEMMA GotoEvidence ==
  ASSUME Shape, Evidence, NEW t \in Tasks, NEW next \in Labels, Goto(t, next), Proven(next),
         Backed(state'), Backed(recorded'), UNCHANGED <<durable, handling, told, chains>>
  PROVE  Evidence'
<1>1. \A u \in Tasks : pc'[u] \in {pc[u], next}
  BY DEF Goto, Shape, TypeOK
<1> QED
  BY <1>1 DEF chains, Evidence, Backed, Proven, Emitted, ToldTheTruth

\* The same when nothing else moves.
LEMMA QuietEvidence ==
  ASSUME Shape, Evidence, NEW t \in Tasks, NEW next \in Labels, Goto(t, next), Proven(next),
         Quiet, UNCHANGED <<durable, handling, chains>>
  PROVE  Evidence'
BY GotoEvidence DEF Quiet, Evidence

\* Confirmations and claims are final, fronted withdrawals can only be claimed.
LEMMA EnvironmentEvidence ==
  ASSUME Shape, Evidence, Environment
  PROVE  Evidence'
<1>1. /\ btc = "confirmed" => btc' = "confirmed"
      /\ withdrawal = "claimed" => withdrawal' = "claimed"
      /\ withdrawal = "closed" => withdrawal' = "closed"
      /\ withdrawal = "fronted" => withdrawal' \in {"fronted", "claimed"}
  BY DEF Environment, WorldNext, LpBroadcast, Confirm, DoubleSpend, Front, ChainClaim, Close,
         QuoteExpire, Expire, Settle
<1>2. \/ UNCHANGED events
      \/ \E e \in ChainEvents : events' = Append(events, e) /\ Emitted(e)'
  BY DEF Environment, WorldNext, LpBroadcast, Confirm, DoubleSpend, Front, ChainClaim, Close,
         QuoteExpire, Expire, Settle, ChainEvents, Emitted
<1>3. \A i \in 1..Len(events)' : Emitted(events[i])'
  <2>1. events \in Seq(ChainEvents) BY DEF Shape, TypeOK, WorldTypeOK
  <2>2. CASE UNCHANGED events
    BY <1>1, <2>2 DEF Evidence, Emitted
  <2>3. CASE \E e \in ChainEvents : events' = Append(events, e) /\ Emitted(e)'
    <3>1. PICK e \in ChainEvents : events' = Append(events, e) /\ Emitted(e)'
      BY <2>3
    <3>2. /\ Len(events') = Len(events) + 1
          /\ events'[Len(events) + 1] = e
          /\ \A i \in 1..Len(events) : events'[i] = events[i]
      BY <2>1, <3>1
    <3>3. \A i \in 1..Len(events') : i \in 1..Len(events) \/ i = Len(events) + 1
      BY <2>1, <3>2
    <3>4. \A i \in 1..Len(events) : Emitted(events[i])'
      BY <1>1, <3>2 DEF Evidence, Emitted
    <3> QED BY <3>1, <3>2, <3>3, <3>4
  <2> QED BY <1>2, <2>2, <2>3
<1> QED
  BY <1>1, <1>3 DEF Environment, sdkVars, Evidence, Backed, Proven, ToldTheTruth

\* The reads of _syncStateFromBitcoin and what follows from them.
LEMMA AnswerEvidence ==
  ASSUME Shape, Evidence, NEW t \in Tasks, PaymentAnswer(t) \/ InputsAnswer(t)
  PROVE  Evidence'
<1>1. {"btc:seen", "btc:confirmed", "btc:inputs", "btc:spent", "btc:unseen"} \subseteq Labels
  BY DEF Labels
<1> QED
  BY <1>1, AnswerLabels, QuietEvidence DEF Frame, worldVars, chains, Proven

\* A state that follows from the answers is backed.
LEMMA BitcoinStateBacked ==
  ASSUME Shape, Evidence, NEW t \in Tasks, HasBitcoinAnswer(t)
  PROVE  BitcoinState(t) \in SwapStates /\ Backed(BitcoinState(t)) /\ Backed(AfterExpiry(BitcoinState(t)))
BY BitcoinStateCases DEF AfterExpiry, Evidence, Backed, Proven

\* A tick shows only what the answers it got back.
LEMMA TickNextEvidence ==
  ASSUME Shape, Evidence, NEW t \in Timers, TickNext(t)
  PROVE  Evidence'
<1>0. t \in Tasks BY DEF Tasks
<1>1. /\ {"idle", "btc:payment"} \subseteq Labels /\ Proven("idle") /\ Proven("btc:payment")
      /\ {"QUOTE_SOFT_EXPIRED", "QUOTE_EXPIRED"} \subseteq SwapStates
      /\ Backed("QUOTE_SOFT_EXPIRED") /\ Backed("QUOTE_EXPIRED")
  BY DEF Labels, SwapStates, Backed, Proven
<1> USE <1>0 DEF Frame, worldVars, chains
<1>2. CASE TickQuote(t) BY <1>1, <1>2, EmitEvidence DEF TickQuote
<1>3. CASE TickAsk(t) BY <1>1, <1>3, QuietEvidence DEF TickAsk
<1>4. CASE TickApply(t)
  BY <1>1, <1>4, BitcoinStateBacked, EmitEvidence, QuietEvidence DEF TickApply
<1>5. CASE PaymentAnswer(t) \/ InputsAnswer(t) BY <1>5, AnswerEvidence
<1> QED BY <1>2, <1>3, <1>4, <1>5 DEF TickNext

\* checkPastSwaps, applying its answers late, sets only states they back.
LEMMA SyncNextEvidence ==
  ASSUME Shape, Evidence, NEW t \in Callers, SyncNext(t)
  PROVE  Evidence'
<1>0. t \in Tasks BY DEF Tasks
<1>1. /\ {"idle", "btc:payment", "sync:vault", "sync:vaultChanged", "sync:fronted", "sync:claimed",
          "sync:closed", "sync:save", "sync:remove"} \subseteq Labels
      /\ \A l \in {"idle", "btc:payment", "sync:vault", "sync:vaultChanged", "sync:save", "sync:remove"} :
           Proven(l)
  BY DEF Labels, Proven
<1> USE <1>0 DEF Frame, worldVars, chains
<1>2. CASE SyncStart(t) BY <1>1, <1>2, QuietEvidence DEF SyncStart
<1>3. CASE SyncBitcoin(t)
  <2>1. PICK next \in Labels : Goto(t, next) /\ Proven(next)
    BY <1>1, <1>3 DEF SyncBitcoin
  <2> QED
    BY <1>3, <2>1, BitcoinStateBacked, GotoEvidence DEF SyncBitcoin, Evidence
<1>4. CASE SyncVault(t)
  <2>1. PICK next \in Labels : Goto(t, next) /\ Proven(next)
    <3>1. CASE withdrawal = "fronted" BY <1>1, <1>4, <3>1 DEF SyncVault, Proven
    <3>2. CASE withdrawal = "claimed" BY <1>1, <1>4, <3>2 DEF SyncVault, Proven
    <3>3. CASE withdrawal = "closed" BY <1>1, <1>4, <3>3 DEF SyncVault, Proven
    <3>4. CASE withdrawal \notin {"fronted", "claimed", "closed"}
      BY <1>1, <1>4, <3>4 DEF SyncVault
    <3> QED BY <3>1, <3>2, <3>3, <3>4
  <2> QED BY <1>4, <2>1, QuietEvidence DEF SyncVault
<1>5. CASE SyncVaultApply(t)
  <2>1. Backed(state') /\ Backed(recorded')
    BY <1>5 DEF SyncVaultApply, Evidence, Backed, Proven
  <2> QED BY <1>1, <1>5, <2>1, GotoEvidence DEF SyncVaultApply
<1>6. CASE SyncWrite(t)
  <2>1. Backed(state') /\ Backed(recorded')
    BY <1>6 DEF SyncWrite, Evidence, Backed
  <2> QED BY <1>1, <1>6, <2>1, GotoEvidence DEF SyncWrite
<1>7. CASE SyncFail(t) BY <1>1, <1>7, QuietEvidence DEF SyncFail
<1>8. CASE PaymentAnswer(t) \/ InputsAnswer(t) BY <1>8, AnswerEvidence
<1> QED BY <1>2, <1>3, <1>4, <1>5, <1>6, <1>7, <1>8 DEF SyncNext

\* submitPsbt claims nothing about the chains.
LEMMA SubmitNextEvidence ==
  ASSUME Shape, Evidence, NEW t \in Callers, SubmitNext(t)
  PROVE  Evidence'
<1>0. t \in Tasks BY DEF Tasks
<1>1. /\ {"idle", "su:check", "su:saving", "su:posted", "su:declined"} \subseteq Labels
      /\ \A l \in {"idle", "su:check", "su:saving", "su:posted", "su:declined"} : Proven(l)
      /\ {"POSTED", "DECLINED"} \subseteq SwapStates
      /\ Backed("SIGNED") /\ Backed("POSTED") /\ Backed("DECLINED")
  BY DEF Labels, SwapStates, Backed, Proven
<1> USE <1>0 DEF Frame, worldVars, chains
<1>2. CASE Submit(t) BY <1>1, <1>2, QuietEvidence DEF Submit
<1>3. CASE SubmitSign(t) BY <1>1, <1>3, GotoEvidence DEF SubmitSign
<1>4. CASE SubmitFail(t) BY <1>1, <1>4, QuietEvidence DEF SubmitFail
<1>5. CASE SubmitPost(t) BY <1>1, <1>5, QuietEvidence DEF SubmitPost
<1>6. CASE SubmitDone(t) BY <1>1, <1>6, EmitEvidence DEF SubmitDone
<1> QED BY <1>2, <1>3, <1>4, <1>5, <1>6 DEF SubmitNext

\* The waits and claim show only what their answers back.
LEMMA SettleNextEvidence ==
  ASSUME Shape, Evidence, NEW t \in Callers, SettleNext(t)
  PROVE  Evidence'
<1>0. t \in Tasks BY DEF Tasks
<1>1. /\ {"idle", "wb:poll", "wb:seen", "wb:last", "wb:confirmed", "cl:send", "cl:done", "cl:failed",
          "cl:claimed", "ws:poll", "ws:fronted", "ws:claimed", "ws:closed"} \subseteq Labels
      /\ \A l \in {"idle", "wb:poll", "wb:seen", "cl:send", "cl:failed", "ws:poll"} : Proven(l)
      /\ {"BROADCASTED", "BTC_TX_CONFIRMED", "CLAIMED", "FRONTED", "CLOSED"} \subseteq SwapStates
      /\ Backed("BROADCASTED")
  BY DEF Labels, SwapStates, Backed, Proven
<1>2. Proven(pc[t]) BY <1>0 DEF Evidence
<1> USE <1>0, <1>1, <1>2 DEF Frame, worldVars, chains
<1>3. CASE WaitBitcoin(t) BY <1>3, QuietEvidence DEF WaitBitcoin
<1>4. CASE WaitBitcoinPoll(t) BY <1>4, QuietEvidence DEF WaitBitcoinPoll, Proven
<1>5. CASE WaitBitcoinSeen(t)
  <2>1. PICK next \in {"wb:poll", "wb:confirmed"} :
          /\ EmitFrom(t, "BROADCASTED", next) \/ (Goto(t, next) /\ Quiet)
          /\ Proven(next)
    BY <1>5 DEF WaitBitcoinSeen, Proven
  <2> QED BY <1>5, <2>1, QuietEvidence, EmitEvidence DEF WaitBitcoinSeen
<1>6. CASE WaitBitcoinDone(t)
  BY <1>6, QuietEvidence, EmitEvidence DEF WaitBitcoinDone, Backed, Proven
<1>7. CASE Claim(t)
  <2>1. PICK next \in {"cl:send", "cl:failed"} : Goto(t, next)
    BY <1>7 DEF Claim
  <2> QED BY <1>7, <2>1, QuietEvidence DEF Claim
<1>8. CASE ClaimSent(t) BY <1>8, QuietEvidence DEF ClaimSent, Proven
<1>9. CASE ClaimFailed(t) BY <1>9, QuietEvidence DEF ClaimFailed, Proven
<1>10. CASE ClaimDone(t)
  BY <1>10, QuietEvidence, EmitEvidence DEF ClaimDone, Backed, Proven
<1>11. CASE WaitSettled(t) BY <1>11, QuietEvidence DEF WaitSettled
<1>12. CASE WaitSettledPoll(t) BY <1>12, QuietEvidence DEF WaitSettledPoll, Proven
<1>13. CASE WaitSettledDone(t)
  <2>1. withdrawal \in {"fronted", "claimed"} BY <1>13 DEF WaitSettledDone, Proven
  <2>2. \A u \in Tasks : pc'[u] \in {pc[u], "idle"}
    BY <1>13, WakedPc DEF WaitSettledDone, Goto, Waked, Shape, TypeOK
  <2>3. Backed(state') /\ Backed(recorded')
    BY <1>13, <2>1 DEF WaitSettledDone, Persisted, Evidence, Backed
  <2>4. \A u \in Tasks : Proven(pc[u])'
    BY <1>13, <2>2 DEF WaitSettledDone, Evidence, Proven
  <2> QED
    BY <1>13, <2>1, <2>3, <2>4 DEF WaitSettledDone, Evidence, Backed, Emitted, ToldTheTruth
<1>14. CASE WaitSettledClosed(t)
  BY <1>14, QuietEvidence, EmitEvidence DEF WaitSettledClosed, Backed, Proven
<1> QED
  BY <1>3, <1>4, <1>5, <1>6, <1>7, <1>8, <1>9, <1>10, <1>11, <1>12, <1>13, <1>14 DEF SettleNext

\* An event handed over is so, and so are those left in the queue.
LEMMA NextEventEvidence ==
  ASSUME Shape, Evidence, NEW e, NextEvent(e)
  PROVE  Emitted(e) /\ (\A i \in 1..Len(events)' : Emitted(events[i])') /\ UNCHANGED <<btc, withdrawal>>
<1>1. events \in Seq(ChainEvents) /\ events # <<>>
  BY DEF Shape, TypeOK, WorldTypeOK, NextEvent
<1>2. Len(events) \in Nat \ {0} /\ Head(events) = events[1] BY <1>1
<1>3. Len(events') = Len(events) - 1 BY <1>1, <1>2 DEF NextEvent
<1>4. ASSUME NEW i \in 1..Len(events') PROVE events'[i] = events[i + 1] /\ i + 1 \in 1..Len(events)
  BY <1>1, <1>2, <1>3 DEF NextEvent
<1>5. Emitted(e) BY <1>2 DEF NextEvent, Evidence
<1>6. UNCHANGED <<btc, withdrawal>> BY DEF NextEvent
<1>7. ASSUME NEW i \in 1..Len(events') PROVE Emitted(events[i])'
  BY <1>4, <1>6, <1>7 DEF Evidence, Emitted
<1> QED BY <1>5, <1>6, <1>7

\* What is saved and emitted outside of a call is backed when the state is.
LEMMA ListenerEmitEvidence ==
  ASSUME Shape, Evidence, NEW s \in SwapStates, Backed(s), SaveAndEmit(s), pc' = Waked(s),
         UNCHANGED <<btc, withdrawal, durable>>, Backed(handling'),
         \A i \in 1..Len(events)' : Emitted(events[i])'
  PROVE  Evidence'
<1>1. \A u \in Tasks : pc'[u] \in {pc[u], "idle"}
  BY WakedPc DEF Waked
<1>2. \A u \in Tasks : Proven(pc[u])'
  BY <1>1 DEF Evidence, Proven
<1>3. Backed(state)' /\ Backed(recorded)' /\ ToldTheTruth'
  BY DEF SaveAndEmit, Persisted, ToldBy, Evidence, Backed, ToldTheTruth
<1> QED BY <1>2, <1>3 DEF Evidence, Backed

\* An event that changes nothing but what the listener is about to set.
LEMMA ListenerQuietEvidence ==
  ASSUME Shape, Evidence, Quiet, UNCHANGED <<btc, withdrawal, durable, pc>>, Backed(handling'),
         \A i \in 1..Len(events)' : Emitted(events[i])'
  PROVE  Evidence'
BY DEF Quiet, Evidence, Backed, Proven, ToldTheTruth

\* The listener shows a front, claim or close only for an event of the contract.
LEMMA ListenerNextEvidence ==
  ASSUME Shape, Evidence, ListenerNext
  PROVE  Evidence'
<1>1. state \in SwapStates /\ {"CLAIMED", "FRONTED", "CLOSED"} \subseteq SwapStates
  BY DEF SwapStates, Shape, TypeOK
<1>2. ASSUME NEW e, NEW s, EventSettled(e, s), Emitted(e) => Backed(s) PROVE Evidence'
  <2>1. /\ Emitted(e) /\ UNCHANGED <<btc, withdrawal>>
        /\ \A i \in 1..Len(events)' : Emitted(events[i])'
    BY <1>2, NextEventEvidence DEF EventSettled
  <2>2. CASE state \in OpenStates
    BY <1>2, <2>1, <2>2, ListenerQuietEvidence DEF EventSettled
  <2>3. CASE state \notin OpenStates
    BY <1>1, <1>2, <2>1, <2>3, ListenerQuietEvidence, ListenerEmitEvidence
    DEF EventSettled, SameState, Evidence
  <2> QED BY <2>2, <2>3
<1>3. CASE EventFront BY <1>2, <1>3 DEF EventFront, Emitted, Backed
<1>4. CASE EventClaim BY <1>2, <1>4 DEF EventClaim, Emitted, Backed
<1>5. CASE EventSettledDone
  <2>1. handling \in SwapStates /\ Backed(handling) /\ Backed(handling')
    BY <1>1, <1>5 DEF EventSettledDone, Shape, TypeOK, Evidence, Backed
  <2>2. /\ UNCHANGED <<btc, withdrawal>>
        /\ \A i \in 1..Len(events)' : Emitted(events[i])'
    BY <1>5 DEF EventSettledDone, worldVars, Evidence, Emitted
  <2> QED BY <1>5, <2>1, <2>2, ListenerEmitEvidence DEF EventSettledDone
<1>6. CASE EventClose
  <2>1. /\ Emitted("closed") /\ UNCHANGED <<btc, withdrawal>>
        /\ \A i \in 1..Len(events)' : Emitted(events[i])'
    BY <1>6, NextEventEvidence DEF EventClose
  <2>2. Backed("CLOSED") /\ Backed(handling')
    BY <1>6, <2>1 DEF EventClose, Frame, Emitted, Backed, Evidence
  <2> QED
    BY <1>1, <1>6, <2>1, <2>2, ListenerQuietEvidence, ListenerEmitEvidence DEF EventClose, Frame
<1>7. CASE EventUnknown
  <2>1. /\ UNCHANGED <<btc, withdrawal>>
        /\ \A i \in 1..Len(events)' : Emitted(events[i])'
    BY <1>7, NextEventEvidence DEF EventUnknown
  <2> QED BY <1>7, <2>1, ListenerQuietEvidence DEF EventUnknown, Frame, Evidence
<1> QED BY <1>3, <1>4, <1>5, <1>6, <1>7 DEF ListenerNext

\* The record a crash leaves is backed like the state it was written from.
LEMMA StorageNextEvidence ==
  ASSUME Shape, Evidence, StorageNext
  PROVE  Evidence'
<1> USE DEF worldVars, Evidence, Backed, ToldTheTruth, Emitted
<1>1. CASE Flush
  <2>1. \A u \in Tasks : Proven(pc[u])' BY <1>1 DEF Flush, Proven
  <2> QED BY <1>1, <2>1 DEF Flush
<1>2. CASE Crash
  <2>1. \A u \in Tasks : Proven(pc[u])' BY <1>2 DEF Crash, Proven
  <2> QED BY <1>2, <2>1 DEF Crash
<1>3. CASE Restart
  <2>1. \A u \in Tasks : Proven(pc[u])' BY <1>3 DEF Restart, Proven
  <2>2. \A i \in 1..Len(events)' : Emitted(events[i])' BY <1>3 DEF Restart
  <2> QED BY <1>3, <2>1, <2>2 DEF Restart
<1>4. CASE InitDone
  BY <1>4 DEF InitDone, Proven
<1> QED BY <1>1, <1>2, <1>3, <1>4 DEF StorageNext

\* Evidence is invariant.
LEMMA EvidenceInvariant == Spec => []Evidence
<1>1. Init => Evidence
  BY DEF Init, WorldInit, Evidence, Backed, Proven, Emitted, ToldTheTruth
<1>2. Shape /\ Evidence /\ [Next]_vars => Evidence'
  <2> SUFFICES ASSUME Shape, Evidence, [Next]_vars PROVE Evidence'
    OBVIOUS
  <2>1. CASE UNCHANGED vars
    BY <2>1 DEF vars, sdkVars, worldVars, Evidence, Backed, Proven, Emitted, ToldTheTruth
  <2>2. CASE Environment BY <2>2, EnvironmentEvidence
  <2>3. CASE \E t \in Timers : TickNext(t) BY <2>3, TickNextEvidence
  <2>4. CASE \E t \in Callers : SyncNext(t) \/ SubmitNext(t) \/ SettleNext(t)
    BY <2>4, SyncNextEvidence, SubmitNextEvidence, SettleNextEvidence
  <2>5. CASE ListenerNext BY <2>5, ListenerNextEvidence
  <2>6. CASE StorageNext BY <2>6, StorageNextEvidence
  <2> QED BY <2>1, <2>2, <2>3, <2>4, <2>5, <2>6 DEF Next
<1> QED BY <1>1, <1>2, ShapeInvariant, PTL DEF Spec

\* A swap is shown as CLAIMED only when the withdrawal was claimed, whatever
\* calls run side by side and however often the SDK is restarted.
THEOREM ClaimedIsClaimedAlways == Spec => []ClaimedIsClaimed
<1>1. Evidence => ClaimedIsClaimed BY DEF Evidence, Backed, ClaimedIsClaimed
<1> QED BY <1>1, EvidenceInvariant, PTL

\* A swap is offered for a claim only when its transaction is confirmed.
THEOREM ClaimableIsConfirmedAlways == Spec => []ClaimableIsConfirmed
<1>1. Evidence => ClaimableIsConfirmed BY DEF Evidence, Backed, ClaimableIsConfirmed
<1> QED BY <1>1, EvidenceInvariant, PTL

\* waitTillClaimedOrFronted reports a payout only when there was one.
THEOREM ToldTheTruthAlways == Spec => []ToldTheTruth
<1>1. Evidence => ToldTheTruth BY DEF Evidence
<1> QED BY <1>1, EvidenceInvariant, PTL

-----------------------------------------------------------------------------
(* A swap is given up only after a double-spend, if the two reads of       *)
(* _syncStateFromBitcoin do not miss the swap's own transaction.           *)

Spent == btc = "doublespent"

\* A record, or the lack of one, by which a swap has been given up.
Gone(r) == r \in {"FAILED", "QUOTE_EXPIRED"}

GivenUp ==
  /\ initiated /\ Gone(state) => Spent
  /\ Gone(recorded) \/ Gone(durable) => Spent
  /\ durable # "absent" /\ recorded = "absent" => Spent
  /\ lpHas /\ durable = "absent" => Spent
  /\ \A u \in Tasks :
       /\ pc[u] \in {"btc:spent", "sync:remove"} => Spent
       /\ pc[u] = "su:saving" /\ recorded = "absent" => Spent
       /\ pc[u] = "su:post" /\ durable = "absent" => Spent

\* The labels of calls that GivenUp says something about.
Fatal == {"btc:spent", "sync:remove", "su:saving", "su:post"}

\* A call that emits a state which gives the swap up only after a double-spend.
LEMMA EmitGivenUp ==
  ASSUME Shape, GivenUp, NEW t \in Tasks, NEW s \in SwapStates, NEW next \in Labels \ Fatal,
         EmitFrom(t, s, next), initiated /\ Gone(s) => Spent,
         UNCHANGED <<initiated, durable, btc, lpHas>>
  PROVE  GivenUp'
<1>1. \A u \in Tasks : pc'[u] \in {pc[u], "idle", next}
  BY WakedPc DEF EmitFrom, Waked
<1>2. /\ state' = s
      /\ recorded' = recorded \/ Spent \/ recorded' = s
  BY DEF EmitFrom, SaveAndEmit, Persisted, Gone
<1>3. s # "absent" BY DEF SwapStates
<1>4. recorded' = s /\ recorded' # recorded => initiated
  BY DEF EmitFrom, SaveAndEmit, Persisted
<1> QED BY <1>1, <1>2, <1>3, <1>4 DEF GivenUp, Spent, Gone, Fatal

\* A call that moves on, and leaves state and record as they are.
LEMMA QuietGivenUp ==
  ASSUME Shape, GivenUp, NEW t \in Tasks, NEW next \in Labels, Goto(t, next), Quiet,
         next = "btc:spent" => Spent, next \notin {"sync:remove", "su:saving", "su:post"},
         UNCHANGED <<initiated, durable, btc, lpHas>>
  PROVE  GivenUp'
<1>1. \A u \in Tasks : pc'[u] \in {pc[u], next}
  BY DEF Goto, Shape, TypeOK
<1> QED BY <1>1 DEF Quiet, GivenUp, Spent, Gone

\* A double-spend is final.
LEMMA EnvironmentGivenUp ==
  ASSUME Shape, GivenUp, Environment
  PROVE  GivenUp'
<1>1. (Spent => Spent') /\ UNCHANGED lpHas
  BY DEF Environment, WorldNext, LpBroadcast, Confirm, DoubleSpend, Front, ChainClaim, Close,
         QuoteExpire, Expire, Settle, Spent
<1> QED BY <1>1 DEF Environment, sdkVars, GivenUp, Gone

\* The two reads report a double-spend only when there is one.
LEMMA AnswerGivenUp ==
  ASSUME Shape, GivenUp, ~MinedBetweenReads, NEW t \in Tasks, PaymentAnswer(t) \/ InputsAnswer(t)
  PROVE  GivenUp'
<1>1. {"btc:seen", "btc:confirmed", "btc:inputs", "btc:spent", "btc:unseen"} \subseteq Labels
  BY DEF Labels
<1>2. InputSpent => Spent BY DEF InputSpent, Spent
<1> QED
  BY <1>1, <1>2, AnswerLabels, QuietGivenUp DEF Frame, worldVars

\* The state that follows from them gives a swap up only then.
LEMMA BitcoinStateGone ==
  ASSUME Shape, GivenUp, NEW t \in Tasks, HasBitcoinAnswer(t)
  PROVE  /\ BitcoinState(t) \in SwapStates /\ initiated
         /\ Gone(BitcoinState(t)) => Spent
         /\ Gone(AfterExpiry(BitcoinState(t))) => Spent
BY BitcoinStateCases DEF AfterExpiry, GivenUp, Gone, Spent

\* A tick gives a swap up before it is signed or after a double-spend.
LEMMA TickNextGivenUp ==
  ASSUME Shape, GivenUp, ~MinedBetweenReads, NEW t \in Timers, TickNext(t)
  PROVE  GivenUp'
<1>0. t \in Tasks BY DEF Tasks
<1>1. /\ "idle" \in Labels \ Fatal /\ {"idle", "btc:payment"} \subseteq Labels
      /\ {"QUOTE_SOFT_EXPIRED", "QUOTE_EXPIRED"} \subseteq SwapStates
      /\ ~Gone("QUOTE_SOFT_EXPIRED")
  BY DEF Labels, Fatal, SwapStates, Gone
<1> USE <1>0, <1>1 DEF Frame, worldVars
<1>2. CASE TickQuote(t) BY <1>2, EmitGivenUp DEF TickQuote
<1>3. CASE TickAsk(t) BY <1>3, QuietGivenUp DEF TickAsk
<1>4. CASE TickApply(t)
  BY <1>4, BitcoinStateGone, EmitGivenUp, QuietGivenUp DEF TickApply
<1>5. CASE PaymentAnswer(t) \/ InputsAnswer(t) BY <1>5, AnswerGivenUp
<1> QED BY <1>2, <1>3, <1>4, <1>5 DEF TickNext

\* checkPastSwaps removes a record only after a double-spend.
LEMMA SyncNextGivenUp ==
  ASSUME Shape, GivenUp, ~MinedBetweenReads, NEW t \in Callers, SyncNext(t)
  PROVE  GivenUp'
<1>0. t \in Tasks BY DEF Tasks
<1>1. {"idle", "btc:payment", "sync:vault", "sync:vaultChanged", "sync:fronted", "sync:claimed",
       "sync:closed", "sync:save"} \subseteq Labels \ Fatal
  BY DEF Labels, Fatal
<1> USE <1>0, <1>1 DEF Frame, worldVars
<1>2. CASE SyncStart(t) BY <1>2, QuietGivenUp DEF SyncStart, Fatal
<1>3. CASE SyncBitcoin(t)
  <2>1. PICK next : /\ Goto(t, next) /\ next \notin {"btc:spent", "su:saving", "su:post"}
                    /\ next = "sync:remove" => Gone(AfterExpiry(BitcoinState(t)))
    BY <1>3 DEF SyncBitcoin, Gone
  <2>2. \A u \in Tasks : pc'[u] \in {pc[u], next} BY <2>1 DEF Goto, Shape, TypeOK
  <2> QED
    BY <1>3, <2>1, <2>2, BitcoinStateGone DEF SyncBitcoin, GivenUp, Gone, Spent
<1>4. CASE SyncVault(t)
  <2>1. PICK next \in Labels \ Fatal : Goto(t, next)
    <3>1. CASE withdrawal = "fronted" BY <1>4, <3>1 DEF SyncVault
    <3>2. CASE withdrawal = "claimed" BY <1>4, <3>2 DEF SyncVault
    <3>3. CASE withdrawal = "closed" BY <1>4, <3>3 DEF SyncVault
    <3>4. CASE withdrawal \notin {"fronted", "claimed", "closed"} BY <1>4, <3>4 DEF SyncVault
    <3> QED BY <3>1, <3>2, <3>3, <3>4
  <2> QED BY <1>4, <2>1, QuietGivenUp DEF SyncVault, Fatal
<1>5. CASE SyncVaultApply(t)
  <2>1. ~Gone(state') /\ Goto(t, "sync:save") BY <1>5 DEF SyncVaultApply, Gone
  <2>2. \A u \in Tasks : pc'[u] \in {pc[u], "sync:save"} BY <2>1 DEF Goto, Shape, TypeOK
  <2> QED BY <1>5, <2>1, <2>2 DEF SyncVaultApply, GivenUp, Gone, Spent
<1>6. CASE SyncWrite(t)
  <2>1. \A u \in Tasks : pc'[u] \in {pc[u], "idle"} BY <1>6 DEF SyncWrite, Goto, Shape, TypeOK
  <2>2. initiated BY <1>6 DEF SyncWrite, Shape, Begun
  <2>3. state # "absent" BY DEF Shape, TypeOK, SwapStates
  <2> QED BY <1>6, <2>1, <2>2, <2>3 DEF SyncWrite, GivenUp, Gone, Spent
<1>7. CASE SyncFail(t) BY <1>7, QuietGivenUp DEF SyncFail
<1>8. CASE PaymentAnswer(t) \/ InputsAnswer(t) BY <1>8, AnswerGivenUp
<1> QED BY <1>2, <1>3, <1>4, <1>5, <1>6, <1>7, <1>8 DEF SyncNext

\* The LP gets the PSBT only after the record has been written.
LEMMA SubmitNextGivenUp ==
  ASSUME Shape, GivenUp, NEW t \in Callers, SubmitNext(t)
  PROVE  GivenUp'
<1>0. t \in Tasks BY DEF Tasks
<1>1. /\ {"idle", "su:check", "su:posted", "su:declined"} \subseteq Labels \ Fatal
      /\ {"POSTED", "DECLINED"} \subseteq SwapStates
      /\ ~Gone("POSTED") /\ ~Gone("DECLINED") /\ ~Gone("SIGNED")
  BY DEF Labels, Fatal, SwapStates, Gone
<1> USE <1>0, <1>1 DEF Frame, worldVars
<1>2. CASE Submit(t) BY <1>2, QuietGivenUp DEF Submit, Fatal
<1>3. CASE SubmitSign(t)
  <2>1. \A u \in Tasks : pc'[u] \in {pc[u], "su:saving"} BY <1>3 DEF SubmitSign, Goto, Shape, TypeOK
  <2> QED BY <1>3, <2>1 DEF SubmitSign, GivenUp, Spent, Gone
<1>4. CASE SubmitFail(t) BY <1>4, QuietGivenUp DEF SubmitFail
<1>5. CASE SubmitPost(t)
  <2>1. PICK next \in {"su:posted", "su:declined"} : Goto(t, next) BY <1>5 DEF SubmitPost
  <2>2. \A u \in Tasks : pc'[u] \in {pc[u], next} BY <2>1 DEF Goto, Shape, TypeOK
  <2>3. durable = "absent" => Spent BY <1>5 DEF SubmitPost, GivenUp
  <2> QED BY <1>5, <2>2, <2>3 DEF SubmitPost, Quiet, GivenUp, Spent, Gone
<1>6. CASE SubmitDone(t) BY <1>6, EmitGivenUp DEF SubmitDone
<1> QED BY <1>2, <1>3, <1>4, <1>5, <1>6 DEF SubmitNext

\* The waits and claim give nothing up.
LEMMA SettleNextGivenUp ==
  ASSUME Shape, GivenUp, NEW t \in Callers, SettleNext(t)
  PROVE  GivenUp'
<1>0. t \in Tasks BY DEF Tasks
<1>1. /\ {"idle", "wb:poll", "wb:seen", "wb:last", "wb:confirmed", "cl:send", "cl:done", "cl:failed",
          "cl:claimed", "ws:poll", "ws:fronted", "ws:claimed", "ws:closed"} \subseteq Labels \ Fatal
      /\ {"BROADCASTED", "BTC_TX_CONFIRMED", "CLAIMED", "FRONTED", "CLOSED"} \subseteq SwapStates
      /\ \A s \in {"BROADCASTED", "BTC_TX_CONFIRMED", "CLAIMED", "FRONTED", "CLOSED"} : ~Gone(s)
  BY DEF Labels, Fatal, SwapStates, Gone
<1>2. Labels \ Fatal \subseteq Labels /\ {"btc:spent", "sync:remove", "su:saving", "su:post"} = Fatal
  BY DEF Fatal
<1> USE <1>0, <1>1, <1>2 DEF Frame, worldVars
<1>3. CASE WaitBitcoin(t) BY <1>3, QuietGivenUp DEF WaitBitcoin
<1>4. CASE WaitBitcoinPoll(t) BY <1>4, QuietGivenUp DEF WaitBitcoinPoll
<1>5. CASE WaitBitcoinSeen(t)
  BY <1>5, QuietGivenUp, EmitGivenUp DEF WaitBitcoinSeen
<1>6. CASE WaitBitcoinDone(t) BY <1>6, QuietGivenUp, EmitGivenUp DEF WaitBitcoinDone
<1>7. CASE Claim(t)
  <2>1. PICK next \in {"cl:send", "cl:failed"} : Goto(t, next)
    BY <1>7 DEF Claim
  <2> QED BY <1>7, <2>1, QuietGivenUp DEF Claim
<1>8. CASE ClaimSent(t) BY <1>8, QuietGivenUp DEF ClaimSent
<1>9. CASE ClaimFailed(t) BY <1>9, QuietGivenUp DEF ClaimFailed
<1>10. CASE ClaimDone(t) BY <1>10, QuietGivenUp, EmitGivenUp DEF ClaimDone
<1>11. CASE WaitSettled(t) BY <1>11, QuietGivenUp DEF WaitSettled
<1>12. CASE WaitSettledPoll(t) BY <1>12, QuietGivenUp DEF WaitSettledPoll
<1>13. CASE WaitSettledDone(t)
  <2>1. initiated BY <1>13 DEF WaitSettledDone, Shape, Begun
  <2>2. \A u \in Tasks : pc'[u] \in {pc[u], "idle"}
    BY <1>13, WakedPc DEF WaitSettledDone, Goto, Waked, Shape, TypeOK
  <2>3. UNCHANGED <<state, recorded>> \/ (state' = "FRONTED" /\ recorded' = "FRONTED")
    BY <1>13, <2>1 DEF WaitSettledDone, Persisted
  <2> QED BY <1>13, <2>2, <2>3 DEF WaitSettledDone, GivenUp, Spent, Gone
<1>14. CASE WaitSettledClosed(t) BY <1>14, QuietGivenUp, EmitGivenUp DEF WaitSettledClosed
<1> QED
  BY <1>3, <1>4, <1>5, <1>6, <1>7, <1>8, <1>9, <1>10, <1>11, <1>12, <1>13, <1>14 DEF SettleNext

\* The listener saving and emitting a state that does not give the swap up, or
\* the state of now.
LEMMA ListenerEmitGivenUp ==
  ASSUME Shape, GivenUp, NEW s \in SwapStates, SaveAndEmit(s), pc' = Waked(s),
         initiated, Gone(s) => Spent, UNCHANGED <<initiated, durable, btc, lpHas>>
  PROVE  GivenUp'
<1>1. \A u \in Tasks : pc'[u] \in {pc[u], "idle"}
  BY WakedPc DEF Waked
<1>2. state' = s /\ (recorded' = s \/ Spent) /\ s # "absent"
  BY DEF SaveAndEmit, Persisted, Gone, SwapStates
<1>3. Gone(recorded') => Spent
  BY <1>2 DEF SaveAndEmit, Persisted, GivenUp, Gone
<1> QED BY <1>1, <1>2, <1>3 DEF GivenUp, Spent, Gone

\* The listener gives nothing up.
LEMMA ListenerNextGivenUp ==
  ASSUME Shape, GivenUp, ListenerNext
  PROVE  GivenUp'
<1>1. /\ state \in SwapStates /\ {"CLAIMED", "FRONTED", "CLOSED"} \subseteq SwapStates
      /\ ~Gone("CLAIMED") /\ ~Gone("FRONTED") /\ ~Gone("CLOSED")
  BY DEF SwapStates, Shape, TypeOK, Gone
<1>2. ASSUME Quiet, UNCHANGED <<pc, initiated, durable, btc, lpHas>> PROVE GivenUp'
  BY <1>2 DEF Quiet, GivenUp, Spent, Gone
<1>3. ASSUME NEW e, NEW s, EventSettled(e, s) PROVE GivenUp'
  <2>1. initiated BY <1>3 DEF EventSettled, Shape, Begun
  <2> QED
    BY <1>1, <1>2, <1>3, <2>1, ListenerEmitGivenUp DEF EventSettled, NextEvent, SameState, GivenUp
<1>4. CASE EventFront BY <1>3, <1>4 DEF EventFront
<1>5. CASE EventClaim BY <1>3, <1>5 DEF EventClaim
<1>6. CASE EventSettledDone
  <2>1. initiated /\ handling \in {"CLAIMED", "FRONTED"}
    BY <1>6 DEF EventSettledDone, Shape, TypeOK, Begun
  <2> QED BY <1>1, <1>6, <2>1, ListenerEmitGivenUp DEF EventSettledDone, worldVars
<1>7. CASE EventClose
  <2>1. initiated BY <1>7 DEF EventClose, Shape, Begun
  <2> QED BY <1>1, <1>2, <1>7, <2>1, ListenerEmitGivenUp DEF EventClose, NextEvent, Frame
<1>8. CASE EventUnknown BY <1>2, <1>8 DEF EventUnknown, NextEvent, Frame
<1> QED BY <1>4, <1>5, <1>6, <1>7, <1>8 DEF ListenerNext

\* A crash leaves a record once the LP may have the PSBT.
LEMMA StorageNextGivenUp ==
  ASSUME Shape, GivenUp, StorageNext
  PROVE  GivenUp'
<1> USE DEF worldVars, GivenUp, Spent, Gone
<1>1. CASE Flush
  <2>1. \A u \in Tasks : pc'[u] = pc[u] \/ (pc[u] = "su:saving" /\ pc'[u] = "su:post")
    BY <1>1 DEF Flush
  <2>2. durable' = recorded /\ UNCHANGED <<state, initiated, recorded, btc, lpHas>>
    BY <1>1 DEF Flush
  <2>3. durable = "absent" \/ recorded # "absent" \/ Spent OBVIOUS
  <2> QED BY <2>1, <2>2, <2>3
<1>2. CASE Crash BY <1>2 DEF Crash
<1>3. CASE Restart BY <1>3 DEF Restart
<1>4. CASE InitDone BY <1>4 DEF InitDone
<1> QED BY <1>1, <1>2, <1>3, <1>4 DEF StorageNext

\* GivenUp is invariant when a transaction is not mined between the two reads.
LEMMA GivenUpInvariant ==
  ASSUME ~MinedBetweenReads
  PROVE  Spec => []GivenUp
<1>1. Init => GivenUp
  BY DEF Init, WorldInit, GivenUp, Gone
<1>2. Shape /\ GivenUp /\ [Next]_vars => GivenUp'
  <2> SUFFICES ASSUME Shape, GivenUp, [Next]_vars PROVE GivenUp'
    OBVIOUS
  <2>1. CASE UNCHANGED vars
    BY <2>1 DEF vars, sdkVars, worldVars, GivenUp, Spent, Gone
  <2>2. CASE Environment BY <2>2, EnvironmentGivenUp
  <2>3. CASE \E t \in Timers : TickNext(t) BY <2>3, TickNextGivenUp
  <2>4. CASE \E t \in Callers : SyncNext(t) \/ SubmitNext(t) \/ SettleNext(t)
    BY <2>4, SyncNextGivenUp, SubmitNextGivenUp, SettleNextGivenUp
  <2>5. CASE ListenerNext BY <2>5, ListenerNextGivenUp
  <2>6. CASE StorageNext BY <2>6, StorageNextGivenUp
  <2> QED BY <2>1, <2>2, <2>3, <2>4, <2>5, <2>6 DEF Next
<1> QED BY <1>1, <1>2, ShapeInvariant, PTL DEF Spec

\* As long as the user's bitcoin may be spent by the LP and is not paid out, a
\* crash leaves a record that wrapper.init() picks up again.
THEOREM PostedIsTrackedAlways ==
  ASSUME ~MinedBetweenReads
  PROVE  Spec => []PostedIsTracked
<1>1. Shape /\ Evidence /\ GivenUp => PostedIsTracked
  BY DEF Shape, TypeOK, WorldTypeOK, Records, SwapStates, PendingStates, Evidence, Backed,
         GivenUp, Gone, Spent, PostedIsTracked
<1> QED BY <1>1, ShapeInvariant, EvidenceInvariant, GivenUpInvariant, PTL

\* A quote is given up for good only while no one can spend the user's bitcoin.
THEOREM ExpiredQuoteHoldsNothingAlways ==
  ASSUME ~MinedBetweenReads
  PROVE  Spec => []ExpiredQuoteHoldsNothing
<1>1. Shape /\ GivenUp => ExpiredQuoteHoldsNothing
  BY DEF Shape, Begun, GivenUp, Gone, Spent, ExpiredQuoteHoldsNothing
<1> QED BY <1>1, ShapeInvariant, GivenUpInvariant, PTL
=============================================================================
