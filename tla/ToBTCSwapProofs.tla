-------------------------- MODULE ToBTCSwapProofs --------------------------
(***************************************************************************)
(* Theorems about ToBTCSwap, for every set of timers and callers and any   *)
(* number of restarts.  Four sections, each with an inductive invariant    *)
(* that rests on the one before: types; evidence (TypeOK and Evidence hold *)
(* for every choice of calls the application makes); custody, for          *)
(* applications that leave the sync to wrapper.init(); tracking, for those *)
(* that also commit from one place and run no bare waitTillCommited().     *)
(***************************************************************************)
EXTENDS ToBTCSwap, TLAPS

USE EnabledAssumption, SlotsAssumption, RestartsAssumption

-----------------------------------------------------------------------------
(* Types *)

\* The calls that an emitted state wakes stay well-typed.
LEMMA WakedType ==
  ASSUME TypeOK, NEW s \in SwapStates
  PROVE  Waked(s) \in [Tasks -> Labels]
BY DEF TypeOK, Waked, Labels

\* What a save leaves in storage is a record.
LEMMA PersistedType ==
  ASSUME TypeOK, NEW s \in SwapStates
  PROVE  Persisted(s) \in Records
BY DEF TypeOK, Persisted, Records

\* syncStateFromChain yields a swap state for every answer of the contract.
LEMMA SyncedType ==
  ASSUME TypeOK, NEW t \in Tasks
  PROVE  SyncedState(t) \in SwapStates
<1>1. status[t] \in StatusTypes
  BY DEF TypeOK
<1>2. NotCommited(t) \in SwapStates
  BY DEF NotCommited, TypeOK, SwapStates
<1> QED
  BY <1>1, <1>2 DEF SyncedState, StatusTypes, TypeOK, SwapStates, PendingStates

\* Emitting a state from a call preserves the types of what it touches.
LEMMA EmitType ==
  ASSUME TypeOK, NEW t \in Tasks, NEW s \in SwapStates, NEW next \in Labels,
         EmitFrom(t, s, next)
  PROVE  /\ state' \in SwapStates
         /\ recorded' \in Records
         /\ told' \subseteq {"paid", "refundable"}
         /\ pc' \in [Tasks -> Labels]
BY WakedType, PersistedType DEF EmitFrom, SaveAndEmit, ToldBy, TypeOK

\* Moving a call to another await keeps pc well-typed.
LEMMA GotoType ==
  ASSUME TypeOK, NEW t \in Tasks, NEW next \in Labels, Goto(t, next)
  PROVE  pc' \in [Tasks -> Labels]
BY DEF Goto, TypeOK

\* What the chain, the LP and the clocks do keeps every variable well-typed.
LEMMA ChainNextType ==
  ASSUME TypeOK, Environment
  PROVE  TypeOK'
<1> USE DEF Environment, sdkVars, TypeOK, ChainTypeOK, Escrows, ChainEvents,
            sentVars, lpVars, clocks
<1>1. CASE ChainCommit BY <1>1 DEF ChainCommit
<1>2. CASE ChainClaim BY <1>2 DEF ChainClaim
<1>3. CASE ChainRefund BY <1>3 DEF ChainRefund
<1>4. CASE LpPay BY <1>4 DEF LpPay
<1>5. CASE LpSignRefund BY <1>5 DEF LpSignRefund
<1>6. CASE SoftExpire BY <1>6 DEF SoftExpire
<1>7. CASE AuthExpire BY <1>7 DEF AuthExpire
<1>8. CASE EscrowExpire BY <1>8 DEF EscrowExpire
<1> QED
  BY <1>1, <1>2, <1>3, <1>4, <1>5, <1>6, <1>7, <1>8 DEF ChainNext

\* A step that only moves call t on.
LEMMA QuietType ==
  ASSUME TypeOK, NEW t \in Tasks, NEW next \in Labels,
         Goto(t, next), Quiet, Frame, UNCHANGED <<status, quoteExpired, chainVars>>
  PROVE  TypeOK'
<1>1. pc' \in [Tasks -> Labels] BY GotoType
<1> QED
  BY <1>1 DEF Quiet, Frame, chainVars, sentVars, lpVars, clocks, TypeOK, ChainTypeOK

\* A step in which call t emits a state.
LEMMA EmitStepType ==
  ASSUME TypeOK, NEW t \in Tasks, NEW s \in SwapStates, NEW next \in Labels,
         EmitFrom(t, s, next), Frame, UNCHANGED <<status, quoteExpired, chainVars>>
  PROVE  TypeOK'
BY EmitType DEF Frame, chainVars, sentVars, lpVars, clocks, TypeOK, ChainTypeOK

\* Every step of _tick keeps every variable well-typed.
LEMMA TickNextType ==
  ASSUME TypeOK, NEW t \in Timers, TickNext(t)
  PROVE  TypeOK'
<1>0. t \in Tasks BY DEF Tasks
<1>1. /\ {"idle", "tick:asked", "tick:expired"} \subseteq Labels
      /\ {"QUOTE_SOFT_EXPIRED", "REFUNDABLE"} \subseteq SwapStates
  BY DEF Labels, SwapStates
<1>2. CASE TickQuote(t)
  BY <1>0, <1>1, <1>2, EmitStepType DEF TickQuote
<1>3. CASE TickAsk(t)
  BY <1>0, <1>1, <1>3, QuietType DEF TickAsk
<1>4. CASE TickAnswer(t)
  <2>1. PICK next \in Labels : Goto(t, next)
    BY <1>1, <1>4 DEF TickAnswer
  <2> QED BY <1>0, <1>4, <2>1, QuietType DEF TickAnswer
<1>5. CASE TickExpire(t)
  BY <1>0, <1>1, <1>5, EmitStepType DEF TickExpire
<1> QED
  BY <1>2, <1>3, <1>4, <1>5 DEF TickNext

\* Every step of checkPastSwaps and _sync keeps every variable well-typed.
LEMMA SyncNextType ==
  ASSUME TypeOK, NEW t \in Callers, SyncNext(t)
  PROVE  TypeOK'
<1>0. t \in Tasks BY DEF Tasks
<1>1. {"idle", "sync:expiry", "sync:status", "sync:apply", "sync:claimed", "sync:expired", "sync:lp", "sync:lpChanged",
       "sync:paid", "sync:refund", "sync:save", "sync:remove"} \subseteq Labels
  BY DEF Labels
<1> USE <1>0
<1>2. CASE SyncStart(t)
  <2>1. pc' \in [Tasks -> Labels]
    <3>1. PICK next \in Labels : Goto(t, next) BY <1>1, <1>2 DEF SyncStart
    <3> QED BY <3>1, GotoType
  <2>2. phase' \in {"run", "down", "init", "syncing"}
    BY <1>2 DEF SyncStart, TypeOK
  <2>3. quoteExpired' \in [Tasks -> BOOLEAN]
    BY <1>2 DEF SyncStart, TypeOK
  <2> QED
    BY <1>2, <2>1, <2>2, <2>3
    DEF SyncStart, Quiet, chainVars, sentVars, lpVars, clocks, TypeOK, ChainTypeOK
<1>3. CASE SyncExpiry(t)
  <2>1. pc' \in [Tasks -> Labels]
    <3>1. PICK next \in Labels : Goto(t, next) BY <1>1, <1>3 DEF SyncExpiry
    <3> QED BY <3>1, GotoType
  <2>2. quoteExpired' \in [Tasks -> BOOLEAN]
    BY <1>3 DEF SyncExpiry, TypeOK, ChainTypeOK
  <2> QED
    BY <1>3, <2>1, <2>2
    DEF SyncExpiry, Quiet, Frame, chainVars, sentVars, lpVars, clocks, TypeOK, ChainTypeOK
<1>4. CASE SyncStatus(t)
  <2>1. pc' \in [Tasks -> Labels]
    BY <1>1, <1>4, GotoType DEF SyncStatus
  <2>2. status' \in [Tasks -> StatusTypes]
    <3>1. PICK answer \in StatusAnswers : status' = [status EXCEPT ![t] = answer]
      BY <1>4 DEF SyncStatus
    <3>2. answer \in StatusTypes
      BY DEF StatusAnswers, StatusTypes, TypeOK, ChainTypeOK, Escrows
    <3> QED BY <3>1, <3>2 DEF TypeOK
  <2> QED
    BY <1>4, <2>1, <2>2
    DEF SyncStatus, Quiet, Frame, chainVars, sentVars, lpVars, clocks, TypeOK, ChainTypeOK
<1>5. CASE SyncApply(t)
  <2>1. state' \in SwapStates
    BY <1>5, SyncedType DEF SyncApply
  <2>2. pc' \in [Tasks -> Labels]
    <3>1. PICK next \in Labels : Goto(t, next) BY <1>1, <1>5 DEF SyncApply, Collect
    <3> QED BY <3>1, GotoType
  <2>3. status' \in [Tasks -> StatusTypes] /\ quoteExpired' \in [Tasks -> BOOLEAN]
    BY <1>5 DEF SyncApply, TypeOK, StatusTypes
  <2> QED
    BY <1>5, <2>1, <2>2, <2>3
    DEF SyncApply, Frame, chainVars, sentVars, lpVars, clocks, TypeOK, ChainTypeOK
<1>6. CASE SyncAskLp(t)
  <2>1. PICK next \in Labels : Goto(t, next) BY <1>1, <1>6 DEF SyncAskLp, Collect
  <2> QED BY <1>6, <2>1, QuietType DEF SyncAskLp
<1>7. CASE SyncLpApply(t)
  <2>1. pc' \in [Tasks -> Labels] BY <1>1, <1>7, GotoType DEF SyncLpApply
  <2>2. state' \in SwapStates BY <1>7 DEF SyncLpApply, SwapStates
  <2> QED
    BY <1>7, <2>1, <2>2
    DEF SyncLpApply, Frame, chainVars, sentVars, lpVars, clocks, TypeOK, ChainTypeOK
<1>8. CASE SyncWrite(t)
  <2>1. pc' \in [Tasks -> Labels] BY <1>1, <1>8, GotoType DEF SyncWrite
  <2>2. recorded' \in Records BY <1>8 DEF SyncWrite, Records, TypeOK
  <2> QED
    BY <1>8, <2>1, <2>2
    DEF SyncWrite, Frame, chainVars, sentVars, lpVars, clocks, TypeOK, ChainTypeOK
<1>9. CASE SyncFail(t)
  <2>1. pc' \in [Tasks -> Labels] BY <1>1, <1>9, GotoType DEF SyncFail
  <2>2. status' \in [Tasks -> StatusTypes] /\ quoteExpired' \in [Tasks -> BOOLEAN]
    BY <1>9 DEF SyncFail, TypeOK, StatusTypes
  <2> QED
    BY <1>9, <2>1, <2>2
    DEF SyncFail, Quiet, Frame, chainVars, sentVars, lpVars, clocks, TypeOK, ChainTypeOK
<1>10. CASE SyncSettling(t)
  <2>1. PICK next \in Labels : Goto(t, next) BY <1>1, <1>10 DEF SyncSettling
  <2>2. status' \in [Tasks -> StatusTypes] /\ quoteExpired' \in [Tasks -> BOOLEAN]
    BY <1>10 DEF SyncSettling, TypeOK, StatusTypes
  <2> QED
    BY <1>10, <2>1, <2>2, GotoType
    DEF SyncSettling, Quiet, Frame, chainVars, sentVars, lpVars, clocks, TypeOK, ChainTypeOK
<1>11. CASE SyncSettled(t)
  <2>1. PICK next \in Labels : Goto(t, next) BY <1>1, <1>11 DEF SyncSettled, Collect
  <2>2. state' \in SwapStates BY <1>11 DEF SyncSettled, SwapStates
  <2> QED
    BY <1>11, <2>1, <2>2, GotoType
    DEF SyncSettled, Frame, chainVars, sentVars, lpVars, clocks, TypeOK, ChainTypeOK
<1> QED
  BY <1>2, <1>3, <1>4, <1>5, <1>6, <1>7, <1>8, <1>9, <1>10, <1>11 DEF SyncNext

\* Every step of commit and waitTillCommited keeps every variable well-typed.
LEMMA CommitNextType ==
  ASSUME TypeOK, NEW t \in Callers, CommitNext(t)
  PROVE  TypeOK'
<1>0. t \in Tasks BY DEF Tasks
<1>1. /\ {"idle", "commit:saving", "commit:send", "commit:confirm",
          "wc:poll", "wc:expiry", "wc:yes", "wc:no"} \subseteq Labels
      /\ {"CREATED", "COMMITED", "QUOTE_EXPIRED"} \subseteq SwapStates
      /\ SwapStates \subseteq Records
  BY DEF Labels, SwapStates, Records
<1> USE <1>0
<1>2. CASE Commit(t)
  <2>1. pc' \in [Tasks -> Labels] BY <1>1, <1>2, GotoType DEF Commit
  <2>2. recorded' \in Records BY <1>1, <1>2 DEF Commit, TypeOK
  <2> QED
    BY <1>2, <2>1, <2>2 DEF Commit, chainVars, sentVars, lpVars, clocks, TypeOK, ChainTypeOK
<1>3. CASE CommitSend(t)
  <2>1. pc' \in [Tasks -> Labels] BY <1>1, <1>3, GotoType DEF CommitSend
  <2> QED
    BY <1>3, <2>1
    DEF CommitSend, Quiet, Frame, sentVars, lpVars, clocks, TypeOK, ChainTypeOK
<1>4. CASE CommitConfirmed(t)
  BY <1>1, <1>4, QuietType, EmitStepType DEF CommitConfirmed
<1>5. CASE CommitFail(t)
  BY <1>1, <1>5, QuietType DEF CommitFail
<1>6. CASE WaitCommit(t)
  BY <1>1, <1>6, QuietType DEF WaitCommit
<1>7. CASE WatchCommitStatus(t)
  <2>1. PICK next \in Labels : Goto(t, next) BY <1>1, <1>7 DEF WatchCommitStatus
  <2> QED BY <1>7, <2>1, QuietType DEF WatchCommitStatus
<1>8. CASE WatchCommitExpiry(t)
  <2>1. PICK next \in Labels : Goto(t, next) BY <1>1, <1>8 DEF WatchCommitExpiry
  <2> QED BY <1>8, <2>1, QuietType DEF WatchCommitExpiry
<1>9. CASE WaitCommitDone(t)
  BY <1>1, <1>9, QuietType, EmitStepType DEF WaitCommitDone
<1> QED
  BY <1>2, <1>3, <1>4, <1>5, <1>6, <1>7, <1>8, <1>9 DEF CommitNext

\* waitTillIntermediarySwapProcessed keeps what it touches well-typed.
LEMMA SoftClaimType ==
  ASSUME TypeOK, NEW t \in Tasks, SoftClaim(t)
  PROVE  /\ state' \in SwapStates
         /\ recorded' \in Records
         /\ pc' \in [Tasks -> Labels]
<1>1. "idle" \in Labels /\ "SOFT_CLAIMED" \in SwapStates
  BY DEF Labels, SwapStates
<1>2. Waked("SOFT_CLAIMED") \in [Tasks -> Labels] /\ Persisted("SOFT_CLAIMED") \in Records
  BY <1>1, WakedType, PersistedType
<1> QED
  BY <1>1, <1>2, GotoType DEF SoftClaim, TypeOK

\* Every step of waitForPayment keeps every variable well-typed.
LEMMA PayNextType ==
  ASSUME TypeOK, NEW t \in Callers, PayNext(t)
  PROVE  TypeOK'
<1>0. t \in Tasks BY DEF Tasks
<1>1. /\ {"idle", "pay:wait", "pay:paid", "pay:refund", "pay:left"} \subseteq Labels
      /\ "REFUNDABLE" \in SwapStates
  BY DEF Labels, SwapStates
<1> USE <1>0
<1>2. CASE Pay(t)
  <2>1. pc' \in [Tasks -> Labels] BY <1>1, <1>2, GotoType DEF Pay, TypeOK
  <2> QED
    BY <1>2, <2>1 DEF Pay, Frame, chainVars, sentVars, lpVars, clocks, TypeOK, ChainTypeOK
<1>3. CASE PayPoll(t)
  BY <1>1, <1>3, QuietType DEF PayPoll
<1>4. CASE PayPaid(t)
  BY <1>4, SoftClaimType
  DEF PayPaid, Frame, chainVars, sentVars, lpVars, clocks, TypeOK, ChainTypeOK
<1>5. CASE PayRefund(t)
  <2>1. Waked("REFUNDABLE") \in [Tasks -> Labels] /\ Persisted("REFUNDABLE") \in Records
    BY <1>1, WakedType, PersistedType
  <2>2. pc' \in [Tasks -> Labels] BY <1>1, <1>5, <2>1 DEF PayRefund
  <2> QED
    BY <1>1, <1>5, <2>1, <2>2
    DEF PayRefund, Frame, chainVars, sentVars, lpVars, clocks, TypeOK, ChainTypeOK
<1>6. CASE PayLeft(t)
  <2>1. /\ state' \in SwapStates
        /\ recorded' \in Records
        /\ pc' \in [Tasks -> Labels]
    BY <1>1, <1>6, SoftClaimType, GotoType DEF PayLeft, TypeOK
  <2> QED
    BY <1>6, <2>1
    DEF PayLeft, Frame, chainVars, sentVars, lpVars, clocks, TypeOK, ChainTypeOK
<1> QED
  BY <1>2, <1>3, <1>4, <1>5, <1>6 DEF PayNext

\* Every step of refund and waitTillRefunded keeps every variable well-typed.
LEMMA RefundNextType ==
  ASSUME TypeOK, NEW t \in Callers, RefundNext(t)
  PROVE  TypeOK'
<1>0. t \in Tasks BY DEF Tasks
<1>1. /\ {"idle", "rf:kind", "rf:confirm", "wr:poll", "wr:paid", "wr:returned"} \subseteq Labels
      /\ {"REFUNDED", "CLAIMED"} \subseteq SwapStates
  BY DEF Labels, SwapStates
<1> USE <1>0
<1>2. CASE Refund(t)
  BY <1>1, <1>2, QuietType DEF Refund
<1>3. CASE RefundSend(t)
  <2>1. pc' \in [Tasks -> Labels] BY <1>1, <1>3, GotoType DEF RefundSend
  <2>2. refundSent' \in SUBSET RefundKinds
    BY <1>3 DEF RefundSend, RefundKinds, TypeOK, ChainTypeOK
  <2> QED
    BY <1>3, <2>1, <2>2 DEF RefundSend, Quiet, Frame, lpVars, clocks, TypeOK, ChainTypeOK
<1>4. CASE RefundConfirmed(t)
  BY <1>1, <1>4, QuietType, EmitStepType DEF RefundConfirmed
<1>5. CASE RefundFail(t)
  BY <1>1, <1>5, QuietType DEF RefundFail
<1>6. CASE WaitRefund(t)
  BY <1>1, <1>6, QuietType DEF WaitRefund
<1>7. CASE WatchResult(t)
  <2>1. \A answer \in StatusAnswers : answer \in StatusTypes
    BY DEF StatusAnswers, StatusTypes, TypeOK, ChainTypeOK, Escrows
  <2>2. PICK next \in Labels : Goto(t, next)
    BY <1>1, <1>7, <2>1 DEF WatchResult, StatusTypes
  <2> QED BY <1>7, <2>2, QuietType DEF WatchResult
<1>8. CASE WaitRefundDone(t)
  BY <1>1, <1>8, EmitStepType DEF WaitRefundDone
<1> QED
  BY <1>2, <1>3, <1>4, <1>5, <1>6, <1>7, <1>8 DEF RefundNext

\* Taking the next event keeps the chain's variables well-typed.
LEMMA NextEventType ==
  ASSUME TypeOK, NEW e \in ChainEvents, NextEvent(e)
  PROVE  ChainTypeOK'
<1>1. events \in Seq(ChainEvents) /\ events # <<>>
  BY DEF NextEvent, TypeOK, ChainTypeOK
<1>2. events' \in Seq(ChainEvents)
  BY <1>1 DEF NextEvent
<1> QED
  BY <1>2 DEF NextEvent, sentVars, lpVars, clocks, TypeOK, ChainTypeOK

\* What the listener's save touches stays well-typed.
LEMMA ProcessEventType ==
  ASSUME TypeOK, NEW s \in SwapStates, ProcessEvent(s)
  PROVE  /\ state' \in SwapStates
         /\ recorded' \in Records
         /\ told' \subseteq {"paid", "refundable"}
         /\ pc' \in [Tasks -> Labels]
BY WakedType, PersistedType DEF ProcessEvent, SaveAndEmit, Quiet, ToldBy, TypeOK

\* Handling a contract event keeps every variable well-typed.
LEMMA ListenerNextType ==
  ASSUME TypeOK, ListenerNext
  PROVE  TypeOK'
<1>1. {"init", "claim", "refund"} = ChainEvents
  BY DEF ChainEvents
<1>2. {"COMMITED", "CLAIMED", "REFUNDED"} \subseteq SwapStates /\ state \in SwapStates
  BY DEF SwapStates, TypeOK
<1>3. CASE EventInitialize
  <2>1. ChainTypeOK' BY <1>1, <1>3, NextEventType DEF EventInitialize
  <2>2. PICK s \in SwapStates : ProcessEvent(s) BY <1>2, <1>3 DEF EventInitialize
  <2> QED BY <1>3, <2>1, <2>2, ProcessEventType DEF EventInitialize, ListenerFrame, TypeOK
<1>4. CASE EventClaim
  <2>1. ChainTypeOK' BY <1>1, <1>4, NextEventType DEF EventClaim
  <2>2. CASE state \in {"REFUNDED", "CLAIMED"}
    <3>1. ProcessEvent(state) BY <1>4, <2>2 DEF EventClaim
    <3> QED BY <1>2, <1>4, <2>1, <2>2, <3>1, ProcessEventType DEF EventClaim, ListenerFrame, TypeOK
  <2>3. CASE state \notin {"REFUNDED", "CLAIMED"}
    BY <1>4, <2>1, <2>3 DEF EventClaim, ListenerFrame, Quiet, TypeOK
  <2> QED BY <2>2, <2>3
<1>5. CASE EventClaimDone
  <2>1. ProcessEvent("CLAIMED") BY <1>5 DEF EventClaimDone, ProcessEvent
  <2> QED
    BY <1>2, <1>5, <2>1, ProcessEventType
    DEF EventClaimDone, ListenerFrame, chainVars, sentVars, lpVars, clocks, TypeOK, ChainTypeOK
<1>6. CASE EventRefund
  <2>1. ChainTypeOK' BY <1>1, <1>6, NextEventType DEF EventRefund
  <2>2. PICK s \in SwapStates : ProcessEvent(s) BY <1>2, <1>6 DEF EventRefund
  <2> QED BY <1>6, <2>1, <2>2, ProcessEventType DEF EventRefund, ListenerFrame, TypeOK
<1>7. CASE EventUnknown
  <2>1. ChainTypeOK' BY <1>7, NextEventType DEF EventUnknown
  <2> QED BY <1>7, <2>1 DEF EventUnknown, ListenerFrame, Quiet, TypeOK
<1> QED
  BY <1>3, <1>4, <1>5, <1>6, <1>7 DEF ListenerNext

\* Storage writes, crashes and restarts keep every variable well-typed.
LEMMA StorageNextType ==
  ASSUME TypeOK, StorageNext
  PROVE  TypeOK'
<1> USE DEF TypeOK, ChainTypeOK, chainVars, sentVars, lpVars, clocks
<1>1. CASE Flush
  BY <1>1 DEF Flush, Labels
<1>2. CASE Crash
  BY <1>2 DEF Crash, Labels, StatusTypes
<1>3. CASE Restart
  <2>1. durable \in SwapStates BY <1>3 DEF Restart, Records
  <2>2. <<>> \in Seq(ChainEvents) OBVIOUS
  <2> QED BY <1>3, <2>1, <2>2 DEF Restart
<1>4. CASE InitDone
  BY <1>4 DEF InitDone
<1> QED
  BY <1>1, <1>2, <1>3, <1>4 DEF StorageNext

\* The model is type-correct: every variable of the swap, of its record and of
\* the calls under way keeps the shape the code gives it.
THEOREM TypeCorrect == Spec => []TypeOK
<1>1. Init => TypeOK
  <2> SUFFICES ASSUME Init PROVE TypeOK
    OBVIOUS
  <2>1. ChainTypeOK
    <3>1. <<>> \in Seq(ChainEvents) /\ {} \in SUBSET RefundKinds
      OBVIOUS
    <3> QED
      BY <3>1 DEF Init, ChainInit, ChainTypeOK, Escrows
  <2>2. /\ pc \in [Tasks -> Labels]
        /\ status \in [Tasks -> StatusTypes]
        /\ quoteExpired \in [Tasks -> BOOLEAN]
    BY DEF Init, Labels, StatusTypes
  <2> QED
    BY <2>1, <2>2 DEF Init, TypeOK, SwapStates, Records
<1>2. TypeOK /\ [Next]_vars => TypeOK'
  <2> SUFFICES ASSUME TypeOK, [Next]_vars PROVE TypeOK'
    OBVIOUS
  <2>1. CASE UNCHANGED vars
    BY <2>1 DEF vars, sdkVars, chainVars, sentVars, lpVars, clocks, TypeOK, ChainTypeOK
  <2>2. CASE Environment BY <2>2, ChainNextType
  <2>3. CASE \E t \in Timers : TickNext(t) BY <2>3, TickNextType
  <2>4. CASE \E t \in Callers : SyncNext(t) \/ CommitNext(t) \/ PayNext(t) \/ RefundNext(t)
    BY <2>4, SyncNextType, CommitNextType, PayNextType, RefundNextType
  <2>5. CASE ListenerNext BY <2>5, ListenerNextType
  <2>6. CASE StorageNext BY <2>6, StorageNextType
  <2> QED
    BY <2>1, <2>2, <2>3, <2>4, <2>5, <2>6 DEF Next
<1> QED
  BY <1>1, <1>2, PTL DEF Spec

-----------------------------------------------------------------------------
(***************************************************************************)
(* Evidence.  None of the three properties below is inductive: a call acts *)
(* on an answer it got earlier, a handler on an event it took earlier, a   *)
(* restart on a record written earlier.  The invariant therefore says that *)
(* whatever is in hand anywhere was true when it was obtained, and it only *)
(* uses facts that never become false again: a claimed escrow stays        *)
(* claimed, a payment made stays made, a signature given stays given and a *)
(* timeout that passed stays passed.                                       *)
(***************************************************************************)

\* What must be true for a swap to be, or to be recorded, in state s.
Backed(s) ==
  /\ s = "CLAIMED" => escrow = "paid"
  /\ s \in {"COMMITED", "SOFT_CLAIMED", "REFUNDABLE"} => escrow # "none"
  /\ s = "REFUNDABLE" => escrowExpired \/ lpRefund

\* What must be true for a call to be parked with the answer it has.
InHand(t) ==
  /\ pc[t] \in {"wr:paid", "sync:claimed"} => escrow = "paid"
  /\ pc[t] \in {"tick:asked", "tick:expired", "wc:yes"} => escrow # "none"
  /\ pc[t] = "tick:expired" => escrowExpired
  /\ pc[t] \in {"pay:paid", "sync:paid"} => lpPaid
  /\ pc[t] \in {"pay:refund", "sync:refund"} => lpRefund
  /\ status[t] = "PAID" => escrow = "paid"
  /\ status[t] \in {"COMMITED", "REFUNDABLE"} => escrow # "none"
  /\ status[t] = "REFUNDABLE" => escrowExpired

EventsBacked == \A i \in 1..Len(events) :
  /\ events[i] = "claim" => escrow = "paid"
  /\ events[i] = "init" => escrow # "none"

Evidence ==
  /\ Backed(state) /\ Backed(recorded) /\ Backed(durable)
  /\ \A t \in Tasks : InHand(t)
  /\ EventsBacked
  /\ handling = "claim" => escrow = "paid"
  /\ escrow = "paid" => lpPaid
  /\ lpPaid \/ lpRefund => escrow # "none"
  /\ ToldTheTruth

\* Waking calls leaves nothing in anyone's hand that was not there before.
LEMMA WakedInHand ==
  ASSUME TypeOK, NEW s, NEW u \in Tasks
  PROVE  Waked(s)[u] \in {pc[u], "pay:left", "idle"}
BY DEF Waked

\* A step that moves call t on with an answer that is true, and touches nothing else.
LEMMA QuietEvidence ==
  ASSUME TypeOK, Evidence, NEW t \in Tasks, NEW next,
         Goto(t, next), Quiet, Frame, UNCHANGED <<status, quoteExpired, chainVars>>,
         next \in {"wr:paid", "sync:claimed"} => escrow = "paid",
         next \in {"tick:asked", "tick:expired", "wc:yes"} => escrow # "none",
         next = "tick:expired" => escrowExpired,
         next \in {"pay:paid", "sync:paid"} => lpPaid,
         next \in {"pay:refund", "sync:refund"} => lpRefund
  PROVE  Evidence'
<1> USE DEF TypeOK, Goto, Quiet, Frame, chainVars, sentVars, lpVars, clocks
<1>1. ASSUME NEW u \in Tasks PROVE InHand(u)'
  BY <1>1 DEF Evidence, InHand
<1> QED
  BY <1>1 DEF Evidence, Backed, EventsBacked, ToldTheTruth

\* Emitting a backed state keeps every piece of evidence.
LEMMA EmitEvidence ==
  ASSUME TypeOK, Evidence, NEW t \in Tasks, NEW s \in SwapStates, Backed(s),
         EmitFrom(t, s, "idle"), Frame, UNCHANGED <<status, quoteExpired, chainVars>>
  PROVE  Evidence'
<1> USE DEF Frame, chainVars, sentVars, lpVars, clocks
<1>1. ASSUME NEW u \in Tasks PROVE InHand(u)'
  <2>1. pc'[u] \in {pc[u], "pay:left", "idle"}
    BY WakedInHand, WakedType DEF EmitFrom
  <2> QED BY <2>1 DEF Evidence, InHand
<1>2. state' = s /\ Backed(recorded)'
  BY DEF EmitFrom, SaveAndEmit, Persisted, Evidence, Backed
<1>3. ToldTheTruth'
  BY DEF EmitFrom, SaveAndEmit, ToldBy, Evidence, Backed, ToldTheTruth
<1> QED
  BY <1>1, <1>2, <1>3 DEF Evidence, Backed, EventsBacked

\* What was evidence stays evidence when the chain, the LP or the clocks move on:
\* a paid escrow, a passed timeout and a signature are never taken back.
LEMMA ChainNextEvidence ==
  ASSUME TypeOK, Evidence, Environment
  PROVE  Evidence'
<1> USE DEF Environment, sdkVars, sentVars, lpVars, clocks
<1>1. /\ escrow = "paid" => escrow' = "paid"
      /\ escrow # "none" => escrow' # "none"
      /\ lpPaid' \/ lpRefund' => escrow' # "none"
      /\ escrowExpired => escrowExpired'
      /\ lpPaid => lpPaid'
      /\ lpRefund => lpRefund'
      /\ escrow' = "paid" => lpPaid'
  BY DEF ChainNext, ChainCommit, ChainClaim, ChainRefund, LpPay, LpSignRefund,
         SoftExpire, AuthExpire, EscrowExpire, Evidence
<1>2. ASSUME NEW u \in Tasks PROVE InHand(u)'
  BY <1>1 DEF Evidence, InHand
<1>3. EventsBacked'
  <2>1. events \in Seq(ChainEvents) BY DEF TypeOK, ChainTypeOK
  <2>2. CASE UNCHANGED events
    BY <1>1, <2>2 DEF Evidence, EventsBacked
  <2>3. CASE \E e \in ChainEvents : /\ events' = Append(events, e)
                                    /\ (e = "claim" => escrow' = "paid") /\ (e = "init" => escrow' # "none")
    <3>1. PICK e \in ChainEvents : /\ events' = Append(events, e)
                                   /\ (e = "claim" => escrow' = "paid") /\ (e = "init" => escrow' # "none")
      BY <2>3
    <3>2. Len(events') = Len(events) + 1 /\ Len(events) \in Nat
      BY <2>1, <3>1
    <3>3. ASSUME NEW i \in 1..Len(events')
          PROVE  (events'[i] = "claim" => escrow' = "paid") /\ (events'[i] = "init" => escrow' # "none")
      <4>1. CASE i = Len(events')
        BY <2>1, <3>1, <3>2, <4>1
      <4>2. CASE i # Len(events')
        <5>1. i \in 1..Len(events) /\ events'[i] = events[i]
          BY <2>1, <3>1, <3>2, <4>2
        <5> QED BY <1>1, <5>1 DEF Evidence, EventsBacked
      <4> QED BY <4>1, <4>2
    <3> QED BY <3>3 DEF EventsBacked
  <2>4. UNCHANGED events \/ \E e \in ChainEvents :
          /\ events' = Append(events, e)
          /\ (e = "claim" => escrow' = "paid") /\ (e = "init" => escrow' # "none")
    BY DEF ChainNext, ChainCommit, ChainClaim, ChainRefund, LpPay, LpSignRefund,
           SoftExpire, AuthExpire, EscrowExpire, ChainEvents
  <2> QED BY <2>2, <2>3, <2>4
<1> QED
  BY <1>1, <1>2, <1>3 DEF Evidence, Backed, ToldTheTruth

\* _tick offers a refund only on an expiry it has been told of.
LEMMA TickNextEvidence ==
  ASSUME TypeOK, Evidence, NEW t \in Timers, TickNext(t)
  PROVE  Evidence'
<1>0. t \in Tasks /\ InHand(t) /\ Backed(state) BY DEF Tasks, Evidence
<1>1. {"QUOTE_SOFT_EXPIRED", "REFUNDABLE"} \subseteq SwapStates BY DEF SwapStates
<1>2. CASE TickQuote(t)
  BY <1>0, <1>1, <1>2, EmitEvidence DEF TickQuote, Backed
<1>3. CASE TickAsk(t)
  BY <1>0, <1>3, QuietEvidence DEF TickAsk, Backed
<1>4. CASE TickAnswer(t)
  <2>1. PICK next \in {"tick:expired", "idle"} : Goto(t, next) /\ (next = "tick:expired" => escrowExpired)
    BY <1>4 DEF TickAnswer
  <2> QED BY <1>0, <1>4, <2>1, QuietEvidence DEF TickAnswer, InHand
<1>5. CASE TickExpire(t)
  BY <1>0, <1>1, <1>5, EmitEvidence DEF TickExpire, Backed, InHand
<1> QED
  BY <1>2, <1>3, <1>4, <1>5 DEF TickNext

\* A step that changes the state without emitting it, and moves call t on.
LEMMA SilentEvidence ==
  ASSUME TypeOK, Evidence, NEW t \in Tasks,
         Backed(state'), Backed(recorded'), UNCHANGED told,
         \A u \in Tasks : InHand(u)',
         Frame, UNCHANGED chainVars
  PROVE  Evidence'
BY DEF Evidence, Backed, EventsBacked, ToldTheTruth, Frame, chainVars, sentVars, lpVars, clocks

\* syncStateFromChain derives a state from an answer that was true when it was given.
LEMMA SyncedBacked ==
  ASSUME TypeOK, Evidence, NEW t \in Tasks
  PROVE  Backed(SyncedState(t))
<1>1. InHand(t) /\ Backed(state) BY DEF Evidence
<1>2. Backed(NotCommited(t)) BY <1>1 DEF NotCommited, Backed
<1>3. status[t] \in StatusTypes BY DEF TypeOK
<1> QED
  BY <1>1, <1>2, <1>3 DEF SyncedState, StatusTypes, Backed, InHand

\* An answer of the contract is true when it is given.
LEMMA AnswerTrue ==
  ASSUME TypeOK, NEW answer \in StatusAnswers
  PROVE  /\ answer = "PAID" => escrow = "paid"
         /\ answer \in {"COMMITED", "REFUNDABLE"} => escrow # "none"
         /\ answer = "REFUNDABLE" => escrowExpired
         /\ answer \in StatusTypes
BY DEF StatusAnswers, TypeOK, ChainTypeOK, Escrows, StatusTypes

\* checkPastSwaps, applying its answers late, sets only states they back.
LEMMA SyncNextEvidence ==
  ASSUME TypeOK, Evidence, NEW t \in Callers, SyncNext(t)
  PROVE  Evidence'
<1>0. t \in Tasks /\ InHand(t) /\ Backed(state) /\ Backed(recorded) /\ \A u \in Tasks : InHand(u)
  BY DEF Tasks, Evidence
<1> USE <1>0
<1>1. CASE SyncStart(t)
  <2>1. ASSUME NEW u \in Tasks PROVE InHand(u)'
    BY <1>1 DEF SyncStart, Goto, InHand, TypeOK, chainVars, lpVars, clocks
  <2> QED
    BY <1>1, <2>1
    DEF SyncStart, Quiet, chainVars, lpVars, clocks, Evidence, Backed, EventsBacked, ToldTheTruth
<1>2. CASE SyncExpiry(t)
  <2>1. ASSUME NEW u \in Tasks PROVE InHand(u)'
    BY <1>2 DEF SyncExpiry, Goto, InHand, TypeOK, chainVars, lpVars, clocks
  <2> QED
    BY <1>2, <2>1, SilentEvidence DEF SyncExpiry, Quiet, Backed, chainVars, lpVars, clocks
<1>3. CASE SyncStatus(t)
  <2>1. PICK answer \in StatusAnswers : status' = [status EXCEPT ![t] = answer]
    BY <1>3 DEF SyncStatus
  <2>2. ASSUME NEW u \in Tasks PROVE InHand(u)'
    BY <1>3, <2>1, AnswerTrue DEF SyncStatus, Goto, InHand, TypeOK, chainVars, lpVars, clocks
  <2> QED
    BY <1>3, <2>2, SilentEvidence DEF SyncStatus, Quiet, Backed, chainVars, lpVars, clocks
<1>4. CASE SyncApply(t)
  <2>1. ASSUME NEW u \in Tasks PROVE InHand(u)'
    <3>1. PICK next : /\ Goto(t, next)
                      /\ next \in {"idle", "sync:lp", "sync:lpChanged", "sync:save", "sync:remove"}
      BY <1>4 DEF SyncApply, Collect
    <3> QED BY <1>4, <3>1 DEF SyncApply, Goto, InHand, TypeOK, chainVars, lpVars, clocks
  <2>2. Backed(state')
    BY <1>4, SyncedBacked DEF SyncApply, Backed, chainVars, lpVars, clocks
  <2> QED
    BY <1>4, <2>1, <2>2, SilentEvidence DEF SyncApply, Backed, chainVars, lpVars, clocks
<1>5. CASE SyncAskLp(t)
  <2>1. PICK next : /\ Goto(t, next)
                    /\ \/ next = "sync:paid" /\ lpPaid
                       \/ next = "sync:refund" /\ lpRefund
                       \/ next \in {"idle", "sync:save", "sync:remove"}
    BY <1>5 DEF SyncAskLp, Collect
  <2> QED BY <1>5, <2>1, QuietEvidence DEF SyncAskLp
<1>6. CASE SyncLpApply(t)
  <2>1. ASSUME NEW u \in Tasks PROVE InHand(u)'
    BY <1>6 DEF SyncLpApply, Goto, InHand, TypeOK, chainVars, lpVars, clocks
  <2>2. Backed(state')
    BY <1>6 DEF SyncLpApply, Backed, InHand, Evidence, chainVars, lpVars, clocks
  <2> QED
    BY <1>6, <2>1, <2>2, SilentEvidence DEF SyncLpApply, Backed, chainVars, lpVars, clocks
<1>7. CASE SyncWrite(t)
  <2>1. ASSUME NEW u \in Tasks PROVE InHand(u)'
    BY <1>7 DEF SyncWrite, Goto, InHand, TypeOK, chainVars, lpVars, clocks
  <2> QED
    BY <1>7, <2>1, SilentEvidence DEF SyncWrite, Backed, chainVars, lpVars, clocks
<1>8. CASE SyncFail(t)
  <2>1. ASSUME NEW u \in Tasks PROVE InHand(u)'
    BY <1>8 DEF SyncFail, Goto, InHand, TypeOK, chainVars, lpVars, clocks
  <2> QED
    BY <1>8, <2>1, SilentEvidence DEF SyncFail, Quiet, Backed, chainVars, lpVars, clocks
<1>9. CASE SyncSettling(t)
  <2>1. ASSUME NEW u \in Tasks PROVE InHand(u)'
    BY <1>9 DEF SyncSettling, Goto, InHand, TypeOK, chainVars, lpVars, clocks
  <2> QED
    BY <1>9, <2>1, SilentEvidence DEF SyncSettling, Quiet, Backed, chainVars, lpVars, clocks
<1>10. CASE SyncSettled(t)
  <2>1. ASSUME NEW u \in Tasks PROVE InHand(u)'
    <3>1. PICK next \in {"sync:save", "sync:remove"} : Goto(t, next)
      BY <1>10 DEF SyncSettled, Collect
    <3> QED BY <1>10, <3>1 DEF SyncSettled, Goto, InHand, TypeOK, chainVars, lpVars, clocks
  <2>2. Backed(state')
    BY <1>10 DEF SyncSettled, Backed, InHand, chainVars, lpVars, clocks
  <2> QED
    BY <1>10, <2>1, <2>2, SilentEvidence DEF SyncSettled, Backed, chainVars, lpVars, clocks
<1> QED
  BY <1>1, <1>2, <1>3, <1>4, <1>5, <1>6, <1>7, <1>8, <1>9, <1>10 DEF SyncNext

\* commit and waitTillCommited claim nothing about payment or refund.
LEMMA CommitNextEvidence ==
  ASSUME TypeOK, Evidence, NEW t \in Callers, CommitNext(t)
  PROVE  Evidence'
<1>0. t \in Tasks /\ \A u \in Tasks : InHand(u)
  BY DEF Tasks, Evidence
<1>1. /\ {"COMMITED", "QUOTE_EXPIRED"} \subseteq SwapStates /\ Backed("QUOTE_EXPIRED")
      /\ escrow # "none" => Backed("COMMITED")
  BY DEF SwapStates, Backed
<1> USE <1>0
<1>2. CASE Commit(t)
  <2>1. ASSUME NEW u \in Tasks PROVE InHand(u)'
    BY <1>2 DEF Commit, Goto, InHand, TypeOK, chainVars, lpVars, clocks
  <2> QED
    BY <1>2, <2>1 DEF Commit, chainVars, lpVars, clocks, Evidence, Backed, EventsBacked, ToldTheTruth
<1>3. CASE CommitSend(t)
  <2>1. ASSUME NEW u \in Tasks PROVE InHand(u)'
    BY <1>3 DEF CommitSend, Goto, InHand, TypeOK, lpVars, clocks
  <2> QED
    BY <1>3, <2>1
    DEF CommitSend, Quiet, Frame, lpVars, clocks, Evidence, Backed, EventsBacked, ToldTheTruth
<1>4. CASE CommitConfirmed(t)
  BY <1>1, <1>4, QuietEvidence, EmitEvidence DEF CommitConfirmed
<1>5. CASE CommitFail(t)
  BY <1>5, QuietEvidence DEF CommitFail
<1>6. CASE WaitCommit(t)
  BY <1>6, QuietEvidence DEF WaitCommit
<1>7. CASE WatchCommitStatus(t)
  <2>1. PICK next \in {"wc:expiry", "wc:no", "wc:yes"} : Goto(t, next) /\ (next = "wc:yes" => escrow # "none")
    BY <1>7 DEF WatchCommitStatus, StatusAnswers, TypeOK, ChainTypeOK, Escrows
  <2> QED BY <1>7, <2>1, QuietEvidence DEF WatchCommitStatus
<1>8. CASE WatchCommitExpiry(t)
  BY <1>8, QuietEvidence DEF WatchCommitExpiry
<1>9. CASE WaitCommitDone(t)
  BY <1>1, <1>9, QuietEvidence, EmitEvidence DEF WaitCommitDone, InHand
<1> QED
  BY <1>2, <1>3, <1>4, <1>5, <1>6, <1>7, <1>8, <1>9 DEF CommitNext

\* A valid proof of payment backs everything waitTillIntermediarySwapProcessed sets.
LEMMA SoftClaimEvidence ==
  ASSUME TypeOK, Evidence, NEW t \in Tasks, SoftClaim(t), UNCHANGED chainVars
  PROVE  /\ Backed(state') /\ Backed(recorded')
         /\ \A u \in Tasks : pc'[u] \in {pc[u], "pay:left", "idle"}
<1>1. \A u \in Tasks : Waked("SOFT_CLAIMED")[u] \in {pc[u], "pay:left", "idle"}
  BY WakedInHand
<1>2. Waked("SOFT_CLAIMED") \in [Tasks -> Labels]
  BY WakedType DEF SwapStates
<1> QED
  BY <1>1, <1>2 DEF SoftClaim, Goto, Persisted, Evidence, Backed, TypeOK, chainVars

\* waitForPayment acts on a proof of payment or on a signature it verified.
LEMMA PayNextEvidence ==
  ASSUME TypeOK, Evidence, NEW t \in Callers, PayNext(t)
  PROVE  Evidence'
<1>0. t \in Tasks /\ InHand(t) /\ \A u \in Tasks : InHand(u)
  BY DEF Tasks, Evidence
<1> USE <1>0
<1>1. CASE Pay(t)
  <2>1. CASE state = "CLAIMED" /\ told' = told \cup {"paid"} /\ UNCHANGED pc
    BY <1>1, <2>1
    DEF Pay, Frame, Evidence, InHand, Backed, EventsBacked, ToldTheTruth, chainVars, lpVars, clocks
  <2>2. CASE Goto(t, "pay:wait") /\ UNCHANGED told
    BY <1>1, <2>2, QuietEvidence DEF Pay, Quiet
  <2> QED BY <1>1, <2>1, <2>2 DEF Pay
<1>2. CASE PayPoll(t)
  BY <1>2, QuietEvidence DEF PayPoll
<1>3. CASE PayPaid(t)
  <2>1. ASSUME NEW u \in Tasks PROVE InHand(u)'
    BY <1>3, SoftClaimEvidence DEF PayPaid, InHand, chainVars, lpVars, clocks
  <2>2. ToldTheTruth'
    BY <1>3 DEF PayPaid, InHand, Evidence, ToldTheTruth, chainVars, lpVars, clocks
  <2> QED
    BY <1>3, <2>1, <2>2, SoftClaimEvidence
    DEF PayPaid, Frame, chainVars, lpVars, clocks, Evidence, Backed, EventsBacked
<1>4. CASE PayRefund(t)
  <2>1. ASSUME NEW u \in Tasks PROVE InHand(u)'
    <3>1. "REFUNDABLE" \in SwapStates BY DEF SwapStates
    <3>2. pc'[u] \in {pc[u], "pay:left", "idle"}
      BY <1>4, <3>1, WakedInHand, WakedType DEF PayRefund
    <3> QED BY <1>4, <3>2 DEF PayRefund, InHand, chainVars, lpVars, clocks
  <2>2. Backed(state)' /\ Backed(recorded)' /\ ToldTheTruth'
    BY <1>4 DEF PayRefund, InHand, Evidence, Backed, Persisted, ToldTheTruth, chainVars, lpVars, clocks
  <2> QED
    BY <1>4, <2>1, <2>2
    DEF PayRefund, Frame, chainVars, lpVars, clocks, Evidence, Backed, EventsBacked
<1>5. CASE PayLeft(t)
  <2>1. /\ Backed(state') /\ Backed(recorded')
        /\ \A u \in Tasks : pc'[u] \in {pc[u], "pay:left", "idle"}
    BY <1>5, SoftClaimEvidence DEF PayLeft, Goto, TypeOK, Evidence, Backed
  <2>2. ASSUME NEW u \in Tasks PROVE InHand(u)'
    BY <1>5, <2>1 DEF PayLeft, InHand, chainVars, lpVars, clocks
  <2> QED
    BY <1>5, <2>1, <2>2, SilentEvidence DEF PayLeft, Backed, chainVars, lpVars, clocks
<1> QED
  BY <1>1, <1>2, <1>3, <1>4, <1>5 DEF PayNext

\* refund and waitTillRefunded say CLAIMED only on a PAID answer.
LEMMA RefundNextEvidence ==
  ASSUME TypeOK, Evidence, NEW t \in Callers, RefundNext(t)
  PROVE  Evidence'
<1>0. t \in Tasks /\ InHand(t) /\ \A u \in Tasks : InHand(u)
  BY DEF Tasks, Evidence
<1>1. {"REFUNDED", "CLAIMED"} \subseteq SwapStates
  BY DEF SwapStates
<1> USE <1>0
<1>2. CASE Refund(t)
  BY <1>2, QuietEvidence DEF Refund
<1>3. CASE RefundSend(t)
  <2>1. ASSUME NEW u \in Tasks PROVE InHand(u)'
    BY <1>3 DEF RefundSend, Goto, InHand, TypeOK, lpVars, clocks
  <2> QED
    BY <1>3, <2>1
    DEF RefundSend, Quiet, Frame, lpVars, clocks, Evidence, Backed, EventsBacked, ToldTheTruth
<1>4. CASE RefundConfirmed(t)
  BY <1>1, <1>4, QuietEvidence, EmitEvidence DEF RefundConfirmed, Backed
<1>5. CASE RefundFail(t)
  BY <1>5, QuietEvidence DEF RefundFail
<1>6. CASE WaitRefund(t)
  BY <1>6, QuietEvidence DEF WaitRefund
<1>7. CASE WatchResult(t)
  <2>1. PICK answer \in StatusAnswers :
          Goto(t, CASE answer \in {"COMMITED", "REFUNDABLE"} -> "wr:poll"
                    [] answer = "PAID" -> "wr:paid"
                    [] answer = "NOT_COMMITED" -> "wr:returned"
                    [] answer = "EXPIRED" -> "idle")
    BY <1>7 DEF WatchResult
  <2>2. (answer = "PAID" => escrow = "paid") /\ answer \in StatusTypes
    BY AnswerTrue
  <2>3. PICK next : Goto(t, next) /\ next \in {"wr:poll", "wr:paid", "wr:returned", "idle"}
                    /\ (next = "wr:paid" => escrow = "paid")
    BY <2>1, <2>2 DEF StatusTypes
  <2> QED BY <1>7, <2>3, QuietEvidence DEF WatchResult
<1>8. CASE WaitRefundDone(t)
  BY <1>1, <1>8, EmitEvidence DEF WaitRefundDone, InHand, Backed
<1> QED
  BY <1>2, <1>3, <1>4, <1>5, <1>6, <1>7, <1>8 DEF RefundNext

\* The events left after one is taken are backed; so is the one taken.
LEMMA NextEventEvidence ==
  ASSUME TypeOK, Evidence, NEW e, NextEvent(e)
  PROVE  EventsBacked' /\ (e = "claim" => escrow = "paid") /\ (e = "init" => escrow # "none")
<1>1. events \in Seq(ChainEvents) /\ events # <<>> BY DEF TypeOK, ChainTypeOK, NextEvent
<1>2. Len(events) \in Nat \ {0} /\ Head(events) = events[1] BY <1>1
<1>3. Len(events') = Len(events) - 1 BY <1>1, <1>2 DEF NextEvent
<1>4. ASSUME NEW i \in 1..Len(events') PROVE events'[i] = events[i + 1] /\ i + 1 \in 1..Len(events)
  BY <1>1, <1>2, <1>3 DEF NextEvent
<1> QED
  BY <1>2, <1>4 DEF NextEvent, Evidence, EventsBacked

\* The listener saving and emitting a backed state keeps what it touches backed.
LEMMA ProcessEventEvidence ==
  ASSUME TypeOK, Evidence, NEW s \in SwapStates, Backed(s), ProcessEvent(s)
  PROVE  /\ state' = s /\ Backed(recorded')
         /\ \A u \in Tasks : pc'[u] \in {pc[u], "pay:left", "idle"}
         /\ told' \in {told, told \cup {"paid"}}
         /\ told' # told => s = "CLAIMED"
<1>1. \A u \in Tasks : Waked(s)[u] \in {pc[u], "pay:left", "idle"}
  BY WakedInHand
<1> QED
  BY <1>1 DEF ProcessEvent, SaveAndEmit, Quiet, ToldBy, Persisted, Evidence, Backed

\* The listener shows a claim only for a claim event the contract emitted.
LEMMA ListenerNextEvidence ==
  ASSUME TypeOK, Evidence, ListenerNext
  PROVE  Evidence'
<1>0. {"COMMITED", "CLAIMED", "REFUNDED"} \subseteq SwapStates /\ state \in SwapStates
  BY DEF SwapStates, TypeOK
<1>1. ASSUME NEW s \in SwapStates, Backed(s), ProcessEvent(s), ListenerFrame, EventsBacked',
             UNCHANGED <<escrow, sentVars, lpVars, clocks>>,
             handling' = "claim" => escrow = "paid"
      PROVE  Evidence'
  <2>1. ASSUME NEW u \in Tasks PROVE InHand(u)'
    BY <1>1, ProcessEventEvidence DEF ListenerFrame, lpVars, clocks, Evidence, InHand
  <2>2. ToldTheTruth'
    BY <1>1, ProcessEventEvidence DEF lpVars, clocks, Evidence, Backed, ToldTheTruth
  <2> QED
    BY <1>1, <2>1, <2>2, ProcessEventEvidence DEF ListenerFrame, lpVars, clocks, Evidence, Backed
<1>2. ASSUME Quiet, ListenerFrame, UNCHANGED pc, EventsBacked',
             UNCHANGED <<escrow, sentVars, lpVars, clocks>>,
             handling' = "claim" => escrow = "paid"
      PROVE  Evidence'
  BY <1>2 DEF Quiet, ListenerFrame, lpVars, clocks, Evidence, Backed, InHand, ToldTheTruth
<1>3. CASE EventInitialize
  <2>0. escrow # "none"
    BY <1>3, NextEventEvidence DEF EventInitialize
  <2>1. PICK s \in SwapStates : ProcessEvent(s) /\ Backed(s)
    BY <1>0, <1>3, <2>0 DEF EventInitialize, Evidence, Backed
  <2> QED
    BY <1>1, <1>3, <2>1, NextEventEvidence DEF EventInitialize, NextEvent, Evidence
<1>4. CASE EventClaim
  <2>1. EventsBacked' /\ escrow = "paid" BY <1>4, NextEventEvidence DEF EventClaim
  <2>2. CASE state \in {"REFUNDED", "CLAIMED"}
    BY <1>0, <1>1, <1>4, <2>1, <2>2 DEF EventClaim, NextEvent, Evidence
  <2>3. CASE state \notin {"REFUNDED", "CLAIMED"}
    BY <1>2, <1>4, <2>1, <2>3 DEF EventClaim, NextEvent
  <2> QED BY <2>2, <2>3
<1>5. CASE EventClaimDone
  <2>1. escrow = "paid" /\ EventsBacked' 
    BY <1>5 DEF EventClaimDone, Evidence, EventsBacked, chainVars
  <2>2. ProcessEvent("CLAIMED") /\ Backed("CLAIMED")
    BY <1>5, <2>1 DEF EventClaimDone, ProcessEvent, Backed
  <2> QED BY <1>0, <1>1, <1>5, <2>1, <2>2 DEF EventClaimDone, chainVars
<1>6. CASE EventRefund
  <2>1. PICK s \in SwapStates : ProcessEvent(s) /\ Backed(s)
    BY <1>0, <1>6 DEF EventRefund, Evidence, Backed
  <2> QED
    BY <1>1, <1>6, <2>1, NextEventEvidence DEF EventRefund, NextEvent, Evidence
<1>7. CASE EventUnknown
  BY <1>2, <1>7, NextEventEvidence DEF EventUnknown, NextEvent, Evidence
<1> QED
  BY <1>3, <1>4, <1>5, <1>6, <1>7 DEF ListenerNext

\* The record a crash leaves is backed like the state it was written from.
LEMMA StorageNextEvidence ==
  ASSUME TypeOK, Evidence, StorageNext
  PROVE  Evidence'
<1> USE DEF chainVars, sentVars, lpVars, clocks, Evidence, Backed, ToldTheTruth
<1>1. CASE Flush
  <2>1. ASSUME NEW u \in Tasks PROVE InHand(u)'
    BY <1>1 DEF Flush, InHand
  <2> QED BY <1>1, <2>1 DEF Flush, EventsBacked
<1>2. CASE Crash
  <2>1. ASSUME NEW u \in Tasks PROVE InHand(u)'
    BY <1>2 DEF Crash, InHand
  <2> QED BY <1>2, <2>1 DEF Crash, EventsBacked
<1>3. CASE Restart
  <2>1. ASSUME NEW u \in Tasks PROVE InHand(u)'
    BY <1>3 DEF Restart, InHand
  <2>2. EventsBacked' BY <1>3 DEF Restart, EventsBacked
  <2> QED BY <1>3, <2>1, <2>2 DEF Restart
<1>4. CASE InitDone
  BY <1>4 DEF InitDone, InHand, EventsBacked
<1> QED
  BY <1>1, <1>2, <1>3, <1>4 DEF StorageNext

\* Evidence is invariant.
LEMMA EvidenceInvariant == Spec => []Evidence
<1>1. Init => Evidence
  BY DEF Init, ChainInit, Evidence, Backed, InHand, EventsBacked, ToldTheTruth
<1>2. TypeOK /\ Evidence /\ [Next]_vars => Evidence'
  <2> SUFFICES ASSUME TypeOK, Evidence, [Next]_vars PROVE Evidence'
    OBVIOUS
  <2>1. CASE UNCHANGED vars
    BY <2>1 DEF vars, sdkVars, chainVars, lpVars, clocks, Evidence, Backed, InHand,
                EventsBacked, ToldTheTruth
  <2>2. CASE Environment BY <2>2, ChainNextEvidence
  <2>3. CASE \E t \in Timers : TickNext(t) BY <2>3, TickNextEvidence
  <2>4. CASE \E t \in Callers : SyncNext(t) \/ CommitNext(t) \/ PayNext(t) \/ RefundNext(t)
    BY <2>4, SyncNextEvidence, CommitNextEvidence, PayNextEvidence, RefundNextEvidence
  <2>5. CASE ListenerNext BY <2>5, ListenerNextEvidence
  <2>6. CASE StorageNext BY <2>6, StorageNextEvidence
  <2> QED
    BY <2>1, <2>2, <2>3, <2>4, <2>5, <2>6 DEF Next
<1> QED
  BY <1>1, <1>2, TypeCorrect, PTL DEF Spec

\* A swap is shown as CLAIMED only when the escrow has been claimed, whatever
\* calls run side by side and however often the SDK is restarted.
THEOREM ClaimedIsPaidAlways == Spec => []ClaimedIsPaid
<1>1. Evidence => ClaimedIsPaid BY DEF Evidence, Backed, ClaimedIsPaid
<1> QED BY <1>1, EvidenceInvariant, PTL

\* A swap is offered for a refund only over an escrow that was opened and that
\* timed out, or for which the LP signed a refund.
THEOREM RefundableCanRefundAlways == Spec => []RefundableCanRefund
<1>1. Evidence => RefundableCanRefund BY DEF Evidence, Backed, RefundableCanRefund
<1> QED BY <1>1, EvidenceInvariant, PTL

\* waitForPayment never tells the application something that is not so.
THEOREM ToldTheTruthAlways == Spec => []ToldTheTruth
<1>1. Evidence => ToldTheTruth BY DEF Evidence
<1> QED BY <1>1, EvidenceInvariant, PTL

-----------------------------------------------------------------------------
(***************************************************************************)
(* Custody.  Where the user's funds are is inferred from answers, too: an  *)
(* escrow that is not there was returned if there had been one.  That an   *)
(* old answer may be read so needs that the state is not changed between   *)
(* the answer and its use, which a sync that the application asks for      *)
(* beside its other calls does not give (the run ToBTCSyncRace shows what  *)
(* happens then): the theorems are about applications that do not ask, and *)
(* the sync of wrapper.init() still runs after every restart.              *)
(***************************************************************************)

\* The application leaves _syncSwaps to wrapper.init().
Unsynced == \A t \in Callers : <<t, "sync">> \notin Enabled

SyncLabels == {"sync:expiry", "sync:status", "sync:apply", "sync:claimed", "sync:expired",
               "sync:lp", "sync:lpChanged", "sync:paid", "sync:refund", "sync:save", "sync:remove"}

Placed   == escrow # "none"
Returned == escrow = "refunded"

\* What the chain's own rules give.
ChainRules ==
  /\ lpPaid \/ lpRefund => Placed
  /\ Placed => commitSent
  /\ escrowExpired => authExpired

\* What a swap that is, or is recorded, in state s tells of the escrow.
Sound(s) ==
  /\ s \in {"COMMITED", "SOFT_CLAIMED", "REFUNDABLE"} => Placed
  /\ s = "REFUNDED" => Returned

\* What call t may rely on.
Standing(t) ==
  /\ pc[t] \in {"tick:asked", "tick:expired", "wc:yes", "wr:poll"} => Placed
  /\ pc[t] = "wr:returned" => Returned
  /\ pc[t] = "sync:apply" =>
       /\ status[t] \in {"COMMITED", "REFUNDABLE"} => Placed
       /\ status[t] = "NOT_COMMITED" /\ state \in {"COMMITED", "REFUNDABLE"} => Returned

\* The sync of wrapper.init() runs alone.
InitAlone ==
  /\ phase \in {"down", "init"} => \A t \in Tasks : pc[t] = "idle"
  /\ phase # "run" => handling = "nothing"
  /\ \A t \in Tasks : pc[t] \in SyncLabels => phase = "syncing"
  /\ phase = "syncing" => \A t, u \in Tasks :
       pc[t] # "idle" => pc[t] \in SyncLabels /\ (u = t \/ pc[u] = "idle")

EventsSound == \A i \in 1..Len(events) :
  /\ events[i] = "init" => Placed
  /\ events[i] = "refund" => Returned

Custody ==
  /\ ChainRules /\ InitAlone /\ EventsSound
  /\ Sound(state) /\ Sound(recorded) /\ Sound(durable)
  /\ \A t \in Tasks : Standing(t)

\* Call u stays, is woken, or goes on with something to rely on.
Settles(u) ==
  \/ pc'[u] = pc[u] /\ status'[u] = status[u]
  \/ pc[u] \notin SyncLabels \cup {"idle"} /\ pc'[u] \in {"idle", "pay:left"}
  \/ /\ Standing(u)'
     /\ \/ phase = "run" /\ pc'[u] \notin SyncLabels
        \/ phase = "syncing" /\ pc[u] # "idle" /\ pc'[u] \in SyncLabels \cup {"idle"}

\* A step that leaves the escrow alone and makes the swap what it may be.
LEMMA CustodyStep ==
  ASSUME TypeOK, Custody, UNCHANGED <<durable, phase, escrow, lpVars, clocks>>,
         commitSent => commitSent', events' = events \/ EventsSound',
         handling' = "nothing" \/ handling' = handling \/ phase = "run",
         Sound(state'), recorded' = recorded \/ Sound(recorded'),
         state' = state \/ phase = "run" \/ \A u \in Tasks : pc'[u] # "sync:apply",
         \A u \in Tasks : Settles(u)
  PROVE  Custody'
<1>1. ChainRules'
  BY DEF Custody, ChainRules, Placed, lpVars, clocks
<1>2. EventsSound'
  BY DEF Custody, EventsSound, Placed, Returned
<1>3. InitAlone'
  <2>1. InitAlone /\ phase' = phase
    BY DEF Custody
  <2>2. phase \in {"down", "init"} => \A u \in Tasks : pc'[u] = "idle"
    BY <2>1 DEF InitAlone, Settles
  <2>3. phase # "run" => handling' = "nothing"
    BY <2>1 DEF InitAlone
  <2>4. \A u \in Tasks : pc'[u] \in SyncLabels => phase = "syncing"
    BY <2>1 DEF InitAlone, Settles, SyncLabels
  <2>5. phase = "syncing" => \A u \in Tasks :
          /\ pc'[u] # "idle" => pc[u] # "idle"
          /\ pc'[u] # "idle" => pc'[u] \in SyncLabels
    BY <2>1 DEF InitAlone, Settles
  <2> QED
    BY <2>1, <2>2, <2>3, <2>4, <2>5 DEF InitAlone
<1>4. Sound(state)' /\ Sound(recorded)' /\ Sound(durable)'
  BY DEF Custody, Sound, Placed, Returned
<1>5. ASSUME NEW u \in Tasks PROVE Standing(u)'
  <2>1. CASE pc'[u] = pc[u] /\ status'[u] = status[u]
    <3>1. pc[u] = "sync:apply" => state' = state
      BY <2>1 DEF Custody, InitAlone, SyncLabels
    <3> QED
      BY <2>1, <3>1 DEF Custody, Standing, Placed, Returned
  <2>2. CASE pc'[u] \in {"idle", "pay:left"}
    BY <2>2 DEF Standing
  <2> QED
    BY <2>1, <2>2 DEF Settles
<1> QED
  BY <1>1, <1>2, <1>3, <1>4, <1>5 DEF Custody

\* Where a call runs that is not idle.
LEMMA RunsIn ==
  ASSUME TypeOK, Custody, NEW t \in Tasks, pc[t] # "idle"
  PROVE  IF pc[t] \in SyncLabels THEN phase = "syncing" ELSE phase = "run"
BY DEF TypeOK, Custody, InitAlone

\* A call that only goes on to its next await.
LEMMA QuietCustody ==
  ASSUME TypeOK, Custody, NEW t \in Tasks, NEW next, Goto(t, next), Quiet, Frame, phase = "run",
         UNCHANGED <<status, escrow, events, lpVars, clocks>>, commitSent => commitSent',
         next \notin SyncLabels, next \in {"tick:asked", "tick:expired", "wc:yes", "wr:poll"} => Placed,
         next = "wr:returned" => Returned
  PROVE  Custody'
<1>1. pc'[t] = next /\ \A u \in Tasks \ {t} : pc'[u] = pc[u]
  BY DEF Goto, TypeOK
<1>2. Standing(t)'
  BY <1>1 DEF Standing, SyncLabels, Placed, Returned
<1>3. \A u \in Tasks : Settles(u)
  BY <1>1, <1>2 DEF Settles
<1> QED
  BY <1>3, CustodyStep DEF Quiet, Frame, Custody

\* A call that emits a state, and rests.
LEMMA EmitCustody ==
  ASSUME TypeOK, Custody, NEW t \in Tasks, NEW s \in SwapStates, EmitFrom(t, s, "idle"), Frame, phase = "run",
         UNCHANGED <<status, quoteExpired, chainVars>>, Sound(s)
  PROVE  Custody'
<1>1. pc'[t] = "idle" /\ \A u \in Tasks \ {t} : pc'[u] = Waked(s)[u]
  BY WakedType DEF EmitFrom
<1>2. Standing(t)'
  BY <1>1 DEF Standing
<1>3. \A u \in Tasks : Waked(s)[u] = pc[u] \/ (pc[u] \notin SyncLabels \cup {"idle"} /\ Waked(s)[u] \in {"idle", "pay:left"})
  BY DEF Waked, SyncLabels
<1>4. \A u \in Tasks : Settles(u)
  BY <1>1, <1>2, <1>3 DEF Settles, SyncLabels
<1>5. Sound(state') /\ (recorded' = recorded \/ Sound(recorded'))
  BY DEF EmitFrom, SaveAndEmit, Persisted, Sound
<1> QED
  BY <1>4, <1>5, CustodyStep DEF Frame, chainVars, sentVars

\* Escrows are opened once, and settled for good.
LEMMA ChainCustody ==
  ASSUME TypeOK, Custody, Environment
  PROVE  Custody'
<1> USE DEF Environment, sdkVars, sentVars, lpVars, clocks
<1>1. /\ Placed => Placed'
      /\ Returned => Returned'
  BY DEF ChainNext, ChainCommit, ChainClaim, ChainRefund, LpPay, LpSignRefund,
         SoftExpire, AuthExpire, EscrowExpire, Placed, Returned
<1>2. ChainRules'
  BY DEF ChainNext, ChainCommit, ChainClaim, ChainRefund, LpPay, LpSignRefund,
         SoftExpire, AuthExpire, EscrowExpire, Placed, Custody, ChainRules
<1>3. EventsSound'
  <2>1. events \in Seq(ChainEvents) BY DEF TypeOK, ChainTypeOK
  <2>2. CASE UNCHANGED events
    BY <1>1, <2>2 DEF Custody, EventsSound
  <2>3. CASE \E e \in ChainEvents : /\ events' = Append(events, e)
                                    /\ (e = "init" => Placed') /\ (e = "refund" => Returned')
    <3>1. PICK e \in ChainEvents : /\ events' = Append(events, e)
                                   /\ (e = "init" => Placed') /\ (e = "refund" => Returned')
      BY <2>3
    <3>2. Len(events') = Len(events) + 1 /\ Len(events) \in Nat
      BY <2>1, <3>1
    <3>3. ASSUME NEW i \in 1..Len(events')
          PROVE  (events'[i] = "init" => Placed') /\ (events'[i] = "refund" => Returned')
      <4>1. CASE i = Len(events')
        BY <2>1, <3>1, <3>2, <4>1
      <4>2. CASE i # Len(events')
        <5>1. i \in 1..Len(events) /\ events'[i] = events[i]
          BY <2>1, <3>1, <3>2, <4>2
        <5> QED BY <1>1, <5>1 DEF Custody, EventsSound
      <4> QED BY <4>1, <4>2
    <3> QED BY <3>3 DEF EventsSound
  <2>4. UNCHANGED events \/ \E e \in ChainEvents :
          events' = Append(events, e) /\ (e = "init" => Placed') /\ (e = "refund" => Returned')
    BY DEF ChainNext, ChainCommit, ChainClaim, ChainRefund, LpPay, LpSignRefund,
           SoftExpire, AuthExpire, EscrowExpire, ChainEvents, Placed, Returned
  <2> QED BY <2>2, <2>3, <2>4
<1>4. \A u \in Tasks : Standing(u)'
  BY <1>1 DEF Custody, Standing
<1> QED
  BY <1>1, <1>2, <1>3, <1>4 DEF Custody, Sound, InitAlone

\* Ticks ask about escrows only.
LEMMA TickCustody ==
  ASSUME TypeOK, Custody, NEW t \in Timers, TickNext(t)
  PROVE  Custody'
<1>0. t \in Tasks /\ Standing(t) /\ Sound(state)
  BY DEF Tasks, Custody
<1>1. phase = "run"
  BY <1>0, RunsIn DEF TickNext, TickQuote, TickAsk, TickAnswer, TickExpire, Running, SyncLabels
<1>2. CASE TickQuote(t)
  BY <1>0, <1>1, <1>2, EmitCustody DEF TickQuote, Sound, SwapStates
<1>3. CASE TickAsk(t)
  BY <1>0, <1>1, <1>3, QuietCustody DEF TickAsk, Sound, SyncLabels, chainVars, sentVars
<1>4. CASE TickAnswer(t)
  <2>1. PICK next \in {"tick:expired", "idle"} : Goto(t, next)
    BY <1>4 DEF TickAnswer
  <2> QED
    BY <1>0, <1>1, <1>4, <2>1, QuietCustody DEF TickAnswer, Standing, SyncLabels, chainVars, sentVars
<1>5. CASE TickExpire(t)
  BY <1>0, <1>1, <1>5, EmitCustody DEF TickExpire, Sound, Standing, SwapStates
<1> QED
  BY <1>2, <1>3, <1>4, <1>5 DEF TickNext

\* A swap becomes committed only for an escrow that is, or was, there.
LEMMA CommitCustody ==
  ASSUME TypeOK, Custody, NEW t \in Callers, CommitNext(t)
  PROVE  Custody'
<1>0. t \in Tasks /\ Standing(t) /\ Sound(state)
  BY DEF Tasks, Custody
<1>1. phase = "run"
  BY <1>0, RunsIn DEF CommitNext, Commit, CommitSend, CommitConfirmed, CommitFail, WaitCommit, WatchCommitStatus,
                      WatchCommitExpiry, WaitCommitDone, Called, Running, SyncLabels
<1>2. ASSUME NEW next, Goto(t, next), next \notin SyncLabels,
             next \notin {"tick:asked", "tick:expired", "wr:poll", "wr:returned"},
             next = "wc:yes" => Placed, Quiet, Frame,
             UNCHANGED <<status, escrow, events, lpVars, clocks>>, commitSent => commitSent'
      PROVE  Custody'
  BY <1>0, <1>1, <1>2, QuietCustody
<1>3. CASE Commit(t)
  <2>1. PICK next \in {"commit:send", "commit:saving"} : Goto(t, next)
    BY <1>3 DEF Commit
  <2>2. pc'[t] = next /\ \A u \in Tasks \ {t} : pc'[u] = pc[u]
    BY <1>0, <2>1 DEF Goto, TypeOK
  <2>3. \A u \in Tasks : Settles(u)
    BY <1>1, <1>3, <2>2 DEF Commit, Settles, Standing, SyncLabels
  <2>4. Sound(state') /\ (recorded' = recorded \/ Sound(recorded'))
    BY <1>0, <1>3 DEF Commit, Sound, Placed, Returned, chainVars
  <2> QED
    BY <1>3, <2>3, <2>4, CustodyStep DEF Commit, chainVars, sentVars
<1>4. CASE CommitSend(t)
  <2>1. PICK next \in {"commit:confirm", "idle"} : Goto(t, next)
    BY <1>4 DEF CommitSend
  <2> QED
    BY <1>2, <1>4, <2>1 DEF CommitSend, SyncLabels
<1>5. CASE CommitConfirmed(t)
  <2>1. "COMMITED" \in SwapStates /\ Sound("COMMITED")
    BY <1>5 DEF CommitConfirmed, Sound, Placed, SwapStates
  <2> QED
    BY <1>0, <1>1, <1>2, <1>5, <2>1, EmitCustody DEF CommitConfirmed, SyncLabels, chainVars, sentVars
<1>6. CASE CommitFail(t) \/ WaitCommit(t) \/ WatchCommitExpiry(t)
  <2>1. PICK next \in {"idle", "wc:poll", "wc:no"} : Goto(t, next)
    BY <1>6 DEF CommitFail, WaitCommit, WatchCommitExpiry
  <2> QED
    BY <1>2, <1>6, <2>1 DEF CommitFail, WaitCommit, WatchCommitExpiry, SyncLabels, chainVars, sentVars
<1>7. CASE WatchCommitStatus(t)
  <2>1. PICK answer \in StatusAnswers :
          Goto(t, CASE answer = "NOT_COMMITED" -> "wc:expiry"
                    [] answer = "EXPIRED" -> "wc:no"
                    [] OTHER -> "wc:yes")
    BY <1>7 DEF WatchCommitStatus
  <2>2. PICK next \in {"wc:expiry", "wc:no", "wc:yes"} : Goto(t, next) /\ (next = "wc:yes" => Placed)
    BY <2>1 DEF StatusAnswers, TypeOK, ChainTypeOK, Escrows, Placed
  <2> QED
    BY <1>2, <1>7, <2>2 DEF WatchCommitStatus, SyncLabels, chainVars, sentVars
<1>8. CASE WaitCommitDone(t)
  <2>1. {"COMMITED", "QUOTE_EXPIRED"} \subseteq SwapStates /\ Sound("QUOTE_EXPIRED")
        /\ (pc[t] = "wc:yes" => Sound("COMMITED"))
    BY <1>0 DEF Sound, SwapStates, Standing
  <2> QED
    BY <1>0, <1>1, <1>2, <1>8, <2>1, EmitCustody DEF WaitCommitDone, SyncLabels, chainVars, sentVars
<1> QED
  BY <1>3, <1>4, <1>5, <1>6, <1>7, <1>8 DEF CommitNext

\* A proof of payment is for an escrow the LP could claim.
LEMMA SoftClaimCustody ==
  ASSUME TypeOK, Custody, NEW t \in Tasks, pc[t] \notin SyncLabels, phase = "run", SoftClaim(t), Frame,
         UNCHANGED <<status, quoteExpired, chainVars>>
  PROVE  Custody'
<1>1. Sound(state') /\ Sound(recorded')
  BY DEF SoftClaim, Persisted, Custody, Sound, Placed, Returned, chainVars
<1>2. \A u \in Tasks : \/ Waked("SOFT_CLAIMED")[u] = pc[u]
                       \/ (pc[u] \notin SyncLabels \cup {"idle"} /\ Waked("SOFT_CLAIMED")[u] \in {"idle", "pay:left"})
  BY DEF Waked, SyncLabels
<1>3. Waked("SOFT_CLAIMED") \in [Tasks -> Labels]
  BY WakedType DEF SwapStates
<1>4. pc'[t] = "idle" /\ \A u \in Tasks \ {t} : pc'[u] = pc[u] \/ pc'[u] = Waked("SOFT_CLAIMED")[u]
  BY <1>3 DEF SoftClaim, Goto, TypeOK
<1>5. \A u \in Tasks : Settles(u)
  BY <1>2, <1>4 DEF Settles, Standing, SyncLabels
<1> QED
  BY <1>1, <1>5, CustodyStep DEF Frame, chainVars, sentVars

\* waitForPayment makes a swap refundable with the LP's signature only, which it
\* gives for an escrow that is there.
LEMMA PayCustody ==
  ASSUME TypeOK, Evidence, Custody, NEW t \in Callers, PayNext(t)
  PROVE  Custody'
<1>0. t \in Tasks
  BY DEF Tasks
<1>1. phase = "run" /\ pc[t] \notin SyncLabels
  BY <1>0, RunsIn DEF PayNext, Pay, PayPoll, PayPaid, PayRefund, PayLeft, Called, Running, SyncLabels
<1>2. CASE PayPoll(t) \/ (Pay(t) /\ Goto(t, "pay:wait") /\ UNCHANGED told)
  <2>1. PICK next \in {"pay:wait", "pay:paid", "pay:refund", "pay:left"} : Goto(t, next)
    BY <1>2 DEF PayPoll
  <2>2. Quiet /\ Frame /\ UNCHANGED <<status, escrow, events, lpVars, clocks, commitSent>>
    BY <1>2 DEF Pay, PayPoll, Quiet, chainVars, sentVars
  <2> QED
    BY <1>0, <1>1, <2>1, <2>2, QuietCustody DEF SyncLabels
<1>6. CASE Pay(t) /\ UNCHANGED pc
  <2>1. \A u \in Tasks : Settles(u)
    BY <1>6 DEF Pay, Settles
  <2>2. Sound(state')
    BY <1>6 DEF Pay, Custody, Sound, Placed, Returned, chainVars
  <2> QED
    BY <1>1, <1>6, <2>1, <2>2, CustodyStep DEF Pay, Frame, chainVars, sentVars
<1>3. CASE PayPaid(t)
  BY <1>0, <1>1, <1>3, SoftClaimCustody DEF PayPaid
<1>4. CASE PayRefund(t)
  <2>1. Placed
    BY <1>0, <1>4 DEF PayRefund, Evidence, InHand, Custody, ChainRules
  <2>2. Sound(state') /\ (recorded' = recorded \/ Sound(recorded'))
    BY <1>4, <2>1 DEF PayRefund, Persisted, Sound, Placed, chainVars
  <2>3. \A u \in Tasks : \/ Waked("REFUNDABLE")[u] = pc[u]
                         \/ (pc[u] \notin SyncLabels \cup {"idle"} /\ Waked("REFUNDABLE")[u] \in {"idle", "pay:left"})
    BY DEF Waked, SyncLabels
  <2>4. pc'[t] = "idle" /\ \A u \in Tasks \ {t} : pc'[u] = Waked("REFUNDABLE")[u]
    BY <1>0, <1>4, WakedType DEF PayRefund, SwapStates
  <2>5. \A u \in Tasks : Settles(u)
    BY <1>1, <1>4, <2>3, <2>4 DEF PayRefund, Settles, Standing, SyncLabels
  <2> QED
    BY <1>1, <1>4, <2>2, <2>5, CustodyStep DEF PayRefund, Frame, chainVars, sentVars
<1>5. CASE PayLeft(t)
  <2>1. CASE SoftClaim(t)
    BY <1>0, <1>1, <1>5, <2>1, SoftClaimCustody DEF PayLeft
  <2>2. CASE Goto(t, "idle") /\ UNCHANGED <<state, recorded>>
    <3>1. Quiet
      BY <1>5, <2>2 DEF PayLeft, Quiet
    <3> QED
      BY <1>0, <1>1, <1>5, <2>2, <3>1, QuietCustody DEF PayLeft, SyncLabels, chainVars, sentVars
  <2> QED
    BY <1>5, <2>1, <2>2 DEF PayLeft
<1> QED
  BY <1>2, <1>3, <1>4, <1>5, <1>6 DEF PayNext, Pay

\* An escrow that was there and is not any more was returned.
LEMMA RefundCustody ==
  ASSUME TypeOK, Custody, NEW t \in Callers, RefundNext(t)
  PROVE  Custody'
<1>0. t \in Tasks /\ Standing(t) /\ Sound(state)
  BY DEF Tasks, Custody
<1>1. phase = "run"
  BY <1>0, RunsIn DEF RefundNext, Refund, RefundSend, RefundConfirmed, RefundFail, WaitRefund, WatchResult,
                      WaitRefundDone, Called, Running, SyncLabels
<1>2. {"REFUNDED", "CLAIMED"} \subseteq SwapStates
  BY DEF SwapStates
<1>3. CASE Refund(t) \/ RefundSend(t) \/ RefundFail(t)
  <2>1. PICK next \in {"rf:kind", "rf:confirm", "idle"} : Goto(t, next)
    BY <1>3 DEF Refund, RefundSend, RefundFail
  <2>2. Quiet /\ Frame /\ UNCHANGED <<status, escrow, events, lpVars, clocks, commitSent>>
    BY <1>3 DEF Refund, RefundSend, RefundFail, chainVars, sentVars
  <2> QED
    BY <1>0, <1>1, <2>1, <2>2, QuietCustody DEF SyncLabels
<1>4. CASE RefundConfirmed(t)
  <2>1. Sound("REFUNDED")
    BY <1>4 DEF RefundConfirmed, Sound, Returned
  <2> QED
    BY <1>0, <1>1, <1>2, <1>4, <2>1, EmitCustody, QuietCustody DEF RefundConfirmed, SyncLabels, chainVars, sentVars
<1>5. CASE WaitRefund(t)
  <2>1. Placed
    BY <1>0, <1>5 DEF WaitRefund, WaitRefundAccepts, Sound
  <2> QED
    BY <1>0, <1>1, <1>5, <2>1, QuietCustody DEF WaitRefund, SyncLabels, chainVars, sentVars
<1>6. CASE WatchResult(t)
  <2>1. PICK answer \in StatusAnswers :
          Goto(t, CASE answer \in {"COMMITED", "REFUNDABLE"} -> "wr:poll"
                    [] answer = "PAID" -> "wr:paid"
                    [] answer = "NOT_COMMITED" -> "wr:returned"
                    [] answer = "EXPIRED" -> "idle")
    BY <1>6 DEF WatchResult
  <2>2. Placed
    BY <1>0, <1>6 DEF WatchResult, Standing
  <2>3. (answer = "NOT_COMMITED" => Returned) /\ answer \in StatusTypes
    BY <2>2 DEF StatusAnswers, TypeOK, ChainTypeOK, Escrows, StatusTypes, Placed, Returned
  <2>4. PICK next \in {"wr:poll", "wr:paid", "wr:returned", "idle"} : Goto(t, next) /\ (next = "wr:returned" => Returned)
    BY <2>1, <2>3 DEF StatusTypes
  <2> QED
    BY <1>0, <1>1, <1>6, <2>2, <2>4, QuietCustody DEF WatchResult, SyncLabels, chainVars, sentVars
<1>7. CASE WaitRefundDone(t)
  <2>1. Sound("CLAIMED") /\ (pc[t] = "wr:returned" => Sound("REFUNDED"))
    BY <1>0 DEF Sound, Standing
  <2> QED
    BY <1>0, <1>1, <1>2, <1>7, <2>1, EmitCustody DEF WaitRefundDone
<1> QED
  BY <1>3, <1>4, <1>5, <1>6, <1>7 DEF RefundNext

\* The sync of wrapper.init(): its answers are about the state they are applied to.
LEMMA SyncCustody ==
  ASSUME Unsynced, TypeOK, Evidence, Custody, NEW t \in Callers, SyncNext(t)
  PROVE  Custody'
<1>0. t \in Tasks /\ Standing(t) /\ Sound(state) /\ InHand(t)
  BY DEF Tasks, Custody, Evidence
<1>1. CASE SyncStart(t)
  <2>1. phase = "init" /\ phase' = "syncing" /\ \A u \in Tasks : pc[u] = "idle"
    BY <1>1 DEF SyncStart, Called, Unsynced, Custody, InitAlone
  <2>2. PICK next \in {"sync:expiry", "sync:status"} : Goto(t, next)
    BY <1>1 DEF SyncStart
  <2>3. pc'[t] = next /\ \A u \in Tasks \ {t} : pc'[u] = "idle"
    BY <1>0, <2>1, <2>2 DEF Goto, TypeOK
  <2>4. UNCHANGED <<escrow, events, commitSent, lpPaid, lpRefund, authExpired, escrowExpired, state, recorded, durable,
                    handling, status>>
    BY <1>1 DEF SyncStart, Quiet, chainVars, sentVars, lpVars, clocks
  <2>5. InitAlone'
    BY <2>1, <2>3, <2>4 DEF InitAlone, Custody, SyncLabels
  <2>6. \A u \in Tasks : Standing(u)'
    BY <2>3 DEF Standing
  <2>7. ChainRules' /\ EventsSound' /\ Sound(state)' /\ Sound(recorded)' /\ Sound(durable)'
    BY <2>4 DEF Custody, ChainRules, EventsSound, Sound, Placed, Returned
  <2> QED
    BY <2>5, <2>6, <2>7 DEF Custody
<1>2. ASSUME NEW next \in SyncLabels \cup {"idle"}, Goto(t, next), pc[t] \in SyncLabels, Frame, UNCHANGED chainVars,
             Sound(state'), recorded' = recorded \/ Sound(recorded'), \A u \in Tasks \ {t} : status'[u] = status[u],
             next = "sync:apply" => Standing(t)', next = "sync:apply" => state' = state
      PROVE  Custody'
  <2>1. phase = "syncing" /\ pc[t] # "idle"
    BY <1>0, <1>2, RunsIn DEF SyncLabels
  <2>2. pc'[t] = next /\ \A u \in Tasks \ {t} : pc'[u] = pc[u]
    BY <1>0, <1>2 DEF Goto, TypeOK
  <2>3. Standing(t)'
    BY <1>2, <2>2 DEF Standing, SyncLabels
  <2>4. \A u \in Tasks : Settles(u)
    BY <1>2, <2>1, <2>2, <2>3 DEF Settles
  <2>5. \A u \in Tasks \ {t} : pc[u] = "idle"
    BY <1>0, <2>1 DEF Custody, InitAlone
  <2>6. state' = state \/ \A u \in Tasks : pc'[u] # "sync:apply"
    BY <1>2, <2>2, <2>5
  <2> QED
    BY <1>2, <2>4, <2>6, CustodyStep DEF Frame, chainVars, sentVars
<1>3. CASE SyncExpiry(t)
  <2>1. PICK next \in {"sync:status", "idle"} : Goto(t, next)
    BY <1>3 DEF SyncExpiry
  <2>2. pc[t] \in SyncLabels /\ next \in SyncLabels \cup {"idle"} /\ Sound(state') /\ recorded' = recorded
    BY <1>0, <1>3 DEF SyncExpiry, SyncLabels, Quiet, Sound, Placed, Returned, chainVars
  <2> QED
    BY <1>2, <1>3, <2>1, <2>2 DEF SyncExpiry
<1>4. CASE SyncStatus(t)
  <2>1. PICK answer \in StatusAnswers : status' = [status EXCEPT ![t] = answer]
    BY <1>4 DEF SyncStatus
  <2>2. status'[t] = answer /\ \A u \in Tasks \ {t} : status'[u] = status[u]
    BY <1>0, <2>1 DEF TypeOK
  <2>3. /\ answer \in {"COMMITED", "REFUNDABLE"} => Placed
        /\ answer = "NOT_COMMITED" /\ Placed => Returned
    BY DEF StatusAnswers, TypeOK, ChainTypeOK, Escrows, Placed, Returned
  <2>4. UNCHANGED <<state, recorded, escrow>>
    BY <1>4 DEF SyncStatus, Quiet, chainVars
  <2>5. pc'[t] = "sync:apply"
    BY <1>0, <1>4 DEF SyncStatus, Goto, TypeOK
  <2>6. Standing(t)'
    BY <1>0, <2>2, <2>3, <2>4, <2>5 DEF Standing, Sound, Placed, Returned
  <2>7. pc[t] \in SyncLabels /\ "sync:apply" \in SyncLabels /\ Sound(state')
    BY <1>0, <1>4, <2>4 DEF SyncStatus, SyncLabels, Sound, Placed, Returned
  <2> QED
    BY <1>2, <1>4, <2>2, <2>4, <2>6, <2>7 DEF SyncStatus
<1>5. CASE SyncApply(t)
  <2>1. Sound(SyncedState(t))
    <3>1. status[t] \in StatusTypes
      BY <1>0 DEF TypeOK
    <3>2. Sound(NotCommited(t)) \/ status[t] # "NOT_COMMITED"
      BY <1>0, <1>5 DEF NotCommited, Sound, Standing, SyncApply
    <3> QED
      BY <1>0, <1>5, <3>1, <3>2 DEF SyncedState, SyncApply, Sound, Standing, StatusTypes
  <2>2. PICK next : Goto(t, next) /\ next \in {"idle", "sync:lp", "sync:lpChanged", "sync:save", "sync:remove"}
    BY <1>5 DEF SyncApply, Collect
  <2>3. Sound(state') /\ \A u \in Tasks \ {t} : status'[u] = status[u]
    BY <1>0, <1>5, <2>1 DEF SyncApply, Sound, Placed, Returned, chainVars, TypeOK
  <2>4. pc[t] \in SyncLabels /\ next \in SyncLabels \cup {"idle"} /\ next # "sync:apply"
    BY <1>5, <2>2 DEF SyncApply, SyncLabels
  <2> QED
    BY <1>2, <1>5, <2>2, <2>3, <2>4 DEF SyncApply
<1>6. CASE SyncAskLp(t)
  <2>1. PICK next : Goto(t, next) /\ next \in {"idle", "sync:paid", "sync:refund", "sync:save", "sync:remove"}
    BY <1>6 DEF SyncAskLp, Collect
  <2>2. /\ pc[t] \in SyncLabels /\ next \in SyncLabels \cup {"idle"} /\ next # "sync:apply"
        /\ Sound(state') /\ recorded' = recorded
    BY <1>0, <1>6, <2>1 DEF SyncAskLp, SyncLabels, Quiet, Sound, Placed, Returned, chainVars
  <2> QED
    BY <1>2, <1>6, <2>1, <2>2 DEF SyncAskLp
<1>7. CASE SyncLpApply(t)
  <2>1. Placed
    BY <1>0, <1>7 DEF SyncLpApply, InHand, Custody, ChainRules
  <2>2. pc[t] \in SyncLabels /\ "sync:save" \in SyncLabels /\ Sound(state')
    BY <1>7, <2>1 DEF SyncLpApply, SyncLabels, Sound, Placed, chainVars
  <2> QED
    BY <1>2, <1>7, <2>2 DEF SyncLpApply
<1>8. CASE SyncWrite(t)
  <2>1. pc[t] \in SyncLabels /\ Sound(state') /\ Sound(recorded')
    BY <1>0, <1>8 DEF SyncWrite, SyncLabels, Sound, Placed, Returned, chainVars
  <2> QED
    BY <1>2, <1>8, <2>1 DEF SyncWrite
<1>9. CASE SyncFail(t)
  <2>1. pc[t] \in SyncLabels /\ phase = "run"
    BY <1>9 DEF SyncFail, SyncLabels
  <2>2. FALSE
    BY <1>0, <2>1, RunsIn DEF SyncLabels
  <2> QED
    BY <2>2
<1>10. CASE SyncSettling(t)
  <2>1. PICK next \in {"sync:claimed", "sync:expired"} : Goto(t, next)
    BY <1>10 DEF SyncSettling
  <2>2. /\ pc[t] \in SyncLabels /\ next \in SyncLabels /\ next # "sync:apply"
        /\ Sound(state') /\ recorded' = recorded /\ \A u \in Tasks \ {t} : status'[u] = status[u]
    BY <1>0, <1>10, <2>1 DEF SyncSettling, SyncLabels, Quiet, Sound, Placed, Returned, chainVars, TypeOK
  <2> QED
    BY <1>2, <1>10, <2>1, <2>2 DEF SyncSettling
<1>11. CASE SyncSettled(t)
  <2>1. PICK next \in {"sync:save", "sync:remove"} : Goto(t, next)
    BY <1>11 DEF SyncSettled, Collect
  <2>2. pc[t] \in SyncLabels /\ next \in SyncLabels /\ next # "sync:apply" /\ Sound(state')
    BY <1>11, <2>1 DEF SyncSettled, SyncLabels, Sound
  <2> QED
    BY <1>2, <1>11, <2>1, <2>2 DEF SyncSettled
<1> QED
  BY <1>1, <1>3, <1>4, <1>5, <1>6, <1>7, <1>8, <1>9, <1>10, <1>11 DEF SyncNext

\* The event taken had happened, and those left did.
LEMMA NextEventCustody ==
  ASSUME TypeOK, Custody, NEW e, NextEvent(e)
  PROVE  EventsSound' /\ (e = "init" => Placed) /\ (e = "refund" => Returned)
<1>1. events \in Seq(ChainEvents) /\ events # <<>> BY DEF TypeOK, ChainTypeOK, NextEvent
<1>2. Len(events) \in Nat \ {0} /\ Head(events) = events[1] BY <1>1
<1>3. Len(events') = Len(events) - 1 BY <1>1, <1>2 DEF NextEvent
<1>4. ASSUME NEW i \in 1..Len(events') PROVE events'[i] = events[i + 1] /\ i + 1 \in 1..Len(events)
  BY <1>1, <1>2, <1>3 DEF NextEvent
<1> QED
  BY <1>2, <1>4 DEF NextEvent, Custody, EventsSound, Placed, Returned

\* The listener shows a swap committed or refunded on the contract's word.
LEMMA ListenerCustody ==
  ASSUME TypeOK, Custody, ListenerNext
  PROVE  Custody'
<1>0. Sound(state) /\ state \in SwapStates /\ \A u \in Tasks : Standing(u)
  BY DEF Custody, TypeOK
<1>1. phase = "run"
  BY DEF ListenerNext, EventInitialize, EventClaim, EventClaimDone, EventRefund, EventUnknown, NextEvent,
         Custody, InitAlone, TypeOK
<1>2. ASSUME NEW s, Sound(s), ProcessEvent(s), ListenerFrame, events' = events \/ EventsSound',
             UNCHANGED <<escrow, sentVars, lpVars, clocks>>
      PROVE  Custody'
  <2>1. \A u \in Tasks : Waked(s)[u] = pc[u] \/ (pc[u] \notin SyncLabels \cup {"idle"} /\ Waked(s)[u] \in {"idle", "pay:left"})
    BY DEF Waked, SyncLabels
  <2>2. \A u \in Tasks : Settles(u)
    BY <1>2, <2>1 DEF ProcessEvent, ListenerFrame, Settles
  <2>3. Sound(state') /\ (recorded' = recorded \/ Sound(recorded'))
    BY <1>2 DEF ProcessEvent, SaveAndEmit, Quiet, Persisted, Sound, Placed, Returned
  <2> QED
    BY <1>1, <1>2, <2>2, <2>3, CustodyStep DEF ListenerFrame, sentVars
<1>3. ASSUME Quiet, ListenerFrame, UNCHANGED pc, EventsSound', UNCHANGED <<escrow, sentVars, lpVars, clocks>>
      PROVE  Custody'
  <2>1. \A u \in Tasks : Settles(u)
    BY <1>3 DEF ListenerFrame, Settles
  <2> QED
    BY <1>0, <1>1, <1>3, <2>1, CustodyStep DEF Quiet, ListenerFrame, sentVars, Sound, Placed, Returned
<1>4. CASE EventInitialize
  <2>1. EventsSound' /\ Placed
    BY <1>4, NextEventCustody DEF EventInitialize
  <2>2. PICK s : ProcessEvent(s) /\ Sound(s)
    BY <1>0, <1>4, <2>1 DEF EventInitialize, Sound
  <2> QED
    BY <1>2, <1>4, <2>1, <2>2 DEF EventInitialize, NextEvent
<1>5. CASE EventClaim
  <2>1. EventsSound'
    BY <1>5, NextEventCustody DEF EventClaim
  <2> QED
    BY <1>0, <1>2, <1>3, <1>5, <2>1 DEF EventClaim, NextEvent
<1>6. CASE EventClaimDone
  <2>1. ProcessEvent("CLAIMED") /\ Sound("CLAIMED")
    BY <1>6 DEF EventClaimDone, ProcessEvent, Sound
  <2> QED
    BY <1>2, <1>6, <2>1 DEF EventClaimDone, chainVars
<1>7. CASE EventRefund
  <2>1. EventsSound' /\ Returned
    BY <1>7, NextEventCustody DEF EventRefund
  <2>2. PICK s : ProcessEvent(s) /\ Sound(s)
    BY <1>0, <1>7, <2>1 DEF EventRefund, Sound
  <2> QED
    BY <1>2, <1>7, <2>1, <2>2 DEF EventRefund, NextEvent
<1>8. CASE EventUnknown
  BY <1>3, <1>8, NextEventCustody DEF EventUnknown, NextEvent
<1> QED
  BY <1>4, <1>5, <1>6, <1>7, <1>8 DEF ListenerNext

\* What is stored is as sound as what it was stored from.
LEMMA StorageCustody ==
  ASSUME TypeOK, Custody, StorageNext
  PROVE  Custody'
<1> USE DEF chainVars, sentVars, lpVars, clocks
<1>1. /\ UNCHANGED <<escrow, commitSent, lpPaid, lpRefund, authExpired, escrowExpired>>
      /\ events' = events \/ events' = <<>>
  BY DEF StorageNext, Flush, Crash, Restart, InitDone
<1>2. ChainRules' /\ EventsSound'
  BY <1>1 DEF Custody, ChainRules, EventsSound, Placed, Returned
<1>3. Sound(state)' /\ Sound(recorded)' /\ Sound(durable)'
  BY <1>1 DEF StorageNext, Flush, Crash, Restart, InitDone, Custody, Sound, Placed, Returned
<1>4. CASE Flush
  <2>1. \A u \in Tasks : pc'[u] = pc[u] \/ (pc[u] = "commit:saving" /\ pc'[u] = "commit:send")
    BY <1>4 DEF Flush
  <2>2. InitAlone'
    BY <1>4, <2>1 DEF Flush, Custody, InitAlone, SyncLabels
  <2>3. \A u \in Tasks : Standing(u)'
    BY <1>1, <1>4, <2>1 DEF Flush, Custody, Standing, Placed, Returned
  <2> QED
    BY <1>2, <1>3, <2>2, <2>3 DEF Custody
<1>5. CASE Crash
  <2>1. \A u \in Tasks : pc'[u] = "idle"
    BY <1>5 DEF Crash
  <2> QED
    BY <1>2, <1>3, <1>5, <2>1 DEF Crash, Custody, InitAlone, Standing, SyncLabels
<1>6. CASE Restart \/ InitDone
  <2>1. /\ \A u \in Tasks : pc[u] = "idle"
        /\ handling = "nothing" /\ handling' = handling /\ pc' = pc /\ phase' \in {"init", "run"}
    BY <1>6 DEF Restart, InitDone, Custody, InitAlone
  <2> QED
    BY <1>2, <1>3, <2>1 DEF Custody, InitAlone, Standing, SyncLabels
<1> QED
  BY <1>4, <1>5, <1>6 DEF StorageNext

\* Custody is invariant.
LEMMA CustodyInvariant ==
  ASSUME Unsynced
  PROVE  Spec => []Custody
<1>1. Init => Custody
  BY DEF Init, ChainInit, Custody, ChainRules, InitAlone, EventsSound, Sound, Standing, SyncLabels, Placed
<1>2. TypeOK /\ Evidence /\ Custody /\ [Next]_vars => Custody'
  <2> SUFFICES ASSUME TypeOK, Evidence, Custody, [Next]_vars PROVE Custody'
    OBVIOUS
  <2>1. CASE UNCHANGED vars
    BY <2>1 DEF vars, sdkVars, chainVars, sentVars, lpVars, clocks, Custody, ChainRules, InitAlone, EventsSound,
                Sound, Standing, Placed, Returned
  <2>2. CASE Environment BY <2>2, ChainCustody
  <2>3. CASE \E t \in Timers : TickNext(t) BY <2>3, TickCustody
  <2>4. CASE \E t \in Callers : SyncNext(t) \/ CommitNext(t) \/ PayNext(t) \/ RefundNext(t)
    BY <2>4, SyncCustody, CommitCustody, PayCustody, RefundCustody
  <2>5. CASE ListenerNext BY <2>5, ListenerCustody
  <2>6. CASE StorageNext BY <2>6, StorageCustody
  <2> QED
    BY <2>1, <2>2, <2>3, <2>4, <2>5, <2>6 DEF Next
<1> QED
  BY <1>1, <1>2, TypeCorrect, EvidenceInvariant, PTL DEF Spec

\* A swap is shown as REFUNDED only when the user has the funds back.
THEOREM RefundedIsReturnedAlways ==
  ASSUME Unsynced
  PROVE  Spec => []RefundedIsReturned
<1>1. Custody => RefundedIsReturned
  BY DEF Custody, Sound, Returned, RefundedIsReturned
<1> QED
  BY <1>1, CustodyInvariant, PTL

-----------------------------------------------------------------------------
(***************************************************************************)
(* Tracking.  That a crash cannot lose locked funds, and that no quote is  *)
(* given up with funds behind it, needs two more things of the             *)
(* application: it commits from one place, as a second commit() does not   *)
(* wait for the first one's save, and it does not run a bare               *)
(* waitTillCommited(), which reads the commit status before it reads that  *)
(* the authorization expired.                                              *)
(***************************************************************************)
NoWaitCommit == \A t \in Callers : <<t, "waitCommit">> \notin Enabled
OneCommitter == \A t, u \in Callers :
  {<<t, "commit">>, <<u, "commit">>} \subseteq Enabled => t = u

\* No escrow holds funds any more, nor can a commit still open one.
Dead == Returned \/ (~Placed /\ authExpired)

\* A record wrapper.init() picks up, unless there is nothing to pick up.
Kept(r) == r \in PendingStates \/ Dead \/ escrow = "paid"

CommitLabels == {"commit:saving", "commit:send", "commit:confirm"}

\* What the calls under way hold of the quote and of the record.
Reliance(t) ==
  /\ pc[t] \notin {"wc:poll", "wc:expiry", "wc:yes", "wc:no"}
  /\ pc[t] \in CommitLabels => initiated /\ <<t, "commit">> \in Enabled
  /\ pc[t] \in {"commit:send", "commit:confirm"} => Kept(durable)
  /\ pc[t] \in {"sync:status", "sync:apply"} => (quoteExpired[t] => authExpired)
  /\ pc[t] = "sync:expired" => Dead
  /\ pc[t] = "sync:apply" =>
       /\ status[t] = "EXPIRED" => Dead
       /\ status[t] = "NOT_COMMITED" /\ quoteExpired[t] => Dead
  /\ pc[t] \in {"sync:lp", "sync:lpChanged"} => state \in {"COMMITED", "SOFT_CLAIMED"}
  /\ pc[t] = "sync:save" => state # "QUOTE_EXPIRED"
  /\ pc[t] = "sync:remove" => state = "QUOTE_EXPIRED"

Saving == \E t \in Tasks : pc[t] = "commit:saving"

Tracking ==
  /\ state = "QUOTE_EXPIRED" => Dead
  /\ "QUOTE_EXPIRED" \notin {recorded, durable}
  /\ initiated /\ phase # "down" => Kept(recorded) /\ (Kept(durable) \/ Saving)
  /\ commitSent => initiated /\ Kept(durable)
  /\ phase = "down" => recorded = durable
  /\ phase \in {"init", "syncing"} => initiated
  /\ \A t \in Tasks : Reliance(t)

\* A state with something to show for it needs no record, or is one.
LEMMA KeptState ==
  ASSUME NEW s \in SwapStates, Sound(s), Backed(s), s = "QUOTE_EXPIRED" => Dead
  PROVE  Kept(s) /\ Kept(IF s = "QUOTE_EXPIRED" THEN "absent" ELSE s)
BY DEF SwapStates, PendingStates, Kept, Sound, Backed, Dead

\* Call u stays, is woken, or goes on with something to rely on.
Relies(u) ==
  /\ \/ pc'[u] = pc[u] /\ status'[u] = status[u] /\ quoteExpired'[u] = quoteExpired[u]
     \/ pc'[u] \in {"idle", "pay:left"}
     \/ Reliance(u)'
  /\ pc[u] = "commit:saving" => pc'[u] = "commit:saving"

\* A step that leaves the escrow and what is durable alone.
LEMMA TrackingStep ==
  ASSUME TypeOK, Tracking, UNCHANGED <<durable, phase, escrow, clocks, initiated>>,
         commitSent' = commitSent \/ (initiated /\ Kept(durable)),
         state' = "QUOTE_EXPIRED" => Dead,
         recorded' # "QUOTE_EXPIRED", recorded' = recorded \/ (phase # "down" /\ Kept(recorded')),
         state' = state \/ \A u \in Tasks : pc'[u] \in SyncLabels => Reliance(u)',
         \A u \in Tasks : Relies(u)
  PROVE  Tracking'
<1> USE DEF clocks
<1>1. Dead' <=> Dead
  BY DEF Dead, Placed, Returned
<1>2. \A r : Kept(r)' <=> Kept(r)
  BY <1>1 DEF Kept
<1>3. Kept(durable)' <=> Kept(durable)
  BY <1>1 DEF Kept
<1>4. recorded' = recorded => (Kept(recorded)' <=> Kept(recorded))
  BY <1>1 DEF Kept
<1>5. recorded' # recorded => (phase # "down" /\ Kept(recorded)')
  BY <1>1 DEF Kept
<1>6. Saving => Saving'
  BY DEF Saving, Relies
<1>7. ASSUME NEW u \in Tasks PROVE Reliance(u)'
  <2>1. CASE pc'[u] = pc[u] /\ status'[u] = status[u] /\ quoteExpired'[u] = quoteExpired[u]
    <3>1. CASE state' = state
      BY <1>1, <1>3, <2>1, <3>1 DEF Tracking, Reliance
    <3>2. CASE pc'[u] \notin SyncLabels
      BY <1>1, <1>3, <2>1, <3>2 DEF Tracking, Reliance, SyncLabels
    <3> QED
      BY <3>1, <3>2
  <2>2. CASE pc'[u] \in {"idle", "pay:left"}
    BY <2>2 DEF Reliance, CommitLabels
  <2> QED
    BY <2>1, <2>2 DEF Relies
<1> QED
  BY <1>1, <1>3, <1>4, <1>5, <1>6, <1>7 DEF Tracking

\* A call that only goes on to its next await.
LEMMA QuietTracking ==
  ASSUME TypeOK, Custody, Tracking, NEW t \in Tasks, NEW next, Goto(t, next), Quiet, Frame, phase = "run",
         UNCHANGED <<status, quoteExpired, escrow, clocks>>,
         commitSent' = commitSent \/ (initiated /\ Kept(durable)),
         next \notin SyncLabels \cup {"wc:poll", "wc:expiry", "wc:yes", "wc:no", "commit:saving"},
         next \in CommitLabels => pc[t] \in CommitLabels /\ Kept(durable),
         pc[t] # "commit:saving"
  PROVE  Tracking'
<1>1. pc'[t] = next /\ \A u \in Tasks \ {t} : pc'[u] = pc[u]
  BY DEF Goto, TypeOK
<1>2. Reliance(t)'
  BY <1>1 DEF Reliance, Tracking, SyncLabels, Frame, CommitLabels, Kept, Dead, Placed, Returned, clocks
<1>3. \A u \in Tasks : Relies(u)
  BY <1>1, <1>2 DEF Relies
<1> QED
  BY <1>3, TrackingStep DEF Quiet, Frame, Tracking

\* A call that emits a state, and rests.
LEMMA EmitTracking ==
  ASSUME TypeOK, Custody, Tracking, NEW t \in Tasks, NEW s \in SwapStates, EmitFrom(t, s, "idle"), Frame,
         phase = "run", UNCHANGED <<status, quoteExpired, chainVars>>,
         Sound(s), Backed(s), s = "QUOTE_EXPIRED" => Dead, pc[t] # "commit:saving"
  PROVE  Tracking'
<1>1. pc'[t] = "idle" /\ \A u \in Tasks \ {t} : pc'[u] = Waked(s)[u]
  BY WakedType DEF EmitFrom
<1>2. \A u \in Tasks : Waked(s)[u] = pc[u] \/ (pc[u] \notin SyncLabels \cup {"commit:saving"} /\ Waked(s)[u] \in {"idle", "pay:left"})
  BY DEF Waked, SyncLabels
<1>3. \A u \in Tasks : Relies(u) /\ pc'[u] \notin SyncLabels
  BY <1>1, <1>2 DEF Relies, SyncLabels, Custody, InitAlone
<1>4. recorded' # "QUOTE_EXPIRED" /\ (recorded' = recorded \/ (phase # "down" /\ Kept(recorded')))
  BY KeptState DEF EmitFrom, SaveAndEmit, Persisted, Tracking
<1>5. state' = s
  BY DEF EmitFrom, SaveAndEmit
<1> QED
  BY <1>3, <1>4, <1>5, TrackingStep DEF Frame, chainVars, sentVars

\* Nothing brings back an escrow that was refunded, nor an authorization that expired.
LEMMA ChainTracking ==
  ASSUME TypeOK, Tracking, Environment
  PROVE  Tracking'
<1> USE DEF Environment, sdkVars, sentVars, lpVars, clocks
<1>1. /\ Dead => Dead'
      /\ escrow = "paid" => escrow' = "paid"
      /\ authExpired => authExpired'
      /\ UNCHANGED commitSent
  BY DEF ChainNext, ChainCommit, ChainClaim, ChainRefund, LpPay, LpSignRefund,
         SoftExpire, AuthExpire, EscrowExpire, Dead, Placed, Returned
<1>2. (Kept(recorded) => Kept(recorded)') /\ (Kept(durable) => Kept(durable)')
  BY <1>1 DEF Kept
<1>3. \A u \in Tasks : Reliance(u)'
  BY <1>1, <1>2 DEF Tracking, Reliance
<1> QED
  BY <1>1, <1>2, <1>3 DEF Tracking, Saving

\* Ticks change nothing that the record needs.
LEMMA TickTracking ==
  ASSUME TypeOK, Evidence, Custody, Tracking, NEW t \in Timers, TickNext(t)
  PROVE  Tracking'
<1>0. t \in Tasks /\ Standing(t) /\ Sound(state) /\ InHand(t)
  BY DEF Tasks, Custody, Evidence
<1>1. phase = "run" /\ pc[t] # "commit:saving"
  BY <1>0, RunsIn DEF TickNext, TickQuote, TickAsk, TickAnswer, TickExpire, Running, SyncLabels
<1>2. CASE TickQuote(t)
  <2>1. Sound("QUOTE_SOFT_EXPIRED") /\ Backed("QUOTE_SOFT_EXPIRED") /\ "QUOTE_SOFT_EXPIRED" \in SwapStates
    BY DEF Sound, Backed, SwapStates
  <2> QED
    BY <1>0, <1>1, <1>2, <2>1, EmitTracking DEF TickQuote
<1>3. CASE TickAsk(t) \/ TickAnswer(t)
  <2>1. PICK next \in {"tick:asked", "tick:expired", "idle"} : Goto(t, next)
    BY <1>3 DEF TickAsk, TickAnswer
  <2>2. Quiet /\ Frame /\ UNCHANGED <<status, quoteExpired, escrow, clocks, commitSent>>
    BY <1>3 DEF TickAsk, TickAnswer, chainVars, sentVars
  <2> QED
    BY <1>0, <1>1, <2>1, <2>2, QuietTracking DEF SyncLabels, CommitLabels
<1>4. CASE TickExpire(t)
  <2>1. Sound("REFUNDABLE") /\ Backed("REFUNDABLE") /\ "REFUNDABLE" \in SwapStates
    BY <1>0, <1>4 DEF TickExpire, Sound, Backed, SwapStates, Standing, InHand
  <2> QED
    BY <1>0, <1>1, <1>4, <2>1, EmitTracking DEF TickExpire
<1> QED
  BY <1>2, <1>3, <1>4 DEF TickNext

\* Transactions are only handed out once the record is durable.
LEMMA CommitTracking ==
  ASSUME NoWaitCommit, OneCommitter, TypeOK, Custody, Tracking, NEW t \in Callers, CommitNext(t)
  PROVE  Tracking'
<1>0. t \in Tasks /\ Reliance(t)
  BY DEF Tasks, Tracking
<1>1. phase = "run" /\ pc[t] # "commit:saving"
  BY <1>0, RunsIn DEF CommitNext, Commit, CommitSend, CommitConfirmed, CommitFail, WaitCommit, WatchCommitStatus,
                      WatchCommitExpiry, WaitCommitDone, Called, Running, SyncLabels
<1>2. CASE Commit(t)
  <2>1. UNCHANGED <<state, durable, phase, escrow, authExpired, commitSent, status, quoteExpired>> /\ initiated'
    BY <1>2 DEF Commit, chainVars, sentVars, clocks
  <2>2. Dead' <=> Dead
    BY <2>1 DEF Dead, Placed, Returned
  <2>3. Kept(durable)' <=> Kept(durable)
    BY <2>1, <2>2 DEF Kept
  <2>4. pc[t] = "idle" /\ <<t, "commit">> \in Enabled
    BY <1>2 DEF Commit, Called, Running
  <2>5. ASSUME NEW u \in Tasks, pc[u] = "commit:saving" PROVE FALSE
    <3>1. <<u, "commit">> \in Enabled
      BY <2>5 DEF Tracking, Reliance, CommitLabels
    <3>2. u \in Callers
      BY <3>1, EnabledAssumption
    <3> QED
      BY <2>4, <2>5, <3>1, <3>2 DEF OneCommitter
  <2>6. CASE initiated
    <3>1. Goto(t, "commit:send") /\ UNCHANGED recorded /\ Kept(durable)
      BY <1>1, <1>2, <2>5, <2>6 DEF Commit, Tracking, Saving
    <3>2. pc'[t] = "commit:send" /\ \A u \in Tasks \ {t} : pc'[u] = pc[u]
      BY <1>0, <3>1 DEF Goto, TypeOK
    <3>3. Kept(recorded)' <=> Kept(recorded)
      BY <2>1, <2>2, <3>1 DEF Kept
    <3>4. \A u \in Tasks : Reliance(u)'
      BY <2>1, <2>2, <2>3, <2>4, <3>1, <3>2 DEF Reliance, Tracking, CommitLabels
    <3> QED
      BY <1>1, <2>1, <2>2, <2>3, <2>6, <3>1, <3>3, <3>4 DEF Tracking
  <2>7. CASE ~initiated
    <3>1. Goto(t, "commit:saving") /\ recorded' = "CREATED"
      BY <1>2, <2>7 DEF Commit
    <3>2. pc'[t] = "commit:saving" /\ \A u \in Tasks \ {t} : pc'[u] = pc[u]
      BY <1>0, <3>1 DEF Goto, TypeOK
    <3>3. Kept(recorded)' /\ Saving'
      BY <1>0, <3>1, <3>2 DEF Kept, PendingStates, Saving
    <3>4. \A u \in Tasks : Reliance(u)'
      BY <2>1, <2>2, <2>3, <2>4, <3>1, <3>2 DEF Reliance, Tracking, CommitLabels
    <3> QED
      BY <1>1, <2>1, <2>2, <2>3, <3>1, <3>3, <3>4 DEF Tracking
  <2> QED
    BY <2>6, <2>7
<1>3. CASE CommitSend(t) \/ CommitFail(t)
  <2>1. PICK next \in {"commit:confirm", "idle"} :
          Goto(t, next) /\ pc[t] \in {"commit:send", "commit:confirm"}
    BY <1>3 DEF CommitSend, CommitFail
  <2>2. Quiet /\ Frame /\ UNCHANGED <<status, quoteExpired, escrow, clocks>>
    BY <1>3 DEF CommitSend, CommitFail, chainVars, sentVars
  <2>3. initiated /\ Kept(durable)
    BY <1>0, <2>1 DEF Reliance, CommitLabels
  <2> QED
    BY <1>0, <1>1, <2>1, <2>2, <2>3, QuietTracking DEF SyncLabels, CommitLabels
<1>4. CASE CommitConfirmed(t)
  <2>1. "COMMITED" \in SwapStates /\ Sound("COMMITED") /\ Backed("COMMITED")
    BY <1>4 DEF CommitConfirmed, Sound, Backed, Placed, SwapStates
  <2>2. CASE EmitFrom(t, "COMMITED", "idle")
    BY <1>0, <1>1, <1>4, <2>1, <2>2, EmitTracking DEF CommitConfirmed
  <2>3. CASE Goto(t, "idle") /\ Quiet
    BY <1>0, <1>1, <1>4, <2>3, QuietTracking DEF CommitConfirmed, SyncLabels, CommitLabels, chainVars, sentVars
  <2> QED
    BY <1>4, <2>2, <2>3 DEF CommitConfirmed
<1>5. CASE WaitCommit(t) \/ WatchCommitStatus(t) \/ WatchCommitExpiry(t) \/ WaitCommitDone(t)
  BY <1>0, <1>5 DEF WaitCommit, WatchCommitStatus, WatchCommitExpiry, WaitCommitDone, Called, NoWaitCommit, Reliance
<1> QED
  BY <1>2, <1>3, <1>4, <1>5 DEF CommitNext

\* A proof of payment leaves a swap that is still picked up.
LEMMA SoftClaimTracking ==
  ASSUME TypeOK, Custody, Tracking, NEW t \in Tasks, pc[t] # "commit:saving", phase = "run", SoftClaim(t), Frame,
         UNCHANGED <<status, quoteExpired, chainVars>>
  PROVE  Tracking'
<1>1. state' = "QUOTE_EXPIRED" => Dead
  BY DEF SoftClaim, Tracking
<1>2. recorded' # "QUOTE_EXPIRED" /\ (recorded' = recorded \/ (phase # "down" /\ Kept(recorded')))
  BY DEF SoftClaim, Persisted, Tracking, Kept, PendingStates
<1>3. \A u \in Tasks : \/ Waked("SOFT_CLAIMED")[u] = pc[u]
                       \/ (pc[u] \notin SyncLabels \cup {"commit:saving"} /\ Waked("SOFT_CLAIMED")[u] \in {"idle", "pay:left"})
  BY DEF Waked, SyncLabels
<1>4. Waked("SOFT_CLAIMED") \in [Tasks -> Labels]
  BY WakedType DEF SwapStates
<1>5. pc'[t] = "idle" /\ \A u \in Tasks \ {t} : pc'[u] = pc[u] \/ pc'[u] = Waked("SOFT_CLAIMED")[u]
  BY <1>4 DEF SoftClaim, Goto, TypeOK
<1>6. \A u \in Tasks : Relies(u) /\ pc'[u] \notin SyncLabels
  BY <1>3, <1>5 DEF Relies, SyncLabels, Custody, InitAlone
<1> QED
  BY <1>1, <1>2, <1>6, TrackingStep DEF Frame, chainVars, sentVars

\* waitForPayment ends in states whose record is picked up.
LEMMA PayTracking ==
  ASSUME TypeOK, Custody, Tracking, NEW t \in Callers, PayNext(t)
  PROVE  Tracking'
<1>0. t \in Tasks
  BY DEF Tasks
<1>1. phase = "run" /\ pc[t] # "commit:saving"
  BY <1>0, RunsIn DEF PayNext, Pay, PayPoll, PayPaid, PayRefund, PayLeft, Called, Running, SyncLabels
<1>2. CASE PayPoll(t) \/ (Pay(t) /\ Goto(t, "pay:wait") /\ UNCHANGED told)
  <2>1. PICK next \in {"pay:wait", "pay:paid", "pay:refund", "pay:left"} : Goto(t, next)
    BY <1>2 DEF PayPoll
  <2>2. Quiet /\ Frame /\ UNCHANGED <<status, quoteExpired, escrow, clocks, commitSent>>
    BY <1>2 DEF Pay, PayPoll, Quiet, chainVars, sentVars
  <2> QED
    BY <1>0, <1>1, <2>1, <2>2, QuietTracking DEF SyncLabels, CommitLabels
<1>6. CASE Pay(t) /\ UNCHANGED pc
  <2>1. \A u \in Tasks : Relies(u)
    BY <1>6 DEF Pay, Relies
  <2>2. (state' = "QUOTE_EXPIRED" => Dead) /\ recorded' # "QUOTE_EXPIRED"
    BY <1>6 DEF Pay, Tracking
  <2> QED
    BY <1>6, <2>1, <2>2, TrackingStep DEF Pay, Frame, chainVars, sentVars
<1>3. CASE PayPaid(t)
  BY <1>0, <1>1, <1>3, SoftClaimTracking DEF PayPaid
<1>4. CASE PayRefund(t)
  <2>1. state' # "QUOTE_EXPIRED"
    BY <1>4 DEF PayRefund
  <2>2. recorded' # "QUOTE_EXPIRED" /\ (recorded' = recorded \/ (phase # "down" /\ Kept(recorded')))
    BY <1>1, <1>4 DEF PayRefund, Persisted, Tracking, Kept, PendingStates
  <2>3. \A u \in Tasks : \/ Waked("REFUNDABLE")[u] = pc[u]
                         \/ (pc[u] \notin SyncLabels \cup {"commit:saving"} /\ Waked("REFUNDABLE")[u] \in {"idle", "pay:left"})
    BY DEF Waked, SyncLabels
  <2>4. pc'[t] = "idle" /\ \A u \in Tasks \ {t} : pc'[u] = Waked("REFUNDABLE")[u]
    BY <1>0, <1>4, WakedType DEF PayRefund, SwapStates
  <2>5. UNCHANGED <<status, quoteExpired>>
    BY <1>4 DEF PayRefund
  <2>6. \A u \in Tasks : Relies(u) /\ pc'[u] \notin SyncLabels
    BY <1>1, <2>3, <2>4, <2>5 DEF Relies, SyncLabels, Custody, InitAlone
  <2> QED
    BY <1>1, <1>4, <2>1, <2>2, <2>6, TrackingStep DEF PayRefund, Frame, chainVars, sentVars
<1>5. CASE PayLeft(t)
  <2>1. CASE SoftClaim(t)
    BY <1>0, <1>1, <1>5, <2>1, SoftClaimTracking DEF PayLeft
  <2>2. CASE Goto(t, "idle") /\ UNCHANGED <<state, recorded>>
    <3>1. Quiet /\ Frame /\ UNCHANGED <<status, quoteExpired, escrow, clocks, commitSent>>
      BY <1>5, <2>2 DEF PayLeft, Quiet, chainVars, sentVars
    <3> QED
      BY <1>0, <1>1, <2>2, <3>1, QuietTracking DEF SyncLabels, CommitLabels
  <2> QED
    BY <1>5, <2>1, <2>2 DEF PayLeft
<1> QED
  BY <1>2, <1>3, <1>4, <1>5, <1>6 DEF PayNext, Pay

\* A refund ends the swap when the funds are back, a claim when the LP has paid.
LEMMA RefundTracking ==
  ASSUME TypeOK, Evidence, Custody, Tracking, NEW t \in Callers, RefundNext(t)
  PROVE  Tracking'
<1>0. t \in Tasks /\ Standing(t) /\ InHand(t)
  BY DEF Tasks, Custody, Evidence
<1>1. phase = "run" /\ pc[t] # "commit:saving"
  BY <1>0, RunsIn DEF RefundNext, Refund, RefundSend, RefundConfirmed, RefundFail, WaitRefund, WatchResult,
                      WaitRefundDone, Called, Running, SyncLabels
<1>2. {"REFUNDED", "CLAIMED"} \subseteq SwapStates /\ Backed("REFUNDED") /\ Sound("CLAIMED")
  BY DEF SwapStates, Backed, Sound
<1>3. CASE Refund(t) \/ RefundSend(t) \/ RefundFail(t) \/ WaitRefund(t)
  <2>1. PICK next \in {"rf:kind", "rf:confirm", "idle", "wr:poll"} : Goto(t, next)
    BY <1>3 DEF Refund, RefundSend, RefundFail, WaitRefund
  <2>2. Quiet /\ Frame /\ UNCHANGED <<status, quoteExpired, escrow, clocks, commitSent>>
    BY <1>3 DEF Refund, RefundSend, RefundFail, WaitRefund, chainVars, sentVars
  <2> QED
    BY <1>0, <1>1, <2>1, <2>2, QuietTracking DEF SyncLabels, CommitLabels
<1>4. CASE RefundConfirmed(t)
  <2>1. Sound("REFUNDED")
    BY <1>4 DEF RefundConfirmed, Sound, Returned
  <2>2. CASE EmitFrom(t, "REFUNDED", "idle")
    BY <1>0, <1>1, <1>2, <1>4, <2>1, <2>2, EmitTracking DEF RefundConfirmed
  <2>3. CASE Goto(t, "idle") /\ Quiet
    BY <1>0, <1>1, <1>4, <2>3, QuietTracking DEF RefundConfirmed, SyncLabels, CommitLabels, chainVars, sentVars
  <2> QED
    BY <1>4, <2>2, <2>3 DEF RefundConfirmed
<1>5. CASE WatchResult(t)
  <2>1. PICK answer \in StatusAnswers :
          Goto(t, CASE answer \in {"COMMITED", "REFUNDABLE"} -> "wr:poll"
                    [] answer = "PAID" -> "wr:paid"
                    [] answer = "NOT_COMMITED" -> "wr:returned"
                    [] answer = "EXPIRED" -> "idle")
    BY <1>5 DEF WatchResult
  <2>2. answer \in StatusTypes
    BY DEF StatusAnswers, TypeOK, ChainTypeOK, Escrows, StatusTypes
  <2>3. PICK next \in {"wr:poll", "wr:paid", "wr:returned", "idle"} : Goto(t, next)
    BY <2>1, <2>2 DEF StatusTypes
  <2> QED
    BY <1>0, <1>1, <1>5, <2>3, QuietTracking DEF WatchResult, SyncLabels, CommitLabels, chainVars, sentVars
<1>6. CASE WaitRefundDone(t)
  <2>1. CASE pc[t] = "wr:paid" /\ EmitFrom(t, "CLAIMED", "idle")
    <3>1. Backed("CLAIMED")
      BY <1>0, <2>1 DEF Backed, InHand
    <3> QED
      BY <1>0, <1>1, <1>2, <1>6, <2>1, <3>1, EmitTracking DEF WaitRefundDone
  <2>2. CASE pc[t] = "wr:returned" /\ EmitFrom(t, "REFUNDED", "idle")
    <3>1. Sound("REFUNDED")
      BY <1>0, <2>2 DEF Sound, Standing
    <3> QED
      BY <1>0, <1>1, <1>2, <1>6, <2>2, <3>1, EmitTracking DEF WaitRefundDone
  <2> QED
    BY <1>6, <2>1, <2>2 DEF WaitRefundDone
<1> QED
  BY <1>3, <1>4, <1>5, <1>6 DEF RefundNext

\* The sync of wrapper.init() gives up a quote only when it is dead, and writes no
\* record of one that it has given up.
LEMMA SyncTracking ==
  ASSUME Unsynced, TypeOK, Evidence, Custody, Tracking, NEW t \in Callers, SyncNext(t)
  PROVE  Tracking'
<1>0. t \in Tasks /\ Standing(t) /\ Sound(state) /\ Backed(state) /\ Reliance(t) /\ state \in SwapStates
  BY DEF Tasks, Custody, Evidence, Tracking, TypeOK
<1>1. CASE SyncStart(t)
  <2>1. phase = "init" /\ phase' = "syncing" /\ \A u \in Tasks : pc[u] = "idle"
    BY <1>1 DEF SyncStart, Called, Unsynced, Custody, InitAlone
  <2>2. PICK next \in {"sync:expiry", "sync:status"} : Goto(t, next)
    BY <1>1 DEF SyncStart
  <2>3. pc'[t] = next /\ \A u \in Tasks \ {t} : pc'[u] = "idle"
    BY <1>0, <2>1, <2>2 DEF Goto, TypeOK
  <2>4. UNCHANGED <<escrow, commitSent, authExpired, state, recorded, durable, initiated, status>> /\ ~quoteExpired'[t]
    BY <1>0, <1>1 DEF SyncStart, Quiet, chainVars, sentVars, clocks, TypeOK
  <2>5. Dead' <=> Dead
    BY <2>4 DEF Dead, Placed, Returned
  <2>6. (Kept(recorded)' <=> Kept(recorded)) /\ (Kept(durable)' <=> Kept(durable))
    BY <2>4, <2>5 DEF Kept
  <2>7. \A u \in Tasks : Reliance(u)'
    BY <2>3, <2>4 DEF Reliance, CommitLabels
  <2>8. ~Saving
    BY <2>1 DEF Saving
  <2> QED
    BY <2>1, <2>4, <2>5, <2>6, <2>7, <2>8 DEF Tracking
<1>2. ASSUME NEW next, Goto(t, next), pc[t] \in SyncLabels, Frame, UNCHANGED chainVars,
             state' = "QUOTE_EXPIRED" => Dead,
             recorded' # "QUOTE_EXPIRED", recorded' = recorded \/ Kept(recorded'),
             \A u \in Tasks \ {t} : status'[u] = status[u] /\ quoteExpired'[u] = quoteExpired[u],
             Reliance(t)'
      PROVE  Tracking'
  <2>1. phase = "syncing" /\ pc[t] # "idle"
    BY <1>0, <1>2, RunsIn DEF SyncLabels
  <2>2. pc'[t] = next /\ \A u \in Tasks \ {t} : pc'[u] = pc[u]
    BY <1>0, <1>2 DEF Goto, TypeOK
  <2>3. \A u \in Tasks \ {t} : pc[u] = "idle"
    BY <1>0, <2>1 DEF Custody, InitAlone
  <2>4. \A u \in Tasks : Relies(u)
    BY <1>2, <2>2, <2>3 DEF Relies, SyncLabels
  <2>5. \A u \in Tasks : pc'[u] \in SyncLabels => Reliance(u)'
    BY <1>2, <2>2, <2>3 DEF SyncLabels
  <2> QED
    BY <1>2, <2>1, <2>4, <2>5, TrackingStep DEF Frame, chainVars, sentVars
<1>3. CASE SyncExpiry(t)
  <2>1. PICK next \in {"sync:status", "idle"} : Goto(t, next)
    BY <1>3 DEF SyncExpiry
  <2>2. /\ pc'[t] = next /\ pc[t] \in SyncLabels /\ recorded' = recorded /\ state' = state
        /\ quoteExpired'[t] = authExpired /\ authExpired' = authExpired
        /\ \A u \in Tasks \ {t} : status'[u] = status[u] /\ quoteExpired'[u] = quoteExpired[u]
    BY <1>0, <1>3, <2>1 DEF SyncExpiry, SyncLabels, Quiet, Goto, chainVars, clocks, TypeOK
  <2>3. Reliance(t)'
    BY <2>2 DEF Reliance, CommitLabels
  <2> QED
    BY <1>2, <1>3, <2>1, <2>2, <2>3 DEF SyncExpiry, Tracking
<1>4. CASE SyncStatus(t)
  <2>1. PICK answer \in StatusAnswers : status' = [status EXCEPT ![t] = answer]
    BY <1>4 DEF SyncStatus
  <2>2. /\ pc'[t] = "sync:apply" /\ pc[t] = "sync:status" /\ pc[t] \in SyncLabels
        /\ recorded' = recorded /\ state' = state
        /\ status'[t] = answer /\ quoteExpired'[t] = quoteExpired[t] /\ UNCHANGED <<escrow, authExpired>>
        /\ \A u \in Tasks \ {t} : status'[u] = status[u] /\ quoteExpired'[u] = quoteExpired[u]
    BY <1>0, <1>4, <2>1 DEF SyncStatus, SyncLabels, Quiet, Goto, chainVars, clocks, TypeOK
  <2>3. quoteExpired[t] => authExpired
    BY <1>0, <2>2 DEF Reliance
  <2>4. /\ answer = "EXPIRED" => Dead
        /\ answer = "NOT_COMMITED" /\ quoteExpired[t] => Dead
    BY <2>3 DEF StatusAnswers, Custody, ChainRules, Dead, Placed, Returned, TypeOK, ChainTypeOK, Escrows
  <2>5. Reliance(t)'
    BY <2>2, <2>3, <2>4 DEF Reliance, CommitLabels, Dead, Placed, Returned
  <2> QED
    BY <1>2, <1>4, <2>2, <2>5 DEF SyncStatus, Tracking
<1>5. CASE SyncApply(t)
  <2>1. state' = SyncedState(t) /\ state' \in SwapStates
    BY <1>0, <1>5, SyncedType DEF SyncApply
  <2>2. state' = "QUOTE_EXPIRED" => Dead
    <3>1. status[t] \in StatusTypes
      BY <1>0 DEF TypeOK
    <3>2. pc[t] = "sync:apply"
      BY <1>5 DEF SyncApply
    <3>3. status[t] = "NOT_COMMITED" /\ NotCommited(t) = "QUOTE_EXPIRED" => Dead
      BY <1>0, <3>2 DEF NotCommited, Reliance, Tracking
    <3> QED
      BY <1>0, <2>1, <3>1, <3>2, <3>3 DEF SyncedState, Reliance, StatusTypes, Tracking
  <2>3. PICK next : /\ Goto(t, next) /\ next \in {"idle", "sync:lp", "sync:lpChanged", "sync:save", "sync:remove"}
                    /\ next \in {"sync:lp", "sync:lpChanged"} => state' \in {"COMMITED", "SOFT_CLAIMED"}
                    /\ next = "sync:save" => state' # "QUOTE_EXPIRED"
                    /\ next = "sync:remove" => state' = "QUOTE_EXPIRED"
    BY <1>5 DEF SyncApply, Collect
  <2>4. /\ pc'[t] = next /\ pc[t] \in SyncLabels /\ recorded' = recorded
        /\ \A u \in Tasks \ {t} : status'[u] = status[u] /\ quoteExpired'[u] = quoteExpired[u]
    BY <1>0, <1>5, <2>3 DEF SyncApply, SyncLabels, Goto, TypeOK
  <2>5. Reliance(t)'
    BY <2>3, <2>4 DEF Reliance, CommitLabels
  <2> QED
    BY <1>2, <1>5, <2>2, <2>3, <2>4, <2>5 DEF SyncApply, Tracking
<1>6. CASE SyncAskLp(t)
  <2>1. state \in {"COMMITED", "SOFT_CLAIMED"} /\ pc[t] \in SyncLabels
    BY <1>0, <1>6 DEF SyncAskLp, Reliance, SyncLabels
  <2>2. PICK next : Goto(t, next) /\ next \in {"idle", "sync:paid", "sync:refund", "sync:save"}
    BY <1>6, <2>1 DEF SyncAskLp, Collect
  <2>3. /\ pc'[t] = next /\ recorded' = recorded /\ state' = state
        /\ \A u \in Tasks : status'[u] = status[u] /\ quoteExpired'[u] = quoteExpired[u]
    BY <1>0, <1>6, <2>2 DEF SyncAskLp, Quiet, Goto, TypeOK
  <2>4. Reliance(t)'
    BY <2>1, <2>2, <2>3 DEF Reliance, CommitLabels
  <2> QED
    BY <1>2, <1>6, <2>1, <2>2, <2>3, <2>4 DEF SyncAskLp, Tracking
<1>7. CASE SyncLpApply(t)
  <2>1. /\ pc'[t] = "sync:save" /\ pc[t] \in SyncLabels /\ recorded' = recorded
        /\ state' # "QUOTE_EXPIRED" /\ Goto(t, "sync:save")
        /\ \A u \in Tasks : status'[u] = status[u] /\ quoteExpired'[u] = quoteExpired[u]
    BY <1>0, <1>7 DEF SyncLpApply, Goto, SyncLabels, TypeOK
  <2>2. Reliance(t)'
    BY <2>1 DEF Reliance, CommitLabels
  <2> QED
    BY <1>2, <1>7, <2>1, <2>2 DEF SyncLpApply, Tracking
<1>8. CASE SyncWrite(t)
  <2>1. /\ pc'[t] = "idle" /\ pc[t] \in SyncLabels /\ state' = state /\ Goto(t, "idle")
        /\ \A u \in Tasks : status'[u] = status[u] /\ quoteExpired'[u] = quoteExpired[u]
    BY <1>0, <1>8 DEF SyncWrite, Goto, SyncLabels, TypeOK
  <2>2. recorded' # "QUOTE_EXPIRED" /\ Kept(recorded')
    BY <1>0, <1>8, KeptState DEF SyncWrite, Reliance, Tracking, Kept
  <2>3. Reliance(t)'
    BY <2>1 DEF Reliance, CommitLabels
  <2> QED
    BY <1>2, <1>8, <2>1, <2>2, <2>3 DEF SyncWrite, Tracking
<1>9. CASE SyncFail(t)
  <2>1. pc[t] \in SyncLabels /\ phase = "run"
    BY <1>9 DEF SyncFail, SyncLabels
  <2>2. FALSE
    BY <1>0, <2>1, RunsIn DEF SyncLabels
  <2> QED
    BY <2>2
<1>10. CASE SyncSettling(t)
  <2>1. PICK next \in {"sync:claimed", "sync:expired"} : Goto(t, next) /\ (next = "sync:expired" => status[t] = "EXPIRED")
    BY <1>10 DEF SyncSettling, Settling
  <2>2. /\ pc'[t] = next /\ pc[t] = "sync:apply" /\ pc[t] \in SyncLabels
        /\ recorded' = recorded /\ state' = state /\ UNCHANGED <<escrow, authExpired>>
        /\ \A u \in Tasks \ {t} : status'[u] = status[u] /\ quoteExpired'[u] = quoteExpired[u]
    BY <1>0, <1>10, <2>1 DEF SyncSettling, SyncLabels, Quiet, Goto, chainVars, clocks, TypeOK
  <2>3. Reliance(t)'
    BY <1>0, <2>1, <2>2 DEF Reliance, CommitLabels, Dead, Placed, Returned
  <2> QED
    BY <1>2, <1>10, <2>1, <2>2, <2>3 DEF SyncSettling, Tracking
<1>11. CASE SyncSettled(t)
  <2>1. /\ state' \in {"CLAIMED", "QUOTE_EXPIRED"} /\ Goto(t, Collect(state')) /\ pc[t] \in SyncLabels
        /\ state' = "QUOTE_EXPIRED" => pc[t] = "sync:expired"
    BY <1>11 DEF SyncSettled, SyncLabels
  <2>2. /\ pc'[t] = Collect(state') /\ recorded' = recorded
        /\ \A u \in Tasks : status'[u] = status[u] /\ quoteExpired'[u] = quoteExpired[u]
    BY <1>0, <1>11, <2>1 DEF SyncSettled, Goto, TypeOK
  <2>3. Reliance(t)'
    BY <2>1, <2>2 DEF Collect, Reliance, CommitLabels
  <2>4. state' = "QUOTE_EXPIRED" => Dead
    BY <1>0, <2>1 DEF Reliance
  <2> QED
    BY <1>2, <1>11, <2>1, <2>2, <2>3, <2>4 DEF SyncSettled, Tracking
<1> QED
  BY <1>1, <1>3, <1>4, <1>5, <1>6, <1>7, <1>8, <1>9, <1>10, <1>11 DEF SyncNext

\* The listener gives up no quote.
LEMMA ListenerTracking ==
  ASSUME TypeOK, Evidence, Custody, Tracking, ListenerNext
  PROVE  Tracking'
<1>0. Sound(state) /\ Backed(state) /\ state \in SwapStates
  BY DEF Custody, Evidence, TypeOK
<1>1. phase = "run"
  BY DEF ListenerNext, EventInitialize, EventClaim, EventClaimDone, EventRefund, EventUnknown, NextEvent,
         Custody, InitAlone, TypeOK
<1>2. ASSUME NEW s \in SwapStates, Sound(s), Backed(s), s = "QUOTE_EXPIRED" => Dead, ProcessEvent(s), ListenerFrame,
             UNCHANGED <<escrow, sentVars, lpVars, clocks>>
      PROVE  Tracking'
  <2>1. \A u \in Tasks : \/ Waked(s)[u] = pc[u]
                         \/ (pc[u] \notin SyncLabels \cup {"commit:saving"} /\ Waked(s)[u] \in {"idle", "pay:left"})
    BY DEF Waked, SyncLabels
  <2>2. \A u \in Tasks : Relies(u) /\ pc'[u] \notin SyncLabels
    BY <1>1, <1>2, <2>1 DEF ProcessEvent, ListenerFrame, Relies, SyncLabels, Custody, InitAlone
  <2>3. state' = s /\ recorded' # "QUOTE_EXPIRED" /\ (recorded' = recorded \/ (phase # "down" /\ Kept(recorded')))
    BY <1>1, <1>2, KeptState DEF ProcessEvent, SaveAndEmit, Quiet, Persisted, Tracking
  <2> QED
    BY <1>2, <2>2, <2>3, TrackingStep DEF ListenerFrame, sentVars
<1>3. ASSUME Quiet, ListenerFrame, UNCHANGED pc, UNCHANGED <<escrow, sentVars, lpVars, clocks>>
      PROVE  Tracking'
  <2>1. \A u \in Tasks : Relies(u)
    BY <1>3 DEF ListenerFrame, Relies
  <2> QED
    BY <1>1, <1>3, <2>1, TrackingStep DEF Quiet, ListenerFrame, sentVars, Tracking
<1>4. CASE EventInitialize
  <2>1. Placed
    BY <1>4, NextEventCustody DEF EventInitialize
  <2>2. PICK s \in SwapStates : ProcessEvent(s) /\ Sound(s) /\ Backed(s) /\ (s = "QUOTE_EXPIRED" => s = state)
    BY <1>0, <1>4, <2>1 DEF EventInitialize, Sound, Backed, Placed, SwapStates
  <2> QED
    BY <1>2, <1>4, <2>2 DEF EventInitialize, NextEvent, Tracking
<1>5. CASE EventClaim
  <2>1. CASE ProcessEvent(state) /\ UNCHANGED handling
    BY <1>0, <1>2, <1>5, <2>1 DEF EventClaim, NextEvent, Tracking
  <2>2. CASE Quiet /\ UNCHANGED pc
    BY <1>3, <1>5, <2>2 DEF EventClaim, NextEvent
  <2> QED
    BY <1>5, <2>1, <2>2 DEF EventClaim
<1>6. CASE EventClaimDone
  <2>1. ProcessEvent("CLAIMED") /\ Sound("CLAIMED") /\ Backed("CLAIMED") /\ "CLAIMED" \in SwapStates
    BY <1>6 DEF EventClaimDone, ProcessEvent, Sound, Backed, Evidence, SwapStates
  <2> QED
    BY <1>2, <1>6, <2>1 DEF EventClaimDone, chainVars
<1>7. CASE EventRefund
  <2>1. Returned
    BY <1>7, NextEventCustody DEF EventRefund
  <2>2. PICK s \in SwapStates : ProcessEvent(s) /\ Sound(s) /\ Backed(s) /\ (s = "QUOTE_EXPIRED" => s = state)
    BY <1>0, <1>7, <2>1 DEF EventRefund, Sound, Backed, SwapStates
  <2> QED
    BY <1>2, <1>7, <2>2 DEF EventRefund, NextEvent, Tracking
<1>8. CASE EventUnknown
  BY <1>3, <1>8 DEF EventUnknown, NextEvent
<1> QED
  BY <1>4, <1>5, <1>6, <1>7, <1>8 DEF ListenerNext

\* A crash keeps a record of what may hold funds, and a restart revives it.
LEMMA StorageTracking ==
  ASSUME TypeOK, Evidence, Custody, Tracking, StorageNext
  PROVE  Tracking'
<1> USE DEF chainVars, sentVars, lpVars, clocks
<1>1. UNCHANGED <<escrow, commitSent, authExpired>>
  BY DEF StorageNext, Flush, Crash, Restart, InitDone
<1>2. Dead' <=> Dead
  BY <1>1 DEF Dead, Placed, Returned
<1>3. \A r : (r \in PendingStates \/ Dead' \/ escrow' = "paid") <=> Kept(r)
  BY <1>1, <1>2 DEF Kept
<1>4. CASE Flush
  <2>1. \A u \in Tasks : pc'[u] = pc[u] \/ (pc[u] = "commit:saving" /\ pc'[u] = "commit:send")
    BY <1>4 DEF Flush
  <2>2. UNCHANGED <<state, initiated, recorded, phase, status, quoteExpired>> /\ durable' = recorded
    BY <1>4 DEF Flush
  <2>3. phase = "down" => durable' = durable
    BY <2>2 DEF Tracking
  <2>4. (Kept(recorded)' <=> Kept(recorded)) /\ (Kept(durable)' <=> Kept(recorded))
    BY <1>3, <2>2 DEF Kept
  <2>5. \A u \in Tasks : pc[u] \in CommitLabels => phase = "run" /\ initiated
    BY DEF Tracking, Reliance, CommitLabels, Custody, InitAlone, SyncLabels, TypeOK
  <2>6. \A u \in Tasks : Reliance(u)'
    BY <1>1, <1>2, <2>1, <2>2, <2>4, <2>5 DEF Tracking, Reliance, CommitLabels
  <2> QED
    BY <1>1, <1>2, <2>2, <2>3, <2>4, <2>6 DEF Tracking
<1>5. CASE Crash
  <2>1. /\ \A u \in Tasks : pc'[u] = "idle"
        /\ phase' = "down" /\ recorded' = durable /\ UNCHANGED <<state, initiated, durable>>
    BY <1>5 DEF Crash
  <2>2. Kept(durable)' <=> Kept(durable)
    BY <1>3, <2>1 DEF Kept
  <2> QED
    BY <1>1, <1>2, <2>1, <2>2 DEF Tracking, Reliance, CommitLabels
<1>6. CASE Restart
  <2>1. /\ \A u \in Tasks : pc'[u] = "idle"
        /\ phase = "down" /\ phase' \in {"init", "run"} /\ state' = durable /\ initiated'
        /\ UNCHANGED <<recorded, durable>> /\ durable # "absent"
    BY <1>6 DEF Restart, Custody, InitAlone
  <2>2. durable \in SwapStates /\ Sound(durable) /\ Backed(durable)
    BY <2>1 DEF TypeOK, Records, Custody, Evidence
  <2>3. Kept(durable)
    BY <2>2, KeptState DEF Tracking
  <2>4. Kept(durable)'
    BY <1>3, <2>1, <2>3 DEF Kept
  <2>5. Kept(recorded)'
    BY <2>1, <2>4 DEF Tracking
  <2> QED
    BY <1>1, <1>2, <2>1, <2>4, <2>5 DEF Tracking, Reliance, CommitLabels
<1>7. CASE InitDone
  <2>1. /\ phase = "syncing" /\ phase' = "run"
        /\ UNCHANGED <<state, initiated, recorded, durable, pc, status, quoteExpired>>
    BY <1>7 DEF InitDone
  <2>2. (Kept(recorded)' <=> Kept(recorded)) /\ (Kept(durable)' <=> Kept(durable)) /\ (Saving' <=> Saving)
    BY <1>3, <2>1 DEF Kept, Saving
  <2> QED
    BY <1>1, <1>2, <2>1, <2>2 DEF Tracking, Reliance
<1> QED
  BY <1>4, <1>5, <1>6, <1>7 DEF StorageNext

\* Tracking is invariant.
LEMMA TrackingInvariant ==
  ASSUME Unsynced, NoWaitCommit, OneCommitter
  PROVE  Spec => []Tracking
<1>1. Init => Tracking
  BY DEF Init, ChainInit, Tracking, Reliance, CommitLabels
<1>2. TypeOK /\ Evidence /\ Custody /\ Tracking /\ [Next]_vars => Tracking'
  <2> SUFFICES ASSUME TypeOK, Evidence, Custody, Tracking, [Next]_vars PROVE Tracking'
    OBVIOUS
  <2>1. CASE UNCHANGED vars
    BY <2>1 DEF vars, sdkVars, chainVars, sentVars, clocks, Tracking, Reliance, Kept, Saving, Dead, Placed, Returned
  <2>2. CASE Environment BY <2>2, ChainTracking
  <2>3. CASE \E t \in Timers : TickNext(t) BY <2>3, TickTracking
  <2>4. CASE \E t \in Callers : SyncNext(t) \/ CommitNext(t) \/ PayNext(t) \/ RefundNext(t)
    BY <2>4, SyncTracking, CommitTracking, PayTracking, RefundTracking
  <2>5. CASE ListenerNext BY <2>5, ListenerTracking
  <2>6. CASE StorageNext BY <2>6, StorageTracking
  <2> QED
    BY <2>1, <2>2, <2>3, <2>4, <2>5, <2>6 DEF Next
<1> QED
  BY <1>1, <1>2, TypeCorrect, EvidenceInvariant, CustodyInvariant, PTL DEF Spec

\* As long as funds are locked, a crash leaves a record that wrapper.init() picks up.
THEOREM LockedIsTrackedAlways ==
  ASSUME Unsynced, NoWaitCommit, OneCommitter
  PROVE  Spec => []LockedIsTracked
<1>1. Custody /\ Tracking => LockedIsTracked
  BY DEF Custody, ChainRules, Tracking, Kept, Dead, Placed, Returned, LockedIsTracked
<1> QED
  BY <1>1, CustodyInvariant, TrackingInvariant, PTL

\* A quote is given up, and its record removed, only when no funds can be behind it.
THEOREM ExpiredQuoteHoldsNothingAlways ==
  ASSUME Unsynced, NoWaitCommit, OneCommitter
  PROVE  Spec => []ExpiredQuoteHoldsNothing
<1>1. Tracking => ExpiredQuoteHoldsNothing
  BY DEF Tracking, Dead, Placed, Returned, ExpiredQuoteHoldsNothing
<1> QED
  BY <1>1, TrackingInvariant, PTL
=============================================================================
