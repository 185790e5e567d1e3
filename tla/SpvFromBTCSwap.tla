--------------------------- MODULE SpvFromBTCSwap ---------------------------
(***************************************************************************)
(* One SpvFromBTC swap inside the SDK: the state of the swap object, its   *)
(* record in the unified storage, and the asynchronous calls that read and *)
(* write both.  As in ToBTCSwap a call is a sequence of steps, one per     *)
(* stretch of code between two awaits, and pc[t] is the await that call t  *)
(* is parked at, with the answer it will act upon.                         *)
(***************************************************************************)
EXTENDS SpvWithdrawal, Naturals

CONSTANTS
  Timers,            \* slots for ticks
  Callers,           \* slots for calls the application makes
  Enabled,           \* <<slot, call>>: the calls the application makes
  MaxRestarts,       \* bound on crashes
  MinedBetweenReads  \* the transaction may appear and be mined between the
                     \* two reads with which the SDK looks for a double-spend

Calls == {"submit", "waitBitcoin", "claim", "waitSettled", "sync"}

ASSUME EnabledAssumption  == Enabled \subseteq Callers \X Calls
ASSUME SlotsAssumption    == Timers \cap Callers = {}
ASSUME RestartsAssumption == MaxRestarts \in Nat
ASSUME ReadsAssumption    == MinedBetweenReads \in BOOLEAN

VARIABLES
  state,     \* swap.state
  initiated, \* swap.initiated: the PSBT was signed, and swap.data is known
  recorded,  \* the record in storage once every queued write completes
  durable,   \* the record as a crash would leave it
  phase,     \* "run", "down", "init" or "syncing" (inside wrapper.init())
  restarts,
  handling,  \* the state the listener will set after its await, or "nothing"
  pc,
  told       \* what waitTillClaimedOrFronted has reported to the application

sdkVars == <<state, initiated, recorded, durable, phase, restarts, handling, pc, told>>
vars    == <<sdkVars, worldVars>>

-----------------------------------------------------------------------------
Tasks == Timers \cup Callers

SwapStates == {"CLOSED", "FAILED", "DECLINED", "QUOTE_EXPIRED", "QUOTE_SOFT_EXPIRED",
               "CREATED", "SIGNED", "POSTED", "BROADCASTED", "FRONTED",
               "BTC_TX_CONFIRMED", "CLAIMED"}
\* A swap gets its record when it is SIGNED: none is ever stored as CREATED.
Records    == (SwapStates \ {"CREATED"}) \cup {"absent"}

\* Mutant: a swap that the LP declined is done with.
PendingWithoutDeclined == {"CREATED", "SIGNED", "POSTED", "QUOTE_SOFT_EXPIRED",
                           "BROADCASTED", "BTC_TX_CONFIRMED"}
PendingStates == {"CREATED", "SIGNED", "POSTED", "QUOTE_SOFT_EXPIRED",
                  "BROADCASTED", "DECLINED", "BTC_TX_CONFIRMED"}

\* Mutant: ticks skip broadcast transactions.
TickWithoutBroadcasted == {"CREATED", "QUOTE_SOFT_EXPIRED", "SIGNED", "POSTED"}
TickStates == {"CREATED", "QUOTE_SOFT_EXPIRED", "SIGNED", "POSTED", "BROADCASTED"}

\* The states in which the bitcoin transaction is looked for, and in which a
\* contract event is believed.
OpenStates    == PendingStates \ {"CREATED"}
\* The LP has not shown the transaction to the network yet, as far as known.
UnseenStates  == {"SIGNED", "POSTED", "QUOTE_SOFT_EXPIRED", "DECLINED"}

Labels == {"idle", "btc:payment", "btc:inputs", "btc:seen", "btc:confirmed",
           "btc:spent", "btc:unseen",
           "sync:vault", "sync:vaultChanged", "sync:fronted", "sync:claimed",
           "sync:closed", "sync:save", "sync:remove",
           "su:check", "su:saving", "su:post", "su:posted", "su:declined",
           "wb:poll", "wb:seen", "wb:last", "wb:confirmed",
           "cl:send", "cl:done", "cl:failed", "cl:claimed",
           "ws:poll", "ws:fronted", "ws:claimed", "ws:closed"}

TypeOK ==
  /\ WorldTypeOK
  /\ state \in SwapStates
  /\ initiated \in BOOLEAN
  /\ recorded \in Records
  /\ durable \in Records
  /\ phase \in {"run", "down", "init", "syncing"}
  /\ restarts \in Nat
  /\ handling \in {"nothing", "FRONTED", "CLAIMED"}
  /\ pc \in [Tasks -> Labels]
  /\ told \subseteq {"settled"}

Init ==
  /\ WorldInit
  /\ state = "CREATED"
  /\ initiated = FALSE
  /\ recorded = "absent"
  /\ durable = "absent"
  /\ phase = "run"
  /\ restarts = 0
  /\ handling = "nothing"
  /\ pc = [t \in Tasks |-> "idle"]
  /\ told = {}

-----------------------------------------------------------------------------
(* Saving and emitting *)

Persisted(s) ==
  IF ~initiated THEN recorded
  ELSE IF s = "QUOTE_EXPIRED" THEN "absent" ELSE s

WaitingSettled(u) == pc[u] \in {"ws:poll", "ws:fronted", "ws:claimed", "ws:closed"}

\* The calls parked in a waitTillState that the emitted state s resolves.
Waked(s) ==
  [u \in Tasks |->
     IF WaitingSettled(u) /\ s \in {"CLAIMED", "FRONTED", "FAILED"} THEN "idle" ELSE pc[u]]

\* Mutant: "at least FRONTED" is waited for, which a confirmed transaction is.
ToldByOrder(s) ==
  IF s \in {"CLAIMED", "FRONTED", "BTC_TX_CONFIRMED"} /\ \E u \in Tasks : WaitingSettled(u)
    THEN told \cup {"settled"} ELSE told

\* waitTillClaimedOrFronted returns true when the emitted state is CLAIMED or
\* FRONTED, and throws when it is FAILED.
ToldBy(s) ==
  IF s \in {"CLAIMED", "FRONTED"} /\ \E u \in Tasks : WaitingSettled(u)
    THEN told \cup {"settled"} ELSE told

SaveAndEmit(s) ==
  /\ state' = s
  /\ recorded' = Persisted(s)
  /\ told' = ToldBy(s)

\* Call t sets, saves and emits state s, and goes on to the await `next`.
EmitFrom(t, s, next) ==
  /\ SaveAndEmit(s)
  /\ pc' = [Waked(s) EXCEPT ![t] = next]

Goto(t, next) == pc' = [pc EXCEPT ![t] = next]

Quiet == UNCHANGED <<state, recorded, told>>

Running(t) == phase = "run" /\ pc[t] = "idle"
Called(t, call) == <<t, call>> \in Enabled /\ Running(t)

Frame == UNCHANGED <<initiated, durable, phase, restarts, handling>>

-----------------------------------------------------------------------------
(* _syncStateFromBitcoin, shared by _tick and by checkPastSwaps *)

\* The answer to getTransaction.
PaymentAnswer(t) ==
  /\ pc[t] = "btc:payment"
  /\ Goto(t, CASE btc = "mempool" -> "btc:seen"
               [] btc = "confirmed" -> "btc:confirmed"
               [] OTHER -> "btc:inputs")
  /\ Quiet /\ Frame /\ UNCHANGED worldVars

\* An input counts as double-spent when a mined transaction spends it: also
\* when that is the swap's own, mined since the payment was looked for.
InputSpent == btc = "doublespent" \/ (MinedBetweenReads /\ btc = "confirmed")

\* The answers to isSpent, until one is positive.
InputsAnswer(t) ==
  /\ pc[t] = "btc:inputs"
  /\ Goto(t, IF InputSpent THEN "btc:spent" ELSE "btc:unseen")
  /\ Quiet /\ Frame /\ UNCHANGED worldVars

\* A double-spend: the LP never showed the transaction, or it was replaced.
Lost == IF state \in UnseenStates THEN "QUOTE_EXPIRED" ELSE "FAILED"

\* Mutant: one confirmation is enough.
BitcoinStateEarly(t) ==
  IF pc[t] = "btc:spent" THEN Lost
  ELSE IF pc[t] \in {"btc:confirmed", "btc:seen"} /\ state \notin {"FRONTED", "CLAIMED"}
    THEN "BTC_TX_CONFIRMED"
  ELSE state

\* The state that follows from the answers and from the state of now.
BitcoinState(t) ==
  IF pc[t] = "btc:spent" THEN Lost
  ELSE IF pc[t] = "btc:confirmed" /\ state \notin {"FRONTED", "CLAIMED"} THEN "BTC_TX_CONFIRMED"
  ELSE IF pc[t] = "btc:seen" /\ state \in UnseenStates THEN "BROADCASTED"
  ELSE state

HasBitcoinAnswer(t) == pc[t] \in {"btc:spent", "btc:confirmed", "btc:seen", "btc:unseen"}

\* A double-spend always counts as a change; a sender address not known
\* before, too.
BitcoinChanged(t) ==
  \/ BitcoinState(t) # state
  \/ pc[t] # "btc:unseen"

-----------------------------------------------------------------------------
(* _tick *)

TickSelected ==
  IF initiated THEN recorded \in TickStates ELSE state # "QUOTE_EXPIRED"

\* Mutant: an expired quote is given up although a PSBT was signed for it.
TickQuoteSigned(t) ==
  /\ t \in Timers /\ Running(t) /\ TickSelected
  /\ \/ /\ state \in {"CREATED", "SIGNED"} /\ quoteExpired
        /\ EmitFrom(t, "QUOTE_SOFT_EXPIRED", "idle")
     \/ /\ state = "QUOTE_SOFT_EXPIRED" /\ expired
        /\ EmitFrom(t, "QUOTE_EXPIRED", "idle")
  /\ Frame /\ UNCHANGED worldVars

TickQuote(t) ==
  /\ t \in Timers /\ Running(t) /\ TickSelected
  /\ \/ /\ state \in {"CREATED", "SIGNED"} /\ quoteExpired
        /\ EmitFrom(t, "QUOTE_SOFT_EXPIRED", "idle")
     \/ /\ state = "QUOTE_SOFT_EXPIRED" /\ ~initiated /\ expired
        /\ EmitFrom(t, "QUOTE_EXPIRED", "idle")
  /\ Frame /\ UNCHANGED worldVars

TickAsk(t) ==
  /\ t \in Timers /\ Running(t) /\ TickSelected
  /\ state \in {"POSTED", "BROADCASTED"}
  /\ Goto(t, "btc:payment")
  /\ Quiet /\ Frame /\ UNCHANGED worldVars

TickApply(t) ==
  /\ t \in Timers /\ HasBitcoinAnswer(t)
  /\ \/ BitcoinChanged(t) /\ EmitFrom(t, BitcoinState(t), "idle")
     \/ BitcoinState(t) = state /\ pc[t] # "btc:spent" /\ Goto(t, "idle") /\ Quiet
  /\ Frame /\ UNCHANGED worldVars

TickNext(t) ==
  \/ TickQuote(t) \/ TickAsk(t) \/ TickApply(t)
  \/ t \in Timers /\ (PaymentAnswer(t) \/ InputsAnswer(t))

-----------------------------------------------------------------------------
(* checkPastSwaps, as run by wrapper.init() and by Swapper._syncSwaps *)

SyncStart(t) ==
  /\ t \in Callers /\ pc[t] = "idle"
  /\ \/ Called(t, "sync") /\ UNCHANGED phase
     \/ phase = "init" /\ phase' = "syncing"
  /\ recorded \in PendingStates /\ state \in OpenStates
  /\ Goto(t, "btc:payment")
  /\ Quiet
  /\ UNCHANGED <<initiated, durable, restarts, handling, worldVars>>

\* A quote that ran out while the LP did not show the transaction.
AfterExpiry(s) == IF expired /\ s \in {"SIGNED", "POSTED"} THEN "QUOTE_SOFT_EXPIRED" ELSE s

SyncBitcoin(t) ==
  /\ t \in Callers /\ HasBitcoinAnswer(t)
  /\ LET s == AfterExpiry(BitcoinState(t))
     IN  /\ state' = s
         /\ \E changed \in BOOLEAN :
              /\ s # state \/ pc[t] = "btc:spent" => changed
              /\ changed => s # state \/ BitcoinChanged(t)
              /\ Goto(t, IF s = "QUOTE_EXPIRED" THEN "sync:remove"
                         ELSE IF s \in {"BROADCASTED", "BTC_TX_CONFIRMED"}
                           THEN IF changed THEN "sync:vaultChanged" ELSE "sync:vault"
                         ELSE IF changed THEN "sync:save" ELSE "idle")
  /\ Frame /\ UNCHANGED <<recorded, told, worldVars>>

\* The withdrawal as the contract shows it.  _shouldCheckWithdrawalState only
\* saves the question when the answer would be that nothing happened.
SyncVault(t) ==
  /\ pc[t] \in {"sync:vault", "sync:vaultChanged"}
  /\ Goto(t, CASE withdrawal = "fronted" -> "sync:fronted"
               [] withdrawal = "claimed" -> "sync:claimed"
               [] withdrawal = "closed" -> "sync:closed"
               [] OTHER -> IF pc[t] = "sync:vaultChanged" THEN "sync:save" ELSE "idle")
  /\ Quiet /\ Frame /\ UNCHANGED worldVars

SyncVaultApply(t) ==
  /\ \/ pc[t] = "sync:fronted" /\ state' = "FRONTED"
     \/ pc[t] = "sync:claimed" /\ state' = "CLAIMED"
     \/ pc[t] = "sync:closed" /\ state' = "CLOSED"
  /\ Goto(t, "sync:save")
  /\ Frame /\ UNCHANGED <<recorded, told, worldVars>>

\* The batch is written without emitting; what is written is the state of now.
SyncWrite(t) ==
  /\ \/ pc[t] = "sync:save" /\ recorded' = state
     \/ pc[t] = "sync:remove" /\ recorded' = "absent"
  /\ Goto(t, "idle")
  /\ Frame /\ UNCHANGED <<state, told, worldVars>>

\* An error for any swap of the batch ends the whole call before it writes.
SyncFail(t) ==
  /\ phase = "run" /\ t \in Callers
  /\ \/ HasBitcoinAnswer(t)
     \/ pc[t] \in {"btc:payment", "btc:inputs", "sync:vault", "sync:vaultChanged",
                   "sync:save", "sync:remove"}
  /\ Goto(t, "idle")
  /\ Quiet /\ Frame /\ UNCHANGED worldVars

SyncNext(t) ==
  \/ SyncStart(t) \/ SyncBitcoin(t) \/ SyncVault(t) \/ SyncVaultApply(t)
  \/ SyncWrite(t) \/ SyncFail(t)
  \/ t \in Callers /\ (PaymentAnswer(t) \/ InputsAnswer(t))

-----------------------------------------------------------------------------
(* submitPsbt *)

Submit(t) ==
  /\ Called(t, "submit")
  /\ ~expired /\ state \in {"QUOTE_SOFT_EXPIRED", "CREATED"}
  /\ Goto(t, "su:check")
  /\ Quiet /\ Frame /\ UNCHANGED worldVars

\* Mutant: the PSBT is posted without waiting for the save.
SubmitSignUnsaved(t) ==
  /\ pc[t] = "su:check" /\ ~expired
  /\ initiated' = TRUE
  /\ state' = "SIGNED" /\ recorded' = "SIGNED" /\ told' = told
  /\ Goto(t, "su:post")
  /\ UNCHANGED <<durable, phase, restarts, handling, worldVars>>

\* Mutant: the swap is saved before its state is set.
SubmitSignSavedFirst(t) ==
  /\ pc[t] = "su:check" /\ ~expired
  /\ initiated' = TRUE
  /\ state' = "SIGNED" /\ recorded' = state /\ told' = told
  /\ Goto(t, "su:saving")
  /\ UNCHANGED <<durable, phase, restarts, handling, worldVars>>

\* Of the checks made at the start only the expiry is made again.
SubmitSign(t) ==
  /\ pc[t] = "su:check" /\ ~expired
  /\ initiated' = TRUE
  /\ state' = "SIGNED" /\ recorded' = "SIGNED" /\ told' = told
  /\ Goto(t, "su:saving")
  /\ UNCHANGED <<durable, phase, restarts, handling, worldVars>>

\* An invalid PSBT, a spent vault, or a quote that expired meanwhile.
SubmitFail(t) ==
  /\ pc[t] = "su:check"
  /\ Goto(t, "idle")
  /\ Quiet /\ Frame /\ UNCHANGED worldVars

\* The request reaches the LP or not; an error may hide that it did.
SubmitPost(t) ==
  /\ pc[t] = "su:post"
  /\ \/ lpHas' = TRUE /\ Goto(t, "su:posted")
     \/ lpHas' \in {lpHas, TRUE} /\ Goto(t, "su:declined")
  /\ Quiet /\ Frame
  /\ UNCHANGED <<btc, withdrawal, fronted, events, clocks>>

\* The answer is stored over whatever the state is by now.
SubmitDone(t) ==
  /\ \/ pc[t] = "su:posted" /\ EmitFrom(t, "POSTED", "idle")
     \/ pc[t] = "su:declined" /\ EmitFrom(t, "DECLINED", "idle")
  /\ Frame /\ UNCHANGED worldVars

SubmitNext(t) ==
  Submit(t) \/ SubmitSign(t) \/ SubmitFail(t) \/ SubmitPost(t) \/ SubmitDone(t)

-----------------------------------------------------------------------------
(* waitForBitcoinTransaction *)

WaitBitcoin(t) ==
  /\ Called(t, "waitBitcoin") /\ initiated
  /\ state \in {"POSTED", "BROADCASTED", "QUOTE_SOFT_EXPIRED"}
  /\ Goto(t, "wb:poll")
  /\ Quiet /\ Frame /\ UNCHANGED worldVars

WaitBitcoinPoll(t) ==
  /\ pc[t] = "wb:poll"
  /\ \/ btc = "mempool" /\ Goto(t, "wb:seen")
     \/ btc = "confirmed" /\ Goto(t, "wb:last")
     \/ Goto(t, "idle")                           \* aborted
  /\ Quiet /\ Frame /\ UNCHANGED worldVars

\* The callback, also for the last answer; nobody waits for its save.
WaitBitcoinSeen(t) ==
  /\ pc[t] \in {"wb:seen", "wb:last"}
  /\ LET next == IF pc[t] = "wb:seen" THEN "wb:poll" ELSE "wb:confirmed"
     IN  IF state \in {"POSTED", "QUOTE_SOFT_EXPIRED"}
           THEN EmitFrom(t, "BROADCASTED", next)
           ELSE Goto(t, next) /\ Quiet
  /\ Frame /\ UNCHANGED worldVars

WaitBitcoinDone(t) ==
  /\ pc[t] = "wb:confirmed"
  /\ IF state \in {"FRONTED", "CLAIMED"}
       THEN Goto(t, "idle") /\ Quiet
       ELSE EmitFrom(t, "BTC_TX_CONFIRMED", "idle")
  /\ Frame /\ UNCHANGED worldVars

-----------------------------------------------------------------------------
(* claim *)

\* In any state but BTC_TX_CONFIRMED txsClaim throws, and claim() looks whether
\* the withdrawal is claimed already; in CLAIMED it returns at once.
Claim(t) ==
  /\ Called(t, "claim") /\ initiated /\ state # "CLAIMED"
  /\ Goto(t, IF state = "BTC_TX_CONFIRMED" THEN "cl:send" ELSE "cl:failed")
  /\ Quiet /\ Frame /\ UNCHANGED worldVars

\* The claim transactions confirm (ChainClaim is theirs, then), or an error,
\* the signer or the abort signal ends the attempt.
ClaimSent(t) ==
  /\ pc[t] = "cl:send"
  /\ \/ withdrawal = "claimed" /\ Goto(t, "cl:done")
     \/ Goto(t, IF state = "CLAIMED" THEN "idle" ELSE "cl:failed")
  /\ Quiet /\ Frame /\ UNCHANGED worldVars

\* Mutant: any withdrawal that is known to the contract counts as claimed.
ClaimFailedAny(t) ==
  /\ pc[t] = "cl:failed"
  /\ Goto(t, IF withdrawal # "none" THEN "cl:claimed" ELSE "idle")
  /\ Quiet /\ Frame /\ UNCHANGED worldVars

\* Has a watchtower been faster?
ClaimFailed(t) ==
  /\ pc[t] = "cl:failed"
  /\ Goto(t, IF withdrawal = "claimed" THEN "cl:claimed" ELSE "idle")
  /\ Quiet /\ Frame /\ UNCHANGED worldVars

ClaimDone(t) ==
  /\ \/ pc[t] = "cl:claimed" /\ EmitFrom(t, "CLAIMED", "idle")
     \/ /\ pc[t] = "cl:done"
        /\ IF state \in {"POSTED", "BROADCASTED", "BTC_TX_CONFIRMED", "FAILED", "FRONTED"}
             THEN EmitFrom(t, "CLAIMED", "idle")
             ELSE Goto(t, "idle") /\ Quiet
  /\ Frame /\ UNCHANGED worldVars

-----------------------------------------------------------------------------
(* waitTillClaimedOrFronted *)

\* In CLAIMED and FRONTED it returns true at once.
WaitSettled(t) ==
  /\ Called(t, "waitSettled") /\ initiated
  /\ state \notin {"CLAIMED", "FRONTED"}
  /\ Goto(t, "ws:poll")
  /\ Quiet /\ Frame /\ UNCHANGED worldVars

\* The watchdog's answer, or the timeout, which makes it return false.
WaitSettledPoll(t) ==
  /\ pc[t] = "ws:poll"
  /\ \/ withdrawal = "fronted" /\ Goto(t, "ws:fronted")
     \/ withdrawal = "claimed" /\ Goto(t, "ws:claimed")
     \/ withdrawal = "closed" /\ Goto(t, "ws:closed")
     \/ Goto(t, "idle")
  /\ Quiet /\ Frame /\ UNCHANGED worldVars

\* The guards of the code: "not FRONTED or not CLAIMED" is always true, and a
\* CLAIMED answer is stored as FRONTED.
WaitSettledDone(t) ==
  /\ \/ /\ pc[t] = "ws:fronted"
        /\ state' = "FRONTED" /\ recorded' = Persisted("FRONTED")
        /\ pc' = [Waked("FRONTED") EXCEPT ![t] = "idle"]
     \/ /\ pc[t] = "ws:claimed"
        /\ IF state = "CLAIMED"
             THEN UNCHANGED <<state, recorded>> /\ Goto(t, "idle")
             ELSE /\ state' = "FRONTED" /\ recorded' = Persisted("FRONTED")
                  /\ pc' = [Waked("FRONTED") EXCEPT ![t] = "idle"]
  /\ told' = told \cup {"settled"}
  /\ Frame /\ UNCHANGED worldVars

WaitSettledClosed(t) ==
  /\ pc[t] = "ws:closed"
  /\ IF state = "CLOSED" THEN Goto(t, "idle") /\ Quiet ELSE EmitFrom(t, "CLOSED", "idle")
  /\ Frame /\ UNCHANGED worldVars

SettleNext(t) ==
  \/ WaitBitcoin(t) \/ WaitBitcoinPoll(t) \/ WaitBitcoinSeen(t) \/ WaitBitcoinDone(t)
  \/ Claim(t) \/ ClaimSent(t) \/ ClaimFailed(t) \/ ClaimDone(t)
  \/ WaitSettled(t) \/ WaitSettledPoll(t) \/ WaitSettledDone(t) \/ WaitSettledClosed(t)

-----------------------------------------------------------------------------
(* The event listener: one event at a time, in order *)

NextEvent(e) ==
  /\ phase = "run" /\ handling = "nothing"
  /\ events # <<>> /\ Head(events) = e
  /\ events' = Tail(events)
  /\ UNCHANGED <<btc, withdrawal, fronted, lpHas, clocks>>

\* A transaction id that was not known yet is saved and emitted.
SameState == (SaveAndEmit(state) /\ pc' = Waked(state)) \/ (Quiet /\ UNCHANGED pc)

\* Fronts and claims are believed in the open states; the bitcoin transaction
\* is looked up before the state is set.
EventSettled(e, s) ==
  /\ NextEvent(e) /\ recorded # "absent"
  /\ IF state \in OpenStates THEN handling' = s /\ Quiet /\ UNCHANGED pc
                             ELSE SameState /\ UNCHANGED handling
  /\ UNCHANGED <<initiated, durable, phase, restarts>>

EventFront == EventSettled("fronted", "FRONTED")
EventClaim == EventSettled("claimed", "CLAIMED")

EventSettledDone ==
  /\ handling # "nothing"
  /\ handling' = "nothing"
  /\ SaveAndEmit(handling) /\ pc' = Waked(handling)
  /\ UNCHANGED <<initiated, durable, phase, restarts, worldVars>>

EventClose ==
  /\ NextEvent("closed") /\ recorded # "absent"
  /\ IF state \in OpenStates THEN SaveAndEmit("CLOSED") /\ pc' = Waked("CLOSED")
                             ELSE Quiet /\ UNCHANGED pc
  /\ Frame

\* Events of a withdrawal no stored swap knows are skipped.
EventUnknown ==
  /\ \E e \in ChainEvents : NextEvent(e)
  /\ recorded = "absent"
  /\ Quiet /\ Frame /\ UNCHANGED pc

ListenerNext ==
  EventFront \/ EventClaim \/ EventSettledDone \/ EventClose \/ EventUnknown

-----------------------------------------------------------------------------
(* Storage writes, crashes and restarts *)

Flush ==
  /\ durable # recorded \/ \E t \in Tasks : pc[t] = "su:saving"
  /\ durable' = recorded
  /\ pc' = [t \in Tasks |-> IF pc[t] = "su:saving" THEN "su:post" ELSE pc[t]]
  /\ UNCHANGED <<state, initiated, recorded, phase, restarts, handling, told, worldVars>>

Crash ==
  /\ phase # "down"
  /\ restarts < MaxRestarts
  /\ phase' = "down"
  /\ restarts' = restarts + 1
  /\ recorded' = durable
  /\ handling' = "nothing"
  /\ pc' = [t \in Tasks |-> "idle"]
  /\ UNCHANGED <<state, initiated, durable, told, worldVars>>

\* Only swaps in a pending state are synchronized by wrapper.init().
Restart ==
  /\ phase = "down" /\ durable # "absent"
  /\ state' = durable
  /\ initiated' = TRUE
  /\ phase' = IF durable \in PendingStates THEN "init" ELSE "run"
  /\ events' \in {events, <<>>}
  /\ UNCHANGED <<recorded, durable, restarts, handling, pc, told,
                 btc, withdrawal, fronted, lpHas, clocks>>

InitDone ==
  /\ phase = "syncing"
  /\ \A t \in Tasks : pc[t] = "idle"
  /\ phase' = "run"
  /\ UNCHANGED <<state, initiated, recorded, durable, restarts, handling, pc, told, worldVars>>

StorageNext == Flush \/ Crash \/ Restart \/ InitDone

-----------------------------------------------------------------------------
Environment == WorldNext /\ UNCHANGED sdkVars

Next ==
  \/ Environment
  \/ \E t \in Timers : TickNext(t)
  \/ \E t \in Callers : SyncNext(t) \/ SubmitNext(t) \/ SettleNext(t)
  \/ ListenerNext
  \/ StorageNext

Spec == Init /\ [][Next]_vars

(***************************************************************************)
(* Fairness.  The tick interval keeps firing (also in the second of every  *)
(* two minutes in which it looks at bitcoin), what it asks is answered,    *)
(* wrapper.init() runs after a restart, events are handed over and queued  *)
(* writes complete.  Nothing is assumed of the application, the LP,        *)
(* bitcoin, the contract or the clock.                                     *)
(***************************************************************************)
SyncAfterRestart(t) == phase \in {"init", "syncing"} /\ SyncNext(t)

Fairness ==
  /\ \A t \in Timers : WF_vars(TickNext(t))
  /\ WF_vars(\E t \in Callers : SyncAfterRestart(t))
  /\ WF_vars(ListenerNext)
  /\ WF_vars(Flush)
  /\ WF_vars(Restart)
  /\ WF_vars(InitDone)

FairSpec == Spec /\ Fairness

-----------------------------------------------------------------------------
(* Properties *)

\* A swap is shown as CLAIMED only when the withdrawal was claimed, by the
\* user or by a watchtower, however late the answer that says so is applied.
ClaimedIsClaimed == state = "CLAIMED" => withdrawal = "claimed"

\* A swap is offered for a claim, isClaimable(), only when its transaction
\* has the confirmations the vault asks for.
ClaimableIsConfirmed == state = "BTC_TX_CONFIRMED" => btc = "confirmed"

\* As long as the user's bitcoin may still be spent by the LP, or is spent and
\* not paid out, a crash leaves a record that wrapper.init() picks up again:
\* submitPsbt saves before it posts, and nothing ends the swap too early.
PostedIsTracked ==
  lpHas /\ btc # "doublespent" /\ withdrawal = "none" => durable \in PendingStates

\* A quote is given up for good, and its record removed, only while no one
\* can spend the user's bitcoin on it.
ExpiredQuoteHoldsNothing == state = "QUOTE_EXPIRED" => ~lpHas \/ btc = "doublespent"

\* waitTillClaimedOrFronted returns true only after the payout.
ToldTheTruth == "settled" \in told => withdrawal \in {"fronted", "claimed"}

\* Nobody's answer of submitPsbt is still on its way.
NothingSubmitted == \A t \in Tasks : pc[t] \notin {"su:posted", "su:declined"}

\* A confirmed transaction is eventually offered for a claim, or shown as
\* settled, by the ticks alone.
ConfirmedIsOffered ==
  (phase = "run" /\ state \in {"POSTED", "BROADCASTED"} /\ btc = "confirmed"
     /\ NothingSubmitted)
    ~> (phase = "down" \/ state \in {"BTC_TX_CONFIRMED", "FRONTED", "CLAIMED", "CLOSED"})

\* After a crash wrapper.init() finds the confirmed transaction, also of a swap
\* that the LP declined or whose quote had run out.
RestartRepairs ==
  (phase = "down" /\ durable # "absent" /\ btc = "confirmed")
    ~> (phase = "run" /\ state \in {"BTC_TX_CONFIRMED", "FRONTED", "CLAIMED", "CLOSED"})
=============================================================================
