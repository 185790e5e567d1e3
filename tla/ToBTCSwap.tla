------------------------------ MODULE ToBTCSwap ------------------------------
(***************************************************************************)
(* One ToBTC / ToBTCLN swap inside the SDK: the state kept by the swap     *)
(* object, its record in the unified storage, and the asynchronous calls   *)
(* that read and write both.  The SDK is single threaded; another call can *)
(* run only where a call awaits, so a call is a sequence of steps, one per *)
(* stretch of code between two awaits.  pc[t] is the await that call t is  *)
(* parked at, together with the answer it is about to act upon.            *)
(*                                                                         *)
(* Saving a swap queues a storage write (recorded); writes complete in the *)
(* order they were issued (Flush), and a crash keeps only those (durable). *)
(***************************************************************************)
EXTENDS SwapEscrow, Naturals

CONSTANTS
  Timers,       \* slots for ticks: setInterval does not wait for the last tick
  Callers,      \* slots for calls the application makes
  Enabled,      \* <<slot, call>>: the calls the application makes, from which slot
  MaxRestarts   \* bound on crashes

Calls == {"commit", "waitCommit", "pay", "refund", "waitRefund", "sync"}

ASSUME EnabledAssumption  == Enabled \subseteq Callers \X Calls
ASSUME SlotsAssumption    == Timers \cap Callers = {}
ASSUME RestartsAssumption == MaxRestarts \in Nat

VARIABLES
  state,     \* swap.state
  initiated, \* swap.initiated
  recorded,  \* the record in storage once every queued write completes
  durable,   \* the record as a crash would leave it
  phase,     \* "run", "down", "init" or "syncing" (inside wrapper.init())
  restarts,
  handling,  \* the event the listener awaits in, or "nothing"
  pc, status, quoteExpired,
  told       \* what waitForPayment has reported to the application

sdkVars == <<state, initiated, recorded, durable, phase, restarts, handling,
             pc, status, quoteExpired, told>>
vars    == <<sdkVars, chainVars>>

-----------------------------------------------------------------------------
Tasks == Timers \cup Callers

SwapStates == {"REFUNDED", "QUOTE_EXPIRED", "QUOTE_SOFT_EXPIRED", "CREATED",
               "COMMITED", "SOFT_CLAIMED", "CLAIMED", "REFUNDABLE"}
Records    == SwapStates \cup {"absent"}

\* Mutant: a soft-claimed swap counts as finished business.
PendingWithoutSoft == {"CREATED", "QUOTE_SOFT_EXPIRED", "COMMITED", "REFUNDABLE"}
PendingStates == {"CREATED", "QUOTE_SOFT_EXPIRED", "COMMITED", "SOFT_CLAIMED", "REFUNDABLE"}

\* Mutant: ticks skip soft-claimed swaps.
TickWithoutSoft == {"CREATED", "COMMITED"}
TickStates == {"CREATED", "COMMITED", "SOFT_CLAIMED"}
QuoteStates   == {"CREATED", "QUOTE_SOFT_EXPIRED"}
\* The enum orders REFUNDABLE above CLAIMED; "gte" waits see both.
CommitedOrLater == {"COMMITED", "SOFT_CLAIMED", "CLAIMED", "REFUNDABLE"}
ClaimedOrLater  == {"CLAIMED", "REFUNDABLE"}

Labels == {"idle", "tick:asked", "tick:expired",
           "sync:expiry", "sync:status", "sync:apply", "sync:claimed", "sync:expired",
           "sync:lp", "sync:lpChanged",
           "sync:paid", "sync:refund", "sync:save", "sync:remove",
           "commit:saving", "commit:send", "commit:confirm",
           "wc:poll", "wc:expiry", "wc:yes", "wc:no",
           "pay:wait", "pay:paid", "pay:refund", "pay:left",
           "rf:kind", "rf:confirm", "wr:poll", "wr:paid", "wr:returned"}

TypeOK ==
  /\ ChainTypeOK
  /\ state \in SwapStates
  /\ initiated \in BOOLEAN
  /\ recorded \in Records
  /\ durable \in Records
  /\ phase \in {"run", "down", "init", "syncing"}
  /\ restarts \in Nat
  /\ handling \in {"nothing", "claim"}
  /\ pc \in [Tasks -> Labels]
  /\ status \in [Tasks -> StatusTypes]
  /\ quoteExpired \in [Tasks -> BOOLEAN]
  /\ told \subseteq {"paid", "refundable"}

Init ==
  /\ ChainInit
  /\ state = "CREATED"
  /\ initiated = FALSE
  /\ recorded = "absent"
  /\ durable = "absent"
  /\ phase = "run"
  /\ restarts = 0
  /\ handling = "nothing"
  /\ pc = [t \in Tasks |-> "idle"]
  /\ status = [t \in Tasks |-> "NOT_COMMITED"]
  /\ quoteExpired = [t \in Tasks |-> FALSE]
  /\ told = {}

-----------------------------------------------------------------------------
(* Saving and emitting *)

\* What _save leaves in storage: quotes that were never initiated are kept in
\* memory only, expired quotes are removed.
Persisted(s) ==
  IF ~initiated THEN recorded
  ELSE IF s = "QUOTE_EXPIRED" THEN "absent" ELSE s

\* The calls parked in a waitTillState that the emitted state s resolves.
Waked(s) ==
  [u \in Tasks |->
     IF pc[u] \in {"pay:wait", "pay:paid"} /\ s \in ClaimedOrLater THEN "pay:left"
     ELSE IF pc[u] \in {"wc:poll", "wc:expiry"} /\ s \in CommitedOrLater THEN "idle"
     ELSE IF pc[u] = "wr:poll" /\ s \in {"REFUNDED", "CLAIMED"} THEN "idle"
     ELSE pc[u]]

SomeonePaying == \E u \in Tasks : pc[u] \in {"pay:wait", "pay:paid"}

\* Mutant: the wait for "at least CLAIMED" is taken for success.
ToldByOrder(s) == IF s \in ClaimedOrLater /\ SomeonePaying THEN told \cup {"paid"} ELSE told

\* waitForPayment returns true when the emitted state is CLAIMED, and throws
\* "Swap expired" when it is REFUNDABLE.
ToldBy(s) == IF s = "CLAIMED" /\ SomeonePaying THEN told \cup {"paid"} ELSE told

SaveAndEmit(s) ==
  /\ state' = s
  /\ recorded' = Persisted(s)
  /\ told' = ToldBy(s)

\* Call t sets, saves and emits state s, and goes on to the await `next`.
EmitFrom(t, s, next) ==
  /\ SaveAndEmit(s)
  /\ pc' = [Waked(s) EXCEPT ![t] = next]

Goto(t, next) == pc' = [pc EXCEPT ![t] = next]

Quiet == UNCHANGED <<state, recorded, told>>

Running(t) == phase = "run" /\ pc[t] = "idle"
Called(t, call) == <<t, call>> \in Enabled /\ Running(t)

Frame == UNCHANGED <<initiated, durable, phase, restarts, handling>>

-----------------------------------------------------------------------------
(* _tick *)

\* ISwapWrapper.tick takes the swaps whose record is in a tick state, and the
\* quotes that are not stored yet.
TickSelected ==
  IF initiated THEN recorded \in TickStates ELSE state # "QUOTE_EXPIRED"

TickQuote(t) ==
  /\ t \in Timers /\ Running(t) /\ TickSelected
  /\ state = "CREATED" /\ softExpired
  /\ EmitFrom(t, "QUOTE_SOFT_EXPIRED", "idle")
  /\ Frame /\ UNCHANGED <<status, quoteExpired, chainVars>>

TickAsk(t) ==
  /\ t \in Timers /\ Running(t) /\ TickSelected
  /\ state \in {"COMMITED", "SOFT_CLAIMED"}
  /\ Goto(t, "tick:asked")
  /\ Quiet /\ Frame /\ UNCHANGED <<status, quoteExpired, chainVars>>

\* Mutant: the quote's expiry is taken for the escrow's.
TickAnswerOfQuote(t) ==
  /\ pc[t] = "tick:asked"
  /\ Goto(t, IF authExpired THEN "tick:expired" ELSE "idle")
  /\ Quiet /\ Frame /\ UNCHANGED <<status, quoteExpired, chainVars>>

TickAnswer(t) ==
  /\ pc[t] = "tick:asked"
  /\ Goto(t, IF escrowExpired THEN "tick:expired" ELSE "idle")
  /\ Quiet /\ Frame /\ UNCHANGED <<status, quoteExpired, chainVars>>

\* The state is not looked at again after the await.
TickExpire(t) ==
  /\ pc[t] = "tick:expired"
  /\ EmitFrom(t, "REFUNDABLE", "idle")
  /\ Frame /\ UNCHANGED <<status, quoteExpired, chainVars>>

TickNext(t) == TickQuote(t) \/ TickAsk(t) \/ TickAnswer(t) \/ TickExpire(t)

-----------------------------------------------------------------------------
(* checkPastSwaps, as run by wrapper.init() and by Swapper._syncSwaps *)

SyncStart(t) ==
  /\ t \in Callers /\ pc[t] = "idle"
  /\ \/ Called(t, "sync") /\ UNCHANGED phase
     \/ phase = "init" /\ phase' = "syncing"
  /\ recorded \in PendingStates /\ state \in PendingStates
  /\ Goto(t, IF state \in QuoteStates THEN "sync:expiry" ELSE "sync:status")
  /\ quoteExpired' = [quoteExpired EXCEPT ![t] = FALSE]
  /\ Quiet
  /\ UNCHANGED <<initiated, durable, restarts, handling, status, chainVars>>

\* Mutant: the local quote expiry is taken for the definite one.
SyncExpirySoft(t) ==
  /\ pc[t] = "sync:expiry"
  /\ quoteExpired' = [quoteExpired EXCEPT ![t] = softExpired]
  /\ Goto(t, IF state \in PendingStates THEN "sync:status" ELSE "idle")
  /\ Quiet /\ Frame /\ UNCHANGED <<status, chainVars>>

\* The authorization's expiry is read before the commit status.
SyncExpiry(t) ==
  /\ pc[t] = "sync:expiry"
  /\ quoteExpired' = [quoteExpired EXCEPT ![t] = authExpired]
  /\ Goto(t, IF state \in PendingStates THEN "sync:status" ELSE "idle")
  /\ Quiet /\ Frame /\ UNCHANGED <<status, chainVars>>

\* The statuses of the whole batch are fetched at once; this swap's turn in
\* the batch comes later.
SyncStatus(t) ==
  /\ pc[t] = "sync:status"
  /\ \E answer \in StatusAnswers : status' = [status EXCEPT ![t] = answer]
  /\ Goto(t, "sync:apply")
  /\ Quiet /\ Frame /\ UNCHANGED <<quoteExpired, chainVars>>

\* Mutant: the type of the answer is stored as the state.
NotCommitedRaw(t) == status[t]

\* Mutant: any pending swap without an escrow counts as refunded.
NotCommitedIsRefunded(t) ==
  IF state \in QuoteStates /\ quoteExpired[t] THEN "QUOTE_EXPIRED" ELSE "REFUNDED"

\* No escrow on-chain: refunded if there was one, else maybe an expired quote.
NotCommited(t) ==
  IF state \in {"COMMITED", "REFUNDABLE"} THEN "REFUNDED"
  ELSE IF state \in QuoteStates /\ quoteExpired[t] THEN "QUOTE_EXPIRED"
  ELSE state

\* syncStateFromChain: the state that follows at once from the current one and
\* the answers.
SyncedState(t) ==
  CASE state \notin PendingStates \/ status[t] \in {"PAID", "EXPIRED"} -> state
    [] status[t] = "REFUNDABLE" -> "REFUNDABLE"
    [] status[t] = "NOT_COMMITED" -> NotCommited(t)
    [] status[t] = "COMMITED" ->
         IF state = "REFUNDABLE" THEN "REFUNDABLE" ELSE "COMMITED"

SyncChanged(t) ==
  /\ state \in PendingStates
  /\ SyncedState(t) # state \/ status[t] = "REFUNDABLE"

\* Changed swaps are collected for saveAll, those whose quote expired for removeAll.
Collect(s) == IF s = "QUOTE_EXPIRED" THEN "sync:remove" ELSE "sync:save"

Settling(t) == state \in PendingStates /\ status[t] \in {"PAID", "EXPIRED"}

\* Mutant: the PAID case is missing.
SyncSettlingWithoutPaid(t) ==
  /\ pc[t] = "sync:apply" /\ Settling(t)
  /\ Goto(t, IF status[t] = "PAID" THEN "idle" ELSE "sync:expired")
  /\ status' = [status EXCEPT ![t] = "NOT_COMMITED"]
  /\ quoteExpired' = [quoteExpired EXCEPT ![t] = FALSE]
  /\ Quiet /\ Frame /\ UNCHANGED chainVars

\* Of a settled escrow the claim or refund transaction is looked up first, ...
SyncSettling(t) ==
  /\ pc[t] = "sync:apply" /\ Settling(t)
  /\ Goto(t, IF status[t] = "PAID" THEN "sync:claimed" ELSE "sync:expired")
  /\ status' = [status EXCEPT ![t] = "NOT_COMMITED"]
  /\ quoteExpired' = [quoteExpired EXCEPT ![t] = FALSE]
  /\ Quiet /\ Frame /\ UNCHANGED chainVars

\* ... and the state is set afterwards without being looked at again.
SyncSettled(t) ==
  /\ \/ pc[t] = "sync:claimed" /\ state' = "CLAIMED"
     \/ pc[t] = "sync:expired" /\ state' = "QUOTE_EXPIRED"
  /\ Goto(t, Collect(state'))
  /\ Frame /\ UNCHANGED <<recorded, told, status, quoteExpired, chainVars>>

SyncApply(t) ==
  /\ pc[t] = "sync:apply" /\ ~Settling(t)
  /\ state' = SyncedState(t)
  /\ Goto(t, IF state' \in {"COMMITED", "SOFT_CLAIMED"}
               THEN IF SyncChanged(t) THEN "sync:lpChanged" ELSE "sync:lp"
               ELSE IF SyncChanged(t) THEN Collect(state') ELSE "idle")
  /\ status' = [status EXCEPT ![t] = "NOT_COMMITED"]
  /\ quoteExpired' = [quoteExpired EXCEPT ![t] = FALSE]
  /\ Frame /\ UNCHANGED <<recorded, told, chainVars>>

\* checkIntermediarySwapProcessed(false): PAID and REFUND_DATA are verified,
\* any other answer or an error leaves the state alone.
SyncAskLp(t) ==
  /\ pc[t] \in {"sync:lp", "sync:lpChanged"}
  /\ \/ lpPaid /\ Goto(t, "sync:paid")
     \/ lpRefund /\ Goto(t, "sync:refund")
     \/ Goto(t, IF pc[t] = "sync:lpChanged" THEN Collect(state) ELSE "idle")
  /\ Quiet /\ Frame /\ UNCHANGED <<status, quoteExpired, chainVars>>

\* Mutant: the LP's proof of payment is taken for a claim of the escrow.
SyncLpApplyClaimed(t) ==
  /\ \/ pc[t] = "sync:paid" /\ state' = "CLAIMED"
     \/ pc[t] = "sync:refund" /\ state' = "REFUNDABLE"
  /\ Goto(t, "sync:save")
  /\ Frame /\ UNCHANGED <<recorded, told, status, quoteExpired, chainVars>>

SyncLpApply(t) ==
  /\ \/ pc[t] = "sync:paid" /\ state' = "SOFT_CLAIMED"
     \/ pc[t] = "sync:refund" /\ state' = "REFUNDABLE"
  /\ Goto(t, "sync:save")
  /\ Frame /\ UNCHANGED <<recorded, told, status, quoteExpired, chainVars>>

\* The batch is written without emitting; what is written is the state of now.
SyncWrite(t) ==
  /\ \/ pc[t] = "sync:save" /\ recorded' = state
     \/ pc[t] = "sync:remove" /\ recorded' = "absent"
  /\ Goto(t, "idle")
  /\ Frame /\ UNCHANGED <<state, told, status, quoteExpired, chainVars>>

\* An error for any swap of the batch ends the whole call before it writes.
SyncFail(t) ==
  /\ phase = "run"
  /\ pc[t] \in {"sync:expiry", "sync:status", "sync:apply", "sync:claimed", "sync:expired",
                "sync:save", "sync:remove"}
  /\ Goto(t, "idle")
  /\ status' = [status EXCEPT ![t] = "NOT_COMMITED"]
  /\ quoteExpired' = [quoteExpired EXCEPT ![t] = FALSE]
  /\ Quiet /\ Frame /\ UNCHANGED chainVars

SyncNext(t) ==
  \/ SyncStart(t) \/ SyncExpiry(t) \/ SyncStatus(t) \/ SyncApply(t)
  \/ SyncSettling(t) \/ SyncSettled(t) \/ SyncAskLp(t) \/ SyncLpApply(t) \/ SyncWrite(t) \/ SyncFail(t)

-----------------------------------------------------------------------------
(* commit and waitTillCommited *)

\* Mutant: txsCommit does not await the save.
CommitUnsaved(t) ==
  /\ Called(t, "commit") /\ state = "CREATED"
  /\ initiated' = TRUE
  /\ recorded' = IF initiated THEN recorded ELSE "CREATED"
  /\ Goto(t, "commit:send")
  /\ UNCHANGED <<state, told, durable, phase, restarts, handling, status,
                 quoteExpired, chainVars>>

Commit(t) ==
  /\ Called(t, "commit") /\ state = "CREATED"
  /\ initiated' = TRUE
  /\ IF initiated THEN Goto(t, "commit:send") /\ UNCHANGED recorded
                  ELSE Goto(t, "commit:saving") /\ recorded' = "CREATED"
  /\ UNCHANGED <<state, told, durable, phase, restarts, handling, status,
                 quoteExpired, chainVars>>

\* Signing, sending and confirming; with the bare txsCommit the application
\* sends the transactions and nothing here waits for them.
CommitSend(t) ==
  /\ pc[t] = "commit:send"
  /\ commitSent' = TRUE
  /\ \E next \in {"commit:confirm", "idle"} : Goto(t, next)
  /\ Quiet /\ Frame
  /\ UNCHANGED <<status, quoteExpired, escrow, events, refundSent, lpVars, clocks>>

CommitConfirmed(t) ==
  /\ pc[t] = "commit:confirm"
  /\ escrow # "none"
  /\ IF state \in QuoteStates \cup {"QUOTE_EXPIRED"}
       THEN EmitFrom(t, "COMMITED", "idle")
       ELSE Goto(t, "idle") /\ Quiet
  /\ Frame /\ UNCHANGED <<status, quoteExpired, chainVars>>

\* Invalid signature, rejected transaction, or the abort signal.
CommitFail(t) ==
  /\ pc[t] \in {"commit:send", "commit:confirm"}
  /\ Goto(t, "idle")
  /\ Quiet /\ Frame /\ UNCHANGED <<status, quoteExpired, chainVars>>

WaitCommit(t) ==
  /\ Called(t, "waitCommit") /\ state \in QuoteStates
  /\ Goto(t, "wc:poll")
  /\ Quiet /\ Frame /\ UNCHANGED <<status, quoteExpired, chainVars>>

\* watchdogWaitTillCommited: the commit status is read first, ...
WatchCommitStatus(t) ==
  /\ pc[t] = "wc:poll"
  /\ \E answer \in StatusAnswers :
       Goto(t, CASE answer = "NOT_COMMITED" -> "wc:expiry"
                 [] answer = "EXPIRED" -> "wc:no"
                 [] OTHER -> "wc:yes")
  /\ Quiet /\ Frame /\ UNCHANGED <<status, quoteExpired, chainVars>>

\* ... the expiry of the authorization second.
WatchCommitExpiry(t) ==
  /\ pc[t] = "wc:expiry"
  /\ Goto(t, IF authExpired THEN "wc:no" ELSE "wc:poll")
  /\ Quiet /\ Frame /\ UNCHANGED <<status, quoteExpired, chainVars>>

WaitCommitDone(t) ==
  /\ \/ /\ pc[t] = "wc:no"
        /\ IF state \in QuoteStates THEN EmitFrom(t, "QUOTE_EXPIRED", "idle")
                                    ELSE Goto(t, "idle") /\ Quiet
     \/ /\ pc[t] = "wc:yes"
        /\ IF state \in QuoteStates \cup {"QUOTE_EXPIRED"}
             THEN EmitFrom(t, "COMMITED", "idle")
             ELSE Goto(t, "idle") /\ Quiet
  /\ Frame /\ UNCHANGED <<status, quoteExpired, chainVars>>

CommitNext(t) ==
  \/ Commit(t) \/ CommitSend(t) \/ CommitConfirmed(t) \/ CommitFail(t)
  \/ WaitCommit(t) \/ WatchCommitStatus(t) \/ WatchCommitExpiry(t) \/ WaitCommitDone(t)

-----------------------------------------------------------------------------
(* waitForPayment *)

\* A swap that is claimed already is reported as paid at once.
Pay(t) ==
  /\ Called(t, "pay")
  /\ \/ state = "CLAIMED" /\ told' = told \cup {"paid"} /\ UNCHANGED pc
     \/ state \in {"COMMITED", "SOFT_CLAIMED"} /\ Goto(t, "pay:wait") /\ UNCHANGED told
  /\ UNCHANGED <<state, recorded>>
  /\ Frame /\ UNCHANGED <<status, quoteExpired, chainVars>>

\* An answer of the LP that is verified next; giving up (timeout, abort, LP
\* error) leaves the poll that is still under way behind.
PayPoll(t) ==
  /\ pc[t] = "pay:wait"
  /\ \/ lpPaid /\ Goto(t, "pay:paid")
     \/ lpRefund /\ Goto(t, "pay:refund")
     \/ Goto(t, "pay:left")
  /\ Quiet /\ Frame /\ UNCHANGED <<status, quoteExpired, chainVars>>

\* waitTillIntermediarySwapProcessed with a valid proof of payment.
SoftClaim(t) ==
  IF state \in {"COMMITED", "REFUNDABLE"}
    THEN /\ state' = "SOFT_CLAIMED"
         /\ recorded' = Persisted("SOFT_CLAIMED")
         /\ pc' = [Waked("SOFT_CLAIMED") EXCEPT ![t] = "idle"]
    ELSE Goto(t, "idle") /\ UNCHANGED <<state, recorded>>

PayPaid(t) ==
  /\ pc[t] = "pay:paid"
  /\ SoftClaim(t)
  /\ told' = told \cup {"paid"}
  /\ Frame /\ UNCHANGED <<status, quoteExpired, chainVars>>

\* A valid refund signature: REFUNDABLE, whatever the state is by now.
PayRefund(t) ==
  /\ pc[t] = "pay:refund"
  /\ state' = "REFUNDABLE"
  /\ recorded' = Persisted("REFUNDABLE")
  /\ pc' = [Waked("REFUNDABLE") EXCEPT ![t] = "idle"]
  /\ told' = told \cup {"refundable"}
  /\ Frame /\ UNCHANGED <<status, quoteExpired, chainVars>>

\* The poll that lost the race is not cancelled while it awaits the LP.
PayLeft(t) ==
  /\ pc[t] = "pay:left"
  /\ \/ lpPaid /\ SoftClaim(t)
     \/ Goto(t, "idle") /\ UNCHANGED <<state, recorded>>
  /\ UNCHANGED told
  /\ Frame /\ UNCHANGED <<status, quoteExpired, chainVars>>

PayNext(t) == Pay(t) \/ PayPoll(t) \/ PayPaid(t) \/ PayRefund(t) \/ PayLeft(t)

-----------------------------------------------------------------------------
(* refund and waitTillRefunded *)

Refund(t) ==
  /\ Called(t, "refund") /\ state = "REFUNDABLE"
  /\ Goto(t, "rf:kind")
  /\ Quiet /\ Frame /\ UNCHANGED <<status, quoteExpired, chainVars>>

\* txsRefund: unilateral once the escrow timed out, else with the LP's
\* authorization; then the transaction is sent.
RefundSend(t) ==
  /\ pc[t] = "rf:kind"
  /\ \/ escrowExpired /\ refundSent' = refundSent \cup {"timeout"}
     \/ ~escrowExpired /\ lpRefund /\ refundSent' = refundSent \cup {"coop"}
  /\ Goto(t, "rf:confirm")
  /\ Quiet /\ Frame
  /\ UNCHANGED <<status, quoteExpired, escrow, events, commitSent, lpVars, clocks>>

RefundConfirmed(t) ==
  /\ pc[t] = "rf:confirm"
  /\ escrow = "refunded"
  /\ IF state \in {"COMMITED", "REFUNDABLE", "SOFT_CLAIMED"}
       THEN EmitFrom(t, "REFUNDED", "idle")
       ELSE Goto(t, "idle") /\ Quiet
  /\ Frame /\ UNCHANGED <<status, quoteExpired, chainVars>>

RefundFail(t) ==
  /\ pc[t] \in {"rf:kind", "rf:confirm"}
  /\ Goto(t, "idle")
  /\ Quiet /\ Frame /\ UNCHANGED <<status, quoteExpired, chainVars>>

WaitRefundAccepts == state \in {"COMMITED", "SOFT_CLAIMED", "REFUNDED"}

\* In REFUNDED it returns at once.
WaitRefund(t) ==
  /\ Called(t, "waitRefund") /\ WaitRefundAccepts /\ state # "REFUNDED"
  /\ Goto(t, "wr:poll")
  /\ Quiet /\ Frame /\ UNCHANGED <<status, quoteExpired, chainVars>>

\* watchdogWaitTillResult; an EXPIRED answer ends the wait and changes nothing.
WatchResult(t) ==
  /\ pc[t] = "wr:poll"
  /\ \E answer \in StatusAnswers :
       Goto(t, CASE answer \in {"COMMITED", "REFUNDABLE"} -> "wr:poll"
                 [] answer = "PAID" -> "wr:paid"
                 [] answer = "NOT_COMMITED" -> "wr:returned"
                 [] answer = "EXPIRED" -> "idle")
  /\ Quiet /\ Frame /\ UNCHANGED <<status, quoteExpired, chainVars>>

WaitRefundDone(t) ==
  /\ \/ pc[t] = "wr:paid" /\ EmitFrom(t, "CLAIMED", "idle")
     \/ pc[t] = "wr:returned" /\ EmitFrom(t, "REFUNDED", "idle")
  /\ Frame /\ UNCHANGED <<status, quoteExpired, chainVars>>

RefundNext(t) ==
  \/ Refund(t) \/ RefundSend(t) \/ RefundConfirmed(t) \/ RefundFail(t)
  \/ WaitRefund(t) \/ WatchResult(t) \/ WaitRefundDone(t)

-----------------------------------------------------------------------------
(* The event listener: one event at a time, in order *)

\* While wrapper.init() runs, events wait in its queue.
NextEvent(e) ==
  /\ phase = "run" /\ handling = "nothing"
  /\ events # <<>> /\ Head(events) = e
  /\ events' = Tail(events)
  /\ UNCHANGED <<escrow, sentVars, lpVars, clocks>>

\* processEvent: save and emit if the handler changed the swap; a transaction
\* id it did not know yet counts as a change of its own.
ProcessEvent(s) ==
  \/ SaveAndEmit(s) /\ pc' = Waked(s)
  \/ s = state /\ Quiet /\ UNCHANGED pc

ListenerFrame == UNCHANGED <<initiated, durable, phase, restarts, status, quoteExpired>>

EventInitialize ==
  /\ NextEvent("init") /\ recorded # "absent"
  /\ ProcessEvent(IF state \in QuoteStates THEN "COMMITED" ELSE state)
  /\ ListenerFrame /\ UNCHANGED handling

\* The claim handler awaits the payment result before it sets the state.
EventClaim ==
  /\ NextEvent("claim") /\ recorded # "absent"
  /\ IF state \in {"REFUNDED", "CLAIMED"}
       THEN ProcessEvent(state) /\ UNCHANGED handling
       ELSE handling' = "claim" /\ Quiet /\ UNCHANGED pc
  /\ ListenerFrame

EventClaimDone ==
  /\ handling = "claim"
  /\ handling' = "nothing"
  /\ SaveAndEmit("CLAIMED") /\ pc' = Waked("CLAIMED")
  /\ ListenerFrame /\ UNCHANGED chainVars

EventRefund ==
  /\ NextEvent("refund") /\ recorded # "absent"
  /\ ProcessEvent(IF state \in {"CLAIMED", "REFUNDED"} THEN state ELSE "REFUNDED")
  /\ ListenerFrame /\ UNCHANGED handling

\* Events of an escrow no stored swap knows are skipped.
EventUnknown ==
  /\ \E e \in ChainEvents : NextEvent(e)
  /\ recorded = "absent"
  /\ Quiet /\ ListenerFrame /\ UNCHANGED <<handling, pc>>

ListenerNext ==
  EventInitialize \/ EventClaim \/ EventClaimDone \/ EventRefund \/ EventUnknown

-----------------------------------------------------------------------------
(* Storage writes, crashes and restarts *)

Flush ==
  /\ durable # recorded \/ \E t \in Tasks : pc[t] = "commit:saving"
  /\ durable' = recorded
  /\ pc' = [t \in Tasks |-> IF pc[t] = "commit:saving" THEN "commit:send" ELSE pc[t]]
  /\ UNCHANGED <<state, initiated, recorded, phase, restarts, handling, status,
                 quoteExpired, told, chainVars>>

Crash ==
  /\ phase # "down"
  /\ restarts < MaxRestarts
  /\ phase' = "down"
  /\ restarts' = restarts + 1
  /\ recorded' = durable
  /\ handling' = "nothing"
  /\ pc' = [t \in Tasks |-> "idle"]
  /\ status' = [t \in Tasks |-> "NOT_COMMITED"]
  /\ quoteExpired' = [t \in Tasks |-> FALSE]
  /\ UNCHANGED <<state, initiated, durable, told, chainVars>>

\* The record is revived; events of the downtime may be replayed or lost.
\* Only swaps in a pending state are synchronized by wrapper.init().
Restart ==
  /\ phase = "down" /\ durable # "absent"
  /\ state' = durable
  /\ initiated' = TRUE
  /\ phase' = IF durable \in PendingStates THEN "init" ELSE "run"
  /\ events' \in {events, <<>>}
  /\ UNCHANGED <<recorded, durable, restarts, handling, pc, status, quoteExpired,
                 told, escrow, sentVars, lpVars, clocks>>

InitDone ==
  /\ phase = "syncing"
  /\ \A t \in Tasks : pc[t] = "idle"
  /\ phase' = "run"
  /\ UNCHANGED <<state, initiated, recorded, durable, restarts, handling, pc,
                 status, quoteExpired, told, chainVars>>

StorageNext == Flush \/ Crash \/ Restart \/ InitDone

-----------------------------------------------------------------------------
Environment == ChainNext /\ UNCHANGED sdkVars

Next ==
  \/ Environment
  \/ \E t \in Timers : TickNext(t)
  \/ \E t \in Callers :
       SyncNext(t) \/ CommitNext(t) \/ PayNext(t) \/ RefundNext(t)
  \/ ListenerNext
  \/ StorageNext

Spec == Init /\ [][Next]_vars

(***************************************************************************)
(* Fairness.  The tick interval keeps firing and its contract reads are    *)
(* eventually answered; wrapper.init() runs after a restart and its reads  *)
(* are answered; the chain client hands over every event; queued storage   *)
(* writes complete.  Nothing is assumed of the application, of the LP, of  *)
(* transactions being mined, or of time passing.                           *)
(***************************************************************************)
SyncAfterRestart(t) == phase \in {"init", "syncing"} /\ SyncNext(t)

Fairness ==
  /\ \A t \in Timers : WF_vars(TickNext(t))
  /\ WF_vars(\E t \in Callers : SyncAfterRestart(t))
  /\ WF_vars(ListenerNext)
  /\ WF_vars(Flush)
  /\ WF_vars(Restart)
  /\ WF_vars(InitDone)

FairSpec == Spec /\ Fairness

-----------------------------------------------------------------------------
(* Properties *)

\* A swap is shown as CLAIMED only when the LP has really claimed the escrow,
\* whichever of the event handler, the sync and waitTillRefunded says so.
ClaimedIsPaid == state = "CLAIMED" => escrow = "paid"

\* A swap is shown as REFUNDED only when the escrow was really returned: the
\* sync and the watchdog infer it from an escrow that is not there any more.
RefundedIsReturned == state = "REFUNDED" => escrow = "refunded"

\* As long as the user's funds are locked, a crash leaves a record that
\* wrapper.init() picks up again: txsCommit saves the swap before it hands out
\* transactions, and no call removes or finishes the record too early.
LockedIsTracked == escrow = "open" => durable \in PendingStates

\* A quote is given up for good, and its record removed, only when no funds
\* can be behind it.
ExpiredQuoteHoldsNothing == state = "QUOTE_EXPIRED" => escrow \in {"none", "refunded"}

\* A swap is offered for a refund only when an escrow was opened for it that
\* timed out, or for which the LP signed a refund, however old the answers are
\* that made it so: while the escrow stays open, refund() goes through.  It may
\* be settled by then: a late tick (IToBTCSwap.ts:843) and waitForPayment (607)
\* set REFUNDABLE over CLAIMED and REFUNDED too; RestartRepairs says when a
\* claimed swap is put right again.
RefundableCanRefund ==
  state = "REFUNDABLE" => escrow # "none" /\ (escrowExpired \/ lpRefund)

\* waitForPayment returns true only when the LP has paid, and false only when
\* the LP has signed a refund, whichever side of its race wins.
ToldTheTruth ==
  /\ "paid" \in told => lpPaid
  /\ "refundable" \in told => lpRefund

\* Funds whose escrow timed out are eventually offered for a refund, unless
\* the escrow is settled first; crashes and lost events included.
TimedOutIsOffered ==
  (escrow = "open" /\ escrowExpired)
     ~> (escrow # "open" \/ (phase = "run" /\ state = "REFUNDABLE"))

\* A claim is shown to the user at some time, even if its event is lost.
ClaimIsSeen == <>(escrow = "paid") => <>(phase = "run" /\ state = "CLAIMED")

\* After a restart the sync of wrapper.init() puts right whatever state was
\* stored for a swap whose escrow is claimed.
RestartRepairs ==
  (phase = "init" /\ escrow = "paid")
     ~> (phase = "down" \/ (phase = "run" /\ state = "CLAIMED"))
=============================================================================
