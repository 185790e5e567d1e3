---------------------------- MODULE ReceiveSwap ----------------------------
(***************************************************************************)
(* What the escrow-based receive swaps (bitcoin -> smart chain) share: the *)
(* escrow on the smart chain as src/ sees it, the swap object with its     *)
(* record in the unified storage, and the life of the process around them. *)
(* FromBTCLNSwap, FromBTCLNAutoSwap and FromBTCSwap extend this module,    *)
(* each with its own counterparty and its own calls.                       *)
(*                                                                         *)
(* As in ToBTCSwap, a call is a sequence of steps, one per stretch of code *)
(* between two awaits; pc[t] is the await that call t is parked at and     *)
(* noted[t] what it remembers of earlier answers.                          *)
(***************************************************************************)
EXTENDS Sequences, Naturals

CONSTANTS
  Timers,       \* slots for ticks
  Callers,      \* slots for calls the application makes
  Starter,      \* the slot in which wrapper.init() synchronises the swap
  Applications, \* applications: sets of <<slot, call>>, the calls made from each slot
  Crashing,     \* the applications whose process may crash
  MaxRestarts   \* bound on crashes

ASSUME ReceiveSlotsAssumption    == Timers \cap Callers = {} /\ Starter \in Callers
ASSUME ReceiveRestartsAssumption == MaxRestarts \in Nat /\ Crashing \subseteq Applications

VARIABLES
  escrow,    \* the contract's view: "none", "open", "paid" or "refunded"
  events,    \* contract events not yet handed to the SDK's listener
  passed,    \* the deadlines that have passed
  sent,      \* the kinds of transactions broadcast on behalf of the user
  state,     \* swap.state
  learnt,    \* what the swap learnt after its creation: swap.data, or swap.txId
  initiated, \* swap.initiated
  recorded,  \* the record in storage once every queued write completes
  durable,   \* the record as a crash would leave it
  phase,     \* "run", "down", "init" or "syncing" (inside wrapper.init())
  restarts, pc, noted,
  app        \* the application that runs, one of Applications

worldVars  == <<escrow, events, passed, sent>>
recordVars == <<state, learnt, initiated, recorded>>
lifeVars   == <<durable, phase, restarts>>
receiveVars == <<worldVars, recordVars, lifeVars, pc, noted, app>>

Tasks == Timers \cup Callers

ReceiveStates == {"FAILED", "QUOTE_EXPIRED", "QUOTE_SOFT_EXPIRED", "EXPIRED", "PR_CREATED",
                  "PR_PAID", "CLAIM_COMMITED", "BTC_TX_CONFIRMED", "CLAIM_CLAIMED"}
QuoteStates == {"PR_CREATED", "QUOTE_SOFT_EXPIRED"}
Absent      == [state |-> "absent", learnt |-> "none"]
Nothing     == [status |-> "NOT_COMMITED", expired |-> FALSE, changed |-> FALSE, terms |-> "none"]

\* Records of expired quotes are removed, never written.
Records == [state : ReceiveStates \ {"QUOTE_EXPIRED"}, learnt : {"none", "good", "bad"}] \cup {Absent}
Notes   == [status : {"NOT_COMMITED", "COMMITED", "REFUNDABLE", "PAID", "EXPIRED"},
            expired : BOOLEAN, changed : BOOLEAN, terms : {"none", "good", "bad"}]

ReceiveTypeOK ==
  /\ escrow \in {"none", "open", "paid", "refunded"}
  /\ events \in Seq({"init", "claim", "refund"})
  /\ passed \subseteq {"soft", "quote", "sig", "auth", "window", "send", "escrow"}
  /\ sent \subseteq {"commit", "claim", "secret"}
  /\ state \in ReceiveStates
  /\ learnt \in {"none", "good", "bad"}
  /\ recorded \in Records /\ durable \in Records
  /\ initiated \in BOOLEAN
  /\ phase \in {"run", "down", "init", "syncing"}
  /\ restarts \in 0..MaxRestarts
  /\ app \in Applications
  /\ noted \in [Tasks -> Notes]

\* A quote as create() returns it: in memory, not initiated, not stored.
ReceiveInit ==
  /\ escrow = "none" /\ events = <<>> /\ passed = {} /\ sent = {}
  /\ state = "PR_CREATED" /\ learnt = "none" /\ initiated = FALSE
  /\ recorded = Absent /\ durable = Absent
  /\ phase = "run" /\ restarts = 0
  /\ pc = [t \in Tasks |-> "idle"]
  /\ noted = [t \in Tasks |-> Nothing]
  /\ app \in Applications

-----------------------------------------------------------------------------
(* The escrow contract *)

\* The answers getCommitStatus may give the claimer about an escrow in
\* condition e.  A timed out escrow may be reported EXPIRED while it is still
\* there: the SDK treats a refund transaction as optional on that answer.
StatusOf(e) ==
  CASE e = "paid"     -> {"PAID"}
    [] e = "open"     -> IF "escrow" \in passed THEN {"EXPIRED", "REFUNDABLE"} ELSE {"COMMITED"}
    [] e = "none"     -> IF "escrow" \in passed THEN {"EXPIRED"} ELSE {"NOT_COMMITED"}
    [] e = "refunded" -> {"NOT_COMMITED", "EXPIRED"}

EscrowStep(from, to, event) ==
  /\ escrow = from /\ escrow' = to
  /\ events' = Append(events, event)
  /\ UNCHANGED <<passed, sent>>

\* The LP takes a timed out escrow back.
ChainRefund == "escrow" \in passed /\ EscrowStep("open", "refunded", "refund")

\* Deadline d passes, after those in `earlier`.
Expire(d, earlier) ==
  /\ d \notin passed /\ earlier \subseteq passed
  /\ passed' = passed \cup {d}
  /\ UNCHANGED <<escrow, events, sent>>

-----------------------------------------------------------------------------
(* Steps of a call *)

Running(t) == phase = "run" /\ pc[t] = "idle"
Called(t, call) == <<t, call>> \in app /\ Running(t)

\* The application makes one of these calls.
Makes(calls) == \E call \in app : call[2] \in calls

Goto(t, next) == pc' = [pc EXCEPT ![t] = next]

\* Mutant: expired quotes are written like any other.
PersistedAlways(s, known, begun) ==
  IF ~begun THEN recorded ELSE [state |-> s, learnt |-> known]

\* The record _save leaves: quotes that were never initiated are kept in memory
\* only, expired quotes are removed.
Persisted(s, known, begun) ==
  IF ~begun THEN recorded
  ELSE IF s = "QUOTE_EXPIRED" THEN Absent
  ELSE [state |-> s, learnt |-> known]

\* _saveAndEmit with state s, knowing `known` and initiated or not.
SaveWith(s, known, begun) ==
  /\ state' = s /\ learnt' = known /\ initiated' = begun
  /\ recorded' = Persisted(s, known, begun)

SaveAs(s) == SaveWith(s, learnt, initiated)

Still == UNCHANGED recordVars
Alive == UNCHANGED lifeVars

-----------------------------------------------------------------------------
(* Contract events, one at a time and in order *)

NextEvent(e) ==
  /\ phase = "run" /\ events # <<>> /\ Head(events) = e
  /\ events' = Tail(events)
  /\ UNCHANGED <<escrow, passed, sent>>

-----------------------------------------------------------------------------
(* Storage writes, crashes and restarts *)

\* Calls that await a save go on when the queued writes complete.
Resumed(label) ==
  CASE label = "saving" -> "idle"
    [] label = "commit:saving" -> "commit:send"
    [] OTHER -> label

Flush ==
  /\ durable # recorded \/ \E t \in Tasks : Resumed(pc[t]) # pc[t]
  /\ durable' = recorded
  /\ pc' = [t \in Tasks |-> Resumed(pc[t])]
  /\ Still /\ UNCHANGED <<phase, restarts, noted, worldVars>>

Crash ==
  /\ phase # "down" /\ app \in Crashing /\ restarts < MaxRestarts
  /\ phase' = "down" /\ restarts' = restarts + 1
  /\ recorded' = durable
  /\ pc' = [t \in Tasks |-> "idle"]
  /\ noted' = [t \in Tasks |-> Nothing]
  /\ UNCHANGED <<state, learnt, initiated, durable, worldVars>>

\* The record is revived; events of the downtime may be replayed or lost.
Restart(pending) ==
  /\ phase = "down" /\ durable # Absent
  /\ state' = durable.state /\ learnt' = durable.learnt /\ initiated' = TRUE
  /\ phase' = IF durable.state \in pending THEN "init" ELSE "run"
  /\ events' \in {events, <<>>}
  /\ UNCHANGED <<recorded, durable, restarts, pc, noted, escrow, passed, sent>>

InitDone ==
  /\ phase = "syncing"
  /\ \A t \in Tasks : pc[t] = "idle"
  /\ phase' = "run"
  /\ Still /\ UNCHANGED <<durable, restarts, pc, noted, worldVars>>
=============================================================================
