---------------------------- MODULE TrustedSwap ----------------------------
(***************************************************************************)
(* What the trusted swaps for gas share: the LP's server is asked about    *)
(* the swap again and again, and its answers are all that moves it.        *)
(* OnchainForGasSwap and LnForGasSwap extend this module.                  *)
(*                                                                         *)
(* As in the escrow swaps, a call is a sequence of steps between awaits;   *)
(* doing[t] is the call in slot t, pc[t] the await it is parked at and     *)
(* noted[t] the LP's answer, or what a sync has found so far.              *)
(***************************************************************************)
EXTENDS Naturals

CONSTANTS
  Callers,      \* slots for calls the application makes
  Starter,      \* the slot in which wrapper.init() synchronises the swap
  Applications, \* applications: sets of <<slot, call>>, the calls made from each slot
  MaxRestarts   \* bound on crashes

ASSUME TrustedSlotsAssumption    == Starter \in Callers
ASSUME TrustedRestartsAssumption == MaxRestarts \in Nat

VARIABLES
  lp,        \* what the LP's server answers about the swap
  payout,    \* its payout on the smart chain: "none", "pending" or "success"
  lost,      \* a request got no answer, retries included
  state,     \* swap.state
  details,   \* the other fields of the swap that calls change
  initiated, \* swap.initiated
  recorded,  \* the record in storage once every queued write completes
  durable,   \* the record as a crash would leave it
  phase,     \* "run", "down", "init" or "syncing" (inside wrapper.init())
  restarts, pc, doing, noted,
  app        \* the application that runs, one of Applications

lpVars     == <<lp, payout>>
recordVars == <<state, details, initiated, recorded>>
lifeVars   == <<durable, phase, restarts>>
callVars   == <<pc, doing, noted>>
trustedVars == <<lpVars, lost, recordVars, lifeVars, callVars, app>>

PendingStates == {"PR_CREATED"}
Absent  == [state |-> "absent"]
Current == [state |-> state, details |-> details]

\* A quote as create() returns it: its _save() writes nothing.
TrustedInit(fields) ==
  /\ lp = "await" /\ payout = "none" /\ lost = FALSE
  /\ state = "PR_CREATED" /\ details = fields /\ initiated = FALSE
  /\ recorded = Absent /\ durable = Absent
  /\ phase = "run" /\ restarts = 0
  /\ pc = [t \in Callers |-> "idle"]
  /\ doing = [t \in Callers |-> "nothing"]
  /\ noted = [t \in Callers |-> "same"]
  /\ app \in Applications

-----------------------------------------------------------------------------
(* The LP and its payout *)

LpMoves(from, to) == lp = from /\ lp' = to /\ UNCHANGED payout

LpPays == lp = "pending" /\ lp' = "sent" /\ payout' = "pending"

\* The LP may report PAID before the node that the SDK asks knows the payout.
LpReports == LpMoves("sent", "paid")

PayoutLands == payout = "pending" /\ payout' = "success" /\ UNCHANGED lp

-----------------------------------------------------------------------------
(* Steps of a call *)

Idle(t) == pc[t] = "idle"

\* Call t goes on to its next await, or ends.
Goto(t, next) ==
  /\ pc' = [pc EXCEPT ![t] = next]
  /\ doing' = IF next = "idle" THEN [doing EXCEPT ![t] = "nothing"] ELSE doing

Begin(t, call, next) == pc' = [pc EXCEPT ![t] = next] /\ doing' = [doing EXCEPT ![t] = call]

Alive == UNCHANGED <<lifeVars, lpVars, lost>>

Called(t, call) == <<t, call>> \in app /\ phase = "run" /\ Idle(t)

\* Expired quotes are removed, quotes that were never initiated not written.
Persisted(s, fields, begun) ==
  IF ~begun THEN recorded
  ELSE IF s = "EXPIRED" THEN Absent ELSE [state |-> s, details |-> fields]

\* waitForBitcoinTransaction() and waitForPayment() alone make the swap initiated.
WaitStart(t) ==
  /\ Called(t, "wait") /\ state = "PR_CREATED"
  /\ initiated' = TRUE
  /\ recorded' = IF initiated THEN recorded ELSE Current
  /\ Begin(t, "wait", IF initiated THEN "loop" ELSE "saving")
  /\ UNCHANGED <<state, details, noted>> /\ Alive

\* The loop of a wait goes on in the states of `from`, and ends in any other.
Poll(t, call, from) ==
  /\ pc[t] = "loop" /\ doing[t] = call
  /\ Goto(t, IF state \in from THEN "asked" ELSE "idle")
  /\ UNCHANGED <<recordVars, noted>> /\ Alive

Answered(t) ==
  /\ pc[t] = "asked"
  /\ noted' = [noted EXCEPT ![t] = lp]
  /\ Goto(t, "answered")
  /\ UNCHANGED recordVars /\ Alive

\* The LP, retries included, or the node that is asked for the payout does not
\* answer: a wait throws, a sync logs the error and goes on.
Unanswered(t) ==
  /\ pc[t] \in {"asked", "status"} /\ ~lost /\ lost' = TRUE
  /\ noted' = [noted EXCEPT ![t] = "same"]
  /\ Goto(t, IF doing[t] = "sync" THEN "batch" ELSE "idle")
  /\ UNCHANGED <<recordVars, lifeVars, lpVars>>

\* An answer that changes nothing.  A sync of either kind of swap tells
\* changed ones by what the answer returned.
Keep(t) ==
  /\ noted' = [noted EXCEPT ![t] = "same"]
  /\ Goto(t, IF doing[t] = "sync" THEN "batch" ELSE "loop")
  /\ UNCHANGED recordVars /\ Alive

\* An answer that changes the swap: saved and emitted at once, except by a
\* sync, which is told of a change or not.
Become(t, s, fields, changed) ==
  /\ state' = s /\ details' = fields
  /\ noted' = [noted EXCEPT ![t] = IF changed /\ doing[t] = "sync" THEN "changed" ELSE "same"]
  /\ recorded' = IF doing[t] = "sync" THEN recorded ELSE Persisted(s, fields, initiated)
  /\ Goto(t, IF doing[t] = "sync" THEN "batch" ELSE "saving")
  /\ UNCHANGED initiated /\ Alive

-----------------------------------------------------------------------------
(* checkPastSwaps, as run by wrapper.init() and by Swapper._syncSwaps *)

SyncStart(t) ==
  /\ \/ <<t, "sync">> \in app /\ phase = "run" /\ UNCHANGED phase
     \/ t = Starter /\ phase = "init" /\ phase' = "syncing"
  /\ Idle(t) /\ recorded # Absent /\ recorded.state \in PendingStates
  /\ noted' = [noted EXCEPT ![t] = "same"]
  /\ Begin(t, "sync", IF state = "PR_CREATED" THEN "asked" ELSE "batch")
  /\ UNCHANGED <<recordVars, durable, restarts, lpVars, lost>>

\* The batch is written when all of it has been looked at.
SyncEnd(t) ==
  /\ pc[t] = "batch"
  /\ recorded' = IF state = "EXPIRED" THEN Absent
                 ELSE IF noted[t] = "changed" THEN Current ELSE recorded
  /\ noted' = [noted EXCEPT ![t] = "same"]
  /\ Goto(t, "idle")
  /\ UNCHANGED <<state, details, initiated>> /\ Alive

-----------------------------------------------------------------------------
(* Storage writes, crashes and restarts *)

Flush ==
  /\ durable # recorded \/ \E t \in Callers : pc[t] = "saving"
  /\ durable' = recorded
  /\ pc' = [t \in Callers |-> IF pc[t] = "saving" THEN "loop" ELSE pc[t]]
  /\ UNCHANGED <<recordVars, phase, restarts, doing, noted, lpVars, lost>>

Crash ==
  /\ phase # "down" /\ restarts < MaxRestarts
  /\ phase' = "down" /\ restarts' = restarts + 1
  /\ recorded' = durable
  /\ pc' = [t \in Callers |-> "idle"]
  /\ doing' = [t \in Callers |-> "nothing"]
  /\ noted' = [t \in Callers |-> "same"]
  /\ UNCHANGED <<state, details, initiated, durable, lpVars, lost>>

Restart ==
  /\ phase = "down" /\ durable # Absent
  /\ state' = durable.state /\ details' = durable.details /\ initiated' = TRUE
  /\ phase' = IF durable.state \in PendingStates THEN "init" ELSE "run"
  /\ UNCHANGED <<recorded, durable, restarts, callVars, lpVars, lost>>

InitDone ==
  /\ phase = "syncing" /\ Idle(Starter) /\ phase' = "run"
  /\ UNCHANGED <<recordVars, durable, restarts, callVars, lpVars, lost>>

StorageNext == Flush \/ Crash \/ Restart \/ InitDone

\* A call waits for the LP, or wrapper.init() is about to ask it.
Asking ==
  \/ phase = "init"
  \/ \E t \in Callers :
       doing[t] \in {"wait", "refund"} /\ pc[t] \in {"saving", "loop", "asked", "answered", "status"}
=============================================================================
