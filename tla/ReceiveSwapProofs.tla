------------------------- MODULE ReceiveSwapProofs -------------------------
(***************************************************************************)
(* Lemmas about the state the receive swaps share, cited by the proofs of  *)
(* each of them.                                                           *)
(***************************************************************************)
EXTENDS ReceiveSwap, TLAPS

USE ReceiveSlotsAssumption, ReceiveRestartsAssumption

-----------------------------------------------------------------------------
(* Types *)

\* An expired quote leaves no record, any other state one that can be revived.
LEMMA PersistedType ==
  ASSUME ReceiveTypeOK, NEW s \in ReceiveStates, NEW known \in {"none", "good", "bad"},
         NEW begun \in BOOLEAN
  PROVE  Persisted(s, known, begun) \in Records
BY DEF ReceiveTypeOK, Persisted, Records

\* _saveAndEmit leaves the swap and its record well-typed.
LEMMA SaveWithType ==
  ASSUME ReceiveTypeOK, NEW s \in ReceiveStates, NEW known \in {"none", "good", "bad"},
         NEW begun \in BOOLEAN, SaveWith(s, known, begun), Alive, UNCHANGED <<worldVars, app>>,
         noted' \in [Tasks -> Notes]
  PROVE  ReceiveTypeOK'
<1>1. recorded' \in Records
  BY PersistedType DEF SaveWith
<1> QED
  BY <1>1 DEF SaveWith, Alive, lifeVars, worldVars, ReceiveTypeOK

\* A step of the world that no swap has a part in.
LEMMA WorldType ==
  ASSUME ReceiveTypeOK, Still, Alive, UNCHANGED <<noted, app>>,
         escrow' \in {"none", "open", "paid", "refunded"},
         events' \in Seq({"init", "claim", "refund"}),
         passed' \subseteq {"soft", "quote", "sig", "auth", "window", "send", "escrow"},
         sent' \subseteq {"commit", "claim", "secret"}
  PROVE  ReceiveTypeOK'
BY DEF Still, Alive, recordVars, lifeVars, ReceiveTypeOK

\* The contract's steps keep its state and its events well-typed.
LEMMA EscrowStepType ==
  ASSUME ReceiveTypeOK, NEW from, NEW to \in {"none", "open", "paid", "refunded"},
         NEW e \in {"init", "claim", "refund"}, EscrowStep(from, to, e),
         Still, Alive, UNCHANGED <<noted, app>>
  PROVE  ReceiveTypeOK'
<1>1. events' \in Seq({"init", "claim", "refund"})
  BY DEF ReceiveTypeOK, EscrowStep
<1> QED
  BY <1>1, WorldType DEF EscrowStep, ReceiveTypeOK

\* Deadlines only ever pass.
LEMMA ExpireType ==
  ASSUME ReceiveTypeOK, NEW d \in {"soft", "quote", "sig", "auth", "window", "send", "escrow"},
         NEW earlier, Expire(d, earlier), Still, Alive, UNCHANGED <<noted, app>>
  PROVE  ReceiveTypeOK'
BY WorldType DEF Expire, ReceiveTypeOK

\* Taking the next event leaves a sequence of events.
LEMMA NextEventType ==
  ASSUME ReceiveTypeOK, NEW e, NextEvent(e)
  PROVE  events' \in Seq({"init", "claim", "refund"})
<1>1. events \in Seq({"init", "claim", "refund"}) /\ events # <<>>
  BY DEF NextEvent, ReceiveTypeOK
<1> QED
  BY <1>1 DEF NextEvent

\* Storage writes, crashes and restarts keep everything well-typed, the await
\* each call is parked at included.
LEMMA StorageType ==
  ASSUME ReceiveTypeOK, NEW Labels, {"idle", "commit:send"} \subseteq Labels,
         pc \in [Tasks -> Labels], NEW pending,
         Flush \/ Crash \/ Restart(pending) \/ InitDone, UNCHANGED app
  PROVE  ReceiveTypeOK' /\ pc' \in [Tasks -> Labels]
<1>1. CASE Flush
  <2>1. \A t \in Tasks : Resumed(pc[t]) \in Labels
    BY DEF Resumed
  <2> QED
    BY <1>1, <2>1 DEF Flush, Still, recordVars, worldVars, ReceiveTypeOK
<1>2. CASE Crash
  <2>1. noted' \in [Tasks -> Notes]
    BY <1>2 DEF Crash, Notes, Nothing
  <2>2. restarts' \in 0..MaxRestarts
    BY <1>2 DEF Crash, ReceiveTypeOK
  <2>3. pc' \in [Tasks -> Labels]
    BY <1>2 DEF Crash
  <2> QED
    BY <1>2, <2>1, <2>2, <2>3 DEF Crash, worldVars, ReceiveTypeOK
<1>3. CASE Restart(pending)
  <2>1. durable.state \in ReceiveStates /\ durable.learnt \in {"none", "good", "bad"}
    BY <1>3 DEF Restart, Records, ReceiveTypeOK
  <2>2. events' \in Seq({"init", "claim", "refund"})
    <3>1. <<>> \in Seq({"init", "claim", "refund"})
      OBVIOUS
    <3> QED
      BY <1>3, <3>1 DEF Restart, ReceiveTypeOK
  <2>3. phase' \in {"run", "init"}
    BY <1>3 DEF Restart
  <2> QED
    BY <1>3, <2>1, <2>2, <2>3 DEF Restart, ReceiveTypeOK
<1>4. CASE InitDone
  BY <1>4 DEF InitDone, Still, recordVars, worldVars, ReceiveTypeOK
<1> QED
  BY <1>1, <1>2, <1>3, <1>4

-----------------------------------------------------------------------------
(* Events *)

\* The events the listener has yet to be handed.
Announced == {events[i] : i \in 1..Len(events)}

\* A step of the contract announces its event and no other.
LEMMA StepAnnounced ==
  ASSUME ReceiveTypeOK, NEW from, NEW to, NEW e, EscrowStep(from, to, e)
  PROVE  Announced' \subseteq Announced \cup {e}
<1>1. events \in Seq({"init", "claim", "refund"}) /\ events' = Append(events, e)
  BY DEF ReceiveTypeOK, EscrowStep
<1>2. Len(events) \in Nat /\ Len(events') = Len(events) + 1
  BY <1>1
<1>3. ASSUME NEW i \in 1..Len(events') PROVE events'[i] \in Announced \cup {e}
  <2>1. CASE i = Len(events')
    BY <1>1, <1>2, <2>1
  <2>2. CASE i # Len(events')
    BY <1>1, <1>2, <2>2 DEF Announced
  <2> QED BY <2>1, <2>2
<1> QED
  BY <1>3 DEF Announced

\* The event the listener takes had been announced, and those left had too.
LEMMA NextAnnounced ==
  ASSUME ReceiveTypeOK, NEW e, NextEvent(e)
  PROVE  e \in Announced /\ Announced' \subseteq Announced
<1>1. events \in Seq({"init", "claim", "refund"}) /\ events # <<>> /\ events' = Tail(events)
  BY DEF ReceiveTypeOK, NextEvent
<1>2. Len(events) \in Nat \ {0} /\ Len(events') = Len(events) - 1
  BY <1>1
<1>3. events[1] = e
  BY <1>1 DEF NextEvent
<1>4. ASSUME NEW i \in 1..Len(events') PROVE events'[i] = events[i + 1] /\ i + 1 \in 1..Len(events)
  BY <1>1, <1>2
<1> QED
  BY <1>2, <1>3, <1>4 DEF Announced

\* Of the events of a downtime none is made up.
LEMMA RestartAnnounced ==
  ASSUME ReceiveTypeOK, NEW pending, Restart(pending)
  PROVE  Announced' \subseteq Announced
<1>1. CASE events' = events
  BY <1>1 DEF Announced
<1>2. CASE events' = <<>>
  BY <1>2 DEF Announced
<1> QED
  BY <1>1, <1>2 DEF Restart
=============================================================================
