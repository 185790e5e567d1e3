--------------------------- MODULE GasSwapsProofs ---------------------------
(***************************************************************************)
(* Theorems about the trusted swaps for gas that hold for every set of     *)
(* callers, every application and wallet, every price and any number of    *)
(* crashes.  What a swap shows comes from an answer of the LP that was     *)
(* under way, from a record that was stored, or from a look at the chain:  *)
(* the invariant says that each of these is still so, however late it is   *)
(* applied, because what the LP reports and what is on the chain never     *)
(* goes back on the outcomes that are shown.                               *)
(*                                                                         *)
(* The second part is about the coins that sendBitcoinTransaction() pays   *)
(* with, for every wallet, amount and fee rate: blackjack and accumulative *)
(* keep right books, and accumulative, when it fails, has taken every coin *)
(* that brings more than it costs.  Their recursive functions are reasoned *)
(* about by induction over sets of numbers.                                *)
(***************************************************************************)
EXTENDS MCGasSwaps, TLAPS, FiniteSetTheorems

USE TrustedSlotsAssumption

\* A swap of either kind, of any application and any wallet: the runs start
\* from some of these states.
GasInit ==
  \/ kind = "onchain" /\ OnchainInit
  \/ /\ kind = "ln" /\ LnInit
     /\ deposit = 0 /\ lpAddress = FALSE /\ soft = FALSE /\ psbt = NoPsbt /\ wallet = {}

GasSpec == GasInit /\ [][Next]_vars

-----------------------------------------------------------------------------
(* The inductive invariant *)

Labels == {"idle", "saving", "loop", "asked", "answered", "status", "batch",
           "fund", "sign", "unfunded", "address", "address:sent"}

LpAnswers == {"await", "expired", "seen", "pending", "failed", "refundable", "refunded",
              "sent", "paid"}

\* Whatever the amounts are.
IsDetails(d) == \E amounts : d \in [txId : BOOLEAN, amount : amounts, address : BOOLEAN]

Types ==
  /\ kind \in {"onchain", "ln"}
  /\ lp \in LpAnswers /\ payout \in {"none", "pending", "success"}
  /\ lpAddress \in BOOLEAN
  /\ pc \in [Callers -> Labels]
  /\ noted \in [Callers -> LpAnswers \cup {"same", "changed"}]

\* The LP pays out once, when it has the payment, and learns of a deposit by
\* seeing it.
World ==
  /\ payout # "none" => lp \in {"sent", "paid"}
  /\ kind = "onchain" /\ lp \notin {"await", "expired"} => deposit > 0

\* What a state of the swap says of the LP and of the chain.
StateIsTrue(s) ==
  /\ s = "FINISHED" => payout = "success"
  /\ s = "EXPIRED" => lp = "expired"
  /\ kind = "ln" => /\ s = "PR_PAID" => lp # "await"
                    /\ s = "FAILED" => lp \in {"expired", "failed"}
  /\ kind = "onchain" => /\ s = "REFUNDED" => lp = "refunded"
                         /\ s = "REFUNDABLE" => lp \in {"refundable", "refunded"}
                         /\ s = "FAILED" => lp = "failed"

\* What the other fields say of the deposit and of the refund address.
DetailsAreTrue(d) ==
  /\ IsDetails(d)
  /\ kind = "onchain" => /\ d.txId => deposit > 0 /\ d.amount = deposit
                         /\ d.address => lpAddress

RecordIsTrue(r) == r # Absent => StateIsTrue(r.state) /\ DetailsAreTrue(r.details)

\* What an answer that was on its way says of the LP now.
AnswerIsTrue(n) ==
  /\ n = "expired" => lp = "expired"
  /\ n = "failed" => lp = "failed"
  /\ n = "refunded" => kind = "ln" \/ lp = "refunded"
  /\ n = "refundable" => kind = "ln" \/ lp \in {"refundable", "refunded"}
  /\ n \in {"seen", "pending", "sent"} => IF kind = "ln" THEN lp # "await" ELSE deposit > 0

Swap    == StateIsTrue(state) /\ DetailsAreTrue(details)
Records == RecordIsTrue(recorded) /\ RecordIsTrue(durable)
Answers ==
  \A t \in Callers : AnswerIsTrue(noted[t]) /\ (pc[t] = "address:sent" => lpAddress)

IInv == Types /\ World /\ Swap /\ Records /\ Answers

-----------------------------------------------------------------------------
(* The world moves *)

\* What is so of the LP and the deposit stays so.
Onwards ==
  /\ kind' = kind
  /\ \A s : StateIsTrue(s) => StateIsTrue(s)'
  /\ \A d : DetailsAreTrue(d) => DetailsAreTrue(d)'
  /\ \A n : AnswerIsTrue(n) => AnswerIsTrue(n)'
  /\ lpAddress => lpAddress'
\* No step of the world lets go of what a call, a record or the swap relies on.
LEMMA OnwardsKeeps ==
  ASSUME IInv, Types', World', Onwards, UNCHANGED <<recordVars, durable, callVars>>
  PROVE  IInv'
<1>1. Swap'
  BY DEF IInv, Swap, Onwards, recordVars
<1>2. Records'
  <2>1. RecordIsTrue(recorded)'
    BY DEF IInv, Records, RecordIsTrue, Onwards, recordVars
  <2>2. RecordIsTrue(durable)'
    BY DEF IInv, Records, RecordIsTrue, Onwards
  <2> QED BY <2>1, <2>2 DEF Records
<1>3. Answers'
  BY DEF IInv, Answers, Onwards, callVars
<1> QED BY <1>1, <1>2, <1>3 DEF IInv

\* The LP of an on-chain swap, its payout and the user's other wallets.
LEMMA OnchainLpKeeps ==
  ASSUME IInv, kind = "onchain", kind' = kind, OnchainLpStep
  PROVE  IInv'
<1>1. UNCHANGED <<recordVars, durable, callVars>> /\ lpAddress' = lpAddress
  BY DEF OnchainLpStep, lifeVars
<1>2. Types'
  BY <1>1 DEF IInv, Types, OnchainLpStep, LpMoves, LpDrops, LpRefunds, LpPays, LpReports,
              PayoutLands, LpAnswers, lpVars, callVars
<1>3. World'
  BY QuoteAssumption DEF IInv, Types, World, OnchainLpStep, UserPays, LpMoves, LpDrops, LpRefunds,
                         LpPays, LpReports, PayoutLands, lpVars
<1>4. Onwards
  <2>1. ASSUME NEW s PROVE StateIsTrue(s) => StateIsTrue(s)'
    BY DEF IInv, World, StateIsTrue, OnchainLpStep, LpMoves, LpDrops, LpRefunds, LpPays,
           LpReports, PayoutLands, lpVars
  <2>2. deposit' = deposit \/ ~(deposit > 0)
    BY DEF OnchainLpStep, UserPays
  <2>3. ASSUME NEW d PROVE DetailsAreTrue(d) => DetailsAreTrue(d)'
    BY <1>1, <2>2 DEF DetailsAreTrue
  <2>4. ASSUME NEW n PROVE AnswerIsTrue(n) => AnswerIsTrue(n)'
    BY <2>2 DEF IInv, World, AnswerIsTrue, OnchainLpStep, LpMoves, LpDrops, LpRefunds, LpPays,
           LpReports, PayoutLands, lpVars
  <2> QED BY <1>1, <2>1, <2>3, <2>4 DEF Onwards
<1> QED BY <1>1, <1>2, <1>3, <1>4, OnwardsKeeps

\* The LP of a lightning swap.
LEMMA LnLpKeeps ==
  ASSUME IInv, kind = "ln", kind' = kind, LnLpStep, UNCHANGED onchainVars
  PROVE  IInv'
<1>1. UNCHANGED <<recordVars, durable, callVars>> /\ lpAddress' = lpAddress /\ deposit' = deposit
  BY DEF LnLpStep, lifeVars, onchainVars
<1>2. Types'
  BY <1>1 DEF IInv, Types, LnLpStep, LpMoves, LpPays, LpReports, PayoutLands, LpAnswers, callVars
<1>3. World'
  BY <1>1 DEF IInv, World, LnLpStep, LpMoves, LpPays, LpReports, PayoutLands
<1>4. Onwards
  <2>1. ASSUME NEW s PROVE StateIsTrue(s) => StateIsTrue(s)'
    BY DEF IInv, World, StateIsTrue, LnLpStep, LpMoves, LpPays, LpReports, PayoutLands
  <2>2. ASSUME NEW d PROVE DetailsAreTrue(d) => DetailsAreTrue(d)'
    BY <1>1 DEF DetailsAreTrue
  <2>3. ASSUME NEW n PROVE AnswerIsTrue(n) => AnswerIsTrue(n)'
    BY <1>1 DEF AnswerIsTrue, LnLpStep, LpMoves, LpPays, LpReports, PayoutLands
  <2> QED BY <1>1, <2>1, <2>2, <2>3 DEF Onwards
<1> QED BY <1>1, <1>2, <1>3, <1>4, OnwardsKeeps

-----------------------------------------------------------------------------
(* Steps of a call, and of the storage *)

\* The LP, the chain and the deposit stay as they are.
Calm == UNCHANGED <<kind, lp, payout, deposit, lpAddress>>

\* Then what was so of them is so still.
LEMMA CalmKeeps ==
  ASSUME Calm
  PROVE  Onwards
BY DEF Calm, Onwards, StateIsTrue, DetailsAreTrue, IsDetails, AnswerIsTrue

\* Call t goes to its next await with an answer that is so.
Proceeds(t) ==
  /\ \E next \in Labels :
       pc' = [pc EXCEPT ![t] = next] /\ (next = "address:sent" => lpAddress')
  /\ \E n \in LpAnswers \cup {"same", "changed"} :
       noted' = [noted EXCEPT ![t] = n] /\ AnswerIsTrue(n)

\* A call may go on with the answer it has.
LEMMA ProceedsNoted ==
  ASSUME IInv, NEW t \in Callers, NEW next \in Labels, noted' = noted,
         pc' = [pc EXCEPT ![t] = next], next = "address:sent" => lpAddress'
  PROVE  Proceeds(t)
<1>1. noted[t] \in LpAnswers \cup {"same", "changed"} /\ AnswerIsTrue(noted[t])
  BY DEF IInv, Types, Answers
<1>2. noted' = [noted EXCEPT ![t] = noted[t]]
  BY DEF IInv, Types
<1> QED BY <1>1, <1>2 DEF Proceeds

\* A step of a call that goes on with what is so and writes what is so.
LEMMA CallKeeps ==
  ASSUME IInv, NEW t \in Callers, Onwards, World', lpAddress' \in BOOLEAN,
         UNCHANGED <<kind, lp, payout>>, Proceeds(t), Swap', Records'
  PROVE  IInv'
<1>1. PICK next \in Labels :
        pc' = [pc EXCEPT ![t] = next] /\ (next = "address:sent" => lpAddress')
  BY DEF Proceeds
<1>2. PICK n \in LpAnswers \cup {"same", "changed"} :
        noted' = [noted EXCEPT ![t] = n] /\ AnswerIsTrue(n)
  BY DEF Proceeds
<1>3. Types'
  BY <1>1, <1>2 DEF IInv, Types
<1>4. Answers'
  <2> SUFFICES ASSUME NEW u \in Callers
               PROVE  (AnswerIsTrue(noted[u]) /\ (pc[u] = "address:sent" => lpAddress))'
    BY DEF Answers
  <2>1. \A v : AnswerIsTrue(v) => AnswerIsTrue(v)'
    BY DEF Onwards
  <2>2. AnswerIsTrue(noted[u]) /\ (u # t => noted'[u] = noted[u])
    BY <1>2 DEF IInv, Types, Answers
  <2>3. AnswerIsTrue(noted[u])'
    <3>1. CASE u = t
      <4>1. noted'[u] = n
        BY <1>2, <3>1 DEF IInv, Types
      <4> QED BY <1>2, <2>1, <4>1 DEF AnswerIsTrue
    <3>2. CASE u # t
      BY <2>1, <2>2, <3>2 DEF AnswerIsTrue
    <3> QED BY <3>1, <3>2
  <2>4. pc'[u] = "address:sent" => lpAddress'
    BY <1>1 DEF IInv, Types, Answers, Onwards
  <2> QED BY <2>3, <2>4
<1> QED BY <1>3, <1>4 DEF IInv

\* The same, when the LP, the chain and the deposit are left alone.
LEMMA CalmCallKeeps ==
  ASSUME IInv, NEW t \in Callers, Calm, Proceeds(t), Swap', Records'
  PROVE  IInv'
BY CalmKeeps, CallKeeps DEF Calm, IInv, Types, World

\* ... and the swap and its record too.
LEMMA QuietCallKeeps ==
  ASSUME IInv, NEW t \in Callers, Calm, Proceeds(t), UNCHANGED <<recordVars, durable>>
  PROVE  IInv'
<1>1. Onwards
  BY CalmKeeps
<1>2. Swap' /\ Records'
  BY <1>1 DEF IInv, Swap, Records, RecordIsTrue, Onwards, recordVars
<1> QED BY <1>2, CalmCallKeeps
-----------------------------------------------------------------------------
(* Steps that swaps of both kinds take *)

Unkind == UNCHANGED <<kind, onchainVars>>

\* A call that leaves the LP alone is calm.
LEMMA AliveIsCalm ==
  ASSUME Unkind, Alive
  PROVE  Calm
BY DEF Unkind, Alive, Calm, onchainVars, lpVars

\* A wait makes the swap initiated and has it stored as it is.
LEMMA WaitStartKeeps ==
  ASSUME IInv, NEW t \in Callers, Unkind, WaitStart(t)
  PROVE  IInv'
<1>1. Calm /\ durable' = durable
  BY AliveIsCalm DEF WaitStart, Alive, lifeVars
<1>2. Proceeds(t)
  BY ProceedsNoted DEF WaitStart, Begin, Labels
<1>3. Swap'
  BY <1>1, CalmKeeps DEF WaitStart, IInv, Swap, Onwards
<1>4. Records'
  <2>1. RecordIsTrue(recorded)
    BY DEF IInv, Records
  <2>2. RecordIsTrue(Current)
    BY DEF IInv, Swap, RecordIsTrue, Current
  <2>3. RecordIsTrue(recorded)'
    BY <1>1, <2>1, <2>2, CalmKeeps DEF WaitStart, RecordIsTrue, Onwards
  <2>4. RecordIsTrue(durable)'
    BY <1>1, CalmKeeps DEF IInv, Records, RecordIsTrue, Onwards
  <2> QED BY <2>3, <2>4 DEF Records
<1> QED BY <1>1, <1>2, <1>3, <1>4, CalmCallKeeps

\* Asking the LP notes nothing yet.
LEMMA PollKeeps ==
  ASSUME IInv, NEW t \in Callers, NEW call, NEW from, Unkind, Poll(t, call, from)
  PROVE  IInv'
<1>1. Calm /\ UNCHANGED <<recordVars, durable>>
  BY AliveIsCalm DEF Poll, Alive, lifeVars
<1>2. Proceeds(t)
  BY ProceedsNoted DEF Poll, Goto, Labels
<1> QED BY <1>1, <1>2, QuietCallKeeps

\* What the LP answers is so.
LEMMA AnsweredKeeps ==
  ASSUME IInv, NEW t \in Callers, Unkind, Answered(t)
  PROVE  IInv'
<1>1. Calm /\ UNCHANGED <<recordVars, durable>>
  BY AliveIsCalm DEF Answered, Alive, lifeVars
<1>2. lp \in LpAnswers /\ AnswerIsTrue(lp)
  BY DEF IInv, Types, World, AnswerIsTrue
<1>3. Proceeds(t)
  BY <1>2 DEF Answered, Goto, Proceeds, Labels
<1> QED BY <1>1, <1>3, QuietCallKeeps

\* "same" and "changed" say nothing of the LP.
LEMMA PlainAnswers ==
  AnswerIsTrue("same") /\ AnswerIsTrue("changed")
BY DEF AnswerIsTrue

\* A request that fails leaves the call without news of the LP.
LEMMA UnansweredKeeps ==
  ASSUME IInv, NEW t \in Callers, Unkind, Unanswered(t)
  PROVE  IInv'
<1>1. Calm /\ UNCHANGED <<recordVars, durable>>
  BY DEF Unanswered, Unkind, Calm, onchainVars, lpVars, lifeVars
<1>2. Proceeds(t)
  BY PlainAnswers DEF Unanswered, Goto, Proceeds, Labels
<1> QED BY <1>1, <1>2, QuietCallKeeps

\* Nor does a deposit that cannot be looked up.
LEMMA LookUpFailsKeeps ==
  ASSUME IInv, NEW t \in Callers, Unkind, LookUpFails(t)
  PROVE  IInv'
<1>1. Calm /\ UNCHANGED <<recordVars, durable>>
  BY DEF LookUpFails, Unkind, Calm, onchainVars, lpVars, lifeVars
<1>2. Proceeds(t)
  BY ProceedsNoted DEF LookUpFails, Goto, Labels
<1> QED BY <1>1, <1>2, QuietCallKeeps

\* An answer that changes nothing.
LEMMA KeepKeeps ==
  ASSUME IInv, NEW t \in Callers, Unkind, Keep(t)
  PROVE  IInv'
<1>1. Calm /\ UNCHANGED <<recordVars, durable>>
  BY AliveIsCalm DEF Keep, Alive, lifeVars
<1>2. Proceeds(t)
  BY PlainAnswers DEF Keep, Goto, Proceeds, Labels
<1> QED BY <1>1, <1>2, QuietCallKeeps

\* An answer may move the swap to anything that is so.
LEMMA BecomeKeeps ==
  ASSUME IInv, NEW t \in Callers, NEW s, NEW fields, NEW changed, Unkind,
         Become(t, s, fields, changed), StateIsTrue(s), DetailsAreTrue(fields)
  PROVE  IInv'
<1>1. Calm /\ durable' = durable
  BY AliveIsCalm DEF Become, Alive, lifeVars
<1>2. Proceeds(t)
  BY PlainAnswers DEF Become, Goto, Proceeds, Labels
<1>3. Swap'
  BY <1>1, CalmKeeps DEF Become, Swap, Onwards
<1>4. Records'
  <2>1. RecordIsTrue(recorded) /\ RecordIsTrue(durable)
    BY DEF IInv, Records
  <2>2. RecordIsTrue(Absent) /\ RecordIsTrue([state |-> s, details |-> fields])
    BY DEF RecordIsTrue
  <2>3. RecordIsTrue(recorded)'
    BY <1>1, <2>1, <2>2, CalmKeeps DEF Become, Persisted, RecordIsTrue, Onwards
  <2>4. RecordIsTrue(durable)'
    BY <1>1, <2>1, CalmKeeps DEF RecordIsTrue, Onwards
  <2> QED BY <2>3, <2>4 DEF Records
<1> QED BY <1>1, <1>2, <1>3, <1>4, CalmCallKeeps

\* checkPastSwaps() of a start asks for the swap as it was revived.
LEMMA SyncStartKeeps ==
  ASSUME IInv, NEW t \in Callers, Unkind, SyncStart(t)
  PROVE  IInv'
<1>1. Calm /\ UNCHANGED <<recordVars, durable>>
  BY DEF SyncStart, Unkind, Calm, onchainVars, lpVars
<1>2. Proceeds(t)
  BY PlainAnswers DEF SyncStart, Begin, Proceeds, Labels
<1> QED BY <1>1, <1>2, QuietCallKeeps

\* ... and stores what its answer made of the swap.
LEMMA SyncEndKeeps ==
  ASSUME IInv, NEW t \in Callers, Unkind, SyncEnd(t)
  PROVE  IInv'
<1>1. Calm /\ durable' = durable
  BY AliveIsCalm DEF SyncEnd, Alive, lifeVars
<1>2. Proceeds(t)
  BY PlainAnswers DEF SyncEnd, Goto, Proceeds, Labels
<1>3. Swap'
  BY <1>1, CalmKeeps DEF SyncEnd, IInv, Swap, Onwards
<1>4. Records'
  <2>1. RecordIsTrue(recorded) /\ RecordIsTrue(durable) /\ RecordIsTrue(Current) /\ RecordIsTrue(Absent)
    BY DEF IInv, Records, Swap, RecordIsTrue, Current
  <2>2. RecordIsTrue(recorded)'
    BY <1>1, <2>1, CalmKeeps DEF SyncEnd, RecordIsTrue, Onwards
  <2>3. RecordIsTrue(durable)'
    BY <1>1, <2>1, CalmKeeps DEF RecordIsTrue, Onwards
  <2> QED BY <2>2, <2>3 DEF Records
<1> QED BY <1>1, <1>2, <1>3, <1>4, CalmCallKeeps

\* Writes that complete, a crash, and a start that reads the record back.
LEMMA StorageKeeps ==
  ASSUME IInv, UNCHANGED <<kind, deposit, lpAddress>>, StorageNext
  PROVE  IInv'
<1>1. Calm
  BY DEF StorageNext, Flush, Crash, Restart, InitDone, lpVars, Calm
<1>2. Types' /\ World'
  BY <1>1 DEF Calm, IInv, Types, World, StorageNext, Flush, Crash, Restart, InitDone, callVars, Labels
<1>3. Onwards
  BY <1>1, CalmKeeps
<1>4. Swap'
  <2>1. StateIsTrue(state') /\ DetailsAreTrue(details')
    BY DEF IInv, Swap, Records, RecordIsTrue, StorageNext, Flush, Crash, Restart, InitDone, recordVars
  <2>2. (\A v : StateIsTrue(v) => StateIsTrue(v)') /\ (\A v : DetailsAreTrue(v) => DetailsAreTrue(v)')
    BY <1>3 DEF Onwards
  <2> QED BY <1>1, <2>1 DEF Swap, StateIsTrue, DetailsAreTrue, IsDetails, Calm
<1>5. Records'
  <2>1. recorded' \in {recorded, durable} /\ durable' \in {recorded, durable}
    BY DEF StorageNext, Flush, Crash, Restart, InitDone, recordVars
  <2> QED BY <1>3, <2>1 DEF IInv, Records, RecordIsTrue, Onwards
<1>6. Answers'
  <2> SUFFICES ASSUME NEW u \in Callers
               PROVE  (AnswerIsTrue(noted[u]) /\ (pc[u] = "address:sent" => lpAddress))'
    BY DEF Answers
  <2>1. noted'[u] \in {noted[u], "same"}
    BY DEF StorageNext, Flush, Crash, Restart, InitDone, callVars
  <2>2. AnswerIsTrue(noted'[u])
    BY <2>1, PlainAnswers DEF IInv, Answers
  <2>3. AnswerIsTrue(noted[u])'
    BY <1>1, <2>2 DEF AnswerIsTrue, Calm
  <2>4. pc'[u] = "address:sent" => pc[u] = "address:sent"
    BY DEF StorageNext, Flush, Crash, Restart, InitDone, callVars
  <2>5. pc'[u] = "address:sent" => lpAddress'
    BY <1>1, <2>4 DEF IInv, Answers, Calm
  <2> QED BY <2>3, <2>5
<1> QED BY <1>2, <1>4, <1>5, <1>6 DEF IInv
-----------------------------------------------------------------------------
(* Steps of a call of an on-chain swap *)

\* A call goes on with the answer paid, to look for the payout.
LEMMA OnchainToStatusKeeps ==
  ASSUME IInv, NEW t \in Callers, Unkind, OnchainToStatus(t)
  PROVE  IInv'
<1>1. Calm /\ UNCHANGED <<recordVars, durable>>
  BY AliveIsCalm DEF OnchainToStatus, Alive, lifeVars
<1>2. Proceeds(t)
  BY ProceedsNoted DEF OnchainToStatus, Goto, Labels
<1> QED BY <1>1, <1>2, QuietCallKeeps

\* A field of the details is set, and the others stay.
LEMMA SetDetails ==
  ASSUME NEW d, IsDetails(d), NEW value
  PROVE  /\ LET e == [d EXCEPT !.txId = FALSE]
            IN  IsDetails(e) /\ e.txId = FALSE /\ e.amount = d.amount /\ e.address = d.address
         /\ LET e == [d EXCEPT !.txId = TRUE, !.amount = value]
            IN  IsDetails(e) /\ e.amount = value /\ e.address = d.address
         /\ LET e == [d EXCEPT !.address = TRUE]
            IN  IsDetails(e) /\ e.txId = d.txId /\ e.amount = d.amount
<1>1. PICK amounts : d \in [txId : BOOLEAN, amount : amounts, address : BOOLEAN]
  BY DEF IsDetails
<1>2. PICK more : amounts \subseteq more /\ value \in more
  <2>1. amounts \subseteq amounts \cup {value} /\ value \in amounts \cup {value}
    OBVIOUS
  <2> QED BY <2>1
<1>3. d \in [txId : BOOLEAN, amount : more, address : BOOLEAN]
  BY <1>1, <1>2
<1>4. LET e == [d EXCEPT !.txId = FALSE]
      IN  IsDetails(e) /\ e.txId = FALSE /\ e.amount = d.amount /\ e.address = d.address
  <2> DEFINE e == [d EXCEPT !.txId = FALSE]
  <2>1. e \in [txId : BOOLEAN, amount : more, address : BOOLEAN]
    BY <1>3
  <2>2. e.txId = FALSE /\ e.amount = d.amount /\ e.address = d.address
    BY <1>3
  <2> QED BY <2>1, <2>2 DEF IsDetails
<1>5. LET e == [d EXCEPT !.txId = TRUE, !.amount = value]
      IN  IsDetails(e) /\ e.amount = value /\ e.address = d.address
  <2> DEFINE e == [d EXCEPT !.txId = TRUE, !.amount = value]
  <2>1. e \in [txId : BOOLEAN, amount : more, address : BOOLEAN]
    BY <1>2, <1>3
  <2>2. e.amount = value /\ e.address = d.address
    BY <1>3
  <2> QED BY <2>1, <2>2 DEF IsDetails
<1>6. LET e == [d EXCEPT !.address = TRUE]
      IN  IsDetails(e) /\ e.txId = d.txId /\ e.amount = d.amount
  <2> DEFINE e == [d EXCEPT !.address = TRUE]
  <2>1. e \in [txId : BOOLEAN, amount : more, address : BOOLEAN]
    BY <1>3
  <2>2. e.txId = d.txId /\ e.amount = d.amount
    BY <1>3
  <2> QED BY <2>1, <2>2 DEF IsDetails
<1> QED BY <1>4, <1>5, <1>6

\* Every answer of the LP moves the swap to what it says.
LEMMA OnchainApplyKeeps ==
  ASSUME IInv, NEW t \in Callers, kind = "onchain", kind' = kind, OnchainApply(t)
  PROVE  IInv'
<1>1. Unkind
  BY DEF OnchainApply, Unkind
<1>2. AnswerIsTrue(noted[t]) /\ StateIsTrue(state) /\ DetailsAreTrue(details)
  BY DEF IInv, Swap, Answers
<1>3. CASE noted[t] = "await" /\ IF details.txId THEN Become(t, state, Forgotten, TRUE) ELSE Keep(t)
  <2>1. DetailsAreTrue(Forgotten)
    BY <1>2, SetDetails DEF DetailsAreTrue, Forgotten
  <2> QED BY <1>1, <1>2, <1>3, <2>1, BecomeKeeps, KeepKeeps
<1>4. CASE /\ noted[t] \in {"seen", "pending", "sent"}
           /\ IF details # Noticed THEN Become(t, state, Noticed, TRUE) ELSE Keep(t)
  <2>1. deposit > 0
    BY <1>2, <1>4 DEF AnswerIsTrue
  <2>2. DetailsAreTrue(Noticed)
    BY <1>2, <2>1, SetDetails DEF DetailsAreTrue, Noticed
  <2> QED BY <1>1, <1>2, <1>4, <2>2, BecomeKeeps, KeepKeeps
<1>5. CASE OnchainToStatus(t)
  BY <1>1, <1>5, OnchainToStatusKeeps
<1>6. CASE noted[t] = "expired" /\ Become(t, "EXPIRED", details, TRUE)
  <2>1. StateIsTrue("EXPIRED")
    BY <1>2, <1>6 DEF AnswerIsTrue, StateIsTrue
  <2> QED BY <1>1, <1>2, <1>6, <2>1, BecomeKeeps
<1>7. CASE /\ noted[t] = "refundable"
           /\ IF state = "REFUNDABLE" THEN Keep(t) ELSE Become(t, "REFUNDABLE", details, TRUE)
  <2>1. StateIsTrue("REFUNDABLE")
    BY <1>2, <1>7 DEF AnswerIsTrue, StateIsTrue
  <2> QED BY <1>1, <1>2, <1>7, <2>1, BecomeKeeps, KeepKeeps
<1>8. CASE noted[t] = "refunded" /\ Become(t, "REFUNDED", details, TRUE)
  <2>1. StateIsTrue("REFUNDED")
    BY <1>2, <1>8 DEF AnswerIsTrue, StateIsTrue
  <2> QED BY <1>1, <1>2, <1>8, <2>1, BecomeKeeps
<1>9. CASE noted[t] = "failed" /\ Become(t, "FAILED", details, TRUE)
  <2>1. StateIsTrue("FAILED")
    BY <1>2, <1>9 DEF AnswerIsTrue, StateIsTrue
  <2> QED BY <1>1, <1>2, <1>9, <2>1, BecomeKeeps
<1> QED BY <1>3, <1>4, <1>5, <1>6, <1>7, <1>8, <1>9 DEF OnchainApply

\* FINISHED follows a payout that the chain reports as successful.
LEMMA OnchainApplyStatusKeeps ==
  ASSUME IInv, NEW t \in Callers, kind' = kind, OnchainApplyStatus(t)
  PROVE  IInv'
<1>1. Unkind /\ DetailsAreTrue(details)
  BY DEF OnchainApplyStatus, Unkind, IInv, Swap
<1>2. CASE payout = "success" /\ Become(t, "FINISHED", details, TRUE)
  <2>1. StateIsTrue("FINISHED")
    BY <1>2 DEF StateIsTrue
  <2> QED BY <1>1, <1>2, <2>1, BecomeKeeps
<1>3. CASE Keep(t)
  BY <1>1, <1>3, KeepKeeps
<1> QED BY <1>2, <1>3 DEF OnchainApplyStatus

\* Until the transaction is broadcast, sending it concerns nobody else.
LEMMA SendKeeps ==
  ASSUME IInv, NEW t \in Callers, kind' = kind, Send(t) \/ Fund(t) \/ SendFails(t)
  PROVE  IInv'
<1>1. Calm /\ UNCHANGED <<recordVars, durable>> /\ noted' = noted
  BY DEF Send, Fund, SendFails, Alive, Calm, lifeVars, lpVars
<1>2. \E next \in Labels : pc' = [pc EXCEPT ![t] = next] /\ next # "address:sent"
  BY DEF Send, Fund, SendFails, Begin, Goto, Labels
<1>3. Proceeds(t)
  BY <1>1, <1>2, ProceedsNoted
<1> QED BY <1>1, <1>3, QuietCallKeeps

\* The broadcast is the deposit: nothing was said of one before.
LEMMA SubmitKeeps ==
  ASSUME IInv, NEW t \in Callers, kind = "onchain", kind' = kind, Submit(t)
  PROVE  IInv'
<1>1. /\ UNCHANGED <<lp, payout, lpAddress, recordVars, durable, noted>>
      /\ deposit = 0
  BY DEF Submit, Alive, lifeVars, lpVars
<1>2. Onwards
  <2>1. ~(deposit > 0)
    BY <1>1
  <2> QED BY <1>1, <2>1 DEF Onwards, StateIsTrue, DetailsAreTrue, IsDetails, AnswerIsTrue
<1>3. World' /\ lpAddress' \in BOOLEAN
  BY <1>1 DEF IInv, World, Types
<1>4. Proceeds(t)
  BY <1>1, ProceedsNoted DEF Submit, Goto, Labels
<1>5. Swap' /\ Records'
  BY <1>1, <1>2 DEF IInv, Swap, Records, RecordIsTrue, Onwards, recordVars
<1> QED BY <1>1, <1>2, <1>3, <1>4, <1>5, CallKeeps

\* requestRefund() sends an address: nothing is known of it until the LP has
\* it.
LEMMA RefundStartKeeps ==
  ASSUME IInv, NEW t \in Callers, kind' = kind, RefundStart(t)
  PROVE  IInv'
<1>1. Unkind /\ Calm /\ UNCHANGED <<recordVars, durable>> /\ noted' = noted
  BY AliveIsCalm DEF RefundStart, Alive, Unkind, lifeVars
<1>2. \E next \in Labels : pc' = [pc EXCEPT ![t] = next] /\ next # "address:sent"
  BY DEF RefundStart, Begin, Labels
<1>3. Proceeds(t)
  BY <1>1, <1>2, ProceedsNoted
<1> QED BY <1>1, <1>3, QuietCallKeeps

\* The LP has the address from now on, whatever becomes of its answer.
LEMMA AddressSentKeeps ==
  ASSUME IInv, NEW t \in Callers, kind' = kind, AddressSent(t)
  PROVE  IInv'
<1>1. UNCHANGED <<lp, payout, deposit, recordVars, durable, noted>> /\ lpAddress' = TRUE
  BY DEF AddressSent, Alive, lifeVars, lpVars
<1>2. Onwards
  BY <1>1 DEF Onwards, StateIsTrue, DetailsAreTrue, IsDetails, AnswerIsTrue
<1>3. World' /\ lpAddress' \in BOOLEAN
  BY <1>1 DEF IInv, World
<1>4. Proceeds(t)
  BY <1>1, ProceedsNoted DEF AddressSent, Goto, Labels
<1>5. Swap' /\ Records'
  BY <1>1, <1>2 DEF IInv, Swap, Records, RecordIsTrue, Onwards, recordVars
<1> QED BY <1>1, <1>2, <1>3, <1>4, <1>5, CallKeeps

\* The address is shown once the LP has confirmed it, which has it by then.
LEMMA AddressKnownKeeps ==
  ASSUME IInv, NEW t \in Callers, kind' = kind, AddressKnown(t)
  PROVE  IInv'
<1>1. Unkind /\ Calm /\ UNCHANGED <<state, recorded, durable, noted>>
  BY AliveIsCalm DEF AddressKnown, Alive, Unkind, lifeVars
<1>2. Proceeds(t)
  <2>1. \E next \in Labels : pc' = [pc EXCEPT ![t] = next] /\ next # "address:sent"
    BY DEF AddressKnown, Goto, Labels
  <2> QED BY <1>1, <2>1, ProceedsNoted
<1>3. lpAddress
  BY DEF AddressKnown, IInv, Answers
<1>4. DetailsAreTrue([details EXCEPT !.address = TRUE])
  BY <1>3, SetDetails DEF IInv, Swap, DetailsAreTrue
<1>5. Swap'
  BY <1>1, <1>4, CalmKeeps DEF AddressKnown, IInv, Swap, Onwards
<1>6. Records'
  BY <1>1, CalmKeeps DEF IInv, Records, RecordIsTrue, Onwards
<1> QED BY <1>1, <1>2, <1>5, <1>6, CalmCallKeeps

\* An answer that is lost leaves the swap without the address that the LP has.
LEMMA AddressLostKeeps ==
  ASSUME IInv, NEW t \in Callers, kind' = kind, AddressLost(t)
  PROVE  IInv'
<1>1. Calm /\ UNCHANGED <<recordVars, durable>> /\ noted' = noted
  BY DEF AddressLost, Calm, onchainVars, lifeVars, lpVars
<1>2. Proceeds(t)
  BY <1>1, ProceedsNoted DEF AddressLost, Goto, Labels
<1> QED BY <1>1, <1>2, QuietCallKeeps

\* Every step of a call of an on-chain swap.
LEMMA OnchainCallKeeps ==
  ASSUME IInv, NEW t \in Callers, kind = "onchain", kind' = kind, OnchainCallNext(t)
  PROVE  IInv'
<1>1. CASE PollNext(t)
  <2>1. Unkind
    BY <1>1 DEF PollNext, Unkind
  <2> QED BY <1>1, <2>1, WaitStartKeeps, PollKeeps, AnsweredKeeps, UnansweredKeeps, LookUpFailsKeeps,
             SyncStartKeeps, SyncEndKeeps DEF PollNext
<1>2. CASE OnchainApply(t) \/ OnchainApplyStatus(t)
  BY <1>2, OnchainApplyKeeps, OnchainApplyStatusKeeps
<1>3. CASE SendNext(t)
  BY <1>3, SendKeeps, SubmitKeeps DEF SendNext
<1>4. CASE RefundNext(t)
  BY <1>4, RefundStartKeeps, AddressSentKeeps, AddressKnownKeeps, AddressLostKeeps DEF RefundNext
<1> QED BY <1>1, <1>2, <1>3, <1>4 DEF OnchainCallNext

-----------------------------------------------------------------------------
(* Steps of a call of a lightning swap *)

\* What checkInvoicePaid() makes of an answer is so, although it is applied
\* late.
LEMMA LnApplyKeeps ==
  ASSUME IInv, NEW t \in Callers, kind = "ln", Unkind, LnApply(t)
  PROVE  IInv'
<1>1. AnswerIsTrue(noted[t]) /\ DetailsAreTrue(details)
  BY DEF IInv, Swap, Answers
<1>2. CASE LnToStatus(t)
  <2>1. Calm /\ UNCHANGED <<recordVars, durable>>
    BY <1>2, AliveIsCalm DEF LnToStatus, Alive, lifeVars
  <2>2. Proceeds(t)
    BY <1>2, ProceedsNoted DEF LnToStatus, Goto, Labels
  <2> QED BY <2>1, <2>2, QuietCallKeeps
<1>3. CASE /\ noted[t] = "expired"
           /\ Become(t, IF state = "PR_CREATED" THEN "EXPIRED" ELSE "FAILED", details, TRUE)
  <2>1. StateIsTrue("EXPIRED") /\ StateIsTrue("FAILED")
    BY <1>1, <1>3 DEF AnswerIsTrue, StateIsTrue
  <2>2. StateIsTrue(IF state = "PR_CREATED" THEN "EXPIRED" ELSE "FAILED")
    BY <2>1
  <2> QED BY <1>1, <1>3, <2>2, BecomeKeeps
<1>4. CASE /\ noted[t] \in {"sent", "pending"}
           /\ IF state = "PR_CREATED" THEN Become(t, "PR_PAID", details, FALSE) ELSE Keep(t)
  <2>1. StateIsTrue("PR_PAID")
    BY <1>1, <1>4 DEF AnswerIsTrue, StateIsTrue
  <2> QED BY <1>1, <1>4, <2>1, BecomeKeeps, KeepKeeps
<1>5. CASE noted[t] = "await" /\ Keep(t)
  BY <1>5, KeepKeeps
<1>6. CASE noted[t] = "failed" /\ Become(t, "FAILED", details, TRUE)
  <2>1. StateIsTrue("FAILED")
    BY <1>1, <1>6 DEF AnswerIsTrue, StateIsTrue
  <2> QED BY <1>1, <1>6, <2>1, BecomeKeeps
<1> QED BY <1>2, <1>3, <1>4, <1>5, <1>6 DEF LnApply

\* FINISHED follows a payout that the chain reports as successful.
LEMMA LnApplyStatusKeeps ==
  ASSUME IInv, NEW t \in Callers, Unkind, LnApplyStatus(t)
  PROVE  IInv'
<1>1. DetailsAreTrue(details)
  BY DEF IInv, Swap
<1>2. CASE payout = "success" /\ Become(t, "FINISHED", details, TRUE)
  <2>1. StateIsTrue("FINISHED")
    BY <1>2 DEF StateIsTrue
  <2> QED BY <1>1, <1>2, <2>1, BecomeKeeps
<1>3. CASE Keep(t)
  BY <1>3, KeepKeeps
<1> QED BY <1>2, <1>3 DEF LnApplyStatus

\* Every step of a call of a lightning swap.
LEMMA LnCallKeeps ==
  ASSUME IInv, NEW t \in Callers, kind = "ln", Unkind, LnCallNext(t)
  PROVE  IInv'
BY WaitStartKeeps, PollKeeps, AnsweredKeeps, UnansweredKeeps, LnApplyKeeps, LnApplyStatusKeeps,
   SyncStartKeeps, SyncEndKeeps DEF LnCallNext

-----------------------------------------------------------------------------
(* Theorems *)

\* A quote that was just created shows nothing of the LP yet.
LEMMA InitHolds == GasInit => IInv
<1> SUFFICES ASSUME GasInit PROVE IInv
  OBVIOUS
<1>1. \E d : d.txId = FALSE /\ d.address = lpAddress /\ IsDetails(d) /\ TrustedInit(d)
  BY DEF GasInit, OnchainInit, LnInit, NoDetails, IsDetails
<1>2. kind \in {"onchain", "ln"} /\ lpAddress \in BOOLEAN /\ deposit = 0
  BY DEF GasInit, OnchainInit
<1> QED BY <1>1, <1>2 DEF TrustedInit, IInv, Types, World, Swap, Records, Answers, StateIsTrue,
           DetailsAreTrue, RecordIsTrue, AnswerIsTrue, Absent, Labels, LpAnswers

\* A step of the swap, of the LP, of the user or of the storage keeps the invariant.
LEMMA NextKeeps == IInv /\ [Next]_vars => IInv'
<1> SUFFICES ASSUME IInv, [Next]_vars PROVE IInv'
  OBVIOUS
<1>1. CASE UNCHANGED vars
  <2>1. UNCHANGED <<kind, lp, payout, deposit, lpAddress, recordVars, durable, callVars>>
    BY <1>1 DEF vars, trustedVars, onchainVars, lpVars, lifeVars
  <2>2. Onwards
    BY <2>1, CalmKeeps DEF Calm
  <2> QED BY <2>1, <2>2, OnwardsKeeps DEF IInv, Types, World, callVars
<1>2. CASE OnchainStep
  <2>1. kind = "onchain" /\ kind' = kind
    BY <1>2 DEF OnchainStep
  <2>2. CASE OnchainLpStep
    BY <2>1, <2>2, OnchainLpKeeps
  <2>3. CASE StorageStep
    BY <2>1, <2>3, StorageKeeps DEF StorageStep
  <2>4. CASE \E t \in Callers : OnchainCallNext(t)
    BY <2>1, <2>4, OnchainCallKeeps
  <2> QED BY <1>2, <2>2, <2>3, <2>4 DEF OnchainStep, OnchainNext
<1>3. CASE LnStep
  <2>1. kind = "ln" /\ Unkind
    BY <1>3 DEF LnStep, Unkind
  <2>2. CASE LnLpStep
    BY <2>1, <2>2, LnLpKeeps DEF Unkind
  <2>3. CASE StorageNext
    BY <2>1, <2>3, StorageKeeps DEF Unkind, onchainVars
  <2>4. CASE \E t \in Callers : LnCallNext(t)
    BY <2>1, <2>4, LnCallKeeps
  <2> QED BY <1>3, <2>2, <2>3, <2>4 DEF LnStep, LnNext
<1> QED BY <1>1, <1>2, <1>3 DEF Next

\* The invariant holds of every trusted swap for gas, whatever the application
\* calls and however often the process stops.
THEOREM InductiveInvariant == GasSpec => []IInv
BY InitHolds, NextKeeps, PTL DEF GasSpec

\* The swap shows an end only when the LP, or the chain, bears it out, and its
\* deposit and refund address as they are.
LEMMA ShownFromIInv == IInv => ShownIsTrue
BY DEF IInv, Types, Swap, StateIsTrue, DetailsAreTrue, ShownIsTrue, OnchainShownIsTrue, LnShownIsTrue

\* checkAddress() of OnchainForGasSwap and checkInvoicePaid() of LnForGasSwap:
\* FINISHED, REFUNDED, REFUNDABLE, EXPIRED, FAILED, the transaction id with its
\* amount and the refund address are shown only when they are so, for an answer
\* that is applied late and for a swap that is loaded after a crash as well.
THEOREM ShownCorrect == GasSpec => []ShownIsTrue
BY InductiveInvariant, ShownFromIInv, PTL

-----------------------------------------------------------------------------
(* Orders on finite sets *)

\* A function on a nonempty finite set takes a least value: where the set of
\* points with smaller values is smallest.
LEMMA LeastValue ==
  ASSUME NEW S, IsFiniteSet(S), S # {}, NEW f \in [S -> Int]
  PROVE  \E x \in S : \A y \in S : f[x] <= f[y]
<1> DEFINE Below(x) == {y \in S : f[y] < f[x]}
           Sets     == {Below(x) : x \in S}
<1>1. Sets \subseteq FiniteSubsetsOf(S) /\ Sets # {}
  <2>1. \A x \in S : Below(x) \in SUBSET S
    OBVIOUS
  <2> HIDE DEF Below
  <2>2. \A x \in S : IsFiniteSet(Below(x))
    BY <2>1, FS_Subset
  <2> QED BY <2>1, <2>2 DEF FiniteSubsetsOf
<1>2. \E s \in Sets : \A t \in Sets : <<t, s>> \notin StrictSubsetOrdering(S)
  <2> HIDE DEF Sets
  <2> QED BY <1>1, FS_StrictSubsetOrderingWellFounded, WFMin
<1>3. PICK x \in S : \A y \in S : <<Below(y), Below(x)>> \notin StrictSubsetOrdering(S)
  BY <1>2
<1>4. ASSUME NEW y \in S, f[y] < f[x] PROVE FALSE
  <2>1. Below(y) \subseteq Below(x) /\ y \in Below(x) /\ y \notin Below(y)
    BY <1>4
  <2>2. Below(y) \in SUBSET S /\ Below(x) \in SUBSET S
    OBVIOUS
  <2> HIDE DEF Below
  <2> QED BY <1>3, <2>1, <2>2 DEF StrictSubsetOrdering
<1> QED BY <1>4

-----------------------------------------------------------------------------
(* Induction over a set of numbers *)

\* A set with zero in it, and with every number its successor, has them all: the
\* least that were not in it would have a predecessor in it.
LEMMA SetInduction ==
  ASSUME NEW S, 0 \in S, \A n \in Nat : n \in S => n + 1 \in S
  PROVE  Nat \subseteq S
<1> SUFFICES ASSUME NEW k \in Nat, k \notin S PROVE FALSE
  OBVIOUS
<1> DEFINE Missing == {n \in 0..k : n \notin S}
           value   == [n \in Missing |-> n]
<1>1. IsFiniteSet(Missing) /\ k \in Missing
  <2>1. IsFiniteSet(0..k) /\ Missing \in SUBSET (0..k)
    BY FS_Interval
  <2> QED BY <2>1, FS_Subset
<1>2. PICK m \in Missing : \A n \in Missing : m <= n
  <2>1. value \in [Missing -> Int]
    OBVIOUS
  <2>2. Missing # {} /\ \A n \in Missing : value[n] = n
    BY <1>1
  <2> HIDE DEF Missing, value
  <2>3. \E x \in Missing : \A y \in Missing : value[x] <= value[y]
    BY <1>1, <2>1, <2>2, LeastValue
  <2> QED BY <2>2, <2>3
<1>3. m # 0 /\ m - 1 \in Nat /\ m - 1 < m /\ m - 1 \in 0..k
  OBVIOUS
<1>4. m - 1 \in S
  BY <1>2, <1>3
<1> QED BY <1>3, <1>4

\* A run of n steps from a, the i-th from x to step[i][x].
IsRun(f, A, a, n, step) ==
  /\ f \in [0..n -> A] /\ f[0] = a
  /\ \A i \in 1..n : f[i] = step[i][f[i - 1]]

\* There is such a run, whatever the steps are.
LEMMA RunExists ==
  ASSUME NEW A, NEW a \in A, NEW n \in Nat, NEW step \in [1..n -> [A -> A]]
  PROVE  \E f : IsRun(f, A, a, n, step)
<1> DEFINE S == {m \in Nat : m <= n => \E f : IsRun(f, A, a, m, step)}
<1>1. 0 \in S
  <2>1. IsRun([i \in 0..0 |-> a], A, a, 0, step)
    BY DEF IsRun
  <2> QED BY <2>1
<1>2. ASSUME NEW m \in Nat, m \in S, m + 1 <= n PROVE \E f : IsRun(f, A, a, m + 1, step)
  <2>1. PICK f : IsRun(f, A, a, m, step)
    BY <1>2
  <2> DEFINE last == step[m + 1][f[m]]
             g    == [i \in 0..m + 1 |-> IF i = m + 1 THEN last ELSE f[i]]
  <2>2. f[m] \in A /\ m + 1 \in 1..n /\ last \in A
    <3>1. m + 1 \in 1..n /\ f[m] \in A
      BY <1>2, <2>1 DEF IsRun
    <3>2. step[m + 1] \in [A -> A]
      BY <3>1
    <3> QED BY <3>1, <3>2
  <2> HIDE DEF last
  <2>3. g \in [0..m + 1 -> A]
    BY <2>1, <2>2 DEF IsRun
  <2>4. g[0] = a /\ g[m + 1] = last /\ g[m] = f[m]
    BY <2>1 DEF IsRun
  <2>5. ASSUME NEW i \in 1..m + 1 PROVE g[i] = step[i][g[i - 1]]
    <3>1. CASE i = m + 1
      BY <2>4, <3>1 DEF last
    <3>2. CASE i # m + 1
      <4>1. i \in 1..m /\ i - 1 \in 0..m /\ i - 1 # m + 1
        BY <3>2
      <4>2. g[i] = f[i] /\ g[i - 1] = f[i - 1]
        BY <4>1
      <4> QED BY <2>1, <4>1, <4>2 DEF IsRun
    <3> QED BY <3>1, <3>2
  <2> HIDE DEF g
  <2>6. IsRun(g, A, a, m + 1, step)
    BY <2>3, <2>4, <2>5 DEF IsRun
  <2> QED BY <2>6
<1>3. \A m \in Nat : m \in S => m + 1 \in S
  BY <1>2
<1> HIDE DEF S
<1>4. Nat \subseteq S
  BY <1>1, <1>3, SetInduction
<1> QED BY <1>4 DEF S
-----------------------------------------------------------------------------
(* Sums of coins *)

\* Fees are amounts, a score may be negative.
LEMMA FeeTypes ==
  ASSUME NEW u \in UTXOs
  PROVE  CpfpFee(u) \in Nat /\ InputFee(u) \in Nat /\ UtxoScore(u) \in Int
<1>1. u.value \in Nat /\ u.vsize \in Nat /\ u.rate \in Nat /\ FeeRate \in Nat
  BY FeeRateAssumption DEF UTXOs
<1>2. CpfpFee(u) \in Nat
  <2>1. CASE u.rate < FeeRate
    <3>1. FeeRate - u.rate \in Nat
      BY <1>1, <2>1
    <3>2. \A x, y \in Nat : x * y \in Nat
      OBVIOUS
    <3> QED BY <1>1, <2>1, <3>1, <3>2 DEF CpfpFee
  <2>2. CASE ~(u.rate < FeeRate)
    BY <2>2 DEF CpfpFee
  <2> QED BY <2>1, <2>2
<1>3. InputFee(u) \in Nat
  BY <1>1, <1>2 DEF InputFee, InputBytes
<1> QED BY <1>1, <1>2, <1>3 DEF UtxoScore

\* f holds the sums of the first weights.
IsSum(f, w, n) ==
  /\ f \in [0..n -> Int] /\ f[0] = 0
  /\ \A i \in 1..n : f[i] = f[i - 1] + w[i]

\* There is such a function, so that the definition by recursion finds it.
LEMMA SumExists ==
  ASSUME NEW n \in Nat, NEW w \in [1..n -> Int]
  PROVE  \E f : f = [i \in 0..n |-> IF i = 0 THEN 0 ELSE f[i - 1] + w[i]]
<1> DEFINE step == [i \in 1..n |-> [x \in Int |-> x + w[i]]]
<1>1. step \in [1..n -> [Int -> Int]] /\ \A i \in 1..n : \A x \in Int : step[i][x] = x + w[i]
  OBVIOUS
<1> HIDE DEF step
<1>2. PICK f : IsRun(f, Int, 0, n, step)
  BY <1>1, RunExists, 0 \in Int
<1>3. f \in [0..n -> Int] /\ f[0] = 0
  BY <1>2 DEF IsRun
<1>4. ASSUME NEW i \in 1..n PROVE f[i] = f[i - 1] + w[i]
  <2>1. f[i - 1] \in Int
    BY <1>3
  <2> QED BY <1>1, <1>2, <2>1 DEF IsRun
<1>5. f = [i \in 0..n |-> IF i = 0 THEN 0 ELSE f[i - 1] + w[i]]
  BY <1>3, <1>4
<1> QED BY <1>5

\* ... and what it finds is the sums.
LEMMA SumByRecursion ==
  ASSUME NEW n \in Nat, NEW w \in [1..n -> Int], NEW f,
         f = [i \in 0..n |-> IF i = 0 THEN 0 ELSE f[i - 1] + w[i]]
  PROVE  IsSum(f, w, n)
<1> DEFINE S == {i \in Nat : i <= n => f[i] \in Int}
<1>1. f[0] = 0 /\ \A i \in 1..n : f[i] = f[i - 1] + w[i]
  <2>1. 0 \in 0..n /\ \A i \in 1..n : i \in 0..n /\ i # 0
    OBVIOUS
  <2>2. \A i \in 0..n : f[i] = IF i = 0 THEN 0 ELSE f[i - 1] + w[i]
    OBVIOUS
  <2> QED BY ONLY <2>1, <2>2
<1>2. 0 \in S
  BY <1>1
<1>3. ASSUME NEW i \in Nat, i \in S, i + 1 <= n PROVE f[i + 1] \in Int
  <2>1. i + 1 \in 1..n /\ (i + 1) - 1 = i /\ f[i] \in Int
    BY <1>3
  <2> QED BY <1>1, <2>1
<1>4. \A i \in Nat : i \in S => i + 1 \in S
  BY <1>3
<1>5. DOMAIN f = 0..n /\ f = [i \in DOMAIN f |-> f[i]]
  OBVIOUS
<1> HIDE DEF S
<1>6. Nat \subseteq S
  BY <1>2, <1>4, SetInduction
<1>7. \A i \in 0..n : f[i] \in Int
  BY <1>6 DEF S
<1>8. f \in [0..n -> Int]
  BY <1>5, <1>7
<1> QED BY <1>1, <1>8 DEF IsSum

\* Two such functions agree as far as the weights do.
LEMMA SumsAgree ==
  ASSUME NEW n \in Nat, NEW m \in 0..n, NEW v, NEW w, \A i \in 1..m : v[i] = w[i],
         NEW f, IsSum(f, v, m), NEW g, IsSum(g, w, n)
  PROVE  f[m] = g[m]
<1> DEFINE S == {i \in Nat : i <= m => f[i] = g[i]}
<1>1. 0 \in S
  BY DEF IsSum
<1>2. ASSUME NEW i \in Nat, i \in S, i + 1 <= m PROVE f[i + 1] = g[i + 1]
  <2>1. i + 1 \in 1..m /\ i + 1 \in 1..n /\ (i + 1) - 1 = i /\ f[i] = g[i]
    BY <1>2
  <2> QED BY <2>1 DEF IsSum
<1>3. \A i \in Nat : i \in S => i + 1 \in S
  BY <1>2
<1> HIDE DEF S
<1>4. Nat \subseteq S
  BY <1>1, <1>3, SetInduction
<1> QED BY <1>4 DEF S

\* SumValues and SumCpfp are such sums.
LEMMA SumValuesIs ==
  ASSUME NEW s \in Seq(UTXOs)
  PROVE  \E f : IsSum(f, [i \in 1..Len(s) |-> s[i].value], Len(s)) /\ SumValues(s) = f[Len(s)]
<1> DEFINE n == Len(s)
           w == [i \in 1..n |-> s[i].value]
           sum[i \in 0..Len(s)] == IF i = 0 THEN 0 ELSE sum[i - 1] + s[i].value
<1>1. n \in Nat /\ \A i \in 1..n : s[i] \in UTXOs
  OBVIOUS
<1>2. w \in [1..n -> Int] /\ \A i \in 1..n : w[i] = s[i].value
  BY <1>1 DEF UTXOs
<1> HIDE DEF w, n
<1>3. PICK f : f = [i \in 0..n |-> IF i = 0 THEN 0 ELSE f[i - 1] + w[i]]
  BY <1>1, <1>2, SumExists
<1>4. \A i \in 0..n : i # 0 => i \in 1..n
  BY <1>1
<1>5. f = [i \in 0..n |-> IF i = 0 THEN 0 ELSE f[i - 1] + s[i].value]
  BY <1>2, <1>3, <1>4
<1>6. sum = [i \in 0..n |-> IF i = 0 THEN 0 ELSE sum[i - 1] + s[i].value]
  BY <1>5 DEF n
<1>7. SumValues(s) = sum[n]
  BY DEF SumValues, n
<1> HIDE DEF sum
<1>8. sum = [i \in 0..n |-> IF i = 0 THEN 0 ELSE sum[i - 1] + w[i]]
  BY <1>2, <1>4, <1>6
<1>9. IsSum(sum, w, n)
  BY <1>1, <1>2, <1>8, SumByRecursion
<1> QED BY <1>7, <1>9 DEF w, n

\* ... of the fees that the ancestors lack.
LEMMA SumCpfpIs ==
  ASSUME NEW s \in Seq(UTXOs)
  PROVE  \E f : IsSum(f, [i \in 1..Len(s) |-> CpfpFee(s[i])], Len(s)) /\ SumCpfp(s) = f[Len(s)]
<1> DEFINE n == Len(s)
           w == [i \in 1..n |-> CpfpFee(s[i])]
           sum[i \in 0..Len(s)] == IF i = 0 THEN 0 ELSE sum[i - 1] + CpfpFee(s[i])
<1>1. n \in Nat /\ \A i \in 1..n : s[i] \in UTXOs
  OBVIOUS
<1>2. w \in [1..n -> Int] /\ \A i \in 1..n : w[i] = CpfpFee(s[i])
  BY <1>1, FeeTypes
<1> HIDE DEF w, n
<1>3. PICK f : f = [i \in 0..n |-> IF i = 0 THEN 0 ELSE f[i - 1] + w[i]]
  BY <1>1, <1>2, SumExists
<1>4. \A i \in 0..n : i # 0 => i \in 1..n
  BY <1>1
<1>5. f = [i \in 0..n |-> IF i = 0 THEN 0 ELSE f[i - 1] + CpfpFee(s[i])]
  BY <1>2, <1>3, <1>4
<1>6. sum = [i \in 0..n |-> IF i = 0 THEN 0 ELSE sum[i - 1] + CpfpFee(s[i])]
  BY <1>5 DEF n
<1>7. SumCpfp(s) = sum[n]
  BY DEF SumCpfp, n
<1> HIDE DEF sum
<1>8. sum = [i \in 0..n |-> IF i = 0 THEN 0 ELSE sum[i - 1] + w[i]]
  BY <1>2, <1>4, <1>6
<1>9. IsSum(sum, w, n)
  BY <1>1, <1>2, <1>8, SumByRecursion
<1> QED BY <1>7, <1>9 DEF w, n

\* One more weight is one more term.
LEMMA SumGrows ==
  ASSUME NEW n \in Nat, NEW v, NEW w, \A i \in 1..n : v[i] = w[i],
         NEW f, IsSum(f, v, n), NEW g, IsSum(g, w, n + 1)
  PROVE  f[n] \in Int /\ g[n + 1] = f[n] + w[n + 1]
<1>1. n \in 0..n + 1 /\ n + 1 \in 1..n + 1 /\ n \in 0..n /\ (n + 1) - 1 = n
  OBVIOUS
<1>2. f[n] = g[n]
  BY <1>1, SumsAgree
<1> QED BY <1>1, <1>2 DEF IsSum

\* No coins have no value and no ancestors.
LEMMA SumOfNone ==
  SumValues(<<>>) = 0 /\ SumCpfp(<<>>) = 0
<1>1. <<>> \in Seq(UTXOs) /\ Len(<<>>) = 0
  OBVIOUS
<1> QED BY <1>1, SumValuesIs, SumCpfpIs DEF IsSum

\* One more coin is one more value.
LEMMA SumValuesAppend ==
  ASSUME NEW s \in Seq(UTXOs), NEW u \in UTXOs
  PROVE  SumValues(s) \in Int /\ SumValues(Append(s, u)) = SumValues(s) + u.value
<1> DEFINE n == Len(s)
           t == Append(s, u)
           v == [i \in 1..n |-> s[i].value]
           w == [i \in 1..n + 1 |-> t[i].value]
<1>1. /\ n \in Nat /\ t \in Seq(UTXOs) /\ Len(t) = n + 1 /\ t[n + 1] = u
      /\ \A i \in 1..n : t[i] = s[i]
  OBVIOUS
<1>2. \A i \in 1..n : v[i] = w[i]
  BY <1>1
<1>3. w[n + 1] = u.value
  BY <1>1
<1>4. PICK f : IsSum(f, v, n) /\ SumValues(s) = f[n]
  BY SumValuesIs
<1> HIDE DEF t
<1>5. PICK g : IsSum(g, w, n + 1) /\ SumValues(t) = g[n + 1]
  BY <1>1, SumValuesIs
<1> HIDE DEF v, w, n
<1>6. f[n] \in Int /\ g[n + 1] = f[n] + w[n + 1]
  BY <1>1, <1>2, <1>4, <1>5, SumGrows
<1> QED BY <1>3, <1>4, <1>5, <1>6 DEF t

\* ... and one more fee for its ancestors.
LEMMA SumCpfpAppend ==
  ASSUME NEW s \in Seq(UTXOs), NEW u \in UTXOs
  PROVE  SumCpfp(s) \in Int /\ SumCpfp(Append(s, u)) = SumCpfp(s) + CpfpFee(u)
<1> DEFINE n == Len(s)
           t == Append(s, u)
           v == [i \in 1..n |-> CpfpFee(s[i])]
           w == [i \in 1..n + 1 |-> CpfpFee(t[i])]
<1>1. /\ n \in Nat /\ t \in Seq(UTXOs) /\ Len(t) = n + 1 /\ t[n + 1] = u
      /\ \A i \in 1..n : t[i] = s[i]
  OBVIOUS
<1>2. \A i \in 1..n : v[i] = w[i]
  BY <1>1
<1>3. w[n + 1] = CpfpFee(u)
  BY <1>1
<1>4. PICK f : IsSum(f, v, n) /\ SumCpfp(s) = f[n]
  BY SumCpfpIs
<1> HIDE DEF t
<1>5. PICK g : IsSum(g, w, n + 1) /\ SumCpfp(t) = g[n + 1]
  BY <1>1, SumCpfpIs
<1> HIDE DEF v, w, n
<1>6. f[n] \in Int /\ g[n + 1] = f[n] + w[n + 1]
  BY <1>1, <1>2, <1>4, <1>5, SumGrows
<1> QED BY <1>3, <1>4, <1>5, <1>6 DEF t

\* What coins bring beyond what it costs to spend them.
Gain(s) == SumValues(s) - SumCpfp(s) - FeeRate * InputBytes * Len(s)

\* Each coin adds its score.
LEMMA GainFacts ==
  ASSUME NEW s \in Seq(UTXOs), NEW u \in UTXOs
  PROVE  /\ Gain(<<>>) = 0 /\ Gain(s) \in Int
         /\ Gain(Append(s, u)) = Gain(s) + UtxoScore(u)
<1>1. /\ SumValues(s) \in Int /\ SumValues(Append(s, u)) = SumValues(s) + u.value
      /\ SumCpfp(s) \in Int /\ SumCpfp(Append(s, u)) = SumCpfp(s) + CpfpFee(u)
  BY SumValuesAppend, SumCpfpAppend
<1>2. /\ Len(s) \in Nat /\ Len(Append(s, u)) = Len(s) + 1 /\ Len(<<>>) = 0
      /\ u.value \in Nat /\ CpfpFee(u) \in Nat /\ FeeRate \in Nat
  BY FeeTypes, FeeRateAssumption DEF UTXOs
<1>3. ASSUME NEW x \in Int, NEW n \in Nat
      PROVE  x * 68 \in Int /\ x * 68 * n \in Int /\ x * 68 * (n + 1) = x * 68 * n + x * 68 /\ x * 68 * 0 = 0
  OBVIOUS
<1>4. /\ FeeRate * InputBytes \in Int /\ FeeRate * InputBytes * Len(s) \in Int
      /\ FeeRate * InputBytes * (Len(s) + 1) = FeeRate * InputBytes * Len(s) + FeeRate * InputBytes
      /\ FeeRate * InputBytes * 0 = 0
  BY <1>2, <1>3 DEF InputBytes
<1>5. Gain(<<>>) = 0
  BY <1>2, <1>4, SumOfNone DEF Gain
<1>6. UtxoScore(u) = u.value - (FeeRate * InputBytes + CpfpFee(u))
  BY DEF UtxoScore, InputFee
<1> DEFINE cost == FeeRate * InputBytes
           paid == cost * Len(s)
           more == cost * (Len(s) + 1)
<1>7. cost \in Int /\ paid \in Int /\ more = paid + cost
  BY <1>4
<1>8. Gain(s) = SumValues(s) - SumCpfp(s) - paid /\ Gain(Append(s, u)) = SumValues(Append(s, u)) - SumCpfp(Append(s, u)) - more
  BY <1>2 DEF Gain
<1>9. UtxoScore(u) = u.value - (cost + CpfpFee(u))
  BY <1>6
<1> HIDE DEF cost, paid, more
<1> QED BY <1>1, <1>2, <1>5, <1>7, <1>8, <1>9

-----------------------------------------------------------------------------
(* The order of the coins *)

Ahead(pool, u) == {v \in pool : Precedes(v, u)}

\* The order is total on the coins of a wallet, as their ids differ.
LEMMA PrecedesOrders ==
  ASSUME NEW pool, IsPool(pool), NEW u \in pool, NEW v \in pool, NEW w \in pool
  PROVE  /\ ~(Precedes(u, v) /\ Precedes(v, u)) /\ ~Precedes(u, u)
         /\ u # v => Precedes(u, v) \/ Precedes(v, u)
         /\ Precedes(u, v) /\ Precedes(v, w) => Precedes(u, w)
         /\ Precedes(u, v) => UtxoScore(u) >= UtxoScore(v)
<1>1. u \in UTXOs /\ v \in UTXOs /\ w \in UTXOs /\ (u.id = v.id => u = v)
  BY DEF IsPool
<1>2. /\ UtxoScore(u) \in Int /\ UtxoScore(v) \in Int /\ UtxoScore(w) \in Int
      /\ u.id \in Nat /\ v.id \in Nat /\ w.id \in Nat
  BY <1>1, FeeTypes DEF UTXOs
<1> QED BY <1>1, <1>2 DEF Precedes

\* Every coin of the pool has a place, and those ahead of it come before.
LEMMA RankedFacts ==
  ASSUME NEW pool, IsPool(pool)
  PROVE  /\ Cardinality(pool) \in Nat
         /\ Ranked(pool) \in [1..Cardinality(pool) -> pool]
         /\ \A u \in pool : \E i \in 1..Cardinality(pool) : Ranked(pool)[i] = u
         /\ \A i, j \in 1..Cardinality(pool) : i < j => Precedes(Ranked(pool)[i], Ranked(pool)[j])
         /\ \A i \in 1..Cardinality(pool) : \A u \in pool :
              Cardinality(Ahead(pool, u)) = i - 1 <=> u = Ranked(pool)[i]
<1> DEFINE n == Cardinality(pool)
           rank == [u \in pool |-> Cardinality(Ahead(pool, u)) + 1]
<1>1. IsFiniteSet(pool) /\ n \in Nat
  BY FS_CardinalityType DEF IsPool
<1>2. \A u \in pool : /\ Ahead(pool, u) \in SUBSET pool /\ u \notin Ahead(pool, u)
                      /\ IsFiniteSet(Ahead(pool, u)) /\ Cardinality(Ahead(pool, u)) \in 0..n - 1
  <2> SUFFICES ASSUME NEW u \in pool
               PROVE  /\ Ahead(pool, u) \in SUBSET pool /\ u \notin Ahead(pool, u)
                      /\ IsFiniteSet(Ahead(pool, u)) /\ Cardinality(Ahead(pool, u)) \in 0..n - 1
    OBVIOUS
  <2>1. Ahead(pool, u) \in SUBSET pool /\ u \notin Ahead(pool, u) /\ Ahead(pool, u) # pool
    BY PrecedesOrders DEF Ahead
  <2>2. IsFiniteSet(Ahead(pool, u)) /\ Cardinality(Ahead(pool, u)) <= n
        /\ (Cardinality(Ahead(pool, u)) = n => Ahead(pool, u) = pool)
    BY <1>1, <2>1, FS_Subset
  <2>3. Cardinality(Ahead(pool, u)) \in Nat
    BY <2>2, FS_CardinalityType
  <2> QED BY <1>1, <2>1, <2>2, <2>3
<1>3. ASSUME NEW u \in pool, NEW v \in pool, Precedes(u, v)
      PROVE  rank[u] < rank[v]
  <2>1. Ahead(pool, u) \in SUBSET Ahead(pool, v) /\ u \in Ahead(pool, v)
    BY <1>3, PrecedesOrders DEF Ahead
  <2>2. Ahead(pool, u) # Ahead(pool, v)
    BY <1>2, <2>1
  <2>3. Cardinality(Ahead(pool, u)) < Cardinality(Ahead(pool, v))
    BY <1>2, <2>1, <2>2, FS_Subset
  <2> QED BY <1>2, <2>3
<1>4. ASSUME NEW u \in pool, NEW v \in pool, rank[u] = rank[v], u # v
      PROVE  FALSE
  <2>1. rank[u] \in Int
    BY <1>2
  <2> HIDE DEF rank
  <2> QED BY <1>3, <1>4, <2>1, PrecedesOrders
<1>5. rank \in [pool -> 1..n]
  BY <1>1, <1>2
<1>6. rank \in Surjection(pool, 1..n)
  <2>1. IsFiniteSet(1..n) /\ Cardinality(1..n) = n
    BY <1>1, FS_Interval
  <2> HIDE DEF rank
  <2>2. rank \in Injection(pool, 1..n)
    BY <1>4, <1>5 DEF Injection, IsInjective
  <2> QED BY <1>1, <2>1, <2>2, FS_Injection
<1>7. \A u \in pool : \A i \in 1..n : rank[u] = i <=> Cardinality(Ahead(pool, u)) = i - 1
  BY <1>2
<1>8. Ranked(pool) = [i \in 1..n |-> CHOOSE u \in pool : Cardinality(Ahead(pool, u)) = i - 1]
  BY DEF Ranked, Ahead
<1>9. ASSUME NEW i \in 1..n
      PROVE  /\ Ranked(pool)[i] \in pool /\ rank[Ranked(pool)[i]] = i
             /\ \A u \in pool : Cardinality(Ahead(pool, u)) = i - 1 <=> u = Ranked(pool)[i]
  <2>1. \E u \in pool : Cardinality(Ahead(pool, u)) = i - 1
    BY <1>6, <1>7 DEF Surjection
  <2>2. Ranked(pool)[i] = CHOOSE u \in pool : Cardinality(Ahead(pool, u)) = i - 1
    BY <1>8
  <2>3. Ranked(pool)[i] \in pool /\ Cardinality(Ahead(pool, Ranked(pool)[i])) = i - 1
    BY <2>1, <2>2
  <2> HIDE DEF rank
  <2> QED BY <1>4, <1>7, <2>3
<1>10. Ranked(pool) \in [1..n -> pool]
  BY <1>8, <1>9
<1> HIDE DEF rank
<1>11. \A u \in pool : \E i \in 1..n : Ranked(pool)[i] = u
  BY <1>4, <1>5, <1>9
<1>12. ASSUME NEW i \in 1..n, NEW j \in 1..n, i < j
       PROVE  Precedes(Ranked(pool)[i], Ranked(pool)[j])
  <2>1. /\ Ranked(pool)[i] \in pool /\ Ranked(pool)[j] \in pool /\ Ranked(pool)[i] # Ranked(pool)[j]
        /\ ~(rank[Ranked(pool)[j]] < rank[Ranked(pool)[i]])
    BY <1>9, <1>12
  <2> QED BY <1>3, <2>1, PrecedesOrders
<1> QED BY <1>1, <1>9, <1>10, <1>11, <1>12

\* A coin that comes after all others is ranked last.
LEMMA RankedAppend ==
  ASSUME NEW pool, NEW last \in pool, IsPool(pool),
         \A u \in pool : u # last => Precedes(u, last)
  PROVE  /\ Ranked(pool) = Append(Ranked(pool \ {last}), last)
         /\ Ranked(pool \ {last}) \in Seq(UTXOs) /\ IsPool(pool \ {last})
<1> DEFINE rest == pool \ {last}
           m    == Cardinality(rest)
<1>1. IsPool(rest) /\ m \in Nat /\ Cardinality(pool) = m + 1
  <2>1. IsFiniteSet(pool)
    BY DEF IsPool
  <2>2. IsFiniteSet(rest) /\ Cardinality(rest) = Cardinality(pool) - 1
    BY <2>1, FS_RemoveElement
  <2>3. Cardinality(rest) \in Nat /\ Cardinality(pool) \in Nat
    BY <2>1, <2>2, FS_CardinalityType
  <2> QED BY <2>2, <2>3 DEF IsPool
<1>2. Ahead(pool, last) = rest
  BY PrecedesOrders DEF Ahead
<1>3. \A u \in rest : Ahead(pool, u) = Ahead(rest, u)
  BY PrecedesOrders DEF Ahead
<1> HIDE DEF rest
<1>4. \A i \in 1..m : i \in 1..m + 1 /\ i # m + 1
  BY <1>1
<1>5. rest \subseteq pool /\ \A i \in 1..m : Ranked(rest)[i] \in rest
  BY <1>1, RankedFacts DEF rest
<1>6. ASSUME NEW i \in 1..m PROVE Ranked(pool)[i] = Ranked(rest)[i]
  <2>1. Cardinality(Ahead(rest, Ranked(rest)[i])) = i - 1
    BY <1>1, <1>5, RankedFacts
  <2>2. Cardinality(Ahead(pool, Ranked(rest)[i])) = i - 1
    BY <1>3, <1>5, <2>1
  <2> QED BY <1>1, <1>4, <1>5, <2>2, RankedFacts
<1>7. Ranked(pool)[m + 1] = last
  <2>1. Cardinality(Ahead(pool, last)) = (m + 1) - 1 /\ m + 1 \in 1..m + 1
    BY <1>1, <1>2
  <2> QED BY <1>1, <2>1, RankedFacts
<1>8. Ranked(rest) \in [1..m -> rest] /\ Ranked(pool) \in [1..m + 1 -> pool]
  BY <1>1, RankedFacts
<1>9. Ranked(rest) \in Seq(UTXOs) /\ Len(Ranked(rest)) = m
  BY <1>1, <1>8 DEF IsPool
<1>10. Append(Ranked(rest), last) = [i \in 1..m + 1 |-> IF i = m + 1 THEN last ELSE Ranked(rest)[i]]
  <2> DEFINE t == Append(Ranked(rest), last)
  <2>1. last \in UTXOs
    BY DEF IsPool
  <2>2. /\ t \in Seq(UTXOs) /\ Len(t) = m + 1 /\ t[m + 1] = last
        /\ \A i \in 1..m : t[i] = Ranked(rest)[i]
    BY <1>9, <2>1
  <2>3. \A i \in 1..m + 1 : i # m + 1 => i \in 1..m
    BY <1>1
  <2> HIDE DEF t, m
  <2>4. \A i \in 1..m + 1 : t[i] = IF i = m + 1 THEN last ELSE Ranked(rest)[i]
    BY <2>2, <2>3
  <2>5. t = [i \in 1..m + 1 |-> t[i]]
    BY <2>2
  <2>6. t = [i \in 1..m + 1 |-> IF i = m + 1 THEN last ELSE Ranked(rest)[i]]
    BY <2>4, <2>5
  <2> QED BY <2>6 DEF t
<1>11. Ranked(pool) = [i \in 1..m + 1 |-> IF i = m + 1 THEN last ELSE Ranked(rest)[i]]
  <2> HIDE DEF m
  <2>1. \A i \in 1..m + 1 : i # m + 1 => i \in 1..m
    BY <1>1
  <2>2. \A i \in 1..m + 1 : Ranked(pool)[i] = IF i = m + 1 THEN last ELSE Ranked(rest)[i]
    BY <1>6, <1>7, <2>1
  <2> QED BY <1>8, <2>2
<1> QED BY <1>1, <1>9, <1>10, <1>11 DEF rest

-----------------------------------------------------------------------------
(* The accounts of a strategy *)

Accs == [inputs : Seq(UTXOs), sum : Int, cpfp : Int, funded : BOOLEAN]

\* What the coins have to bring for a transaction of one output.
Due(value) == value + FeeRate * TransactionBytes(0, 1)

\* The fee of a transaction is linear in its inputs and outputs.
LEMMA FeeOfInputs ==
  ASSUME NEW n \in Nat
  PROVE  /\ FeeRate * TransactionBytes(0, 1) \in Nat /\ FeeRate * TransactionBytes(0, 1) > 0
         /\ FeeRate * InputBytes * n \in Int /\ FeeRate * OutputBytes \in Nat
         /\ FeeRate * TransactionBytes(n, 1)
              = FeeRate * TransactionBytes(0, 1) + FeeRate * InputBytes * n
         /\ FeeRate * TransactionBytes(n, 2)
              = FeeRate * TransactionBytes(n, 1) + FeeRate * OutputBytes
<1>1. FeeRate \in Nat /\ FeeRate # 0
  BY FeeRateAssumption
<1>2. ASSUME NEW x \in Nat, x # 0
      PROVE  /\ x * (11 + 0 * 68 + 1 * 31) \in Nat /\ x * (11 + 0 * 68 + 1 * 31) > 0
             /\ x * 68 * n \in Int /\ x * 31 \in Nat
             /\ x * (11 + n * 68 + 1 * 31) = x * (11 + 0 * 68 + 1 * 31) + x * 68 * n
             /\ x * (11 + n * 68 + 2 * 31) = x * (11 + n * 68 + 1 * 31) + x * 31
  BY <1>2
<1> QED BY <1>1, <1>2 DEF TransactionBytes, InputBytes, OutputBytes

\* The sums are those of the inputs, and enough is known to be enough.
Books(acc, value) ==
  /\ acc \in Accs
  /\ acc.sum = SumValues(acc.inputs) /\ acc.cpfp = SumCpfp(acc.inputs)
  /\ acc.funded <=> Gain(acc.inputs) >= Due(value)

\* What is over when outputs and fee are paid for.
LEMMA OverFacts ==
  ASSUME NEW acc \in Accs, NEW value \in Nat,
         acc.sum = SumValues(acc.inputs), acc.cpfp = SumCpfp(acc.inputs)
  PROVE  /\ FeeWith(acc, Payment(value)) \in Int /\ Due(value) \in Nat /\ Gain(acc.inputs) \in Int
         /\ acc.sum - value - FeeWith(acc, Payment(value)) = Gain(acc.inputs) - Due(value)
<1> DEFINE n    == Len(acc.inputs)
           base == FeeRate * TransactionBytes(0, 1)
           size == FeeRate * TransactionBytes(n, 1)
           cost == FeeRate * InputBytes * n
<1>1. acc.inputs \in Seq(UTXOs) /\ n \in Nat /\ acc.sum \in Int /\ acc.cpfp \in Int
  BY DEF Accs
<1>2. base \in Nat /\ cost \in Int /\ size = base + cost
  BY <1>1, FeeOfInputs
<1>3. /\ FeeWith(acc, Payment(value)) = size + acc.cpfp /\ Due(value) = value + base
      /\ Gain(acc.inputs) = acc.sum - acc.cpfp - cost
  BY DEF FeeWith, Payment, Due, Gain
<1> HIDE DEF base, size, cost
<1> QED BY <1>1, <1>2, <1>3

\* Books that are right tell what is over.
LEMMA BooksFacts ==
  ASSUME NEW value \in Nat, NEW acc, Books(acc, value)
  PROVE  /\ acc.inputs \in Seq(UTXOs) /\ acc.funded \in BOOLEAN
         /\ Gain(acc.inputs) \in Int /\ Due(value) \in Int
         /\ acc.funded <=> Gain(acc.inputs) >= Due(value)
         /\ FeeWith(acc, Payment(value)) \in Int
         /\ acc.sum - value - FeeWith(acc, Payment(value)) = Gain(acc.inputs) - Due(value)
BY OverFacts DEF Books, Accs

\* They stay right when a coin is added.
LEMMA AddKeepsBooks ==
  ASSUME NEW value \in Nat, NEW acc, Books(acc, value), NEW u \in UTXOs
  PROVE  /\ With(acc, u) \in Accs /\ Books(Add(acc, u, Payment(value)), value)
         /\ With(acc, u).sum \in Int /\ FeeWith(With(acc, u), Payment(value)) \in Int
         /\ Add(acc, u, Payment(value)).inputs = Append(acc.inputs, u)
         /\ Gain(Append(acc.inputs, u)) = Gain(acc.inputs) + UtxoScore(u)
<1> DEFINE more == With(acc, u)
           add  == Add(acc, u, Payment(value))
           on   == more.sum >= value + FeeWith(more, Payment(value))
<1>1. acc \in Accs /\ acc.inputs \in Seq(UTXOs) /\ acc.sum \in Int /\ acc.cpfp \in Int
  BY DEF Books, Accs
<1>2. /\ SumValues(Append(acc.inputs, u)) = SumValues(acc.inputs) + u.value
      /\ SumCpfp(Append(acc.inputs, u)) = SumCpfp(acc.inputs) + CpfpFee(u)
      /\ u.value \in Int /\ CpfpFee(u) \in Int /\ Append(acc.inputs, u) \in Seq(UTXOs)
  BY <1>1, SumValuesAppend, SumCpfpAppend, FeeTypes DEF UTXOs
<1>3. /\ more \in Accs /\ more.inputs = Append(acc.inputs, u)
      /\ more.sum = acc.sum + u.value /\ more.cpfp = acc.cpfp + CpfpFee(u)
  BY <1>1, <1>2 DEF With, Accs
<1>4. more.sum = SumValues(more.inputs) /\ more.cpfp = SumCpfp(more.inputs)
  BY <1>2, <1>3 DEF Books
<1>5. /\ FeeWith(more, Payment(value)) \in Int /\ Due(value) \in Nat /\ Gain(more.inputs) \in Int
      /\ more.sum - value - FeeWith(more, Payment(value)) = Gain(more.inputs) - Due(value)
  BY <1>3, <1>4, OverFacts
<1>6. add = [more EXCEPT !.funded = on]
  BY DEF Add, Payment
<1>7. more.sum \in Int /\ on \in BOOLEAN /\ (on <=> Gain(more.inputs) >= Due(value))
  <2>1. more.sum \in Int
    BY <1>3 DEF Accs
  <2> HIDE DEF more
  <2> QED BY <1>5, <2>1
<1> HIDE DEF more, on
<1>8. /\ add \in Accs /\ add.inputs = more.inputs /\ add.sum = more.sum /\ add.cpfp = more.cpfp
      /\ add.funded = on
  BY <1>3, <1>6, <1>7 DEF Accs
<1>9. Books(add, value)
  BY <1>4, <1>7, <1>8 DEF Books
<1>10. Gain(Append(acc.inputs, u)) = Gain(acc.inputs) + UtxoScore(u)
  BY <1>1, GainFacts
<1> QED BY <1>3, <1>5, <1>7, <1>8, <1>9, <1>10 DEF more

\* They are right at the start, when nothing is enough yet.
LEMMA StartedBooks ==
  ASSUME NEW value \in Nat
  PROVE  Books(Started(Payment(value)), value) /\ Started(Payment(value)).inputs = <<>>
<1>1. Started(Payment(value)) = [inputs |-> <<>>, sum |-> 0, cpfp |-> 0, funded |-> FALSE]
  BY SumOfNone DEF Started, Payment
<1>2. Gain(<<>>) = 0
  <2>1. <<>> \in Seq(UTXOs) /\ [id |-> 0, value |-> 0, vsize |-> 0, rate |-> 0] \in UTXOs
    BY DEF UTXOs
  <2> QED BY <2>1, GainFacts
<1>3. Due(value) \in Nat /\ Due(value) > 0
  <2> DEFINE base == FeeRate * TransactionBytes(0, 1)
  <2>1. base \in Nat /\ base > 0
    BY FeeOfInputs, 0 \in Nat
  <2>2. Due(value) = value + base
    BY DEF Due
  <2> HIDE DEF base
  <2> QED BY <2>1, <2>2
<1>4. ~(Gain(<<>>) >= Due(value))
  BY <1>2, <1>3
<1> QED BY <1>1, <1>4, SumOfNone DEF Books, Accs

-----------------------------------------------------------------------------
(* The runs of the strategies *)

\* A step of blackjack adds the coin or skips it.
LEMMA BlackjackKeepsBooks ==
  ASSUME NEW value \in Nat, NEW acc, Books(acc, value), NEW u \in UTXOs
  PROVE  /\ Books(BlackjackStep(acc, u, Payment(value)), value)
         /\ BlackjackStep(acc, u, Payment(value)) \in {acc, Add(acc, u, Payment(value))}
         /\ acc.funded => BlackjackStep(acc, u, Payment(value)) = acc
BY AddKeepsBooks DEF BlackjackStep

\* So does one of accumulative, which skips the coins of negative score.
LEMMA AccumulativeKeepsBooks ==
  ASSUME NEW value \in Nat, NEW acc, Books(acc, value), NEW u \in UTXOs
  PROVE  /\ Books(AccumulativeStep(acc, u, Payment(value)), value)
         /\ AccumulativeStep(acc, u, Payment(value)) =
              IF acc.funded \/ UtxoScore(u) < 0 THEN acc ELSE Add(acc, u, Payment(value))
<1>1. InputFee(u) \in Nat /\ u.value \in Nat
  BY FeeTypes DEF UTXOs
<1>2. InputFee(u) > u.value <=> UtxoScore(u) < 0
  BY <1>1 DEF UtxoScore
<1> QED BY <1>2, AddKeepsBooks DEF AccumulativeStep

\* The books after each coin of the pool that blackjack is offered.
BlackjackRun(f, utxos, value) ==
  /\ f[0] = Started(Payment(value))
  /\ \A i \in 1..Len(utxos) : f[i] = BlackjackStep(f[i - 1], utxos[i], Payment(value))
  /\ \A i \in 0..Len(utxos) : Books(f[i], value)
  /\ Blackjack(utxos, Payment(value)) = f[Len(utxos)]

\* The definition by recursion finds this run.
LEMMA BlackjackRuns ==
  ASSUME NEW value \in Nat, NEW utxos \in Seq(UTXOs)
  PROVE  \E f : BlackjackRun(f, utxos, value)
<1> DEFINE request == Payment(value)
           n    == Len(utxos)
           A    == {acc \in Accs : Books(acc, value)}
           step == [i \in 1..n |-> [acc \in A |-> BlackjackStep(acc, utxos[i], request)]]
           run[i \in 0..Len(utxos)] ==
             IF i = 0 THEN Started(request) ELSE BlackjackStep(run[i - 1], utxos[i], request)
<1>1. n \in Nat /\ \A i \in 1..n : utxos[i] \in UTXOs
  OBVIOUS
<1>2. Started(request) \in A
  BY StartedBooks DEF Books
<1>3. \A i \in 1..n : \A acc \in A : BlackjackStep(acc, utxos[i], request) \in A
  BY <1>1, BlackjackKeepsBooks DEF Books
<1>4. /\ step \in [1..n -> [A -> A]]
      /\ \A i \in 1..n : \A acc \in A : step[i][acc] = BlackjackStep(acc, utxos[i], request)
  BY <1>3
<1> HIDE DEF step, n, A
<1>5. PICK f : IsRun(f, A, Started(request), n, step)
  BY <1>1, <1>2, <1>4, RunExists
<1>6. f \in [0..n -> A] /\ f[0] = Started(request)
  BY <1>5 DEF IsRun
<1>7. \A i \in 0..n : i # 0 => i \in 1..n
  BY <1>1
<1>8. \A i \in 1..n : f[i] = BlackjackStep(f[i - 1], utxos[i], request)
  <2>1. \A i \in 1..n : i - 1 \in 0..n
    BY <1>1
  <2> QED BY <1>4, <1>5, <1>6, <2>1 DEF IsRun
<1>9. f = [i \in 0..n |-> IF i = 0 THEN Started(request)
                          ELSE BlackjackStep(f[i - 1], utxos[i], request)]
  BY <1>6, <1>7, <1>8
<1>10. run = [i \in 0..n |-> IF i = 0 THEN Started(request)
                             ELSE BlackjackStep(run[i - 1], utxos[i], request)]
  BY <1>9 DEF n
<1>11. Blackjack(utxos, request) = run[n]
  BY DEF Blackjack, n
<1> HIDE DEF run, request
<1>12. run[0] = Started(request)
       /\ \A i \in 1..n : run[i] = BlackjackStep(run[i - 1], utxos[i], request)
  <2>1. 0 \in 0..n /\ \A i \in 1..n : i \in 0..n /\ i # 0
    BY <1>1
  <2>2. \A i \in 0..n : run[i] = IF i = 0 THEN Started(request)
                                 ELSE BlackjackStep(run[i - 1], utxos[i], request)
    BY <1>10
  <2> QED BY ONLY <2>1, <2>2
<1> DEFINE S == {i \in Nat : i <= n => Books(run[i], value)}
<1>13. 0 \in S
  BY <1>12, StartedBooks DEF request
<1>14. ASSUME NEW i \in Nat, i \in S, i + 1 <= n PROVE Books(run[i + 1], value)
  <2>1. i + 1 \in 1..n /\ (i + 1) - 1 = i /\ Books(run[i], value) /\ utxos[i + 1] \in UTXOs
    BY <1>1, <1>14
  <2>2. run[i + 1] = BlackjackStep(run[i], utxos[i + 1], request)
    BY <1>12, <2>1
  <2> QED BY <2>1, <2>2, BlackjackKeepsBooks DEF request
<1>15. \A i \in Nat : i \in S => i + 1 \in S
  BY <1>1, <1>14
<1> HIDE DEF S
<1>16. Nat \subseteq S
  BY <1>13, <1>15, SetInduction
<1>17. \A i \in 0..n : Books(run[i], value)
  BY <1>1, <1>16 DEF S
<1> QED BY <1>11, <1>12, <1>17 DEF BlackjackRun, n, request

\* The books after each coin of the pool that accumulative is offered.
AccumulativeRun(f, utxos, value) ==
  /\ f[0] = Started(Payment(value))
  /\ \A i \in 1..Len(utxos) : f[i] = AccumulativeStep(f[i - 1], utxos[i], Payment(value))
  /\ \A i \in 0..Len(utxos) : Books(f[i], value)
  /\ Accumulative(utxos, Payment(value)) = f[Len(utxos)]

\* The definition by recursion finds this run.
LEMMA AccumulativeRuns ==
  ASSUME NEW value \in Nat, NEW utxos \in Seq(UTXOs)
  PROVE  \E f : AccumulativeRun(f, utxos, value)
<1> DEFINE request == Payment(value)
           n    == Len(utxos)
           A    == {acc \in Accs : Books(acc, value)}
           step == [i \in 1..n |-> [acc \in A |-> AccumulativeStep(acc, utxos[i], request)]]
           run[i \in 0..Len(utxos)] ==
             IF i = 0 THEN Started(request) ELSE AccumulativeStep(run[i - 1], utxos[i], request)
<1>1. n \in Nat /\ \A i \in 1..n : utxos[i] \in UTXOs
  OBVIOUS
<1>2. Started(request) \in A
  BY StartedBooks DEF Books
<1>3. \A i \in 1..n : \A acc \in A : AccumulativeStep(acc, utxos[i], request) \in A
  BY <1>1, AccumulativeKeepsBooks DEF Books
<1>4. /\ step \in [1..n -> [A -> A]]
      /\ \A i \in 1..n : \A acc \in A : step[i][acc] = AccumulativeStep(acc, utxos[i], request)
  BY <1>3
<1> HIDE DEF step, n, A
<1>5. PICK f : IsRun(f, A, Started(request), n, step)
  BY <1>1, <1>2, <1>4, RunExists
<1>6. f \in [0..n -> A] /\ f[0] = Started(request)
  BY <1>5 DEF IsRun
<1>7. \A i \in 0..n : i # 0 => i \in 1..n
  BY <1>1
<1>8. \A i \in 1..n : f[i] = AccumulativeStep(f[i - 1], utxos[i], request)
  <2>1. \A i \in 1..n : i - 1 \in 0..n
    BY <1>1
  <2> QED BY <1>4, <1>5, <1>6, <2>1 DEF IsRun
<1>9. f = [i \in 0..n |-> IF i = 0 THEN Started(request)
                          ELSE AccumulativeStep(f[i - 1], utxos[i], request)]
  BY <1>6, <1>7, <1>8
<1>10. run = [i \in 0..n |-> IF i = 0 THEN Started(request)
                             ELSE AccumulativeStep(run[i - 1], utxos[i], request)]
  BY <1>9 DEF n
<1>11. Accumulative(utxos, request) = run[n]
  BY DEF Accumulative, n
<1> HIDE DEF run, request
<1>12. run[0] = Started(request)
       /\ \A i \in 1..n : run[i] = AccumulativeStep(run[i - 1], utxos[i], request)
  <2>1. 0 \in 0..n /\ \A i \in 1..n : i \in 0..n /\ i # 0
    BY <1>1
  <2>2. \A i \in 0..n : run[i] = IF i = 0 THEN Started(request)
                                 ELSE AccumulativeStep(run[i - 1], utxos[i], request)
    BY <1>10
  <2> QED BY ONLY <2>1, <2>2
<1> DEFINE S == {i \in Nat : i <= n => Books(run[i], value)}
<1>13. 0 \in S
  BY <1>12, StartedBooks DEF request
<1>14. ASSUME NEW i \in Nat, i \in S, i + 1 <= n PROVE Books(run[i + 1], value)
  <2>1. i + 1 \in 1..n /\ (i + 1) - 1 = i /\ Books(run[i], value) /\ utxos[i + 1] \in UTXOs
    BY <1>1, <1>14
  <2>2. run[i + 1] = AccumulativeStep(run[i], utxos[i + 1], request)
    BY <1>12, <2>1
  <2> QED BY <2>1, <2>2, AccumulativeKeepsBooks DEF request
<1>15. \A i \in Nat : i \in S => i + 1 \in S
  BY <1>1, <1>14
<1> HIDE DEF S
<1>16. Nat \subseteq S
  BY <1>13, <1>15, SetInduction
<1>17. \A i \in 0..n : Books(run[i], value)
  BY <1>1, <1>16 DEF S
<1> QED BY <1>11, <1>12, <1>17 DEF AccumulativeRun, n, request

-----------------------------------------------------------------------------
(* What the strategies find *)

\* Each coin brings at least what it costs to spend it.
Worthwhile(s) == \A i \in 1..Len(s) : UtxoScore(s[i]) >= 0

\* Another worthwhile coin leaves it so.
LEMMA WorthwhileAppend ==
  ASSUME NEW s \in Seq(UTXOs), NEW u \in UTXOs, Worthwhile(s), UtxoScore(u) >= 0
  PROVE  Worthwhile(Append(s, u))
<1>1. /\ Len(Append(s, u)) = Len(s) + 1 /\ Len(s) \in Nat
      /\ \A i \in 1..Len(s) + 1 : Append(s, u)[i] = IF i = Len(s) + 1 THEN u ELSE s[i]
  OBVIOUS
<1>2. \A i \in 1..Len(s) + 1 : i # Len(s) + 1 => i \in 1..Len(s)
  BY <1>1
<1> QED BY <1>1, <1>2 DEF Worthwhile

\* No coins are no waste.
LEMMA WorthwhileNone == Worthwhile(<<>>)
BY DEF Worthwhile

\* A ranked wallet is a sequence of its coins.
LEMMA RankedIsSeq ==
  ASSUME NEW pool, IsPool(pool)
  PROVE  /\ Ranked(pool) \in Seq(UTXOs) /\ Len(Ranked(pool)) = Cardinality(pool)
         /\ \A i \in 1..Len(Ranked(pool)) : Ranked(pool)[i] \in pool
<1>1. Ranked(pool) \in [1..Cardinality(pool) -> UTXOs] /\ Cardinality(pool) \in Nat
  BY RankedFacts DEF IsPool
<1> QED BY <1>1, RankedFacts

\* Accumulative takes what is worth its fee until there is enough.
LEMMA AccumulativePays ==
  ASSUME NEW value \in Nat, NEW utxos \in Seq(UTXOs)
  PROVE  /\ Books(Accumulative(utxos, Payment(value)), value)
         /\ Worthwhile(Accumulative(utxos, Payment(value)).inputs)
<1> DEFINE n == Len(utxos)
<1>1. PICK f : AccumulativeRun(f, utxos, value)
  BY AccumulativeRuns
<1> DEFINE S == {i \in Nat : i <= n => Worthwhile(f[i].inputs)}
<1>2. 0 \in S
  BY <1>1, StartedBooks, WorthwhileNone DEF AccumulativeRun
<1>3. ASSUME NEW i \in Nat, i \in S, i + 1 <= n PROVE Worthwhile(f[i + 1].inputs)
  <2> DEFINE u == utxos[i + 1]
  <2>1. /\ i \in 0..n /\ i + 1 \in 1..n /\ (i + 1) - 1 = i
        /\ u \in UTXOs /\ UtxoScore(u) \in Int /\ Worthwhile(f[i].inputs)
    BY <1>3, FeeTypes
  <2>2. Books(f[i], value) /\ f[i + 1] = AccumulativeStep(f[i], u, Payment(value))
    BY <1>1, <2>1 DEF AccumulativeRun
  <2> HIDE DEF u
  <2>3. CASE f[i].funded \/ UtxoScore(u) < 0
    BY <2>1, <2>2, <2>3, AccumulativeKeepsBooks
  <2>4. CASE ~(f[i].funded \/ UtxoScore(u) < 0)
    <3>0. f[i].inputs \in Seq(UTXOs)
      BY <2>2, BooksFacts
    <3>1. f[i + 1] = Add(f[i], u, Payment(value))
      BY <2>1, <2>2, <2>4, AccumulativeKeepsBooks
    <3>2. Add(f[i], u, Payment(value)).inputs = Append(f[i].inputs, u)
      BY <2>1, <2>2, AddKeepsBooks
    <3> QED BY <2>1, <2>4, <3>0, <3>1, <3>2, WorthwhileAppend
  <2> QED BY <2>3, <2>4
<1>4. \A i \in Nat : i \in S => i + 1 \in S
  BY <1>3
<1> HIDE DEF S
<1>5. Nat \subseteq S
  BY <1>2, <1>4, SetInduction
<1>6. n \in Nat /\ n \in 0..n
  OBVIOUS
<1> QED BY <1>1, <1>5, <1>6 DEF S, AccumulativeRun

\* Blackjack may take a coin that costs more than it brings, but then has not
\* enough, and never will: the coins that follow are no better.
LEMMA BlackjackPays ==
  ASSUME NEW value \in Nat, NEW pool, IsPool(pool)
  PROVE  /\ Books(Blackjack(Ranked(pool), Payment(value)), value)
         /\ Blackjack(Ranked(pool), Payment(value)).funded =>
              Worthwhile(Blackjack(Ranked(pool), Payment(value)).inputs)
<1> DEFINE utxos == Ranked(pool)
           n     == Len(utxos)
<1>1. utxos \in Seq(UTXOs) /\ n = Cardinality(pool) /\ \A i \in 1..n : utxos[i] \in pool
  BY RankedIsSeq
<1>2. \A i, j \in 1..n : i < j => UtxoScore(utxos[i]) >= UtxoScore(utxos[j])
  <2> SUFFICES ASSUME NEW i \in 1..n, NEW j \in 1..n, i < j
               PROVE  UtxoScore(utxos[i]) >= UtxoScore(utxos[j])
    OBVIOUS
  <2>1. Precedes(utxos[i], utxos[j]) /\ utxos[i] \in pool /\ utxos[j] \in pool
    BY <1>1, RankedFacts
  <2> QED BY <2>1, PrecedesOrders
<1>3. n \in Nat /\ \A i \in 1..n : utxos[i] \in UTXOs /\ UtxoScore(utxos[i]) \in Int
  BY <1>1, FeeTypes
<1> HIDE DEF utxos, n
<1>4. PICK f : BlackjackRun(f, utxos, value)
  BY <1>1, BlackjackRuns
<1> DEFINE Lost(i) == ~f[i].funded /\ \A j \in i + 1..n : UtxoScore(utxos[j]) < 0
           S == {i \in Nat : i <= n => Worthwhile(f[i].inputs) \/ Lost(i)}
<1>5. 0 \in S
  BY <1>4, StartedBooks, WorthwhileNone DEF BlackjackRun
<1>6. ASSUME NEW i \in Nat, i \in S, i + 1 <= n
      PROVE  Worthwhile(f[i + 1].inputs) \/ Lost(i + 1)
  <2> DEFINE u == utxos[i + 1]
  <2>1. /\ i \in 0..n /\ i + 1 \in 0..n /\ i + 1 \in 1..n /\ (i + 1) - 1 = i
        /\ u \in UTXOs /\ UtxoScore(u) \in Int /\ (Worthwhile(f[i].inputs) \/ Lost(i))
    BY <1>3, <1>6
  <2>2. /\ Books(f[i], value) /\ Books(f[i + 1], value)
        /\ f[i + 1] = BlackjackStep(f[i], u, Payment(value))
    BY <1>4, <2>1 DEF BlackjackRun, n
  <2>3. \A j \in (i + 1) + 1..n : j \in i + 1..n /\ j \in 1..n /\ i + 1 < j
    BY <1>3, <2>1
  <2>4. \A j \in (i + 1) + 1..n : UtxoScore(u) >= UtxoScore(utxos[j])
    BY <1>2, <2>1, <2>3
  <2>5. i + 1 \in i + 1..n
    BY <1>3, <2>1
  <2> HIDE DEF u
  <2>6. CASE f[i + 1] = f[i]
    BY <2>1, <2>3, <2>6
  <2>7. CASE f[i + 1] # f[i]
    <3>1. /\ ~f[i].funded /\ f[i + 1] = Add(f[i], u, Payment(value))
      BY <2>1, <2>2, <2>7, BlackjackKeepsBooks
    <3>2. /\ f[i + 1].inputs = Append(f[i].inputs, u) /\ f[i].inputs \in Seq(UTXOs)
          /\ Gain(f[i + 1].inputs) = Gain(f[i].inputs) + UtxoScore(u)
      <4>1. f[i].inputs \in Seq(UTXOs)
        BY <2>2, BooksFacts
      <4>2. Add(f[i], u, Payment(value)).inputs = Append(f[i].inputs, u)
        BY <2>1, <2>2, AddKeepsBooks
      <4>3. Gain(Append(f[i].inputs, u)) = Gain(f[i].inputs) + UtxoScore(u)
        BY <2>1, <2>2, AddKeepsBooks
      <4> QED BY <3>1, <4>1, <4>2, <4>3
    <3>3. Gain(f[i].inputs) \in Int /\ Due(value) \in Int
      BY <2>2, BooksFacts
    <3>4. CASE UtxoScore(u) >= 0
      <4>1. Worthwhile(f[i].inputs)
        BY <2>1, <2>5, <3>4 DEF u
      <4> QED BY <2>1, <3>2, <3>4, <4>1, WorthwhileAppend
    <3>5. CASE ~(UtxoScore(u) >= 0)
      <4>1. ~f[i + 1].funded
        <5>1. ~(Gain(f[i].inputs) >= Due(value))
          BY <2>2, <3>1, BooksFacts
        <5>2. ~(Gain(f[i + 1].inputs) >= Due(value))
          BY <2>1, <3>2, <3>3, <3>5, <5>1
        <5> QED BY <2>2, <5>2, BooksFacts
      <4>2. \A j \in (i + 1) + 1..n : UtxoScore(utxos[j]) < 0
        BY <1>3, <2>1, <2>3, <2>4, <3>5
      <4> QED BY <4>1, <4>2
    <3> QED BY <3>4, <3>5
  <2> QED BY <2>6, <2>7
<1>7. \A i \in Nat : i \in S => i + 1 \in S
  BY <1>6
<1> HIDE DEF S
<1>8. Nat \subseteq S
  BY <1>5, <1>7, SetInduction
<1>9. n \in 0..n /\ (Worthwhile(f[n].inputs) \/ Lost(n))
  BY <1>3, <1>8 DEF S
<1>10. Books(f[n], value) /\ Blackjack(utxos, Payment(value)) = f[n]
  BY <1>4, <1>9 DEF BlackjackRun, n
<1> QED BY <1>9, <1>10 DEF utxos

\* No choice among the coins seen so far brings more than accumulative has,
\* while that is not enough: it has all that bring anything.
LEMMA AccumulativeIsBest ==
  ASSUME NEW value \in Nat, NEW pool, IsPool(pool),
         ~Accumulative(Ranked(pool), Payment(value)).funded
  PROVE  \A some \in SUBSET pool : Gain(Ranked(some)) < Due(value)
<1> DEFINE utxos  == Ranked(pool)
           n      == Len(utxos)
           Top(i) == {utxos[j] : j \in 1..i}
<1>1. utxos \in Seq(UTXOs) /\ n = Cardinality(pool) /\ \A i \in 1..n : utxos[i] \in pool
  BY RankedIsSeq
<1>2. n \in Nat /\ \A i \in 1..n : utxos[i] \in UTXOs /\ UtxoScore(utxos[i]) \in Int
  BY <1>1, FeeTypes
<1>3. \A some \in SUBSET pool : IsPool(some)
  BY FS_Subset DEF IsPool
<1>4. \A i, j \in 1..n : i < j => Precedes(utxos[i], utxos[j])
  BY <1>1, RankedFacts
<1>5. pool \subseteq Top(n)
  BY <1>1, RankedFacts
<1>6. PICK f : AccumulativeRun(f, utxos, value)
  BY <1>1, AccumulativeRuns
<1> HIDE DEF utxos
<1> DEFINE Best(i) == \A some \in SUBSET (Top(i) \cap pool) :
                        Gain(Ranked(some)) <= Gain(f[i].inputs)
           S == {i \in Nat : i <= n /\ ~f[i].funded => Best(i)}
<1>7. 0 \in S
  <2>1. f[0].inputs = <<>> /\ Ranked({}) = <<>>
    <3>1. Ranked({}) = <<>>
      <4>1. IsPool({}) /\ Cardinality({}) = 0
        BY FS_EmptySet DEF IsPool
      <4> QED BY <4>1, RankedIsSeq
    <3> QED BY <1>6, <3>1, StartedBooks DEF AccumulativeRun
  <2>2. Top(0) = {}
    OBVIOUS
  <2>3. Gain(<<>>) \in Int
    BY StartedBooks, BooksFacts
  <2> HIDE DEF Top
  <2>4. \A some \in SUBSET (Top(0) \cap pool) : some = {}
    BY <2>2
  <2>5. \A some \in SUBSET (Top(0) \cap pool) : Gain(Ranked(some)) = Gain(f[0].inputs)
    BY <2>1, <2>4
  <2>6. Gain(f[0].inputs) \in Int
    BY <2>1, <2>3
  <2> QED BY <2>5, <2>6
<1>8. ASSUME NEW i \in Nat, i \in S, i + 1 <= n, ~f[i + 1].funded
      PROVE  Best(i + 1)
  <2> DEFINE u == utxos[i + 1]
  <2>1. /\ i \in 0..n /\ i + 1 \in 0..n /\ i + 1 \in 1..n /\ (i + 1) - 1 = i
        /\ u \in UTXOs /\ UtxoScore(u) \in Int /\ u \in pool
    BY <1>1, <1>2, <1>8
  <2>2. /\ Books(f[i], value) /\ Books(f[i + 1], value)
        /\ f[i + 1] = AccumulativeStep(f[i], u, Payment(value))
    BY <1>6, <2>1 DEF AccumulativeRun, n
  <2>3. Top(i + 1) = Top(i) \cup {u}
    <3>1. 1..i + 1 = 1..i \cup {i + 1}
      OBVIOUS
    <3> QED BY <3>1
  <2>4. \A v \in Top(i) : Precedes(v, u)
    <3>1. \A j \in 1..i : j \in 1..n /\ j < i + 1
      BY <2>1
    <3> QED BY <1>4, <2>1, <3>1
  <2> HIDE DEF u, Top
  <2>5. ~f[i].funded
    BY <1>8, <2>1, <2>2, AccumulativeKeepsBooks
  <2>6. Best(i)
    BY <1>8, <2>1, <2>5
  <2>7. Gain(f[i].inputs) \in Int /\ Gain(f[i + 1].inputs) \in Int
    BY <2>2, BooksFacts
  <2>8. Gain(f[i + 1].inputs) = IF UtxoScore(u) < 0 THEN Gain(f[i].inputs)
                                ELSE Gain(f[i].inputs) + UtxoScore(u)
    <3>1. f[i + 1] = IF UtxoScore(u) < 0 THEN f[i] ELSE Add(f[i], u, Payment(value))
      BY <2>1, <2>2, <2>5, AccumulativeKeepsBooks
    <3>2. Add(f[i], u, Payment(value)).inputs = Append(f[i].inputs, u)
      BY <2>1, <2>2, AddKeepsBooks
    <3>3. Gain(Append(f[i].inputs, u)) = Gain(f[i].inputs) + UtxoScore(u)
      BY <2>1, <2>2, AddKeepsBooks
    <3> QED BY <3>1, <3>2, <3>3
  <2>9. SUFFICES ASSUME NEW some \in SUBSET (Top(i + 1) \cap pool)
                 PROVE  Gain(Ranked(some)) <= Gain(f[i + 1].inputs)
    OBVIOUS
  <2>10. some \in SUBSET pool /\ IsPool(some)
    BY <1>3
  <2>11. CASE u \notin some
    <3>1. some \in SUBSET (Top(i) \cap pool)
      BY <2>3, <2>11
    <3>2. Gain(Ranked(some)) <= Gain(f[i].inputs)
      BY <2>6, <3>1
    <3>3. Gain(Ranked(some)) \in Int
      BY <2>1, <2>10, RankedIsSeq, GainFacts
    <3> QED BY <2>1, <2>7, <2>8, <3>2, <3>3
  <2>12. CASE u \in some
    <3> DEFINE rest == some \ {u}
    <3>1. \A v \in some : v # u => Precedes(v, u)
      BY <2>3, <2>4
    <3>2. Ranked(some) = Append(Ranked(rest), u) /\ Ranked(rest) \in Seq(UTXOs)
      BY <2>10, <2>12, <3>1, RankedAppend
    <3>3. rest \in SUBSET (Top(i) \cap pool)
      BY <2>3
    <3> HIDE DEF rest
    <3>4. Gain(Ranked(rest)) <= Gain(f[i].inputs)
      BY <2>6, <3>3
    <3>5. Gain(Ranked(rest)) \in Int /\ Gain(Ranked(some)) = Gain(Ranked(rest)) + UtxoScore(u)
      BY <2>1, <3>2, GainFacts
    <3> QED BY <2>1, <2>7, <2>8, <3>4, <3>5
  <2> QED BY <2>11, <2>12
<1>9. ASSUME NEW i \in Nat, i \in S PROVE i + 1 \in S
  BY <1>8, <1>9
<1> HIDE DEF S
<1>10. Nat \subseteq S
  BY <1>7, <1>9, SetInduction
<1>11. n \in 0..n /\ n \in S
  BY <1>2, <1>10
<1>12. Books(f[n], value) /\ ~f[n].funded
  <2>1. Books(f[n], value) /\ Accumulative(utxos, Payment(value)) = f[n]
    BY <1>6, <1>11 DEF AccumulativeRun, n
  <2> QED BY <2>1 DEF utxos
<1>13. Best(n)
  BY <1>2, <1>11, <1>12 DEF S
<1>14. Gain(f[n].inputs) < Due(value) /\ Gain(f[n].inputs) \in Int /\ Due(value) \in Int
  BY <1>12, BooksFacts
<1> HIDE DEF Top
<1>15. SUFFICES ASSUME NEW some \in SUBSET pool PROVE Gain(Ranked(some)) < Due(value)
  OBVIOUS
<1>16. Gain(Ranked(some)) <= Gain(f[n].inputs)
  BY <1>5, <1>13
<1>17. Gain(Ranked(some)) \in Int
  <2>1. Ranked(some) \in Seq(UTXOs) /\ [id |-> 0, value |-> 0, vsize |-> 0, rate |-> 0] \in UTXOs
    BY <1>3, RankedIsSeq DEF UTXOs
  <2> QED BY <2>1, GainFacts
<1> QED BY <1>14, <1>16, <1>17

\* What is over is change or fee, and pays for what it should.
LEMMA FinalizePays ==
  ASSUME NEW value \in Nat, NEW acc, Books(acc, value), acc.funded, Worthwhile(acc.inputs)
  PROVE  /\ PaysItsWay(Finalize(acc, Payment(value)), Payment(value))
         /\ Finalize(acc, Payment(value)).ok
<1> DEFINE n     == Len(acc.inputs)
           fee   == FeeWith(acc, Payment(value))
           size  == FeeRate * TransactionBytes(n, 1)
           size2 == FeeRate * TransactionBytes(n, 2)
           extra == FeeRate * OutputBytes
           over  == acc.sum - value
           kept  == IF over - fee - extra >= DustThreshold THEN over - fee - extra ELSE 0
           sel   == Finalize(acc, Payment(value))
<1> HIDE DEF fee, size, size2, extra, over, kept, sel
<1>1. /\ acc \in Accs /\ acc.inputs \in Seq(UTXOs) /\ n \in Nat /\ acc.sum \in Int /\ acc.cpfp \in Int
      /\ acc.sum = SumValues(acc.inputs) /\ acc.cpfp = SumCpfp(acc.inputs)
  BY DEF Books, Accs
<1>2. /\ fee \in Int /\ Due(value) \in Int /\ Gain(acc.inputs) \in Int /\ over \in Int
      /\ over - fee = Gain(acc.inputs) - Due(value)
  <2>1. /\ fee \in Int /\ Due(value) \in Int /\ Gain(acc.inputs) \in Int
        /\ acc.sum - value - fee = Gain(acc.inputs) - Due(value)
    BY BooksFacts DEF fee
  <2> QED BY <1>1, <2>1 DEF over
<1>3. Gain(acc.inputs) >= Due(value)
  BY BooksFacts
<1>4. sel = [ok |-> TRUE, inputs |-> acc.inputs, change |-> kept, fee |-> over - kept]
  BY DEF Finalize, Payment, sel, kept, over, fee, extra
<1>5. extra \in Nat /\ size2 = size + extra
  BY <1>1, FeeOfInputs DEF extra, size2, size
<1>6. fee = size + acc.cpfp
  BY DEF FeeWith, Payment, fee, size
<1>7. size \in Int
  <2> DEFINE base == FeeRate * TransactionBytes(0, 1)
             cost == FeeRate * InputBytes * n
  <2>1. base \in Nat /\ cost \in Int /\ size = base + cost
    BY <1>1, FeeOfInputs DEF size
  <2> HIDE DEF base, cost
  <2> QED BY <2>1
<1>8. over - fee >= 0
  BY <1>2, <1>3
<1>9. kept \in Int /\ kept >= 0 /\ (kept > 0 => kept >= DustThreshold /\ kept = over - fee - extra)
      /\ (~(kept > 0) => kept = 0 /\ over - fee - extra < DustThreshold)
  BY <1>2, <1>5 DEF DustThreshold, kept
<1> DEFINE owed == (IF kept > 0 THEN size2 ELSE size) + acc.cpfp
<1>10. /\ owed <= over - kept /\ over - kept <= owed + DustThreshold + extra
       /\ kept > 0 => kept >= DustThreshold /\ over - kept = owed
  <2>1. CASE kept > 0
    <3>1. kept = over - fee - extra /\ kept >= DustThreshold /\ owed = size2 + acc.cpfp
      BY <1>9, <2>1
    <3> HIDE DEF owed
    <3>2. over - kept = owed
      <4>1. acc.cpfp \in Int /\ fee \in Int /\ over \in Int /\ size \in Int /\ extra \in Int
        BY <1>1, <1>2, <1>5, <1>7
      <4>2. kept = over - fee - extra /\ owed = (size + extra) + acc.cpfp /\ fee = size + acc.cpfp
        BY <1>5, <1>6, <3>1
      <4> QED BY ONLY <4>1, <4>2
    <3>3. owed \in Int
      BY <1>1, <1>5, <1>7, <3>1
    <3> QED BY <1>5, <3>1, <3>2, <3>3 DEF DustThreshold
  <2>2. CASE ~(kept > 0)
    <3>1. kept = 0 /\ over - fee - extra < DustThreshold /\ owed = fee
      BY <1>6, <1>9, <2>2
    <3> HIDE DEF owed
    <3> QED BY <1>2, <1>5, <1>8, <2>2, <3>1 DEF DustThreshold
  <2> QED BY <2>1, <2>2
<1>11. /\ SubSeq(sel.inputs, 1, 0) = <<>>
       /\ SubSeq(sel.inputs, 0 + 1, Len(sel.inputs)) = acc.inputs
       /\ sel.inputs = acc.inputs /\ sel.change = kept /\ sel.fee = over - kept /\ sel.ok
  BY <1>1, <1>4
<1>12. FeeRate * TransactionBytes(Len(sel.inputs), 1 + IF sel.change > 0 THEN 1 ELSE 0) + acc.cpfp
         = owed
  <2>1. CASE kept > 0
    <3>1. 1 + (IF sel.change > 0 THEN 1 ELSE 0) = 2
      BY <1>11, <2>1
    <3> QED BY <1>11, <2>1, <3>1 DEF size2
  <2>2. CASE ~(kept > 0)
    <3>1. 1 + (IF sel.change > 0 THEN 1 ELSE 0) = 1
      BY <1>11, <2>2
    <3> QED BY <1>11, <2>2, <3>1 DEF size
  <2> QED BY <2>1, <2>2
<1> HIDE DEF owed
<1>13. SumValues(sel.inputs) = value + sel.change + sel.fee
  BY <1>1, <1>2, <1>9, <1>11 DEF over
<1>14. \A i \in DOMAIN acc.inputs : UtxoScore(acc.inputs[i]) >= 0
  BY <1>1 DEF Worthwhile
<1> QED BY <1>1, <1>10, <1>11, <1>12, <1>13, <1>14 DEF PaysItsWay, Payment, extra, sel

\* Whatever a wallet holds, the selection is what it should be.
LEMMA CoinSelectIsSound ==
  ASSUME NEW value \in Nat, NEW pool, IsPool(pool)
  PROVE  LET sel == CoinSelect(pool, Payment(value))
         IN  IF sel.ok THEN PaysItsWay(sel, Payment(value)) ELSE ~CanFund(pool, Payment(value))
<1> DEFINE sel   == CoinSelect(pool, Payment(value))
           exact == Blackjack(Ranked(pool), Payment(value))
           all   == Accumulative(Ranked(pool), Payment(value))
<1>1. Books(exact, value) /\ (exact.funded => Worthwhile(exact.inputs))
  BY BlackjackPays
<1>2. Books(all, value) /\ Worthwhile(all.inputs)
  BY RankedIsSeq, AccumulativePays
<1> HIDE DEF exact, all
<1>3. sel = CASE exact.funded -> Finalize(exact, Payment(value))
              [] ~exact.funded /\ all.funded -> Finalize(all, Payment(value))
              [] OTHER -> [ok |-> FALSE]
  BY DEF CoinSelect, Sorted, exact, all
<1> HIDE DEF sel
<1>4. CASE exact.funded
  BY <1>1, <1>3, <1>4, FinalizePays DEF sel
<1>5. CASE ~exact.funded /\ all.funded
  BY <1>2, <1>3, <1>5, FinalizePays DEF sel
<1>6. CASE ~exact.funded /\ ~all.funded
  <2>1. sel.ok = FALSE
    BY <1>3, <1>6
  <2>2. \A some \in SUBSET pool : Gain(Ranked(some)) < Due(value)
    BY <1>6, AccumulativeIsBest DEF all
  <2>3. SUFFICES ASSUME NEW some \in SUBSET pool,
                        SumValues(Ranked(some)) >= value
                          + FeeRate * TransactionBytes(Len(Ranked(some)), 1) + SumCpfp(Ranked(some))
                 PROVE  FALSE
    <3>1. \A some \in SUBSET pool : Payment(value).required \o Ranked(some) = Ranked(some)
      <4>1. \A some \in SUBSET pool : Ranked(some) \in Seq(UTXOs)
        BY FS_Subset, RankedIsSeq DEF IsPool
      <4> QED BY <4>1 DEF Payment
    <3> QED BY <2>1, <3>1 DEF CanFund, Payment, sel
  <2> DEFINE n    == Len(Ranked(some))
             base == FeeRate * TransactionBytes(0, 1)
             size == FeeRate * TransactionBytes(n, 1)
             cost == FeeRate * InputBytes * n
  <2>4. Ranked(some) \in Seq(UTXOs) /\ n \in Nat
    BY FS_Subset, RankedIsSeq DEF IsPool
  <2>5. SumValues(Ranked(some)) \in Int /\ SumCpfp(Ranked(some)) \in Int
    <3>1. [id |-> 0, value |-> 0, vsize |-> 0, rate |-> 0] \in UTXOs
      BY DEF UTXOs
    <3> QED BY <2>4, <3>1, SumValuesAppend, SumCpfpAppend
  <2>6. base \in Nat /\ cost \in Int /\ size = base + cost
    BY <2>4, FeeOfInputs
  <2>7. /\ Gain(Ranked(some)) = SumValues(Ranked(some)) - SumCpfp(Ranked(some)) - cost
        /\ Due(value) = value + base /\ Gain(Ranked(some)) < Due(value)
    BY <2>2 DEF Gain, Due
  <2>8. SumValues(Ranked(some)) >= value + size + SumCpfp(Ranked(some))
    BY <2>3
  <2> HIDE DEF base, size, cost
  <2> QED BY <2>5, <2>6, <2>7, <2>8
<1> QED BY <1>4, <1>5, <1>6

-----------------------------------------------------------------------------
(* The transaction of sendBitcoinTransaction() *)

\* psbt is one transaction: one slot of an application sends.
OneSender ==
  \A a \in Applications : \A t, u \in Callers :
    {<<t, "send">>, <<u, "send">>} \subseteq a => t = u

\* Before and after the wallet has selected coins for it.
IsPsbt(p) ==
  \/ p = NoPsbt
  \/ \E route : \E value \in Nat : p = [route |-> route, value |-> value]
  \/ \E route, pool : \E value \in Nat :
       /\ IsPool(pool)
       /\ p = [route |-> route, value |-> value, pool |-> pool,
               sel |-> CoinSelect(pool, Payment(value))]

\* What is so of a transaction that was begun, and of one that was funded.
LEMMA PsbtFacts ==
  ASSUME NEW p, IsPsbt(p)
  PROVE  /\ p # NoPsbt => p.value \in Nat
         /\ p # NoPsbt /\ "sel" \in DOMAIN p =>
              IsPool(p.pool) /\ p.sel = CoinSelect(p.pool, Payment(p.value))
<1>1. CASE \E route : \E value \in Nat : p = [route |-> route, value |-> value]
  <2>1. PICK route : \E value \in Nat : p = [route |-> route, value |-> value]
    BY <1>1
  <2>2. PICK value \in Nat : p = [route |-> route, value |-> value]
    BY <2>1
  <2>3. DOMAIN p = {"route", "value"} /\ p.value \in Nat
    BY <2>2
  <2> QED BY <2>3
<1>2. CASE \E route, pool : \E value \in Nat :
             /\ IsPool(pool)
             /\ p = [route |-> route, value |-> value, pool |-> pool,
                     sel |-> CoinSelect(pool, Payment(value))]
  BY <1>2
<1> QED BY <1>1, <1>2 DEF IsPsbt

\* A transaction that was begun or funded is one.
LEMMA PsbtForms ==
  ASSUME NEW route, NEW value \in Nat
  PROVE  /\ IsPsbt([route |-> route, value |-> value])
         /\ [route |-> route, value |-> value] # NoPsbt
         /\ \A pool : IsPool(pool) =>
              LET p == [route |-> route, value |-> value, pool |-> pool,
                        sel |-> CoinSelect(pool, Payment(value))]
              IN  IsPsbt(p) /\ p # NoPsbt
<1>1. [route |-> route, value |-> value] # NoPsbt
  <2>1. DOMAIN [route |-> route, value |-> value] # DOMAIN NoPsbt
    BY DEF NoPsbt
  <2> QED BY <2>1
<1>2. ASSUME NEW pool, IsPool(pool)
      PROVE  LET p == [route |-> route, value |-> value, pool |-> pool,
                       sel |-> CoinSelect(pool, Payment(value))]
             IN  IsPsbt(p) /\ p # NoPsbt
  <2> DEFINE p == [route |-> route, value |-> value, pool |-> pool,
                   sel |-> CoinSelect(pool, Payment(value))]
  <2>1. "sel" \in DOMAIN p /\ "sel" \notin DOMAIN NoPsbt
    BY DEF NoPsbt
  <2>2. IsPsbt(p)
    BY <1>2 DEF IsPsbt
  <2> QED BY <2>1, <2>2
<1> QED BY <1>1, <1>2 DEF IsPsbt

\* The amounts that a value to be paid is taken from.
HasAmount(r) == r # Absent => r.details.amount \in Nat
Amounts ==
  details.amount \in Nat /\ HasAmount(recorded) /\ HasAmount(durable) /\ deposit \in Nat

SendLabels == {"fund", "sign", "unfunded"}

\* The call that sends has the transaction while it is in the making.
Sending ==
  /\ app \in Applications /\ wallet \in Wallets \cup {{}} /\ IsPsbt(psbt)
  /\ \A t \in Callers :
       /\ pc[t] \in SendLabels => phase # "down" /\ <<t, "send">> \in app
       /\ pc[t] \in {"fund", "sign"} => psbt # NoPsbt

SendInv == IInv /\ Amounts /\ Sending

-----------------------------------------------------------------------------
(* The amounts stay amounts *)

\* A record that is written holds the amount of the swap.
LEMMA WrittenHasAmount ==
  /\ HasAmount(Absent)
  /\ \A s, d : d.amount \in Nat => HasAmount([state |-> s, details |-> d])
BY DEF HasAmount

\* A call that leaves the details and the records as they are.
LEMMA QuietAmounts ==
  ASSUME Amounts, UNCHANGED <<recordVars, durable, deposit>>
  PROVE  Amounts'
BY DEF Amounts, HasAmount, recordVars

\* An answer is stored with the amount that it sets.
LEMMA BecomeAmounts ==
  ASSUME Amounts, NEW t \in Callers, NEW s, NEW fields, NEW changed, deposit' = deposit,
         Become(t, s, fields, changed), fields.amount \in Nat
  PROVE  Amounts'
<1>1. durable' = durable /\ details' = fields
  BY DEF Become, Alive, lifeVars
<1>2. recorded' \in {recorded, Absent, [state |-> s, details |-> fields]}
  BY DEF Become, Persisted
<1>3. HasAmount(recorded')
  BY <1>2, WrittenHasAmount DEF Amounts
<1> QED BY <1>1, <1>3 DEF Amounts, HasAmount, Absent

\* Steps that swaps of both kinds take.
LEMMA SharedAmounts ==
  ASSUME Amounts, NEW t \in Callers, deposit' = deposit,
         \/ WaitStart(t) \/ SyncStart(t) \/ SyncEnd(t) \/ Answered(t) \/ Unanswered(t) \/ Keep(t)
         \/ LookUpFails(t) \/ \E call, from : Poll(t, call, from)
  PROVE  Amounts'
<1>1. CASE UNCHANGED <<recordVars, durable>>
  BY <1>1, QuietAmounts
<1>2. HasAmount(Current)
  BY WrittenHasAmount DEF Amounts, Current
<1>3. CASE WaitStart(t)
  <2>1. durable' = durable /\ details' = details /\ recorded' \in {recorded, Current}
    BY <1>3 DEF WaitStart, Alive, lifeVars
  <2>2. HasAmount(recorded')
    BY <1>2, <2>1 DEF Amounts
  <2> QED BY <2>1, <2>2 DEF Amounts, HasAmount, Absent
<1>4. CASE SyncEnd(t)
  <2>1. durable' = durable /\ details' = details /\ recorded' \in {recorded, Current, Absent}
    BY <1>4 DEF SyncEnd, Alive, lifeVars
  <2>2. HasAmount(recorded')
    BY <1>2, <2>1, WrittenHasAmount DEF Amounts
  <2> QED BY <2>1, <2>2 DEF Amounts, HasAmount, Absent
<1>5. CASE \/ SyncStart(t) \/ Answered(t) \/ Unanswered(t) \/ LookUpFails(t) \/ Keep(t)
           \/ \E call, from : Poll(t, call, from)
  <2>1. UNCHANGED <<recordVars, durable>>
    BY <1>5 DEF SyncStart, Answered, Unanswered, LookUpFails, Keep, Poll, Alive, lifeVars
  <2> QED BY <1>1, <2>1
<1> QED BY <1>3, <1>4, <1>5

\* A start reads the amount back.
LEMMA StorageAmounts ==
  ASSUME Amounts, StorageNext, deposit' = deposit
  PROVE  Amounts'
<1>1. recorded' \in {recorded, durable} /\ durable' \in {recorded, durable}
  BY DEF StorageNext, Flush, Crash, Restart, InitDone, recordVars
<1>2. HasAmount(recorded') /\ HasAmount(durable')
  BY <1>1 DEF Amounts
<1>3. details' = details \/ (durable # Absent /\ details' = durable.details)
  BY DEF StorageNext, Flush, Crash, Restart, InitDone, recordVars
<1>4. details'.amount \in Nat
  BY <1>3 DEF Amounts, HasAmount
<1> QED BY <1>2, <1>4 DEF Amounts, HasAmount, Absent

\* The LP does not change the amount of a lightning swap.
LEMMA LnAmounts ==
  ASSUME Amounts, NEW t \in Callers, deposit' = deposit, LnCallNext(t)
  PROVE  Amounts'
<1>1. CASE WaitStart(t) \/ Poll(t, "wait", WaitStates) \/ Answered(t) \/ Unanswered(t)
           \/ SyncStart(t) \/ SyncEnd(t)
  BY <1>1, SharedAmounts
<1>2. CASE LnApply(t) \/ LnApplyStatus(t)
  <2>1. CASE LnToStatus(t)
    BY <2>1, QuietAmounts DEF LnToStatus, Alive, lifeVars
  <2>2. CASE Keep(t)
    BY <2>2, SharedAmounts
  <2>3. CASE \E s, changed : Become(t, s, details, changed)
    BY <2>3, BecomeAmounts DEF Amounts
  <2> QED BY <1>2, <2>1, <2>2, <2>3 DEF LnApply, LnApplyStatus
<1> QED BY <1>1, <1>2 DEF LnCallNext

\* The amount of an on-chain swap is what was quoted or deposited.
LEMMA OnchainAmounts ==
  ASSUME SendInv, NEW t \in Callers, OnchainCallNext(t)
  PROVE  Amounts'
<1>1. Amounts /\ IsDetails(details)
  BY DEF SendInv, IInv, Swap, DetailsAreTrue
<1>2. CASE PollNext(t)
  BY <1>1, <1>2, SharedAmounts DEF PollNext, onchainVars
<1>3. CASE OnchainApply(t) \/ OnchainApplyStatus(t)
  <2>1. deposit' = deposit
    BY <1>3 DEF OnchainApply, OnchainApplyStatus, onchainVars
  <2>2. CASE OnchainToStatus(t)
    BY <1>1, <2>1, <2>2, QuietAmounts DEF OnchainToStatus, Alive, lifeVars
  <2>3. CASE Keep(t)
    BY <1>1, <2>1, <2>3, SharedAmounts
  <2>4. Forgotten.amount \in Nat /\ Noticed.amount \in Nat /\ details.amount \in Nat
    BY <1>1, SetDetails DEF Forgotten, Noticed, Amounts
  <2>5. CASE \E s, changed : \E fields \in {details, Forgotten, Noticed} : Become(t, s, fields, changed)
    BY <1>1, <2>1, <2>4, <2>5, BecomeAmounts
  <2> QED BY <1>3, <2>2, <2>3, <2>5 DEF OnchainApply, OnchainApplyStatus
<1>4. CASE Send(t) \/ Fund(t) \/ SendFails(t) \/ RefundStart(t) \/ AddressSent(t) \/ AddressLost(t)
  <2>1. UNCHANGED <<recordVars, durable, deposit>>
    BY <1>4 DEF Send, Fund, SendFails, RefundStart, AddressSent, AddressLost, Alive, lifeVars, onchainVars
  <2> QED BY <1>1, <2>1, QuietAmounts
<1>5. CASE Submit(t)
  <2>1. psbt.value \in Nat
    BY <1>5, PsbtFacts DEF Submit, SendInv, Sending
  <2>2. UNCHANGED <<recordVars, durable>> /\ deposit' = psbt.value
    BY <1>5 DEF Submit, Alive, lifeVars
  <2> QED BY <1>1, <2>1, <2>2 DEF Amounts, HasAmount, recordVars
<1>6. CASE AddressKnown(t)
  <2>1. details' = [details EXCEPT !.address = TRUE] /\ UNCHANGED <<recorded, durable, deposit>>
    BY <1>6 DEF AddressKnown, Alive, lifeVars, onchainVars
  <2>2. details'.amount \in Nat
    BY <1>1, <2>1, SetDetails DEF Amounts
  <2> QED BY <1>1, <2>1, <2>2 DEF Amounts, HasAmount, Absent
<1> QED BY <1>2, <1>3, <1>4, <1>5, <1>6 DEF OnchainCallNext, SendNext, RefundNext

-----------------------------------------------------------------------------
(* The transaction stays the one that was asked for *)

\* Call t goes elsewhere, and nobody touches the transaction.
Elsewhere(t) == \E next : next \notin SendLabels /\ pc' = [pc EXCEPT ![t] = next]

\* Then the transaction stays what it is.
LEMMA ElsewhereKeeps ==
  ASSUME SendInv, NEW t \in Callers, Elsewhere(t), UNCHANGED <<app, wallet, psbt>>,
         phase' = "down" => phase = "down"
  PROVE  Sending'
<1>1. PICK next : next \notin SendLabels /\ pc' = [pc EXCEPT ![t] = next]
  BY DEF Elsewhere
<1>2. \A u \in Callers : pc'[u] \in SendLabels => pc'[u] = pc[u]
  BY <1>1 DEF SendInv, IInv, Types
<1> QED BY <1>2 DEF SendInv, Sending, IsPsbt, SendLabels

\* Steps that swaps of both kinds take.
LEMMA SharedElsewhere ==
  ASSUME NEW t \in Callers,
         \/ WaitStart(t) \/ SyncStart(t) \/ SyncEnd(t) \/ Answered(t) \/ Unanswered(t) \/ Keep(t)
         \/ \E call, from : Poll(t, call, from)
         \/ \E s, fields, changed : Become(t, s, fields, changed)
         \/ OnchainToStatus(t) \/ LnToStatus(t) \/ LookUpFails(t)
  PROVE  Elsewhere(t) /\ (phase' = "down" => phase = "down")
BY DEF WaitStart, SyncStart, SyncEnd, Answered, Unanswered, Keep, Poll, Become, OnchainToStatus,
       LnToStatus, LookUpFails, Elsewhere, SendLabels, Goto, Begin, Alive, lifeVars

\* A lightning swap has no transaction.
LEMMA LnSending ==
  ASSUME SendInv, NEW t \in Callers, LnCallNext(t), UNCHANGED <<app, wallet, psbt>>
  PROVE  Sending'
<1>1. Elsewhere(t) /\ (phase' = "down" => phase = "down")
  BY SharedElsewhere DEF LnCallNext, LnApply, LnApplyStatus
<1> QED BY <1>1, ElsewhereKeeps

\* A crash takes the transaction and its call with it.
LEMMA StorageSending ==
  ASSUME SendInv, StorageNext, UNCHANGED <<app, wallet>>,
         psbt' = psbt \/ (phase' = "down" /\ psbt' = NoPsbt)
  PROVE  Sending'
<1>1. \A u \in Callers : pc'[u] \in SendLabels => pc'[u] = pc[u] /\ phase' # "down"
  BY DEF StorageNext, Flush, Crash, Restart, InitDone, callVars, SendLabels, SendInv, Sending
<1> QED BY <1>1 DEF SendInv, Sending, IsPsbt, SendLabels

\* A transaction is begun, funded, or gone.
LEMMA SendSending ==
  ASSUME OneSender, SendInv, NEW t \in Callers, SendNext(t), app' = app
  PROVE  Sending'
<1>1. /\ wallet' = wallet /\ phase' = phase /\ details.amount \in Nat /\ IsPsbt(psbt)
      /\ wallet \in Wallets \cup {{}} /\ app \in Applications
  BY DEF SendNext, Send, Fund, Submit, SendFails, Alive, lifeVars, SendInv, Amounts, Sending
<1>2. phase # "down" /\ <<t, "send">> \in app
  BY DEF SendNext, Send, Fund, Submit, SendFails, Called, SendInv, Sending, SendLabels
<1>3. PICK next : pc' = [pc EXCEPT ![t] = next] /\ next \in SendLabels \cup {"idle"}
  BY DEF SendNext, Send, Fund, Submit, SendFails, Begin, Goto, SendLabels
<1>4. \A u \in Callers : pc'[u] = IF u = t THEN next ELSE pc[u]
  BY <1>3 DEF SendInv, IInv, Types
<1>5. ASSUME NEW u \in Callers, u # t, pc[u] \in SendLabels PROVE FALSE
  <2>1. <<u, "send">> \in app
    BY <1>5 DEF SendInv, Sending
  <2>2. {<<t, "send">>, <<u, "send">>} \subseteq app
    BY <1>2, <2>1
  <2> QED BY <1>1, <1>5, <2>2 DEF OneSender
<1>6. IsPsbt(psbt') /\ (next \in {"fund", "sign"} => psbt' # NoPsbt)
  <2>1. CASE Send(t)
    BY <1>1, <2>1, PsbtForms, 0 \in Nat DEF Send
  <2>2. CASE Fund(t)
    <3> DEFINE value == IF psbt.route = "psbt" THEN OutputAmount ELSE psbt.value
    <3>1. OutputAmount \in Nat
      <4>1. \A x, y \in Nat : x * y \in Nat
        OBVIOUS
      <4> QED BY <1>1, <4>1, QuoteAssumption DEF OutputAmount
    <3>2. psbt.value \in Nat
      BY <2>2, PsbtFacts DEF Fund, SendInv, Sending
    <3>3. value \in Nat
      BY <3>1, <3>2
    <3> HIDE DEF value
    <3>4. psbt' \in Funded(value)
      BY <2>2 DEF Fund, value
    <3>5. PICK pool \in wallet : psbt' = [route |-> psbt.route, value |-> value, pool |-> pool,
                                          sel |-> CoinSelect(pool, Payment(value))]
      BY <3>4 DEF Funded
    <3>6. IsPool(pool)
      BY <1>1, <3>5, WalletAssumption
    <3> QED BY <3>3, <3>5, <3>6, PsbtForms
  <2>3. CASE Submit(t) \/ SendFails(t)
    <3>1. psbt' = NoPsbt /\ next = "idle"
      BY <1>3, <2>3 DEF Submit, SendFails, Goto, SendInv, IInv, Types
    <3> QED BY <3>1 DEF IsPsbt
  <2> QED BY <2>1, <2>2, <2>3 DEF SendNext
<1> QED BY <1>1, <1>2, <1>4, <1>5, <1>6 DEF Sending, IsPsbt, SendLabels

\* Every step of a call of an on-chain swap.
LEMMA OnchainSending ==
  ASSUME OneSender, SendInv, NEW t \in Callers, OnchainCallNext(t), app' = app
  PROVE  Sending'
<1>1. CASE PollNext(t) \/ OnchainApply(t) \/ OnchainApplyStatus(t)
  <2>1. Elsewhere(t) /\ (phase' = "down" => phase = "down")
    BY <1>1, SharedElsewhere DEF PollNext, OnchainApply, OnchainApplyStatus
  <2> QED BY <1>1, <2>1, ElsewhereKeeps DEF PollNext, OnchainApply, OnchainApplyStatus, onchainVars
<1>2. CASE SendNext(t)
  BY <1>2, SendSending
<1>3. CASE RefundNext(t)
  <2>1. Elsewhere(t) /\ phase' = phase /\ UNCHANGED <<wallet, psbt>>
    BY <1>3 DEF RefundNext, RefundStart, AddressSent, AddressKnown, AddressLost, Elsewhere, SendLabels,
                Goto, Begin, Alive, lifeVars, onchainVars
  <2> QED BY <2>1, ElsewhereKeeps
<1> QED BY <1>1, <1>2, <1>3 DEF OnchainCallNext

-----------------------------------------------------------------------------
(* The selection *)

\* A quote that was just created has no transaction.
LEMMA SendInitHolds == GasInit => SendInv
<1> SUFFICES ASSUME GasInit PROVE SendInv
  OBVIOUS
<1>1. \E d : d.amount \in Nat /\ TrustedInit(d)
  BY QuoteAssumption DEF GasInit, OnchainInit, LnInit, NoDetails
<1>2. deposit = 0 /\ psbt = NoPsbt /\ wallet \in Wallets \cup {{}}
  BY DEF GasInit, OnchainInit
<1> QED BY <1>1, <1>2, InitHolds DEF TrustedInit, SendInv, Amounts, Sending, HasAmount, IsPsbt, SendLabels

\* Every step keeps the transaction what the call that sends made it.
LEMMA SendNextKeeps ==
  ASSUME OneSender, SendInv, [Next]_vars
  PROVE  SendInv'
<1>1. IInv'
  BY NextKeeps DEF SendInv
<1>2. Amounts /\ IInv
  BY DEF SendInv
<1>3. CASE UNCHANGED vars
  <2>1. UNCHANGED <<recordVars, durable, deposit, app, wallet, psbt, phase, pc>>
    BY <1>3 DEF vars, trustedVars, onchainVars, lifeVars, callVars
  <2>2. Amounts'
    BY <1>2, <2>1, QuietAmounts
  <2> QED BY <1>1, <2>1, <2>2 DEF SendInv, Sending, IsPsbt
<1>4. CASE OnchainStep
  <2>1. app' = app
    BY <1>4 DEF OnchainStep
  <2>2. CASE OnchainLpStep
    <3>1. UNCHANGED <<recordVars, durable, app, wallet, psbt, phase, pc>>
      BY <2>1, <2>2 DEF OnchainLpStep, lifeVars, callVars
    <3>2. deposit' \in Nat
      BY <1>2, <2>2, QuoteAssumption DEF OnchainLpStep, UserPays, Amounts
    <3>3. Amounts'
      BY <1>2, <3>1, <3>2 DEF Amounts, HasAmount, recordVars
    <3> QED BY <1>1, <3>1, <3>3 DEF SendInv, Sending, IsPsbt
  <2>3. CASE StorageStep
    <3>1. StorageNext /\ deposit' = deposit /\ wallet' = wallet
          /\ (psbt' = psbt \/ (phase' = "down" /\ psbt' = NoPsbt))
      BY <2>3 DEF StorageStep
    <3>2. Amounts' /\ Sending'
      BY <1>2, <2>1, <3>1, StorageAmounts, StorageSending
    <3> QED BY <1>1, <3>2 DEF SendInv
  <2>4. CASE \E t \in Callers : OnchainCallNext(t)
    BY <1>1, <2>1, <2>4, OnchainAmounts, OnchainSending DEF SendInv
  <2> QED BY <1>4, <2>2, <2>3, <2>4 DEF OnchainStep, OnchainNext
<1>5. CASE LnStep
  <2>1. UNCHANGED <<app, deposit, wallet, psbt>>
    BY <1>5 DEF LnStep, onchainVars
  <2>2. CASE LnLpStep
    <3>1. UNCHANGED <<recordVars, durable, phase, pc>>
      BY <2>2 DEF LnLpStep, lifeVars, callVars
    <3>2. Amounts'
      BY <1>2, <2>1, <3>1, QuietAmounts
    <3> QED BY <1>1, <2>1, <3>1, <3>2 DEF SendInv, Sending, IsPsbt
  <2>3. CASE StorageNext
    BY <1>1, <1>2, <2>1, <2>3, StorageAmounts, StorageSending DEF SendInv
  <2>4. CASE \E t \in Callers : LnCallNext(t)
    BY <1>1, <1>2, <2>1, <2>4, LnAmounts, LnSending DEF SendInv
  <2> QED BY <1>5, <2>2, <2>3, <2>4 DEF LnStep, LnNext
<1> QED BY <1>3, <1>4, <1>5 DEF Next

\* SelectionIsSound: blackjack and accumulative choose coins that pay for the
\* outputs, the change and a fee that covers the parents, waste no more than a
\* change output would cost, and fail only when no choice of coins would do.
THEOREM SelectionCorrect ==
  ASSUME OneSender
  PROVE  GasSpec => []SelectionIsSound
<1>1. SendInv => SelectionIsSound
  <2> SUFFICES ASSUME IsPsbt(psbt), psbt # NoPsbt, "sel" \in DOMAIN psbt
               PROVE  IF psbt.sel.ok THEN PaysItsWay(psbt.sel, Payment(psbt.value))
                      ELSE ~CanFund(psbt.pool, Payment(psbt.value))
    BY DEF SendInv, Sending, SelectionIsSound
  <2>1. psbt.value \in Nat /\ IsPool(psbt.pool) /\ psbt.sel = CoinSelect(psbt.pool, Payment(psbt.value))
    BY PsbtFacts
  <2> QED BY <2>1, CoinSelectIsSound
<1>2. SendInv /\ [Next]_vars => SendInv'
  BY SendNextKeeps
<1> QED BY <1>1, <1>2, SendInitHolds, PTL DEF GasSpec
=============================================================================
