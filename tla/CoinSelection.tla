--------------------------- MODULE CoinSelection ---------------------------
(***************************************************************************)
(* The coin selection of the bitcoin wallets: which UTXOs fund a           *)
(* transaction with the given outputs, what change it gets and what fee it *)
(* pays.  Sizes are those of P2WPKH wallets and outputs, in vbytes; fee    *)
(* rates are whole sats per vbyte, so that no fee needs rounding.          *)
(*                                                                         *)
(* A UTXO is [id, value, vsize, rate]: an unconfirmed one carries the size *)
(* and the fee rate of its ancestors, which its spender has to raise to    *)
(* its own fee rate; a confirmed one has vsize 0.                          *)
(***************************************************************************)
EXTENDS Integers, FiniteSets, Sequences

CONSTANTS FeeRate   \* sats per vbyte

ASSUME FeeRateAssumption == FeeRate \in Nat \ {0}

\* What a wallet may hold: finitely many coins, each once.
UTXOs == [id : Nat, value : Nat, vsize : Nat, rate : Nat]
IsPool(pool) ==
  IsFiniteSet(pool) /\ pool \subseteq UTXOs /\ \A u, v \in pool : u.id = v.id => u = v

InputBytes    == 68
OutputBytes   == 31
DustThreshold == 294

TransactionBytes(inputs, outputs) == 11 + inputs * InputBytes + outputs * OutputBytes

\* The fee that the ancestors of u lack.
CpfpFee(u) == IF u.rate < FeeRate THEN u.vsize * (FeeRate - u.rate) ELSE 0

InputFee(u) == FeeRate * InputBytes + CpfpFee(u)
UtxoScore(u) == u.value - InputFee(u)

SumValues(utxos) ==
  LET sum[i \in 0..Len(utxos)] == IF i = 0 THEN 0 ELSE sum[i - 1] + utxos[i].value
  IN  sum[Len(utxos)]

SumCpfp(utxos) ==
  LET sum[i \in 0..Len(utxos)] == IF i = 0 THEN 0 ELSE sum[i - 1] + CpfpFee(utxos[i])
  IN  sum[Len(utxos)]

\* Best scores first; equal ones in the order of the pool.
Precedes(u, v) ==
  UtxoScore(u) > UtxoScore(v) \/ (UtxoScore(u) = UtxoScore(v) /\ u.id < v.id)

Ranked(pool) ==
  [i \in 1..Cardinality(pool) |->
     CHOOSE u \in pool : Cardinality({v \in pool : Precedes(v, u)}) = i - 1]

\* Mutant: the worst score comes first.
SortedUpwards(pool) ==
  [i \in 1..Cardinality(pool) |-> Ranked(pool)[Cardinality(pool) + 1 - i]]

\* The order in which the strategies are offered the coins.
Sorted(pool) == Ranked(pool)

-----------------------------------------------------------------------------
(* A request is [targets, value, required]: the number of outputs, their     *)
(* total value, and the inputs the transaction has already.                  *)

\* The fee of the transaction so far.  The parents of required inputs are not
\* looked at.
FeeWith(acc, request) ==
  FeeRate * TransactionBytes(Len(acc.inputs), request.targets) + acc.cpfp

Started(request) ==
  [inputs |-> request.required, sum |-> SumValues(request.required), cpfp |-> 0, funded |-> FALSE]

With(acc, u) ==
  [inputs |-> Append(acc.inputs, u), sum |-> acc.sum + u.value, cpfp |-> acc.cpfp + CpfpFee(u),
   funded |-> FALSE]

Add(acc, u, request) ==
  LET more == With(acc, u)
  IN  [more EXCEPT !.funded = more.sum >= request.value + FeeWith(more, request)]

\* An input that would leave more than dust over is skipped.
BlackjackStep(acc, u, request) ==
  LET more == With(acc, u)
  IN  IF acc.funded \/ more.sum > request.value + FeeWith(more, request) + DustThreshold
      THEN acc ELSE Add(acc, u, request)

\* An input that costs more than it brings is skipped.
AccumulativeStep(acc, u, request) ==
  IF acc.funded \/ InputFee(u) > u.value THEN acc ELSE Add(acc, u, request)

Blackjack(utxos, request) ==
  LET run[i \in 0..Len(utxos)] ==
        IF i = 0 THEN Started(request) ELSE BlackjackStep(run[i - 1], utxos[i], request)
  IN  run[Len(utxos)]

Accumulative(utxos, request) ==
  LET run[i \in 0..Len(utxos)] ==
        IF i = 0 THEN Started(request) ELSE AccumulativeStep(run[i - 1], utxos[i], request)
  IN  run[Len(utxos)]

\* What is over becomes change if that is worth an output, and fee otherwise.
Finalize(acc, request) ==
  LET over   == acc.sum - request.value
      change == over - FeeWith(acc, request) - FeeRate * OutputBytes
      kept   == IF change >= DustThreshold THEN change ELSE 0
  IN  [ok |-> TRUE, inputs |-> acc.inputs, change |-> kept, fee |-> over - kept]

\* No change if blackjack finds a way, else inputs until there is enough.
CoinSelect(pool, request) ==
  LET utxos == Sorted(pool)
      exact == Blackjack(utxos, request)
      all   == Accumulative(utxos, request)
  IN  CASE exact.funded -> Finalize(exact, request)
        [] ~exact.funded /\ all.funded -> Finalize(all, request)
        [] OTHER -> [ok |-> FALSE]

-----------------------------------------------------------------------------
(* What a selection owes its user *)

\* The selected inputs pay for the outputs, the change and a fee that covers
\* the transaction and the parents; no input costs more than it brings, no
\* change is dust, and no more than a change output is given away as fee.
PaysItsWay(sel, request) ==
  LET required == Len(request.required)
      added    == SubSeq(sel.inputs, required + 1, Len(sel.inputs))
      outputs  == request.targets + IF sel.change > 0 THEN 1 ELSE 0
      owed     == FeeRate * TransactionBytes(Len(sel.inputs), outputs) + SumCpfp(added)
  IN  /\ SubSeq(sel.inputs, 1, required) = request.required
      /\ SumValues(sel.inputs) = request.value + sel.change + sel.fee
      /\ owed <= sel.fee /\ sel.fee <= owed + DustThreshold + FeeRate * OutputBytes
      /\ sel.change > 0 => sel.change >= DustThreshold /\ sel.fee = owed
      /\ \A i \in DOMAIN added : UtxoScore(added[i]) >= 0

\* Some UTXOs of the pool, at least one, could fund the request.
CanFund(pool, request) ==
  \E some \in (SUBSET pool) \ {{}} :
    LET inputs == request.required \o Ranked(some)
    IN  SumValues(inputs) >= request.value
          + FeeRate * TransactionBytes(Len(inputs), request.targets) + SumCpfp(Ranked(some))
=============================================================================
