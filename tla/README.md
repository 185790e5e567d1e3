# TLA+ models of the atomiq SDK library

The library in `src/src` runs cross-chain swaps for an application (a web page or a bot): it asks an
intermediary (LP) for a quote, drives the swap through its states, watches a smart chain and bitcoin,
and keeps a record of every swap so that a closed page loses nothing. It is single threaded, but every
operation is `async`: ticks, contract events, a sync of all swaps and several calls of the application
are interleaved at every `await`, and each of them reads and writes the same `swap.state`. What is hard
here is exactly that: an answer is read, something else happens, and then the answer is applied.

This directory models that behaviour in TLA+, checks it with TLC on small instances and proves the most
important facts with TLAPS for every instance.

## 1. Inventory

Paths are relative to `src/src`.

| Component | State it keeps | Operations | Talks to | What makes it correct |
|---|---|---|---|---|
| **ToBTC / ToBTCLN swap** `swaps/escrow_swaps/tobtc`, with `IEscrowSwap`, `IEscrowSelfInitSwap`, `IEscrowSwapWrapper` | `state` (QUOTE_EXPIRED, QUOTE_SOFT_EXPIRED, CREATED, COMMITED, SOFT_CLAIMED, CLAIMED, REFUNDABLE, REFUNDED), `initiated`, proof of payment, tx ids | `commit`, `waitTillCommited`, `waitForPayment`, `refund`, `waitTillRefunded`, `_sync`, `_tick`, event handlers | escrow contract, LP API, storage, listener | locked funds are never forgotten; every state shown is backed by the chain or a signature; timed-out funds are offered for a refund |
| **SpvFromBTC swap** `swaps/spv_swaps` | `state` (CLOSED, FAILED, DECLINED, QUOTE_EXPIRED, QUOTE_SOFT_EXPIRED, CREATED, SIGNED, POSTED, BROADCASTED, FRONTED, BTC_TX_CONFIRMED, CLAIMED), withdrawal data | `submitPsbt`, `waitForBitcoinTransaction`, `claim`, `waitTillClaimedOrFronted`, the wrapper's `_checkPastSwaps`, `_tick`, front, claim and close events | vault contract, bitcoin RPC, LP API, storage | a signed PSBT in the LP's hands is never forgotten; CLAIMED, FRONTED and "claimable" mean what they say; a quote is given up only when it is void |
| **FromBTCLN swap** `frombtc/ln` | PR_CREATED, PR_PAID, CLAIM_COMMITED, CLAIM_CLAIMED, EXPIRED, QUOTE_(SOFT_)EXPIRED, FAILED; the secret | `waitForPayment`, `commit`, `claim`, `commitAndClaim`, waits, sync, tick | LP API, escrow contract | the secret is revealed only for a matching escrow; a committed escrow is claimed or expires |
| **FromBTCLNAuto swap** `frombtc/ln_auto` | the same states; the real escrow data once the LP's offer is seen | `waitForPayment`, `_broadcastSecret`, `waitTillClaimed`, tick | messenger, watchtowers, contract | the secret goes out only after the offer was verified; its escrow hash changes once |
| **FromBTC swap** `frombtc/onchain` | PR_CREATED, CLAIM_COMMITED, BTC_TX_CONFIRMED, CLAIM_CLAIMED, EXPIRED, QUOTE_(SOFT_)EXPIRED, FAILED | `commit`, `waitForBitcoinTransaction`, `claim`, sync, tick | escrow contract, bitcoin RPC | no deposit address is used after its expiry; a confirmed deposit becomes claimable |
| **Trusted swaps for gas** `swaps/trusted` | PR_CREATED, PR_PAID, FINISHED, REFUNDABLE, REFUNDED, EXPIRED, FAILED | polling of the LP, `requestRefund` | LP's trusted API | what is shown is borne out by the LP and the chain; a wait ends when the LP has settled |
| **Swap and wrapper base** `ISwap`, `ISwapWrapper` | event emitter, `pendingSwaps` weak map, tick interval | `waitTillState`, `_saveAndEmit`, `init`, `checkPastSwaps`, `tick`, `stop` | storage, listener | a waiter sees the state it waits for; init processes the events queued during its sync |
| **Swapper** `swaps/swapper` | wrappers per chain, `initialized` | `init`, `stop`, `createSwap` over several LPs, `_syncSwaps`, `recoverSwaps` | everything | a quote comes from an LP that gave a valid one, and the call ends; events of the start are not lost |
| **Contract event listener** `events/UnifiedSwapEventListener.ts` | listeners per swap type | `processEvents`, `registerListener`, `unregisterListener` | chain events, storage, wrappers | every event of a known swap reaches its handler, in order |
| **Unified swap storage** `storage/UnifiedSwapStorage.ts` | weak cache of swap objects | `query`, `save`, `saveAll`, `remove` | IndexedDB | one live object per swap |
| **Prices** `prices` | promise cache per chain and token, operational flags of providers | `getPrice`, pre-fetches, validity checks | HTTP | a failed fetch is not served again; a working provider is found |
| **Intermediaries** `intermediaries` | list of LPs with services and reputation | discovery, reload, removal, API calls | registry, LP servers, contract | an LP is offered only for what it serves |
| **Streamed parameters** `utils/paramcoders` | buffered frames, promises per parameter | `onData`, `getParams` | HTTP streams | frames are decoded alike for every chunking |
| **Coin selection** `btc/coinselect2` | none | `accumulative`, `blackjack` | wallets | inputs cover outputs and fee; no dust is created |
| **Wallets, mempool, relay synchronizer** `btc/wallet`, `btc/mempool` | none that outlives a call | PSBT assembly, RPC, header sync | HTTP | – |
| **Utilities** `utils` | abort controllers, timers | `tryWithRetries`, `promiseAny`, `extendAbortController`, LNURL | everything | an abort reaches every waiter |

What is hard about it, and where: *stale answers* (every `_sync`, `_tick`, watchdog and LP poll awaits and
then assigns a state); *atomicity* (two reads that are meant to describe one moment: commit status and
expiry, transaction and inputs); *lost and replayed events* (the SDK is down most of the time); *crashes*
between a save and its completion; *races lost on purpose* (`Promise.race` whose losers go on); and
*guards over a state enum with an order* ("at least CLAIMED" is satisfied by REFUNDABLE). The list with
source lines is `hazards` in `PROJECT.json`.

## 2. Modules

| Module | Models |
|---|---|
| `SwapEscrow` | the world around a send swap, as `src/` uses it: escrow contract, LP, expiries, contract events |
| `ToBTCSwap` | one ToBTC or ToBTCLN swap in the SDK, with storage, listener, crash and restart |
| `ToBTCSwapProofs`, `MCToBTCSwap` | theorems about it; instances for TLC: which calls run beside which |
| `SpvWithdrawal` | the world around an SpvFromBTC swap: bitcoin transaction, vault withdrawal, LP, expiries, events |
| `SpvFromBTCSwap` | one SpvFromBTC swap in the SDK |
| `SpvFromBTCSwapProofs`, `MCSpvFromBTCSwap` | theorems about it; instances for TLC |
| `ReceiveSwap` | what the escrow-based receive swaps share: the escrow, the swap object with its record, the process around it |
| `ReceiveSwapProofs` | lemmas about that shared state, cited by the proofs of the three receive swaps |
| `FromBTCLNSwap`, `FromBTCLNSwapProofs`, `MCFromBTCLNSwap` | extends `ReceiveSwap`: lightning, committed and claimed by the user; theorems; instances |
| `HtlcPromise` | what a swap with a secret promises, abstractly; `FromBTCLNSwap` implements it (`KeepsPromise`) |
| `FromBTCLNAutoSwap`, `FromBTCLNAutoSwapProofs`, `MCFromBTCLNAutoSwap` | extends `ReceiveSwap`: the LP opens the escrow, the secret is broadcast to watchtowers; theorems; instances |
| `FromBTCSwap`, `FromBTCSwapProofs`, `MCFromBTCSwap` | extends `ReceiveSwap`: an on-chain deposit unlocks the escrow; theorems; instances |
| `TrustedSwap` | what the trusted swaps share: polls of the LP's server, the record, the process |
| `LnForGasSwap`, `OnchainForGasSwap` | extend `TrustedSwap`: the two trusted swaps |
| `CoinSelection` | blackjack, accumulative and `finalize` as functions, and what makes a selection sound |
| `MCGasSwaps` | composes the two trusted swaps and the coin selection: a behaviour is of one `kind` |
| `GasSwapsProofs` | theorems about the trusted swaps, and about the coin selection for every wallet |
| `IntermediaryDiscovery` | the list of LPs as objects: fetched, reloaded, candidates, removal |
| `LPAnswers` | what is asked of an LP for each kind of quote, how an answer can be wrong, what each check does about it |
| `SwapQuotes` | extends both: the create methods and `createSwap()`, with retries, aborts and the timer |
| `SwapperLifecycle` | `Swapper.init` and `stop`, `ISwapWrapper.init` with its event queue, the event listener, the storage's weak cache |
| `MCSwapper` | composes `SwapQuotes` and `SwapperLifecycle`: a behaviour is of one `part` |
| `SwapperProofs` | theorems about both parts and about their composition |

### How the code is rendered

* **A call is a sequence of steps, one per stretch of code between two awaits.** `pc[t]` is the await that
  slot `t` is parked at, and it names the answer the call will act on (`"btc:confirmed"`, `"pay:paid"`): the
  read and the step that applies it are different actions, so that anything may happen in between. Ticks
  use slots of `Timers`, calls of the application slots of `Callers`. Which calls an instance makes is the
  constant `Enabled` in the first two swap modules; in the later ones a behaviour picks its `app` among
  `Applications`, and `Makes` says in a property which of them it is about. A slot makes one call at a time,
  any number of times.
* **Saving** (`SaveAndEmit`, `SaveAs`, `Become`): `_saveAndEmit` queues a write, then emits. `recorded` is the
  storage once every queued write has completed, `durable` what a crash leaves. Writes complete in order; `Flush`
  completes all that are queued. Only where the code must await its save before it goes on (`txsCommit`,
  `submitPsbt`) is the call parked (`su:saving`, `commit:saving`) until the flush. The code awaits the write
  before it emits; the models emit in the step that queues it, so a waiter may be woken earlier than in the code. No
  property depends on which comes first: a crash in between is one before the flush.
* **Emitting** wakes the calls parked in a matching `waitTillState` in the same step (`Waked`), since promise
  callbacks run before any other answer is handled. `told` collects what a wait returned.
* **Quotes that were never initiated** live in the weak map `pendingSwaps` only: they tick, but have no record.
* **Events** are a queue; the listener takes one at a time and may await inside a handler (`handling`,
  `listening`). On a restart the events of the time before are either replayed or lost.
* **A crash** forgets everything but `durable`; **a restart** revives the record and, if its state is one of
  `pendingSwapStates`, runs the sync of `wrapper.init()` (`phase` "init", "syncing") before anything else.
  In `SwapperLifecycle` a start after a crash is an initial state: rows behind the chain, an empty memory.
* **The chains answer truthfully about the moment they are asked.** A request may fail wherever the code has an
  error path; an LP request that fails may still have been acted upon. A sync whose reads fail (`SyncFail`) leaves
  in memory what it has changed so far and writes nothing; a wait for a trusted swap ends when the LP, the node that
  is asked for the payout or the bitcoin node fails (`Unanswered`, `LookUpFails`).
* **An answer that must be completed**: a claimed or refunded escrow names its transaction by another request.
  The code looks at the state before that request and not after it: `"wcl:paid"` and `"wcl:failed"` are the
  calls between the two, `SyncSettling` and `SyncSettled` the same in the sync of a ToBTC swap.
* **Data is left out** where it decides nothing: amounts, fees, addresses and transaction ids. What the escrow of
  an LP or a quote says is "good" or "bad" (`learnt`, `offer`, `wrong`); `LPAnswers` lists the ways an answer can
  be wrong and which check catches which. Amounts are kept where the code compares them: bounds and prices of
  `SwapQuotes`, coins and fees of `CoinSelection` (whole sats per vbyte, so that no fee is rounded).
* **Objects**: in `SwapperLifecycle` a swap object is a number, `cache` the weak reference, `Alive` what the
  application, a sync or a queued event refers to; what nothing refers to may be collected at any time. An LP is
  the object `[url, gen, signed]` of the reload that made it, since the code compares LPs by identity.

Assumptions about the world, each written at its definition: an escrow can be opened only while its
authorization is valid and times out later than that; a refunded escrow past its timeout is reported as
`NOT_COMMITED` or `EXPIRED`; bitcoin confirmations are final; only the LP can broadcast an SPV withdrawal, because
the first input is its vault; what an LP announces does not change; the LP of a trusted swap moves through its
statuses in order. `MinedBetweenReads` decides whether the SPV swap's transaction may be mined between the two
reads of `_syncStateFromBitcoin`; the passing runs exclude that, one run shows what it does.

## 3. Runs

Bounds of the swap runs: one tick slot, two call slots and at most one crash. One tick and two calls are three
actors that can each hold a stale answer while the fourth, the listener, changes the state; all overwritings known
from the code need two. One crash suffices for the questions asked of it, since a restart depends on `durable`
only. The event queue is bounded by the world (each kind of event happens once). `MaxRestarts` bounds crashes,
`MaxDeposits` = 2 deposits (the second is the double payment looked for). Wallets hold up to four of seven coins
around the sums that matter: too small to pay for itself, dust, exact, with a parent that lacks fees. `swapper` has
two LPs whose bounds overlap, one call, one reload during it, two tries, one request of each create method and an
amount no LP takes; and one stored swap of the second wrapper in the order of start, with an escrow of two
steps, two objects and one stop: an event can come before its wrapper listens, during its sync, while the queue is
drained and after. `quote_timeout` needs three LPs: one that fails, one that answers, one that hangs. Every passing
run switches the deadlock check off: a settled swap or call has nothing left to do.

| Run | Calls | Shows |
|---|---|---|
| `tobtc` | commit, refund beside waitForPayment, waitTillRefunded; one crash, lost events | `LockedIsTracked`: locked funds always have a durable record that is picked up again. `RefundedIsReturned`, `ExpiredQuoteHoldsNothing`: no terminal state over a live escrow. `TimedOutIsOffered`, `ClaimIsSeen`, `RestartRepairs` |
| `tobtc_stale_answers` | commit, waitTillCommited, waitForPayment beside a sync | `ClaimedIsPaid`, `RefundableCanRefund`, `ToldTheTruth`, `TypeOK` however late an answer is applied. REFUNDABLE means that an escrow was opened and its timeout has passed or the LP has signed a refund: a quote or a fresh commit never shows it. It does not mean that the escrow is still there (below) |
| `spv_safety` | submitPsbt, claim, waitTillClaimedOrFronted beside waitForBitcoinTransaction and a sync; one crash | `PostedIsTracked`, `ExpiredQuoteHoldsNothing`, `ClaimedIsClaimed`, `ClaimableIsConfirmed`, `ToldTheTruth`, `TypeOK` |
| `spv_liveness` | submitPsbt; one crash, lost events | `ConfirmedIsOffered` by ticks alone; `RestartRepairs`, also for DECLINED and soft-expired swaps |
| `frombtcln` | execute() in both ways to commit and claim, waitTillCommited, a full sync; one crash | `SecretOnlyForEscrow`, `GivenUpIsUncommitted`, `EscrowIsTracked`, `EscrowIsOffered`, and `KeepsPromise`: the swap implements `HtlcPromise` |
| `frombtcln_auto` | waitForPayment, waitTillClaimed, claim; a full sync; one crash | `SecretOnlyForOffer`, `SettledIsTrue`, `RevealedIsNotForgotten`, `CommitedIsRevealed` |
| `frombtc` | commit, the deposit, waitTillClaimed, claim, again and again; waitTillCommited; a sync; one crash | `ShownIsTrue`, `DepositIsTracked`, `PaidOnce`, `DepositIsOffered` |
| `gas` | waits, sync, payment from a wallet, refund of either trusted swap; one lost request, one crash | `ShownIsTrue`, `SelectionIsSound`, `WaitIsAnswered` |
| `swapper` | one createSwap() of any kind, one reload; init, stop and reads of a stored swap | `BlacklistIsExact`, `AnswerIsSound`, `CallIsAnswered`; `OneObject`, `EventIsApplied` |

`tobtc` leaves `sync` and `waitTillCommited` out on purpose, and the receive swaps exempt them where their properties
fail with them: both act on an absent escrow that was looked for earlier, which `tobtc_sync_race` shows for the
sync. The runs that end in a violation are findings, each quoted in `PROJECT.json`:

| Run | Shows |
|---|---|
| `tobtc_sync_race` | a NOT_COMMITED answer of a batch, applied after the commit landed, makes the swap REFUNDED over an open escrow, and no pending list holds it any more |
| `spv_mined_race` | the swap's own transaction, mined between the look for it and the look at its inputs, counts as a double-spend; the record is removed |
| `quote_timeout` | when an LP fails before the first quote arrives, the maximum wait is never started, and an LP that hangs keeps `createSwap()` waiting |

One more disagreement has no run of its own. `isFinished()` is documented as "the swap is finished and in its terminal
state" (`ISwap.ts`, line 315; `IToBTCSwap.ts`, line 155), but states that it holds for are overwritten. A tick that was awaiting the escrow's expiry (`IToBTCSwap.ts`, lines 843 to 846) or a
`waitForPayment` that comes to act on an LP's signed refund (lines 607 to 610) sets REFUNDABLE over CLAIMED or REFUNDED,
and a late proof of payment sets SOFT_CLAIMED over CLAIMED. The swap then offers a refund that the contract rejects;
no funds move. `RefundableCanRefund` therefore says what such a state still guarantees, `RefundedIsReturned`
and `ClaimedIsPaid` that a terminal state was true when it was set, and `RestartRepairs` that the next start puts a
claimed swap right again.

What the models do and the properties exempt, as the code has it: `waitTillCommited` reads the commit status, then
the expiry, and gives up a commit between the two; a tick that awaits `isExpired()` or a bitcoin payment sets its
state over a terminal one set meanwhile (this is why only `FromBTCLNSwap` states a promise, and that one
lets "claimed" go once the timeout has passed); `waitTillClaimedOrFronted` stores FRONTED for a claim nobody
fronted; `_broadcastSecret` is not awaited, so that a crash may leave a record older than the secret; two
`execute()` of a FromBTC swap at once may both pay; a swap revived from a row that was replaced meanwhile writes
the old state back; after a stop the listener is never registered again; a vault's LP pays with its place on the
list when the SDK's own node fails.

### The refinement

`HtlcPromise` has six variables: the escrow, its timeout, whether the secret is out, what the user is told
("quote", "held", "claimed", "over"), whether the SDK runs, and whether the user relies on calls that give a commit
up too early. `FromBTCLNSwap` maps `state` to what is told (`Told`), a claim transaction to the secret. `KeepsPromise`
is checked as a PROPERTY: every step is a step of the promise or leaves it alone; the secret goes out for an open
escrow only, and nothing is told that was not so when it is told. `KeepsPromiseCorrect` proves the same (section
4): initial states map to initial states, and each action maps to a step of the promise or a stutter.

### Fairness

`FairSpec` of the swap modules assumes that the tick interval keeps firing and its reads are answered (`setInterval`,
retried reads), that `wrapper.init()` runs after a restart and its reads are answered, that the chain client hands
over the events it has, and that queued writes complete. In the SPV swap the tick looks at bitcoin in one second of
every 120; that this second is hit again and again is part of the same assumption. A broadcast of the secret that is
tried again and again succeeds at last (strong fairness in `FromBTCLNAutoSwap`). Nothing is assumed of the
application, the LP, miners, watchtowers or time: a premise of each property says which of them has acted.
`ConfirmedIsOffered` excludes that an answer to `submitPsbt` is still on its way, because that answer would
put POSTED or DECLINED over what the tick found; a DECLINED swap is looked at by the restart sync only.

`QuotesFairness` assumes that timers fire and that the SDK's own fetches and checks end; an LP may leave any
request unanswered. `LifecycleFairness` assumes that the steps of an `init()` that was called are taken and that the
chain client hands over its events; nothing of the application, of ticks or of the garbage collector.

Every property of a passing run has a mutant in `PROJECT.json`: a definition of the model changed the way a
plausible bug would change the code, which the run must then find. The mutated forms are the definitions
commented "Mutant" that precede the originals.

## 4. Theorems

Each safety invariant and action property of a passing run, and the refinement, is also a theorem. They hold for
every set of timers, callers, LPs, wallets and applications and every number of restarts, under the named assumptions of
the modules: calls come from slots, timer and caller slots are different; an LP announces natural numbers
(`ServiceAssumption`, `QuotesAssumption`); a wallet is a pool as `_getUtxoPool` makes them (`WalletAssumption`).

Some need a hypothesis on what the application calls. Each is written where it is used; the instances that the
properties speak about satisfy it, and each but the last row names an interleaving of calls that the code does not
defend against:

| Hypothesis | Says | Without it |
|---|---|---|
| `Unsynced` (ToBTC) | the application runs no sync of its own; that of `wrapper.init()` is part of the model | `tobtc_sync_race` refutes it |
| `NoWaitCommit` (ToBTC) | no bare `waitTillCommited` | it reads the status, then the expiry, and gives up a commit between the two |
| `OneCommitter` (ToBTC, FromBTC) | one slot commits | a second `commit()` finds `initiated` set and does not wait for the save that the first still awaits |
| `SyncAlone` (FromBTCLN) | a full sync does not run beside a commit | as `Unsynced` |
| `PayThenCommit` (FromBTCLN) | who waits for the payment commits, as `execute()` does | a commit may overtake the write of what the wait learnt |
| `OneSender` (FromBTC) | one slot pays | both find no deposit and pay |
| `~MinedBetweenReads` (SPV) | no confirmation between the two reads of `_syncStateFromBitcoin` | `spv_mined_race` refutes it |
| `OneSender` (gas, `SelectionCorrect`) | one slot pays | a limit of the model, which holds one transaction under way |

**ToBTC** (`ToBTCSwapProofs`), in four layers, each resting on the one before:

1. `TypeOK`. Gives `TypeCorrect`.
2. `Evidence`. `ClaimedIsPaid`, `RefundableCanRefund` and `ToldTheTruth` are not inductive: CLAIMED is set from an
   answer read earlier, from a record, from an event in a queue. `Evidence` says that *everything on its way to the
   state* is backed: the state, both records, the event being handled, every event still queued, and the answer each
   parked call holds. It is preserved because what backs an answer (an escrow that was opened, a claimed escrow, a
   passed timeout, a signature) never becomes false again. Gives `ClaimedIsPaidAlways`, `RefundableCanRefundAlways`, `ToldTheTruthAlways`.
3. `Custody`: where the funds are is inferred from answers, too: an escrow that is not there was returned, if there had
   been one. This needs that the state does not change between the answer and its use: the sync of
   `wrapper.init()` runs alone (`InitAlone`), one that the application asks for does not, hence `Unsynced`. Gives
   `RefundedIsReturnedAlways`.
4. `Tracking`: a commit goes out after its record is durable, and a record is given up or removed only when the
   authorization has run out over no escrow, or the funds are back. With `Unsynced`, `NoWaitCommit` and
   `OneCommitter` it gives `LockedIsTrackedAlways` and `ExpiredQuoteHoldsNothingAlways`.

**SpvFromBTC** (`SpvFromBTCSwapProofs`), in three layers:

1. `Shape` = `TypeOK` and `Begun`: before the PSBT is signed there is no record, no other call under way and
   nothing at the LP. `TypeOK` needs it: that no record says CREATED holds because records start with SIGNED.
   Gives `TypeCorrect`.
2. `Evidence`, as above. Gives `ClaimedIsClaimedAlways`, `ClaimableIsConfirmedAlways`, `ToldTheTruthAlways`.
3. `GivenUp`: a state, record or missing record that means "given up", and every call about to produce one,
   implies a double-spend; the LP gets the PSBT only after a record is durable. With `~MinedBetweenReads` it gives
   `PostedIsTrackedAlways` and `ExpiredQuoteHoldsNothingAlways`: a durable record that is not absent, not given
   up and not settled is one of `pendingSwapStates`.

**FromBTCLN** (`FromBTCLNSwapProofs`): `TypeCorrect` for every application. `InductiveInvariant`, under `SyncAlone` and
`PayThenCommit`: what is on its way to the state is backed, as above; in addition a record that keeps the LP's
authorization was written before a commit could go out (`Kept`, `Written`). It gives `SecretCorrect` (the secret goes
out only for the escrow quoted), `GivenUpCorrect`, `TrackedCorrect` and, one lemma per group of actions (`TickTells`,
`PayTells`, ... `ListenerTells`), `KeepsPromiseCorrect`: every step is a step of `HtlcPromise` or a stutter.

**FromBTCLNAuto** (`FromBTCLNAutoSwapProofs`): `SecretCorrect`, `SettledCorrect`, `RevealedCorrect`, `TypeCorrect`, for
every application and without a hypothesis. The invariant follows the chain from the LP's offer to the secret: a
state, record or answer that lets `_broadcastSecret` run implies an offer with the quoted terms (`Chain`), and a
process that reveals the secret has left the states of a quote (`Shown`).

**FromBTC** (`FromBTCSwapProofs`): `ShownCorrect` and `TypeCorrect` for every application, `TrackedCorrect` under
`OneCommitter`, `PaidCorrect` under `OneSender`. That `execute()` does not pay twice, also after a crash, rests on the
invariant that a slot that looked for a deposit and found none is right about that until it pays.

**Trusted swaps and coin selection** (`GasSwapsProofs`; `GasSpec` is `MCGasSwaps` without its fairness):

- `ShownCorrect`: every state and detail the swap shows, holds in a record or is about to get from an answer is so.
  The key lemma is that what the LP and the chain have made true stays true (`Onwards`).
- `SelectionCorrect`, for every pool of coins, amount and fee rate, under `OneSender`: a selection pays for outputs, change
  and a fee that covers the parents, wastes no more than a change output costs, and fails only when *no* set of
  coins would do. The ranked order is total and enumerates the pool; `Books` is the loop invariant of
  blackjack and accumulative; when accumulative fails it took every coin that brings more than it costs, and no other set
  brings more. The loops are recursive functions. Induction over them does without an operator parameter:
  `SetInduction` says that a set which holds 0 and the successors of its members holds every number, from the
  existence of a least counterexample.

**Swapper** (`SwapperProofs`):

- `OneObjectCorrect` (`LifecycleSpec`): all who hold an object of a stored swap hold the same. The invariant `LifeInv`
  says that whoever holds an object holds the cached one, that a swap that was never stored is unknown to everyone,
  that no object is revived from a row that is missing, and that the listener handles one event at a time.
- `BlacklistCorrect`, `AnswerCorrect` (`QuotesSpec`), for every set of LPs, requests, offers and reloads. `QuotesInv` says
  that the objects of LPs are one per URL and reload, so that a late catch takes no other off the list; that the
  bounds kept are the widest told; and that an LP whose answer is still open when a call settles changes nothing when it
  answers. That a best quote exists among finitely many is proved by the well-foundedness of the strict subset order
  on finite sets.
- `SwapperCorrect`: the three properties for the composition that the run checks.

Only model-checked: liveness and ENABLED, which are outside the prover's reach. These are `TimedOutIsOffered`,
`ClaimIsSeen`, `RestartRepairs`, `ConfirmedIsOffered`, `EscrowIsOffered`, `CommitedIsRevealed`, `DepositIsOffered`,
`WaitIsAnswered`, `CallIsAnswered` and `EventIsApplied`. The violations of section 3 are traces, found by TLC.

## 5. Plan

Done, in the order of importance: the send swap and its theorems; the SPV swap and its theorems; the three
receive swaps, the promise one of them implements, and their theorems; the trusted swaps and the coin selection, for
every wallet; quotes, the start of the swapper, events and the storage's cache, with theorems. What is left, in this
order:

1. Proofs with weaker hypotheses: `SyncAlone` to exclude a commit only between a batch's read and its use.
2. `recoverSwaps()` in `SwapperLifecycle`: a record made for an escrow that a second call or an event finds too.
3. Prices: the promise cache of `ICachedSwapPrice` and the operational flags of `RedundantSwapPrice`.
4. The frame decoder `ParamDecoder` over chunk boundaries, against one that has the whole response.
5. Required inputs and `maxSendable` of the coin selection.

## 6. Not modelled

Of the quotes: parsing of invoices, addresses and LNURLs, PSBT assembly and signatures, hashing of proofs of
payment: sequential code over library calls. Price providers, mempool API, IndexedDB, clock drift: one request or
one conversion each. Formatting and logging: no behaviour. Of the modelled swaps: reorganisations of bitcoin and of
the smart chain; the eviction of a transaction from the mempool (except in the trusted swap, where the LP reports
it); fields that only inform the application. `SpvFromBTCSwap._sync` duplicates the wrapper's batch sync and is not
called by it. In the swap modules a swap is one object, as the storage's cache intends; where that fails is the
subject of `SwapperLifecycle`. Some awaits are merged into the step before them, where what they wait for cannot
change any more or fails alike: the save of the init data in `FromBTCLNSwap.waitForPayment`, the two awaits of an
event that brings the data of an LP's escrow (`FromBTCLNAutoSwap`), the look for the deposit's transaction id when a
claim event is handled (`FromBTCSwap`), the writes and removals of a restart's sync (`SwapperLifecycle`), and the lookup of
`pendingSwaps` in `getSwapById`. The LP of a `FromBTCLNAutoSwap` does not call an invoice expired while it holds the
payment. Of the quotes: the LP's own bounds (`swapBounds`), prices and limits that are kept for display; the option
`unsafeSkipLnNodeCheck`, with which `VerifyLnNodeCapacity` is skipped; and the controller that a failed fetch aborts
for a FROM_BTCLN quote by LNURL, which is the method's own and not that of `createSwap()`, to the same effect. A wrapper whose `init()` throws, and a second `init()` that awaits the first and runs
again (the wrappers return at once), are left out of it.
