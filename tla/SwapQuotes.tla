---------------------------- MODULE SwapQuotes -----------------------------
(***************************************************************************)
(* Swapper.createSwap(): the LPs that offer the swap are asked for a quote *)
(* all at once, each answer is checked, LPs that are caught are taken off  *)
(* the list, and the best quote is returned when every LP has answered or  *)
(* the wait that starts with the first quote is over.  Late answers are    *)
(* still checked.  An LP may leave a request unanswered: no request has a  *)
(* timeout unless the application sets one.                                *)
(***************************************************************************)
EXTENDS IntermediaryDiscovery, LPAnswers

CONSTANTS
  Calls,     \* calls of createSwap
  Amounts,   \* amounts asked for
  Bounds,    \* [Urls -> [min, max]]: the bounds an LP answers with
  Prices,    \* what is offered for the amount asked for; more is better
             \* when the input is exact, less is better when the output is
  MaxTries   \* tryWithRetries: tries of a request, and of the whole of a vault's quote

ASSUME QuotesAssumption ==
  /\ MaxTries \in Nat \ {0} /\ Prices \subseteq Nat
  /\ Bounds \in [Urls -> [min : Nat, max : Nat]]

VARIABLES call  \* per call: how far it is, and the request to each LP

quoteVars == <<discoveryVars, call>>

-----------------------------------------------------------------------------
(* The requests the create... methods make *)

Requested(kind, via, exactIn) ==
  {[kind |-> kind, via |-> via, exactIn |-> e, amount |-> a] : e \in exactIn, a \in Amounts}

CreateToBTCSwap                          == Requested("TO_BTC", "args", BOOLEAN)
CreateToBTCLNSwap                        == Requested("TO_BTCLN", "invoice", {FALSE})
CreateToBTCLNSwapViaLNURL                == Requested("TO_BTCLN", "lnurl", BOOLEAN)
CreateToBTCLNSwapViaInvoiceCreateService == Requested("TO_BTCLN", "service", BOOLEAN)
CreateFromBTCSwapNew                     == Requested("SPV_VAULT_FROM_BTC", "args", BOOLEAN)
CreateFromBTCSwap                        == Requested("FROM_BTC", "args", BOOLEAN)
CreateFromBTCLNSwap                      == Requested("FROM_BTCLN", "args", BOOLEAN)
CreateFromBTCLNSwapViaLNURL              == Requested("FROM_BTCLN", "lnurl", BOOLEAN)
CreateFromBTCLNSwapNew                   == Requested("FROM_BTCLN_AUTO", "args", BOOLEAN)
CreateFromBTCLNSwapNewViaLNURL           == Requested("FROM_BTCLN_AUTO", "lnurl", BOOLEAN)

\* Whether the amount asked for is one of bitcoin.
InBtc(r) == IF r.kind \in SendKinds THEN ~r.exactIn ELSE r.exactIn

Candidates(r) == GetSwapCandidates(r.kind, IF InBtc(r) THEN r.amount ELSE 0)

\* create() itself awaits something: the LNURL, an invoice, the look for a swap
\* that has paid the invoice.
Awaits(r) == r.via # "args"

\* The input of a quote must also be within the limits of the LNURL it is paid by.
LimitedByLNURL(r) == r.via = "lnurl" /\ r.kind \notin SendKinds

Steps(r)       == Creation(r.kind, r.exactIn).steps
HasLate(r)     == Creation(r.kind, r.exactIn).late # {}
HasOwn(r)      == Creation(r.kind, r.exactIn).own # {}

-----------------------------------------------------------------------------
(* State of a call *)

Failures == {"blamed", "bounds", "error"}

\* at: the step of the exchange under way, "verifying", "quoted" or a failure;
\* tries: of the step; rounds: of a vault's quote as a whole.
Asked(r) == [at |-> Steps(r)[1].step, step |-> 1, tries |-> 1, rounds |-> 1,
             verdict |-> "none", wrong |-> FALSE, price |-> 0, aborted |-> FALSE]

NoBounds == <<>>
Pending  == [type |-> "none"]
Error    == [type |-> "error"]

Idle == [stage |-> "idle"]

\* onabort: the request that an abort of the call reaches.
Called(stage, r, asked, out) ==
  [stage |-> stage, req |-> r, asked |-> asked, lp |-> [i \in DOMAIN asked |-> Asked(r)],
   params |-> "pending", late |-> IF HasLate(r) THEN "pending" ELSE "ok",
   onabort |-> Len(asked), aborted |-> FALSE, timer |-> "unset", bounds |-> NoBounds, out |-> out]

QuotesInit == DiscoveryInit /\ call = [c \in Calls |-> Idle]

Running(c)    == call[c].stage \in {"asking", "settled"} /\ call[c].asked # <<>>
AtStep(l)     == l.at \in {"prepare", "invoice", "init"}
InFlight(l)   == AtStep(l) \/ l.at = "verifying"
Quoted(ls)    == {i \in DOMAIN ls : ls[i].at = "quoted"}
Resolved(ls)  == {i \in DOMAIN ls : ls[i].at \in Failures \cup {"quoted"}}

Better(r, p, q) == IF r.exactIn THEN p > q ELSE p < q

\* Mutant: the outputs are compared also when the output is what was asked for.
BestByOutput(r, ls) ==
  CHOOSE i \in Quoted(ls) : \A j \in Quoted(ls) : ls[j].price <= ls[i].price

\* quotes.sort(): by output when the input is exact, by input otherwise.
Best(r, ls) ==
  CHOOSE i \in Quoted(ls) : \A j \in Quoted(ls) : ~Better(r, ls[j].price, ls[i].price)

Returned(r, ls) == [type |-> "quote", of |-> Best(r, ls), among |-> Quoted(ls)]
OutOfBounds(b)  == [type |-> "bounds", min |-> b[1], max |-> b[2]]

Widened(b, e) ==
  IF b = NoBounds THEN <<e.min, e.max>>
  ELSE <<IF e.min < b[1] THEN e.min ELSE b[1], IF e.max > b[2] THEN e.max ELSE b[2]>>

Outcome(k, ls) ==
  IF Quoted(ls) # {} THEN Returned(k.req, ls)
  ELSE IF k.bounds # NoBounds THEN OutOfBounds(k.bounds) ELSE Error

\* The promise over all quotes settles when the last LP has answered.
Resolve(k, ls) ==
  LET all == k.stage = "asking" /\ Resolved(ls) = DOMAIN ls
  IN [k EXCEPT !.lp = ls,
               !.stage = IF all THEN "settled" ELSE @,
               !.out   = IF all THEN Outcome(k, ls) ELSE @,
               !.timer = IF all THEN "off" ELSE @]

\* What is left of a request is what the properties look at.
Done(l, at) == [l EXCEPT !.at = at, !.tries = 0, !.rounds = 0, !.verdict = "none", !.aborted = FALSE]

BoundsAfter(k, i, why) ==
  IF why = "bounds" THEN Widened(k.bounds, Bounds[k.asked[i].url]) ELSE k.bounds

\* An LP's quote is rejected.  The bounds that it told are not kept as its own:
\* limits are not modelled.
Failed(c, i, why) ==
  LET k == [call[c] EXCEPT !.bounds = BoundsAfter(call[c], i, why)]
  IN /\ call' = [call EXCEPT ![c] = Resolve(k, [k.lp EXCEPT ![i] = Done(@, why)])]
     /\ IF why = "blamed" THEN RemoveIntermediary(k.asked[i]) ELSE UNCHANGED intermediaries
     /\ UNCHANGED <<fetched, gen, reloading>>

\* Mutant: the answer is counted before it is asked whether it is the first.
SucceededCounted(c, i) ==
  LET k == call[c]
  IN /\ call' = [call EXCEPT ![c] = Resolve(k, [k.lp EXCEPT ![i] = Done(@, "quoted")])]
     /\ UNCHANGED discoveryVars

\* An LP's quote resolves.  The wait for the others starts only if this is the
\* first answer of all.
Succeeded(c, i) ==
  LET k == [call[c] EXCEPT !.timer = IF Resolved(call[c].lp) = {} THEN "armed" ELSE @]
  IN /\ call' = [call EXCEPT ![c] = Resolve(k, [k.lp EXCEPT ![i] = Done(@, "quoted")])]
     /\ UNCHANGED discoveryVars

SetLp(c, i, l) ==
  /\ call' = [call EXCEPT ![c].lp[i] = l]
  /\ UNCHANGED discoveryVars

\* abortController.abort(): extendAbortController() assigns onabort, so of all
\* requests only the one that was started last is aborted.
Abort(k) == [k EXCEPT !.aborted = TRUE, !.lp[k.onabort].aborted = InFlight(k.lp[k.onabort])]

-----------------------------------------------------------------------------
(* createSwap() *)

\* create() is called on the candidates; the requests start when it is through
\* with what it awaits itself.
Ask(r, lps) == Called(IF Awaits(r) THEN "creating" ELSE "asking", r, SortedByFee(lps), Pending)

\* No candidate: the list is reloaded first.
CreateSwap(c, r) ==
  /\ call[c] = Idle
  /\ call' = [call EXCEPT ![c] =
                IF Candidates(r) = {} THEN Called("reloading", r, <<>>, Pending)
                ELSE Ask(r, Candidates(r))]
  /\ UNCHANGED discoveryVars

\* r is bound, so that only the list is taken after the step.
CandidatesReloaded(c) ==
  /\ call[c].stage = "reloading"
  /\ \/ \E objects \in FetchIntermediaries(gen + 1) : Replace(objects)
     \/ UNCHANGED <<intermediaries, fetched, gen>>
  /\ UNCHANGED reloading
  /\ \E r \in {call[c].req} :
       call' = [call EXCEPT ![c] =
         IF Candidates(r)' # {} THEN Ask(r, Candidates(r)')
         ELSE Called("settled", r, <<>>,
                IF InBtc(r) /\ OutOfAllBounds(r.kind, r.amount)'
                THEN OutOfBounds(<<GetSwapMinimum(r.kind)', GetSwapMaximum(r.kind)'>>)
                ELSE Error)]

\* The LNURL cannot be read, the amount is not within its limits, the service
\* makes no invoice, or a swap has paid the invoice already.
CreateFails(c) ==
  /\ call[c].stage = "creating"
  /\ call' = [call EXCEPT ![c] = Called("settled", @.req, <<>>, Error)]
  /\ UNCHANGED discoveryVars

Created(c) ==
  /\ call[c].stage = "creating"
  /\ call' = [call EXCEPT ![c].stage = "asking"]
  /\ UNCHANGED discoveryVars

\* What is fetched once for all requests.
SharedFetched(c) ==
  /\ Running(c)
  /\ \/ call[c].params = "pending" /\ call' = [call EXCEPT ![c].params = "ok"]
     \/ call[c].late = "pending" /\ call' = [call EXCEPT ![c].late = "ok"]
  /\ UNCHANGED discoveryVars

SharedFails(c) ==
  /\ Running(c)
  /\ \/ call[c].params = "pending"
        /\ call' = [call EXCEPT ![c] = Abort([@ EXCEPT !.params = "failed"])]
     \/ call[c].late = "pending"
        /\ call' = [call EXCEPT ![c] = Abort([@ EXCEPT !.late = "failed"])]
  /\ UNCHANGED discoveryVars

\* maxWaitTimeMS after the first quote.
TimerFires(c) ==
  /\ call[c].stage = "asking" /\ call[c].timer = "armed"
  /\ LET out == Outcome(call[c], call[c].lp)
     IN call' = [call EXCEPT ![c] =
                   [Abort(@) EXCEPT !.stage = "settled", !.timer = "off", !.out = out]]
  /\ UNCHANGED discoveryVars

-----------------------------------------------------------------------------
(* The request to one LP *)

\* The parameters that the step streams to the LP, or sends it, are there.
Sent(k, l) == Steps(k.req)[l.step].needs # {} => k.params = "ok"

Answers(r) ==
  {[verdict |-> Verdict(r.kind, flaw), wrong |-> flaw # "none"] :
     flaw \in (Flaws(r.kind, r.exactIn) \ {"noAmount"}) \cup {"none"}}

\* The LP answers with 20000 and what its schema asks for, or with something
\* that one of the checks must find.
LpAnswers(c, i) ==
  LET k == call[c]
      l == k.lp[i]
  IN /\ l.at = "init" /\ Sent(k, l) /\ ~l.aborted
     /\ \E a \in Answers(k.req) : \E p \in IF a.verdict = "good" THEN Prices ELSE {0} :
          SetLp(c, i, [l EXCEPT !.at = "verifying", !.wrong = a.wrong, !.price = p,
                                !.verdict = a.verdict])

\* The LP tells what will be left for the invoice, an invoice is made for that
\* amount, and only then the swap is asked for.
NextStep(k, l) == [l EXCEPT !.at = Steps(k.req)[l.step + 1].step, !.step = @ + 1, !.tries = 1]

LpPrepares(c, i) ==
  LET l == call[c].lp[i]
  IN /\ l.at = "prepare" /\ ~l.aborted
     /\ \/ SetLp(c, i, NextStep(call[c], l))
        \/ Verdict("TO_BTCLN", "noAmount") = "blamed" /\ Failed(c, i, "blamed")
        \/ Failed(c, i, "error")  \* not within the limits of the service

InvoiceMade(c, i) ==
  LET l == call[c].lp[i]
  IN /\ l.at = "invoice"
     /\ \/ ~l.aborted /\ SetLp(c, i, NextStep(call[c], l))
        \/ Failed(c, i, "error")

\* A code other than 20000, or another HTTP status, is never tried again.
LpRefuses(c, i) ==
  LET l == call[c].lp[i]
  IN /\ l.at \in {"prepare", "init"} /\ ~l.aborted
     /\ \E why \in {"bounds", "error"} : Failed(c, i, why)

\* tryWithRetries on any other error: the network's, that of a parameter that
\* is missing for good, or the abort of the request.
RequestBreaks(c, i) ==
  LET l == call[c].lp[i]
  IN /\ l.at \in {"prepare", "init"}
     /\ IF l.tries < MaxTries /\ ~l.aborted
        THEN SetLp(c, i, [l EXCEPT !.tries = @ + 1])
        ELSE Failed(c, i, "error")

\* The LP's reputation or liquidity cannot be read.
OwnFails(c, i) ==
  /\ HasOwn(call[c].req) /\ InFlight(call[c].lp[i])
  /\ Failed(c, i, "error")

-----------------------------------------------------------------------------
(* The checks of an answer *)

\* A vault's quote as a whole is tried again when the vault has moved on.
NextRound(c, i) ==
  LET k == call[c]
      l == k.lp[i]
  IN /\ l.rounds < MaxTries /\ ~k.aborted
     /\ call' = [call EXCEPT ![c].lp[i] = [Asked(k.req) EXCEPT !.rounds = l.rounds + 1],
                             ![c].onabort = i]
     /\ UNCHANGED discoveryVars

Verified(c, i) ==
  LET k == call[c]
      l == k.lp[i]
  IN /\ l.at = "verifying" /\ k.late = "ok"
     /\ \/ l.verdict = "good" /\ Succeeded(c, i)
        \/ l.verdict = "good" /\ LimitedByLNURL(k.req) /\ Failed(c, i, "error")
        \/ l.verdict = "blamed" /\ Failed(c, i, "blamed")
        \/ l.verdict = "error" /\ Failed(c, i, "error")
        \/ l.verdict = "again" /\ NextRound(c, i)
        \/ l.verdict = "again" /\ k.aborted /\ Failed(c, i, "error")
        \/ l.verdict = "again" /\ ~k.aborted /\ l.rounds = MaxTries /\ Failed(c, i, "blamed")

\* The chain, the price or the bitcoin node cannot be read, or the request was
\* aborted.  When a vault cannot be read the LP is blamed for it.
SdkFails(c, i) ==
  LET k == call[c]
  IN /\ k.lp[i].at = "verifying"
     /\ \/ Failed(c, i, "error")
        \/ k.req.kind = "SPV_VAULT_FROM_BTC" /\ k.late = "ok" /\ Failed(c, i, "blamed")

-----------------------------------------------------------------------------
(* Composition *)

LpStep(c, i) ==
  \/ LpAnswers(c, i) \/ LpPrepares(c, i) \/ InvoiceMade(c, i) \/ LpRefuses(c, i)
  \/ RequestBreaks(c, i) \/ OwnFails(c, i)
  \/ Verified(c, i) \/ SdkFails(c, i)

CallStep(c) ==
  \/ CandidatesReloaded(c) \/ CreateFails(c) \/ Created(c)
  \/ SharedFetched(c) \/ SharedFails(c) \/ TimerFires(c)
  \/ Running(c) /\ \E i \in DOMAIN call[c].lp : LpStep(c, i)

ReloadIntermediaries ==
  /\ ReloadStarted \/ ReloadEnds
  /\ UNCHANGED call

\* requests: those the application makes.
QuotesNext(requests) ==
  \/ ReloadIntermediaries
  \/ \E c \in Calls : CallStep(c) \/ \E r \in requests : CreateSwap(c, r)

\* Timers fire, and what the SDK asks of its own nodes and of the chain is
\* answered.  Nothing is assumed of an LP.
QuotesFairness(c) ==
  /\ WF_call(TimerFires(c))
  /\ WF_call(SharedFetched(c) \/ SharedFails(c))
  /\ WF_call(Running(c) /\ \E i \in DOMAIN call[c].lp : Verified(c, i) \/ SdkFails(c, i))

-----------------------------------------------------------------------------
(* Properties *)

Caught(c) == {call[c].asked[i] : i \in {j \in DOMAIN call[c].lp : call[c].lp[j].at = "blamed"}}

Ran == {c \in Calls : call[c] # Idle}

\* An LP is off the list exactly when a quote of that very object was caught:
\* nothing that goes wrong elsewhere, no late answer and no reload takes another
\* LP off the list, and except for vaults, where the LP also pays for a node
\* that fails, whoever is off the list has answered wrongly or told no amount.
BlacklistIsExact ==
  /\ intermediaries = fetched \ UNION {Caught(c) : c \in Ran}
  /\ \A c \in Ran : \A i \in DOMAIN call[c].lp :
       LET l == call[c].lp[i]
       IN l.at = "blamed" => \/ l.wrong
                             \/ l.step < Len(Steps(call[c].req))
                             \/ call[c].req.kind = "SPV_VAULT_FROM_BTC"

BoundsTold(c) == {Bounds[call[c].asked[i].url] : i \in {j \in DOMAIN call[c].lp : call[c].lp[j].at = "bounds"}}

\* What createSwap() settles with: a quote that no check should have refused and
\* that no other quote in time betters for the side the application left open;
\* the widest bounds that were told, when no LP gave a quote and one told its
\* bounds; an error only when none did either.
AnswerIsSound ==
  \A c \in Ran : call[c].stage = "settled" =>
    LET k == call[c]
        o == k.out
    IN /\ o.type = "quote" =>
            /\ o.of \in o.among /\ o.among \subseteq Quoted(k.lp)
            /\ ~k.lp[o.of].wrong
            /\ \A j \in o.among : IF k.req.exactIn THEN k.lp[j].price <= k.lp[o.of].price
                                  ELSE k.lp[j].price >= k.lp[o.of].price
       /\ o.type = "bounds" /\ k.asked # <<>> =>
            /\ Quoted(k.lp) = {} /\ Resolved(k.lp) = DOMAIN k.lp
            /\ \A b \in BoundsTold(c) : o.min <= b.min /\ o.max >= b.max
            /\ \E b \in BoundsTold(c) : b.min = o.min
            /\ \E b \in BoundsTold(c) : b.max = o.max
       /\ o.type = "error" =>
            Quoted(k.lp) = {} /\ BoundsTold(c) = {} /\ Resolved(k.lp) = DOMAIN k.lp

Asking(c) == call[c].stage = "asking"

FailedLps(ls) == Resolved(ls) \ Quoted(ls)

\* When a quote is the first answer, the call settles whatever the other LPs do;
\* and when no LP has a request open, it settles or asks one of them again.
CallIsAnswered ==
  \A c \in Calls :
    /\ (Asking(c) /\ Quoted(call[c].lp) # {} /\ FailedLps(call[c].lp) = {}) ~> ~Asking(c)
    /\ (Asking(c) /\ \A i \in DOMAIN call[c].lp : ~AtStep(call[c].lp[i]))
         ~> (~Asking(c) \/ \E i \in DOMAIN call[c].lp : AtStep(call[c].lp[i]))

\* As createSwap() has it: "Maximum waiting time after the first intermediary
\* returns the quote".
QuoteIsWaitedFor ==
  \A c \in Calls : (Asking(c) /\ Quoted(call[c].lp) # {}) ~> ~Asking(c)
=============================================================================
