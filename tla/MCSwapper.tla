------------------------------ MODULE MCSwapper ------------------------------
\* The two parts of the swapper share whether it is initialised and nothing that
\* the other changes: a behaviour is of one of them.
EXTENDS SwapQuotes, SwapperLifecycle

CONSTANTS Parts, Requests

VARIABLE part

vars == <<part, quoteVars, lifeVars>>

MCUrls  == {"a", "b"}
MCUrls3 == {"a", "b", "c"}

MCService == [u \in Urls |->
  CASE u = "a" -> [kinds |-> Kinds, min |-> 1, max |-> 2, fee |-> 1]
    [] u = "b" -> [kinds |-> Kinds \ {"FROM_BTC"}, min |-> 2, max |-> 3, fee |-> 2]
    [] u = "c" -> [kinds |-> Kinds, min |-> 1, max |-> 3, fee |-> 3]]

MCBounds == [u \in Urls |-> IF u = "a" THEN [min |-> 1, max |-> 2] ELSE [min |-> 2, max |-> 3]]

\* Every method once, with either side exact, and an amount that no LP takes.
MCRequests ==
  {r \in CreateToBTCSwap : ~r.exactIn}
    \cup {r \in CreateToBTCLNSwapViaLNURL \cup CreateFromBTCSwapNew \cup CreateFromBTCLNSwap
                  \cup CreateFromBTCLNSwapNewViaLNURL : r.exactIn /\ r.amount = 2}
    \cup {r \in CreateToBTCLNSwap \cup CreateToBTCLNSwapViaInvoiceCreateService
                  \cup CreateFromBTCSwap \cup CreateFromBTCLNSwapNew
                  \cup CreateFromBTCLNSwapViaLNURL : ~r.exactIn /\ r.amount = 2}

MCOneRequest == {r \in CreateToBTCSwap : ~r.exactIn /\ r.amount = 2}

MCOrder  == <<"TO_BTC", "FROM_BTC">>
MCTypeOf == [s \in Swaps |-> "FROM_BTC"]

\* The quotes are asked of a swapper that is initialised.
Init ==
  /\ part \in Parts
  /\ IF part = "quotes"
     THEN QuotesInit /\ LifecycleInit /\ \A s \in Swaps : row[s] = NoRow
     ELSE LifecycleInit /\ QuotesInit /\ intermediaries = {}

Next ==
  \/ part = "quotes" /\ QuotesNext(Requests) /\ UNCHANGED <<part, lifeVars>>
  \/ part = "store" /\ LifecycleNext /\ UNCHANGED <<part, quoteVars>>

Spec     == Init /\ [][Next]_vars
FairSpec == Spec /\ LifecycleFairness /\ \A c \in Calls : QuotesFairness(c)
=============================================================================
