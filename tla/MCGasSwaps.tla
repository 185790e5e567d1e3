---------------------------- MODULE MCGasSwaps ----------------------------
\* The trusted swaps for TLC: one swap of either kind, two slots for calls.
EXTENDS OnchainForGasSwap, LnForGasSwap

CONSTANTS c1, c2

VARIABLES kind

vars == <<kind, trustedVars, onchainVars>>

MCCallers == {c1, c2}

\* A swap that is waited for and synced, one that is waited for while it is
\* paid for and refunded, and one that is only funded.
Syncing == {<<c1, "wait">>, <<c2, "sync">>}
Paying  == {<<c1, "wait">>, <<c1, "refund">>, <<c2, "send">>}
Funding == {<<c2, "send">>}
MCApplications == {Syncing, Paying, Funding}

\* Coins around the sums that matter: too small to pay for themselves, dust,
\* exact, with a parent that lacks fees; up to four of them in a wallet.
Coin(id, value, vsize, rate) == [id |-> id, value |-> value, vsize |-> vsize, rate |-> rate]
Coins == {Coin(1, 60, 0, 0), Coin(2, 380, 0, 0), Coin(3, 700, 150, 0), Coin(4, 1110, 0, 0),
          Coin(5, 1300, 300, 1), Coin(6, 2400, 0, 0), Coin(7, 900, 900, 0)}
AnyWallet  == {pool \in SUBSET Coins : Cardinality(pool) <= 4}
FewWallet  == {{c \in Coins : c.id = 1}, {c \in Coins : c.id = 6}}
MCWallets  == {AnyWallet, FewWallet}

Init ==
  \/ kind = "onchain" /\ OnchainInit /\ (app = Funding <=> wallet = AnyWallet)
  \/ /\ kind = "ln" /\ LnInit /\ app = Syncing
     /\ deposit = 0 /\ lpAddress = FALSE /\ soft = FALSE /\ psbt = NoPsbt /\ wallet = {}

OnchainStep == kind = "onchain" /\ OnchainNext /\ UNCHANGED <<kind, app>>
LnStep      == kind = "ln" /\ LnNext /\ UNCHANGED <<kind, app, onchainVars>>

Next == OnchainStep \/ LnStep

CallStep(t) ==
  /\ UNCHANGED <<kind, app>>
  /\ \/ kind = "onchain" /\ OnchainCallNext(t)
     \/ kind = "ln" /\ LnCallNext(t) /\ UNCHANGED onchainVars

\* The calls of slot c1, the waits and the sync of a start, go on; queued writes
\* complete, and a process that stopped is started again.  Nothing is assumed
\* of the LP, of the application or of the calls in slot c2.
Fairness ==
  /\ WF_vars((pc[c1] # "idle" \/ phase = "init") /\ CallStep(c1))
  /\ WF_vars((Flush \/ Restart \/ InitDone) /\ UNCHANGED <<kind, app, onchainVars>>)

FairSpec == Init /\ [][Next]_vars /\ Fairness

-----------------------------------------------------------------------------
(* Properties *)

\* OnchainForGasSwap and LnForGasSwap show FINISHED, REFUNDED and the like only
\* when the LP and the chain bear them out.
ShownIsTrue == IF kind = "ln" THEN LnShownIsTrue ELSE OnchainShownIsTrue

Outcomes == IF kind = "ln" THEN LnOutcomes ELSE OnchainOutcomes
Settled  == Outcomes # {}

\* A wait that was started, and the sync of a start, come to show how the LP
\* settled the swap, unless a request is lost or the process stops.
WaitIsAnswered ==
  (Settled /\ Asking /\ ~lost) ~> (state \in Outcomes \/ lost \/ phase = "down")
=============================================================================
