---------------------------- MODULE MCToBTCSwap ----------------------------
\* ToBTCSwap for TLC: one tick slot, two slots for the application's calls.
EXTENDS ToBTCSwap

CONSTANTS t1, c1, c2

MCTimers  == {t1}
MCCallers == {c1, c2}

\* commit(), waitForPayment() and refund(), as execute() and the README use
\* them; waitTillRefunded() next to them.
UsualCalls == {<<c1, "commit">>, <<c1, "refund">>, <<c2, "pay">>, <<c2, "waitRefund">>}

\* The calls whose answers are applied without a second look, side by side.
StaleAnswers == {<<c1, "commit">>, <<c1, "waitCommit">>, <<c1, "pay">>, <<c2, "sync">>}

\* Swapper._syncSwaps() while a commit() is under way.
SyncBesideCommit == {<<c1, "commit">>, <<c2, "sync">>}
=============================================================================
