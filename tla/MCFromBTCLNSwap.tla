--------------------------- MODULE MCFromBTCLNSwap ---------------------------
\* FromBTCLNSwap for TLC: one tick slot, two slots for the application's calls.
EXTENDS FromBTCLNSwap

CONSTANTS t1, c1, c2

MCTimers  == {t1}
MCCallers == {c1, c2}

\* execute() with waitTillClaimed() beside it, and on a chain that takes commit
\* and claim in one go.
Executing == {<<c1, "pay">>, <<c1, "commit">>, <<c1, "claim">>, <<c2, "waitClaim">>}
OneGo     == {<<c1, "pay">>, <<c1, "oneshot">>, <<c2, "claim">>}

\* Transactions of txsCommit() sent by the application, then waitTillCommited().
Manual    == {<<c1, "pay">>, <<c1, "commit">>, <<c2, "waitCommit">>}

\* Swapper._syncSwaps() beside the wait for the payment.
Syncing   == {<<c1, "pay">>, <<c2, "sync">>}

MCApplications == {Executing, OneGo, Manual, Syncing}
MCCrashing     == MCApplications
=============================================================================
