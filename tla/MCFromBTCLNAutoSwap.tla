------------------------ MODULE MCFromBTCLNAutoSwap ------------------------
\* FromBTCLNAutoSwap for TLC: one tick slot, two slots for the application's calls.
EXTENDS FromBTCLNAutoSwap

CONSTANTS t1, c1, c2

MCTimers  == {t1}
MCCallers == {c1, c2}

\* execute(), and a claim of the user's own when watchtowers take too long.
Executing == {<<c1, "pay">>, <<c1, "waitClaim">>, <<c1, "claim">>}

\* Swapper._syncSwaps() beside the wait for the payment.
Syncing   == {<<c1, "pay">>, <<c2, "sync">>}

MCApplications == {Executing, Syncing}
MCCrashing     == {Executing}
=============================================================================
