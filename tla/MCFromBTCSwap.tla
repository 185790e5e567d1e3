---------------------------- MODULE MCFromBTCSwap ----------------------------
\* FromBTCSwap for TLC: one tick slot, two slots for the application's calls.
EXTENDS FromBTCSwap

CONSTANTS t1, c1, c2

MCTimers  == {t1}
MCCallers == {c1, c2}

\* execute(), called again and again.
Executing == {<<c1, "commit">>, <<c1, "send">>, <<c1, "waitClaim">>, <<c1, "claim">>}

\* Transactions sent by the application, then waitTillCommited(), and
\* Swapper._syncSwaps() beside the calls.
Manual    == {<<c1, "commit">>, <<c1, "send">>, <<c2, "waitCommit">>}
Syncing   == {<<c1, "send">>, <<c2, "sync">>, <<c2, "commit">>}

MCApplications == {Executing, Manual, Syncing}
MCCrashing     == {Executing, Manual}
=============================================================================
