-------------------------- MODULE MCSpvFromBTCSwap --------------------------
\* SpvFromBTCSwap for TLC: one tick slot, two slots for the application's calls.
EXTENDS SpvFromBTCSwap

CONSTANTS t1, c1, c2

MCTimers  == {t1}
MCCallers == {c1, c2}

\* execute() with its three parts, claim(), and _syncSwaps() beside them.
AllCalls == {<<c1, "submit">>, <<c1, "claim">>, <<c1, "waitSettled">>,
             <<c2, "waitBitcoin">>, <<c2, "sync">>}

\* submitPsbt() alone: ticks, events and the restart do the rest.
OnlySubmit == {<<c1, "submit">>}

=============================================================================
