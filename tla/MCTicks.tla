------------------------------- MODULE MCTicks -------------------------------
\* As in timers_test/tick: a tick on unit A, then one on unit B.
EXTENDS Ticks

MCUses == <<"A", "B">>
==============================================================================
