----------------------------- MODULE MC_SlotClock -----------------------------
EXTENDS SlotClock

CONSTANTS k1, k2

\* Two genesis validators, the node holding the first key, run with --dev:
\* the committee is the node alone, and its VRF wins every slot.
MCValidators == <<k1, k2>>

MCVrfBelow == 0..10

MCStartTimes == {-1, 1}
=============================================================================
