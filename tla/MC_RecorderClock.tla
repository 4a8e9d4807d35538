-------------------------- MODULE MC_RecorderClock --------------------------
(* Instantiates RecorderClock for TLC: SOURCES as model values.            *)
EXTENDS RecorderClock

CONSTANTS s1, s2

\* Two sources, as QuickTurn and VTC.
TwoSources == <<s1, s2>>
=============================================================================
