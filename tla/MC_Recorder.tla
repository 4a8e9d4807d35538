---------------------------- MODULE MC_Recorder ----------------------------
(* Instantiates Recorder for TLC: SOURCES as model values, in dict order.  *)
EXTENDS Recorder

CONSTANTS s1, s2

\* Two sources, as QuickTurn and VTC.
TwoSources == <<s1, s2>>

\* One source, for runs that exercise the buffer arithmetic.
OneSource == <<s1>>
=============================================================================
