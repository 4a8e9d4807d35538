--------------------------- MODULE MC_RecorderV1 ---------------------------
(* Instantiates RecorderV1 for TLC: SOURCES as model values, in dict order. *)
EXTENDS RecorderV1

CONSTANTS s1, s2

TwoSources == <<s1, s2>>
=============================================================================
