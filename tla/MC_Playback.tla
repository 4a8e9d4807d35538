----------------------------- MODULE MC_Playback -----------------------------
EXTENDS Playback, TLC
CONSTANTS m1, m2
TwoMachines == {m1, m2}
EqualFrames == [m \in TwoMachines |-> 5]
UnequalFrames == (m1 :> 4) @@ (m2 :> 2)
=============================================================================
