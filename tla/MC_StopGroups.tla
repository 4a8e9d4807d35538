---------------------------- MODULE MC_StopGroups ----------------------------
EXTENDS StopGroups
CONSTANTS m1, m2
TwoMachines == <<m1, m2>>
=============================================================================
