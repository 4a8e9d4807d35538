--------------------------- MODULE MC_AutoConnect ---------------------------
EXTENDS AutoConnect
=============================================================================
