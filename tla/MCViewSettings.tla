--------------------------- MODULE MCViewSettings ---------------------------
EXTENDS ViewSettings, TLC

CONSTANTS v1, v2, v3

TwoTabs == <<v1, v2>>

=============================================================================
