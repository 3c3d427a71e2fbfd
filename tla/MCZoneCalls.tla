--------------------------- MODULE MCZoneCalls ---------------------------
EXTENDS ZoneCalls

MCLower == {0, -3, -5}
MCDifference == {-6, -2, 0, 5, INF}
=============================================================================
