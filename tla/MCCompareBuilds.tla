------------------------- MODULE MCCompareBuilds -------------------------
EXTENDS CompareBuilds, SampleNets

MCNets == {PeriodicPair, TwoOfThree, UnboundedGroups, OpenAndOverflow,
           PreemptedOnce, Deferred, FifoPair}
=============================================================================
