---------------------------- MODULE MCTimedRun ----------------------------
EXTENDS TimedRun, SampleNets

MCNets == {PeriodicPair, Overloaded, TwoOfThree, UnboundedGroups,
           OpenAndOverflow, FifoPair}
=============================================================================
