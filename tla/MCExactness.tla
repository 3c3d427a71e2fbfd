---------------------------- MODULE MCExactness ----------------------------
EXTENDS Exactness, SampleNets

MCCompared ==
  {PeriodicPair, Overloaded, TwoOfThree, UnboundedGroups, OpenAndOverflow, FifoPair}

MCNets == MCCompared \cup {Patient}

MCStopwatch == {PreemptedOnce}
=============================================================================
