--------------------------- MODULE MCMeasuredRuns ---------------------------
EXTENDS MeasuredRuns, SampleGraphs, SampleNets

MCGraphs == {SharedMutex, Handover, SelfLoop, MissedDeadline,
             EqualPriorities(<<"A", "B">>), RestartSpin, Queueing}

MCWrittenNets == {Overloaded, TwoOfThree, UnboundedGroups, OpenAndOverflow}

NoNets == {}
BacklogGraphs == {Backlog}
=============================================================================
