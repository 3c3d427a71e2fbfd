--------------------------- MODULE MCLoweredRuns ---------------------------
EXTENDS LoweredRuns, SampleGraphs

ResumeGraphs == {SharedMutex, NestedLocks, Overload, Queueing, PeriodicDiamond, Diamond, SelfLoop,
                 TwoPeriods, EqualPriorities(<<"A", "B">>), EqualPriorities(<<"B", "A">>)}

CoreGraphs == {RestartPair, RestartSpin} \cup
              {Under("fifo", g) : g \in {SharedMutex, NestedLocks, Queueing, Diamond}} \cup
              {Under("fixed_prior_with_restart", Diamond)}

AllGraphs == ResumeGraphs \cup CoreGraphs

(* Each of these violates the property named beside it.                    *)
RestartLockGraphs == {RestartLocked}    \* LockConserved
TwoCoreGraphs == {TwoCoresPerCpu}       \* CoreConserved
PriorityJoinGraphs == {PriorityJoin}    \* NoReleaseDrift
=============================================================================
