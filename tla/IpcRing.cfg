SPECIFICATION FairSpec
CONSTANT MaxInterrupts = 2
INVARIANTS TypeOK MutualExclusion ReapedBeforeUnlink CleanAfterCleanup
PROPERTIES LoggedOnceByNext TurnComes TerminateCompletes ImplementsTurnRing
\* A child that fails in its turn leaves the others waiting for ever.
CHECK_DEADLOCK FALSE
