SPECIFICATION FairSpec
CONSTANT MaxTimers = 3
\* A killed server comes to rest.
CHECK_DEADLOCK FALSE
INVARIANTS TimerOrElection LeakNeedsOverlap
PROPERTIES SilentServerElects KilledGoesQuiet
