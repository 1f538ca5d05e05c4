\* The owner calls while up to two handlers of the timer are still to run.
SPECIFICATION Spec
CONSTANTS
    Spans <- MCSpans
    SyncFrames <- MCSyncFrames
    MaxSyncs = 1
    Backlog = 2
INVARIANTS TypeOK WaitsBounded
PROPERTY SyncConverges
\* A closed clock does nothing any more.
CHECK_DEADLOCK FALSE
