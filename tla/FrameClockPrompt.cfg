\* A clock thread that is prompt; the owner runs, syncs and closes the clock.
SPECIFICATION Spec
CONSTANTS
    Spans <- MCSpans
    SyncFrames <- MCSyncFrames
    MaxSyncs = 3
    Backlog = 0
INVARIANT OneChain
PROPERTIES ConsecutiveUpdates StartIsAnswered ImplementsPlayback
\* A closed clock does nothing any more.
CHECK_DEADLOCK FALSE
