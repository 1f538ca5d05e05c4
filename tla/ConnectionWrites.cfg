\* A read error while a packet is being written.
SPECIFICATION Spec
CONSTANTS
    nop = nop
    load = load
    Packets = {nop, load}
    Length <- MCLength
    None = None
    Header = 2
    MaxSent = 2
    MaxBreaks = 1
    ReadErrors = TRUE
INVARIANT OneWrite
\* The streams end when MaxSent packets are through.
CHECK_DEADLOCK FALSE
