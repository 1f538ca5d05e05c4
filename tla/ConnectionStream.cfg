\* Packets cut anywhere, a read error at any time.
SPECIFICATION Spec
CONSTANTS
    nop = nop
    load = load
    Packets = {nop, load}
    Length <- MCLength
    None = None
    Header = 2
    MaxSent = 3
    MaxBreaks = 1
    ReadErrors = TRUE
INVARIANTS TypeOK Framed NoneStranded
PROPERTIES Delivers Arrives Notices
\* The streams end when MaxSent packets are through.
CHECK_DEADLOCK FALSE
