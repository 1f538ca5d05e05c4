\* Every packet at any time; the threads interleave, and the kernel maps files
\* where it likes.
SPECIFICATION FairSpec
CONSTANTS
    a1 = a1
    a2 = a2
    none = none
    Addresses = {a1, a2}
    Null = none
    NoName = none
    Music <- MCMusic
    Lights <- MCLights
    Rate = 5
    Scale = 2
    Asked = 3
    Word = 256
    UseAudio = TRUE
    UseLights = TRUE
    Loads <- MCLoads
    Starts = {0}
    Devices = {TRUE}
    Pru <- MCPru
INVARIANTS TypeOK AudioMapped LightsMapped  SoughtFits DarkUntilFrame
PROPERTY StreamEnds
\* The process may have ended.
CHECK_DEADLOCK FALSE
