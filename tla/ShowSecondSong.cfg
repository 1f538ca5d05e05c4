\* A song ends by itself and the next is played.
SPECIFICATION Spec
CONSTANTS
    Clients = {c1}
    Songs = {s1}
    None = None
    k1 = k1
    k2 = k2
    Keys = {k1, k2}
    DefaultKey = k1
    ServerKey = k1
    ClientKey <- SameKey
    MaxQueue = 1
    MaxDrops = 0
    Overlap = FALSE
    ClientOverlap = FALSE
    UseAudio = {c1}
    UseLights = {c1}
    SoundReady = {c1}
    HasMusic <- AllSongs
    HasLights <- AllSongs
    Unlit = {}
INVARIANT SyncsWhilePlaying

\* Nothing has to happen once the server does not listen.
CHECK_DEADLOCK FALSE
