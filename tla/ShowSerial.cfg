\* One client with sound only, two songs, one lost connection; threads take turns.
SPECIFICATION FairSpec
CONSTANTS
    Clients = {c1}
    Songs = {s1, s2}
    None = None
    k1 = k1
    k2 = k2
    Keys = {k1, k2}
    DefaultKey = k1
    ServerKey = k1
    ClientKey <- SameKey
    MaxQueue = 1
    MaxDrops = 1
    Overlap = FALSE
    ClientOverlap = FALSE
    UseAudio = {c1}
    UseLights = {}
    SoundReady = {c1}
    HasMusic <- AllSongs
    HasLights <- AllSongs
    Unlit = {}
INVARIANTS TypeOK ShowAgreement SameSong AudioOnlyInShow
PROPERTY StopReachesClients

\* Nothing has to happen once the server does not listen.
CHECK_DEADLOCK FALSE
