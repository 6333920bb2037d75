\* Two keys and two packets; goroutines may stay blocked after a shutdown.
SPECIFICATION FairSpec
CONSTANTS
    Keys = {k1, k2}
    Active = 2
    Inactive = 2
    MaxPackets = 2
INVARIANTS
    PacketsOnceInOrder
    RecordsExpire
PROPERTIES
    PacketsComeOut
CHECK_DEADLOCK FALSE
