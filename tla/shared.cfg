SPECIFICATION Spec
CONSTANTS
    Peers = {a}
    Tunnels = {t1}
    Tasks = {x, y}
    Control = control
    PeerNode = peernode
    None = None
    Torn = Torn
    MaxCrashes = 2
    MaxFaults = 1
SYMMETRY Symmetry
INVARIANT IndInv
INVARIANT RunningServed
INVARIANT AdvertisedSaved
INVARIANT RevokedForgotten
