SPECIFICATION Spec
CONSTANTS
    Peers = {a, b}
    Tunnels = {t1}
    Tasks = {x}
    Control = control
    PeerNode = peernode
    None = None
    Torn = Torn
    MaxCrashes = 1
    MaxFaults = 0
SYMMETRY Symmetry
INVARIANT RevokedUnreachable
