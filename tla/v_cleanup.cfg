SPECIFICATION Spec
CONSTANTS
    Tunnels = {t1, t2}
    Clients = {c1, c2}
    Main = main
    Sweep = sweep
    Targets = {x, y}
    Ports = {p1, p2, p3, p4}
    Conns = {k1, k2, k3, k4, k5}
    Control = control
    Nobody = nobody
    None = None
    Ops = {"create", "start"}
    OwnTunnel = None
    AwaitCreate = TRUE
    MaxCrashes = 0
    MaxFaults = 0
SYMMETRY Symmetry
PROPERTY CleanupKeepsUsed
