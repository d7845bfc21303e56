SPECIFICATION Spec
CONSTANTS
    Tunnels = {t1}
    Clients = {c1, c2}
    Main = main
    Sweep = sweep
    Targets = {x}
    Ports = {p1, p2, p3}
    Conns = {k1, k2}
    Control = control
    Nobody = nobody
    None = None
    Ops = {"create", "start", "stop", "delete", "sweep"}
    OwnTunnel = None
    AwaitCreate = FALSE
    MaxCrashes = 1
    MaxFaults = 2
SYMMETRY Symmetry
INVARIANT IndInv
INVARIANT KeyBeforeConnector
PROPERTY LocalStateOutlivesTunnel
