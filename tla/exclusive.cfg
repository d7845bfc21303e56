SPECIFICATION Spec
CONSTANTS
    Tunnels = {t1, t2}
    Clients = {c1}
    Main = main
    Sweep = sweep
    Targets = {x}
    Ports = {p1, p2, p3}
    Conns = {k1, k2, k3, k4}
    Control = control
    Nobody = nobody
    None = None
    Ops = {"create", "start", "stop", "remove"}
    OwnTunnel = t1
    AwaitCreate = TRUE
    MaxCrashes = 2
    MaxFaults = 0
SYMMETRY Symmetry
INVARIANT OlderOff
INVARIANT RouteIntact
