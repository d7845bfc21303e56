SPECIFICATION FairSpec
CONSTANTS
    Tunnels = {t1}
    Clients = {c1, c2}
    Main = main
    Sweep = sweep
    Targets = {x, y}
    Ports = {p1, p2, p3}
    Conns = {k1, k2, k3}
    Control = control
    Nobody = nobody
    None = None
    Ops = {"create", "start", "stop", "sweep"}
    OwnTunnel = None
    AwaitCreate = TRUE
    MaxCrashes = 1
    MaxFaults = 0
PROPERTY BusyReleased
PROPERTY EnabledResumes
INVARIANT TypeOK
INVARIANT BusyExclusion
INVARIANT RouteIntact
INVARIANT RunningBacked
