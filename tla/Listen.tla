------------------------------- MODULE Listen -------------------------------
(***************************************************************************)
(* The command line's listen sessions (bin/src/main.rs, progress.rs): each *)
(* finds or makes a tunnel for its endpoint, points it at its device,      *)
(* waits until the controllers have caught up, announces it and watches it *)
(* until it ends, when it deletes the tunnel.                              *)
(***************************************************************************)
EXTENDS Naturals, FiniteSets

CONSTANTS
    Sessions,    \* runs of listen, all for the same local endpoint
    Device,      \* the device each session runs on
    Tunnels,     \* names the control plane may give
    Owned,       \* tunnels that exist at first, each with its device
    MaxGen,      \* spec changes of one proxy
    MaxFaults    \* calls that fail, and commands given beside the sessions

Devices == {Device[s] : s \in Sessions}
None    == "none"

ASSUME ListenAssumption ==
    /\ Owned \in [DOMAIN Owned -> Devices] /\ DOMAIN Owned \subseteq Tunnels
    /\ MaxGen \in Nat /\ MaxFaults \in Nat
    /\ None \notin Devices

VARIABLES
    proxy,      \* each HTTPProxy: its generation and the device it points at
    seen,       \* the generation its controllers last reported True for
    dns,        \* IrohDNSPublished of each device's connector
    keys,       \* listen key files, per device and tunnel
    session,    \* where each session is, its tunnel, and the last generation it wrote
    named,      \* tunnels some session was given by id or picked
    maker,      \* the device each tunnel was made on
    faults

cloud == <<proxy, seen, dns>>
vars  == <<cloud, keys, session, named, maker, faults>>

Gone == [gen |-> 0, dev |-> None]
There(t) == proxy[t] # Gone

Fault == faults < MaxFaults /\ faults' = faults + 1

At(s, pc)  == session[s].pc = pc
Goes(s, pc) == session' = [session EXCEPT ![s].pc = pc]

\* An error before the session is announced ends it, and leaves its tunnel.
Fails(s) == Goes(s, "failed")

----------------------------------------------------------------------------
(* The control plane, and whoever else uses it.                            *)

Reconciled(t) ==
    /\ There(t) /\ seen[t] < proxy[t].gen
    /\ seen' = [seen EXCEPT ![t] = proxy[t].gen]
    /\ UNCHANGED <<proxy, dns, keys, session, named, maker, faults>>

\* A connector's record is published, or found to belong to another one, also
\* later on: DeferredToOwner, for good.
Published(d) ==
    /\ dns[d] # "DeferredToOwner" /\ \E t \in Tunnels : proxy[t].dev = d
    /\ dns' = [dns EXCEPT ![d] = "True"] \/ dns' = [dns EXCEPT ![d] = "DeferredToOwner"]
    /\ UNCHANGED <<proxy, seen, keys, session, named, maker, faults>>

\* The delete command, the portal, or another session's.
DeletedUpstream(t) ==
    /\ There(t) /\ Fault
    /\ proxy' = [proxy EXCEPT ![t] = Gone]
    /\ UNCHANGED <<seen, dns, keys, session, named, maker>>

\* The update command points the tunnel at the device it is given on.
UpdateCommand(d, t) ==
    /\ There(t) /\ proxy[t].gen < MaxGen /\ Fault
    /\ proxy' = [proxy EXCEPT ![t] = [gen |-> @.gen + 1, dev |-> d]]
    /\ named' = named \cup {t}
    /\ UNCHANGED <<seen, dns, keys, session, maker>>

----------------------------------------------------------------------------
(* Finding the tunnel.                                                     *)

Takes(s, t, pc) == session' = [session EXCEPT ![s].pc = pc, ![s].tun = t]

\* Mutant: the first tunnel with that endpoint, wherever it was made.
AdoptableAnywhere(s, t) == There(t)

\* get_active_by_endpoint's match is adopted on the device it belongs to only.
Adoptable(s, t) == There(t) /\ proxy[t].dev = Device[s]

\* --endpoint: of the tunnels with it the first one listed counts.
ByEndpoint(s) ==
    /\ At(s, "start")
    /\ \/ \E t \in Tunnels : Adoptable(s, t) /\ (Takes(s, t, "update") \/ Takes(s, t, "enable"))
       \/ \E t \in Tunnels : There(t) /\ ~Adoptable(s, t) /\ Goes(s, "create")
       \/ (\A t \in Tunnels : ~There(t)) /\ Goes(s, "create")
    /\ UNCHANGED <<cloud, keys, named, maker, faults>>

\* resolve_listen_key: without its key here the tunnel is wired to a new one.
NeedsKey(s, t) == <<Device[s], t>> \notin keys

\* --id, with or without the endpoint it has: updated when the key is new or
\* a label was given.
ById(s, t) ==
    /\ At(s, "start")
    /\ \/ There(t) /\ Takes(s, t, "update")
       \/ There(t) /\ ~NeedsKey(s, t) /\ Takes(s, t, "enable")
       \/ ~There(t) /\ Fails(s)
    /\ named' = named \cup {t}
    /\ UNCHANGED <<cloud, keys, maker, faults>>

\* Neither: one that exists and whose key is here.
ByPicking(s) ==
    /\ At(s, "start")
    /\ \/ \E t \in Tunnels :
            /\ There(t) /\ named' = named \cup {t}
            /\ IF NeedsKey(s, t) THEN Fails(s)
               ELSE Takes(s, t, "update") \/ Takes(s, t, "enable")
       \/ (\A t \in Tunnels : ~There(t)) /\ Fails(s) /\ UNCHANGED named
    /\ UNCHANGED <<cloud, keys, maker, faults>>

----------------------------------------------------------------------------
(* Writing it.                                                             *)

\* A spec that says the same already is not patched.
Pointed(s, t) ==
    IF proxy[t].dev = Device[s] THEN proxy[t]
    ELSE [gen |-> proxy[t].gen + 1, dev |-> Device[s]]

Writes(s, t, pc) ==
    /\ proxy[t].gen < MaxGen
    /\ proxy' = [proxy EXCEPT ![t] = Pointed(s, t)]
    /\ session' = [session EXCEPT ![s] = [pc |-> pc, tun |-> t, wrote |-> Pointed(s, t).gen]]

\* update_active, the new key saved after it, and the clean-up of connectors.
Update(s) ==
    LET t == session[s].tun
        k == <<Device[s], t>>
    IN /\ At(s, "update")
       /\ \/ /\ There(t) /\ Writes(s, t, "enable")
             /\ keys' = keys \cup {k} /\ UNCHANGED faults
          \/ /\ There(t) /\ Writes(s, t, "failed") /\ Fault
             /\ keys' = keys \/ keys' = keys \cup {k}
          \/ ~There(t) /\ Fails(s) /\ UNCHANGED <<proxy, keys, faults>>
          \/ Fails(s) /\ Fault /\ UNCHANGED <<proxy, keys>>
       /\ UNCHANGED <<seen, dns, named, maker>>

\* create_active, and the key.
Create(s) ==
    /\ At(s, "create")
    /\ \/ \E t \in Tunnels :
            /\ maker[t] = None
            /\ proxy' = [proxy EXCEPT ![t] = [gen |-> 1, dev |-> Device[s]]]
            /\ maker' = [maker EXCEPT ![t] = Device[s]]
            /\ \/ /\ session' = [session EXCEPT ![s] = [pc |-> "enable", tun |-> t, wrote |-> 1]]
                  /\ keys' = keys \cup {<<Device[s], t>>} /\ UNCHANGED faults
               \/ Fails(s) /\ Fault /\ UNCHANGED keys
       \/ Fails(s) /\ Fault /\ UNCHANGED <<proxy, maker, keys>>
    /\ UNCHANGED <<seen, dns, named>>

\* set_enabled_active points the proxy here whatever it said; its errors are
\* ignored.
Enable(s) ==
    /\ At(s, "enable")
    /\ \/ There(session[s].tun) /\ Writes(s, session[s].tun, "await") /\ UNCHANGED faults
       \/ ~There(session[s].tun) /\ Goes(s, "await") /\ UNCHANGED <<proxy, faults>>
       \/ Goes(s, "await") /\ Fault /\ UNCHANGED proxy
    /\ UNCHANGED <<seen, dns, keys, named, maker>>

----------------------------------------------------------------------------
(* Waiting for it, announcing and watching it.                             *)

\* terminal_failure.
TerminalFailure(t) == There(t) /\ dns[proxy[t].dev] = "DeferredToOwner"

\* Mutant: a True condition counts whichever generation it was reported for.
AllReadyOnce(t) == There(t) /\ seen[t] > 0 /\ dns[proxy[t].dev] = "True"

\* all_ready: every condition True for the generation the proxy has now.
AllReady(t) == There(t) /\ seen[t] >= proxy[t].gen /\ dns[proxy[t].dev] = "True"

\* await_tunnel_progress.
Await(s) ==
    LET t == session[s].tun
    IN /\ At(s, "await")
       /\ \/ (~There(t) \/ TerminalFailure(t)) /\ Fails(s) /\ UNCHANGED faults
          \/ AllReady(t) /\ Goes(s, "hostname") /\ UNCHANGED faults
          \/ Fails(s) /\ Fault
       /\ UNCHANGED <<cloud, keys, named, maker>>

\* The hostname the gateway writes a little later: asked for twenty times,
\* whatever the answers are.
Hostname(s) ==
    /\ At(s, "hostname")
    /\ \/ Goes(s, "resolve") /\ UNCHANGED faults
       \/ Fails(s) /\ Fault
    /\ UNCHANGED <<cloud, keys, named, maker>>

\* resolve_hostname_dns: no name server, or no address within two minutes, fails.
Resolve(s) ==
    /\ At(s, "resolve")
    /\ \/ Goes(s, "probe") /\ UNCHANGED faults
       \/ Fails(s) /\ Fault
    /\ UNCHANGED <<cloud, keys, named, maker>>

\* verify_endpoints asks until something answers, were it that there is no such
\* tunnel; it does not look at the control plane.
Probe(s) ==
    /\ At(s, "probe") /\ Goes(s, "confirm")
    /\ UNCHANGED <<cloud, keys, named, maker, faults>>

\* get_active once more, and tunnel_ready.
Confirm(s) ==
    /\ At(s, "confirm")
    /\ \/ There(session[s].tun) /\ Goes(s, "watch") /\ UNCHANGED faults
       \/ ~There(session[s].tun) /\ Fails(s) /\ UNCHANGED faults
       \/ Fails(s) /\ Fault
    /\ UNCHANGED <<cloud, keys, named, maker>>

\* Mutant: a tunnel that is not found is asked for again.
WatchFailureOnly(s) ==
    /\ At(s, "watch")
    /\ TerminalFailure(session[s].tun) /\ Goes(s, "cleanup")
    /\ UNCHANGED <<cloud, keys, named, maker, faults>>

\* The poll of the watch loop; an error is taken for a passing one.
Watch(s) ==
    /\ At(s, "watch")
    /\ ~There(session[s].tun) \/ TerminalFailure(session[s].tun)
    /\ Goes(s, "cleanup")
    /\ UNCHANGED <<cloud, keys, named, maker, faults>>

\* Ctrl-C is caught once the tunnel is announced; before, it kills.
CtrlC(s) ==
    /\ session[s].pc \notin {"cleanup", "ended", "failed"}
    /\ Goes(s, IF At(s, "watch") THEN "cleanup" ELSE "failed")
    /\ UNCHANGED <<cloud, keys, named, maker, faults>>

\* delete_active; a failure is logged.
Cleanup(s) ==
    /\ At(s, "cleanup") /\ Goes(s, "ended")
    /\ \/ proxy' = [proxy EXCEPT ![session[s].tun] = Gone] /\ UNCHANGED faults
       \/ UNCHANGED proxy /\ Fault
    /\ UNCHANGED <<seen, dns, keys, named, maker>>

----------------------------------------------------------------------------
Init ==
    /\ proxy = [t \in Tunnels |-> IF t \in DOMAIN Owned THEN [gen |-> 1, dev |-> Owned[t]] ELSE Gone]
    /\ seen = [t \in Tunnels |-> IF t \in DOMAIN Owned THEN 1 ELSE 0]
    /\ dns = [d \in Devices |-> "unknown"]
    /\ keys = {<<Owned[t], t>> : t \in DOMAIN Owned}
    /\ session = [s \in Sessions |-> [pc |-> "start", tun |-> None, wrote |-> 0]]
    /\ named = {}
    /\ maker = [t \in Tunnels |-> IF t \in DOMAIN Owned THEN Owned[t] ELSE None]
    /\ faults = 0

Session(s) == \/ ByEndpoint(s) \/ (\E t \in Tunnels : ById(s, t)) \/ ByPicking(s)
              \/ Update(s) \/ Create(s) \/ Enable(s) \/ Await(s)
              \/ Hostname(s) \/ Resolve(s) \/ Probe(s) \/ Confirm(s) \/ Watch(s) \/ Cleanup(s) \/ CtrlC(s)

Elsewhere == \/ \E t \in Tunnels : Reconciled(t) \/ DeletedUpstream(t)
             \/ \E d \in Devices : Published(d) \/ \E t \in Tunnels : UpdateCommand(d, t)

Next == Elsewhere \/ \E s \in Sessions : Session(s)

Spec == Init /\ [][Next]_vars

\* A session polls for as long as it waits or watches.
FairSpec == Spec /\ \A s \in Sessions : WF_vars(Await(s)) /\ WF_vars(Watch(s))

----------------------------------------------------------------------------
\* A tunnel is announced only after its controllers have reported on what this
\* session wrote last (from_resources: True conditions of an older generation
\* do not count), whatever other sessions wrote in between.
ReadyIsCurrent ==
    \A s \in Sessions :
        session[s].pc \in {"hostname", "resolve", "probe", "confirm", "watch"}
            => seen[session[s].tun] >= session[s].wrote

\* A tunnel stays with the device it was made on until some session is given
\* its id or picks it: the same local endpoint elsewhere takes nothing over.
NoTakeover ==
    \A t \in Tunnels : There(t) /\ t \notin named => proxy[t].dev = maker[t]

\* A session that waits for or serves a tunnel that was deleted, or whose DNS
\* record turned out to belong to another connector, does not stay there.
FailureNoticed ==
    \A s \in Sessions :
        LET t       == session[s].tun
            Staying == session[s].pc \in {"await", "watch"} /\ (~There(t) \/ TerminalFailure(t))
        IN Staying ~> ~Staying
=============================================================================
