---------------------------- MODULE TunnelDaemon ----------------------------
(***************************************************************************)
(* The tunnel life cycle of the connect daemon: the /v1/tunnels handlers   *)
(* (create, start, stop, delete), the add-on page's Remove, the startup    *)
(* reconciliation pass and the auto-expiry sweep, all running as tasks of  *)
(* one process over one AppState, and the calls they make on the project   *)
(* control plane through TunnelService.                                    *)
(*                                                                         *)
(* A task is a record in `h`.  One action is the code from one await on    *)
(* the control plane (or on a lock another task can hold) to the next, so  *)
(* tasks interleave where the runtime can interleave them.                 *)
(***************************************************************************)
EXTENDS Naturals, FiniteSets

CONSTANTS
    Tunnels,      \* tunnel ids (HTTPProxy names the API server assigns)
    Clients,      \* concurrent API or add-on page requests
    Main, Sweep,  \* the task of run() and the auto-expiry task
    Targets,      \* real local targets
    Ports,        \* loopback ports an inspector can be bound to
    Conns,        \* Connector names
    Control,      \* the identity of the daemon's throwaway control node
    Nobody,       \* no identity: a connector whose connectionDetails are not
                  \* set yet, or hold an earlier process's control identity
    None,
    Ops,          \* the requests clients send
    OwnTunnel,    \* the tunnel DATUM_TUNNEL_EXCLUSIVE_LABEL names, or None
    AwaitCreate,  \* clients address a tunnel only once its create has ended
    MaxCrashes, MaxFaults

ASSUME TasksDistinct ==
    Main \notin Clients /\ Sweep \notin Clients /\ Main # Sweep
ASSUME NoneDistinct ==
    None \notin Tunnels \cup Targets \cup Ports \cup Conns
ASSUME NoBackend == None \notin [ep : Ports, conn : Conns]
ASSUME IdentitiesDistinct ==
    /\ {Control, Nobody} \cap (Tunnels \cup {None}) = {}
    /\ Control # Nobody
ASSUME BoundsAssumption == MaxCrashes \in Nat /\ MaxFaults \in Nat
ASSUME OptionsAssumption == AwaitCreate \in BOOLEAN /\ OwnTunnel \in Tunnels \cup {None}

Procs == Clients \cup {Main, Sweep}

VARIABLES
    \* the project control plane
    proxy,        \* HTTPProxy per tunnel: endpoint and connector it names
    ad,           \* ConnectorAdvertisement per tunnel; it exists = "enabled"
    conn,         \* Connector per name: the identity it is for, or None
    born,         \* tunnel ids handed out by the API server
    \* the daemon's disk
    key,          \* listen key on file
    target,       \* daemon_inspector_targets/<id>.txt
    \* AppState
    running,      \* "off", "fresh", or "old" past max_tunnel_runtime
    busy,         \* ids mid-start or mid-stop
    inspectors,   \* installed inspector: its port and the target behind it
    \* tasks
    h, recTodo, sweepTodo,
    \* bounds and history
    crashes, faults

cloud == <<proxy, ad, conn, born>>
disk  == <<key, target>>
mem   == <<running, inspectors>>
hist  == <<crashes, faults>>
todos == <<recTodo, sweepTodo>>
vars  == <<proxy, ad, conn, born, key, target, running, busy, inspectors,
           h, recTodo, sweepTodo, crashes, faults>>
-----------------------------------------------------------------------------
(* Tasks.                                                                  *)

\* `t` the tunnel, `rep` the target to repoint at, `insp` the port of an
\* inspector in hand that is not installed yet, `ep` and `conn` the endpoint
\* and the connector to write, `dirty` what a read saw that a later step
\* relies on, `then` and `after` where ensure_connector and install_inspector
\* return to, `rm` this stop is the first half of the page's Remove, `lock` the
\* task owns a BusyGuard, `drop` the connectors its cleanup found referenced,
\* then the ones it is to delete.
Blank == [pc |-> "idle", t |-> None, rep |-> None, insp |-> None, ep |-> None,
          conn |-> None, dirty |-> FALSE, then |-> "none", after |-> "ret",
          rm |-> FALSE, lock |-> FALSE, drop |-> {}]

At(i, pc) == h[i].pc = pc

Up == At(Main, "idle")      \* the API listens once reconciliation is over

\* Where a task goes when the function it called returns: reconciliation and
\* the sweep take their next tunnel, Remove goes on to delete, a request ends.
Continue(i) ==
    IF i \in {Main, Sweep} THEN [Blank EXCEPT !.pc = "next"]
    ELSE IF h[i].rm THEN [Blank EXCEPT !.pc = "delLook", !.t = h[i].t]
    ELSE Blank

\* Mutant of Leave: the reservation is not released.
LeaveBusy(i, r) ==
    /\ h' = [h EXCEPT ![i] = r]
    /\ UNCHANGED busy

\* A task leaves the function it is in; its BusyGuard drops, and so does an
\* inspector in hand that was not installed.
Leave(i, r) ==
    /\ h' = [h EXCEPT ![i] = r]
    /\ busy' = IF h[i].lock THEN busy \ {h[i].t} ELSE busy

Return(i) == Leave(i, Continue(i))

Goto(i, r) == h' = [h EXCEPT ![i] = r] /\ UNCHANGED busy

\* Mutant of ClaimBusy: the result of HashSet::insert is ignored.
ClaimUnchecked(i, r) ==
    /\ busy' = busy \cup {r.t}
    /\ h' = [h EXCEPT ![i] = [r EXCEPT !.lock = TRUE]]

\* claim_busy: the insert wins, or the caller gets a 409.
ClaimBusy(i, r) ==
    /\ r.t \notin busy
    /\ busy' = busy \cup {r.t}
    /\ h' = [h EXCEPT ![i] = [r EXCEPT !.lock = TRUE]]

-----------------------------------------------------------------------------
(* Inspectors and connectors.                                              *)

\* Loopback ports nothing in this process is bound to.
HeldPorts == {inspectors[t].port : t \in {u \in Tunnels : inspectors[u] # None}}
             \cup {h[i].insp : i \in Procs}
FreePorts == Ports \ HeldPorts

NeedsRepoint(t, wanted) == inspectors[t] = None \/ target[t] # wanted

Exists(c) == conn[c] # None
Used(c)   == \E t \in Tunnels : proxy[t] # None /\ proxy[t].conn = c

\* The API server generates names that nothing refers to any more.
Fresh(c) ==
    /\ ~Exists(c) /\ ~Used(c)
    /\ \A t \in Tunnels : ad[t] # None => ad[t].conn # c
    /\ \A i \in Procs : h[i].conn # c /\ c \notin h[i].drop

\* ensure_connector: a connector is found by the identity in its
\* connectionDetails.  If there is none, one is created, and its details are
\* patched in a second call, which fails, or is left out when the node has no
\* relay yet, with a warning only.
Ensuring == {"find", "mkConn", "patchConn"}

Identity(i) == IF h[i].t = None THEN Control ELSE h[i].t

FindConnector(i) ==
    /\ At(i, "find")
    /\ \/ \E c \in Conns :
            /\ conn[c] = Identity(i)
            /\ Goto(i, [h[i] EXCEPT !.pc = h[i].then, !.then = "none", !.conn = c,
                                    !.dirty = h[i].conn # c])
       \/ /\ \A c \in Conns : conn[c] # Identity(i)
          /\ Goto(i, [h[i] EXCEPT !.pc = "mkConn"])
    /\ UNCHANGED <<cloud, disk, mem, todos, hist>>

MakeConnector(i, c) ==
    /\ At(i, "mkConn")
    /\ Fresh(c)
    /\ conn' = [conn EXCEPT ![c] = Nobody]
    /\ Goto(i, [h[i] EXCEPT !.pc = "patchConn", !.conn = c, !.dirty = TRUE])
    /\ UNCHANGED <<proxy, ad, born, disk, mem, todos, hist>>

\* The project's quota is used up, and with_quota_check_retry gives up.
OverQuota(i) ==
    /\ At(i, "mkConn")
    /\ \A c \in Conns : ~Fresh(c)
    /\ Return(i)
    /\ UNCHANGED <<cloud, disk, mem, todos, hist>>

PatchConnector(i) ==
    LET c == h[i].conn
    IN  /\ At(i, "patchConn")
        /\ \/ /\ conn' = IF Exists(c) THEN [conn EXCEPT ![c] = Identity(i)] ELSE conn
              /\ UNCHANGED faults
           \/ faults < MaxFaults /\ faults' = faults + 1 /\ UNCHANGED conn
        /\ Goto(i, [h[i] EXCEPT !.pc = h[i].then, !.then = "none"])
        /\ UNCHANGED <<proxy, ad, born, disk, mem, todos, crashes>>

WithoutAds(cs) ==
    [t \in Tunnels |-> IF ad[t] # None /\ ad[t].conn \in cs THEN None ELSE ad[t]]
WithoutConns(cs) ==
    [c \in Conns |-> IF c \in cs THEN None ELSE conn[c]]

-----------------------------------------------------------------------------
(* create_tunnel, and TunnelService::create_project under it.              *)

\* A create that has no id yet.
Creating(i) == At(i, "crProxy") \/ (h[i].pc \in Ensuring /\ h[i].then = "crProxy")

CreateRequest(i, w, p) ==
    /\ "create" \in Ops /\ Up /\ At(i, "idle")
    /\ Cardinality({j \in Clients : Creating(j)}) < Cardinality(Tunnels \ born)
    /\ p \in FreePorts
    /\ Goto(i, [Blank EXCEPT !.pc = "find", !.then = "crProxy", !.rep = w,
                             !.insp = p, !.ep = p])
    /\ UNCHANGED <<cloud, disk, mem, todos, hist>>

CreateProxy(i, t) ==
    /\ At(i, "crProxy")
    /\ t \notin born
    /\ born' = born \cup {t}
    /\ proxy' = [proxy EXCEPT ![t] = [ep |-> h[i].ep, conn |-> h[i].conn]]
    /\ Goto(i, [h[i] EXCEPT !.pc = "crAd", !.t = t])
    /\ UNCHANGED <<ad, conn, disk, mem, todos, hist>>

\* A second advertisement of the same name is refused.
CreateAd(i) ==
    /\ At(i, "crAd")
    /\ \/ /\ ad[h[i].t] = None
          /\ ad' = [ad EXCEPT ![h[i].t] = [ep |-> h[i].ep, conn |-> h[i].conn]]
          /\ Goto(i, [h[i] EXCEPT !.pc = "install"])
       \/ ad[h[i].t] # None /\ Return(i) /\ UNCHANGED ad
    /\ UNCHANGED <<proxy, conn, born, disk, mem, todos, hist>>

\* A client knows a tunnel's id from the create's reply or, earlier, from a
\* list.
Addressable(t) ==
    /\ t \in born
    /\ AwaitCreate => \A i \in Clients : h[i].t = t =>
            ~(At(i, "crAd") \/ (At(i, "install") /\ ~h[i].lock))

-----------------------------------------------------------------------------
(* start_tunnel_internal.                                                  *)

\* The repoint decision, and the early return of a plain start on a running
\* tunnel, come before claim_busy.
StartRequest(i, t, w) ==
    /\ "start" \in Ops /\ Up /\ At(i, "idle")
    /\ Addressable(t)
    /\ LET rep == IF w # None /\ NeedsRepoint(t, w) THEN w ELSE None
       IN  /\ rep # None \/ running[t] = "off"
           /\ Goto(i, [Blank EXCEPT !.pc = "claim", !.t = t, !.rep = rep])
    /\ UNCHANGED <<cloud, disk, mem, todos, hist>>

StartClaim(i) ==
    /\ At(i, "claim")
    /\ \/ ClaimBusy(i, [h[i] EXCEPT !.pc = "look"])
       \/ h[i].t \in busy /\ Return(i)
    /\ UNCHANGED <<cloud, disk, mem, todos, hist>>

\* Mutant of StartLook: a plain start forgets the tunnel's endpoint.
StartLookNoEndpoint(i) ==
    LET t == h[i].t
    IN  /\ At(i, "look")
        /\ \/ /\ proxy[t] = None \/ running[t] # "off"
              /\ Return(i)
           \/ /\ proxy[t] # None /\ running[t] = "off"
              /\ Goto(i, [h[i] EXCEPT !.pc = "key", !.rep = None])
        /\ UNCHANGED <<cloud, disk, mem, todos, hist>>

\* get_active, then the running map: a running tunnel is only repointed, one
\* that is off gets its inspector and goes on to its key.
StartLook(i) ==
    LET t == h[i].t
        Spawn(p) == [h[i] EXCEPT !.insp = p, !.ep = p]
    IN  /\ At(i, "look")
        /\ \/ /\ proxy[t] = None \/ (running[t] # "off" /\ h[i].rep = None)
              /\ Return(i)
           \/ /\ proxy[t] # None /\ running[t] # "off" /\ h[i].rep # None
              /\ \E p \in FreePorts :
                    Goto(i, [Spawn(p) EXCEPT !.pc = "moveProxy", !.after = "ret"])
           \/ /\ proxy[t] # None /\ running[t] = "off"
              /\ IF h[i].rep = None
                 THEN Goto(i, [h[i] EXCEPT !.pc = "key", !.ep = proxy[t].ep])
                 ELSE \E p \in FreePorts :
                        Goto(i, [Spawn(p) EXCEPT !.pc = "key", !.after = "enGet"])
        /\ UNCHANGED <<cloud, disk, mem, todos, hist>>

\* Mutant of StartKey: the generated key is used but not saved.
StartKeyUnsaved(i) ==
    /\ At(i, "key")
    /\ Goto(i, [h[i] EXCEPT !.pc = IF ~key[h[i].t] THEN "find" ELSE "enGet",
                            !.then = IF ~key[h[i].t] THEN "updProxy" ELSE "none"])
    /\ UNCHANGED <<cloud, disk, mem, todos, hist>>

\* resolve_listen_key: no key on file means a new one, saved before it is
\* used, and a rewire of the HTTPProxy.
StartKey(i) ==
    /\ At(i, "key")
    /\ key' = [key EXCEPT ![h[i].t] = TRUE]
    /\ \/ ~key[h[i].t] /\ Goto(i, [h[i] EXCEPT !.pc = "find", !.then = "updProxy"])
       \/ /\ key[h[i].t]
          /\ Goto(i, [h[i] EXCEPT !.pc = IF h[i].rep # None THEN "moveProxy" ELSE "enGet"])
    /\ UNCHANGED <<cloud, target, mem, todos, hist>>

\* TunnelService::update_project under the tunnel's own key.
UpdateProxy(i) ==
    LET t == h[i].t
    IN  /\ At(i, "updProxy")
        /\ \/ proxy[t] = None /\ Return(i) /\ UNCHANGED proxy
           \/ /\ proxy[t] # None
              /\ proxy' = [proxy EXCEPT ![t] = [ep |-> h[i].ep, conn |-> h[i].conn]]
              /\ Goto(i, [h[i] EXCEPT !.pc = "updAd"])
        /\ UNCHANGED <<ad, conn, born, disk, mem, todos, hist>>

UpdateAd(i) ==
    LET t == h[i].t
    IN  /\ At(i, "updAd")
        /\ ad' = IF ad[t] = None THEN ad
                 ELSE [ad EXCEPT ![t] = [ep |-> h[i].ep, conn |-> h[i].conn]]
        /\ Goto(i, [h[i] EXCEPT !.pc = "cleanRefs"])
        /\ UNCHANGED <<proxy, conn, born, disk, mem, todos, hist>>

\* cleanup_orphaned_connectors: list the proxies, list the connectors, then
\* delete the ones no proxy referenced.
CleanRefs(i) ==
    /\ At(i, "cleanRefs")
    /\ Goto(i, [h[i] EXCEPT !.pc = "cleanList", !.drop = {c \in Conns : Used(c)}])
    /\ UNCHANGED <<cloud, disk, mem, todos, hist>>

CleanList(i) ==
    /\ At(i, "cleanList")
    /\ Goto(i, [h[i] EXCEPT !.pc = "cleanDel",
                            !.drop = {c \in Conns : Exists(c) /\ c \notin h[i].drop}])
    /\ UNCHANGED <<cloud, disk, mem, todos, hist>>

AfterClean(i) == [h[i] EXCEPT !.drop = {},
                              !.pc = IF h[i].rep # None THEN "install" ELSE "enGet"]

CleanDelete(i) ==
    /\ At(i, "cleanDel")
    /\ ad' = WithoutAds(h[i].drop)
    /\ conn' = WithoutConns(h[i].drop)
    /\ Goto(i, AfterClean(i))
    /\ UNCHANGED <<proxy, born, disk, mem, todos, hist>>

\* Its failure is logged and the start goes on.
CleanFails(i) ==
    /\ h[i].pc \in {"cleanRefs", "cleanList", "cleanDel"}
    /\ faults < MaxFaults /\ faults' = faults + 1
    /\ Goto(i, AfterClean(i))
    /\ UNCHANGED <<cloud, disk, mem, todos, crashes>>

\* TunnelService::retarget_project: the endpoint changes, the connector stays.
MoveProxy(i) ==
    LET t == h[i].t
    IN  /\ At(i, "moveProxy")
        /\ \/ proxy[t] = None /\ Return(i) /\ UNCHANGED proxy
           \/ /\ proxy[t] # None
              /\ proxy' = [proxy EXCEPT ![t].ep = h[i].ep]
              /\ Goto(i, [h[i] EXCEPT !.pc = "moveAd"])
        /\ UNCHANGED <<ad, conn, born, disk, mem, todos, hist>>

MoveAd(i) ==
    LET t == h[i].t
    IN  /\ At(i, "moveAd")
        /\ ad' = IF ad[t] = None THEN ad ELSE [ad EXCEPT ![t].ep = h[i].ep]
        /\ Goto(i, [h[i] EXCEPT !.pc = "install"])
        /\ UNCHANGED <<proxy, conn, born, disk, mem, todos, hist>>

\* install_inspector: persist the real target (a failure is only logged),
\* then replace the tunnel's inspector.
InstallInspector(i) ==
    LET t == h[i].t
    IN  /\ At(i, "install")
        /\ \/ target' = [target EXCEPT ![t] = h[i].rep] /\ UNCHANGED faults
           \/ faults < MaxFaults /\ faults' = faults + 1 /\ UNCHANGED target
        /\ inspectors' = [inspectors EXCEPT ![t] = [port |-> h[i].insp, target |-> h[i].rep]]
        /\ IF h[i].after = "ret" THEN Return(i)
           ELSE Goto(i, [h[i] EXCEPT !.pc = h[i].after, !.insp = None, !.rep = None])
        /\ UNCHANGED <<cloud, key, running, todos, crashes>>

\* TunnelService::set_enabled_project(true): read the proxy, find or make the
\* connector, patch the proxy unless what was read already matches, then
\* patch or create the advertisement.
EnableGet(i) ==
    LET t == h[i].t
    IN  /\ At(i, "enGet")
        /\ proxy[t] # None
        /\ Goto(i, [h[i] EXCEPT !.pc = "find", !.then = "enPatch", !.ep = proxy[t].ep,
                                !.conn = proxy[t].conn])
        /\ UNCHANGED <<cloud, disk, mem, todos, hist>>

EnableGone(i) ==
    /\ At(i, "enGet") \/ (At(i, "enPatch") /\ h[i].dirty)
    /\ proxy[h[i].t] = None
    /\ Return(i)
    /\ UNCHANGED <<cloud, disk, mem, todos, hist>>

EnablePatch(i) ==
    LET t == h[i].t
    IN  /\ At(i, "enPatch")
        /\ \/ ~h[i].dirty /\ UNCHANGED proxy
           \/ /\ h[i].dirty /\ proxy[t] # None
              /\ proxy' = [proxy EXCEPT ![t] = [ep |-> h[i].ep, conn |-> h[i].conn]]
        /\ Goto(i, [h[i] EXCEPT !.pc = "enAd"])
        /\ UNCHANGED <<ad, conn, born, disk, mem, todos, hist>>

EnableAd(i) ==
    /\ At(i, "enAd")
    /\ ad' = [ad EXCEPT ![h[i].t] = [ep |-> h[i].ep, conn |-> h[i].conn]]
    /\ Goto(i, [h[i] EXCEPT !.pc = "insert"])
    /\ UNCHANGED <<proxy, conn, born, disk, mem, todos, hist>>

\* The tunnel is recorded as running, whether or not get_active found it.
StartInsert(i) ==
    /\ At(i, "insert")
    /\ running' = [running EXCEPT ![h[i].t] = "fresh"]
    /\ Return(i)
    /\ UNCHANGED <<cloud, disk, inspectors, todos, hist>>

-----------------------------------------------------------------------------
(* stop_tunnel_internal.                                                   *)

\* Mutant of TakeRunning: the running entry is read, not removed.
PeekRunning(i, t, rm) ==
    /\ ClaimBusy(i, [Blank EXCEPT !.pc = "disable", !.t = t, !.rm = rm])
    /\ UNCHANGED running

\* Claim and take the running entry.
TakeRunning(i, t, rm) ==
    /\ ClaimBusy(i, [Blank EXCEPT !.pc = "disable", !.t = t, !.rm = rm])
    /\ running' = [running EXCEPT ![t] = "off"]

StopRequest(i, t) ==
    /\ "stop" \in Ops /\ Up /\ At(i, "idle")
    /\ Addressable(t)
    /\ TakeRunning(i, t, FALSE)
    /\ UNCHANGED <<cloud, disk, inspectors, todos, hist>>

\* TunnelService::set_enabled_project(false): fails without a proxy.
Disable(i) ==
    /\ At(i, "disable")
    /\ ad' = IF proxy[h[i].t] = None THEN ad ELSE [ad EXCEPT ![h[i].t] = None]
    /\ Return(i)
    /\ UNCHANGED <<proxy, conn, born, disk, mem, todos, hist>>

-----------------------------------------------------------------------------
(* delete_tunnel_internal, and TunnelService::delete_project under it.  It *)
(* claims nothing.                                                         *)

\* Mutant of DeleteRequest: the local state goes first.
DeleteLocalFirst(i, t) ==
    /\ "delete" \in Ops /\ Up /\ At(i, "idle")
    /\ Addressable(t)
    /\ Goto(i, [Blank EXCEPT !.pc = "delLook", !.t = t])
    /\ target' = [target EXCEPT ![t] = None]
    /\ inspectors' = [inspectors EXCEPT ![t] = None]
    /\ UNCHANGED <<cloud, key, running, todos, hist>>

DeleteRequest(i, t) ==
    /\ "delete" \in Ops /\ Up /\ At(i, "idle")
    /\ Addressable(t)
    /\ Goto(i, [Blank EXCEPT !.pc = "delLook", !.t = t])
    /\ UNCHANGED <<cloud, disk, mem, todos, hist>>

\* The connector to clean up is the proxy's, or else the control node's own.
DeleteLook(i) ==
    LET t == h[i].t
        found == IF proxy[t] # None THEN {proxy[t].conn}
                 ELSE {c \in Conns : conn[c] = Control}
    IN  /\ At(i, "delLook")
        /\ \/ /\ found = {}
              /\ Goto(i, [h[i] EXCEPT !.pc = "delProxy", !.dirty = proxy[t] # None])
           \/ \E c \in found :
                Goto(i, [h[i] EXCEPT !.pc = "delProxy", !.dirty = proxy[t] # None,
                                     !.conn = c])
        /\ UNCHANGED <<cloud, disk, mem, todos, hist>>

DeleteProxy(i) ==
    LET t == h[i].t
    IN  /\ At(i, "delProxy")
        /\ \/ h[i].dirty /\ proxy[t] = None /\ Return(i)
           \/ /\ h[i].dirty => proxy[t] # None
              /\ Goto(i, [h[i] EXCEPT !.pc = "delAd"])
        /\ proxy' = IF h[i].dirty THEN [proxy EXCEPT ![t] = None] ELSE proxy
        /\ UNCHANGED <<ad, conn, born, disk, mem, todos, hist>>

DeleteAd(i) ==
    /\ At(i, "delAd")
    /\ ad' = [ad EXCEPT ![h[i].t] = None]
    /\ Goto(i, [h[i] EXCEPT !.pc = "delCheck"])
    /\ UNCHANGED <<proxy, conn, born, disk, mem, todos, hist>>

\* delete_connector_if_unused: list the proxies, then delete.
DeleteCheck(i) ==
    /\ At(i, "delCheck")
    /\ Goto(i, [h[i] EXCEPT !.pc = IF h[i].conn = None \/ Used(h[i].conn)
                                   THEN "delLocal" ELSE "delConn"])
    /\ UNCHANGED <<cloud, disk, mem, todos, hist>>

DeleteConn(i) ==
    /\ At(i, "delConn")
    /\ ad' = WithoutAds({h[i].conn})
    /\ conn' = WithoutConns({h[i].conn})
    /\ Goto(i, [h[i] EXCEPT !.pc = "delLocal"])
    /\ UNCHANGED <<proxy, born, disk, mem, todos, hist>>

\* delete_tunnel_dir, then the running entry.
DeleteLocal(i) ==
    /\ At(i, "delLocal")
    /\ key' = [key EXCEPT ![h[i].t] = FALSE]
    /\ running' = [running EXCEPT ![h[i].t] = "off"]
    /\ Goto(i, [h[i] EXCEPT !.pc = "delInsp"])
    /\ UNCHANGED <<cloud, target, inspectors, todos, hist>>

DeleteInspector(i) ==
    /\ At(i, "delInsp")
    /\ inspectors' = [inspectors EXCEPT ![h[i].t] = None]
    /\ target' = [target EXCEPT ![h[i].t] = None]
    /\ Return(i)
    /\ UNCHANGED <<cloud, key, running, todos, hist>>

-----------------------------------------------------------------------------
(* exclusive.rs, and the add-on page's Remove, which is served while the   *)
(* daemon is still reconciling.                                            *)

Older(t) == OwnTunnel # None /\ t # OwnTunnel /\ (key[t] \/ target[t] # None)

RemoveRequest(i, t) ==
    /\ "remove" \in Ops /\ At(i, "idle")
    /\ proxy[t] # None /\ Older(t)
    /\ \/ /\ running[t] = "off" \/ t \in busy
          /\ Goto(i, [Blank EXCEPT !.pc = "delLook", !.t = t])
          /\ UNCHANGED running
       \/ running[t] # "off" /\ TakeRunning(i, t, TRUE)
    /\ UNCHANGED <<cloud, disk, inspectors, todos, hist>>

-----------------------------------------------------------------------------
(* The reconciliation pass of run().                                       *)

MainList ==
    /\ At(Main, "list")
    /\ recTodo' = {[t |-> t, ep |-> proxy[t].ep, on |-> ad[t] # None, old |-> Older(t)] :
                     t \in {u \in Tunnels : proxy[u] # None}}
    /\ Goto(Main, [Blank EXCEPT !.pc = "next"])
    /\ UNCHANGED <<cloud, disk, mem, sweepTodo, hist>>

\* Mutant of MainStopOlder: older tunnels are only left unresumed.
MainSkipOlder(r) ==
    /\ At(Main, "next")
    /\ r.old
    /\ recTodo' = recTodo \ {r}
    /\ UNCHANGED <<cloud, disk, mem, busy, h, sweepTodo, hist>>

\* An older tunnel is stopped if it is on (a 409 is only logged).
MainStopOlder(r) ==
    /\ At(Main, "next")
    /\ r.old
    /\ recTodo' = recTodo \ {r}
    /\ \/ r.on /\ TakeRunning(Main, r.t, FALSE)
       \/ (~r.on \/ r.t \in busy) /\ UNCHANGED <<h, busy, running>>
    /\ UNCHANGED <<cloud, disk, inspectors, sweepTodo, hist>>

\* Mutant of MainReconcile: the old port is assumed to be bound again.
MainAssumePort(r) ==
    /\ At(Main, "next")
    /\ ~r.old /\ \A q \in recTodo : ~q.old
    /\ recTodo' = recTodo \ {r}
    /\ \/ target[r.t] = None /\ UNCHANGED <<h, busy>>
       \/ /\ target[r.t] # None
          /\ \E p \in FreePorts :
                Goto(Main, [Blank EXCEPT !.pc = "install", !.t = r.t,
                                         !.rep = target[r.t], !.insp = p, !.ep = p,
                                         !.after = IF r.on THEN "claim" ELSE "ret"])
    /\ UNCHANGED <<cloud, disk, mem, sweepTodo, hist>>

\* Mutant of MainReconcile: the inspector comes back, the tunnel does not.
MainNoResume(r) ==
    /\ At(Main, "next")
    /\ ~r.old /\ \A q \in recTodo : ~q.old
    /\ recTodo' = recTodo \ {r}
    /\ \/ target[r.t] = None /\ UNCHANGED <<h, busy>>
       \/ /\ target[r.t] # None
          /\ \E p \in FreePorts :
                Goto(Main, [Blank EXCEPT !.pc = IF p = r.ep THEN "install" ELSE "moveProxy",
                                         !.t = r.t, !.rep = target[r.t],
                                         !.insp = p, !.ep = p])
    /\ UNCHANGED <<cloud, disk, mem, sweepTodo, hist>>

\* Every other one gets an inspector for its persisted target, on its old
\* port if that can be bound, and is resumed if it was enabled.
MainReconcile(r) ==
    /\ At(Main, "next")
    /\ ~r.old /\ \A q \in recTodo : ~q.old
    /\ recTodo' = recTodo \ {r}
    /\ \/ target[r.t] = None /\ UNCHANGED <<h, busy>>
       \/ /\ target[r.t] # None
          /\ \E p \in FreePorts :
                Goto(Main, [Blank EXCEPT !.pc = IF p = r.ep THEN "install" ELSE "moveProxy",
                                         !.t = r.t, !.rep = target[r.t],
                                         !.insp = p, !.ep = p,
                                         !.after = IF r.on THEN "claim" ELSE "ret"])
    /\ UNCHANGED <<cloud, disk, mem, sweepTodo, hist>>

MainServe ==
    /\ At(Main, "next") /\ recTodo = {}
    /\ Goto(Main, Blank)
    /\ UNCHANGED <<cloud, disk, mem, todos, hist>>

-----------------------------------------------------------------------------
(* The auto-expiry sweep.                                                  *)

\* max_tunnel_runtime passes for a running tunnel.
Expire(t) ==
    /\ "sweep" \in Ops
    /\ running[t] = "fresh"
    /\ running' = [running EXCEPT ![t] = "old"]
    /\ UNCHANGED <<cloud, disk, busy, inspectors, h, todos, hist>>

SweepSnapshot ==
    /\ Up /\ At(Sweep, "idle")
    /\ sweepTodo' = {t \in Tunnels : running[t] = "old"}
    /\ sweepTodo' # {}
    /\ Goto(Sweep, [Blank EXCEPT !.pc = "next"])
    /\ UNCHANGED <<cloud, disk, mem, recTodo, hist>>

SweepStop(t) ==
    /\ At(Sweep, "next")
    /\ sweepTodo' = sweepTodo \ {t}
    /\ \/ TakeRunning(Sweep, t, FALSE)
       \/ t \in busy /\ UNCHANGED <<h, busy, running>>
    /\ UNCHANGED <<cloud, disk, inspectors, recTodo, hist>>

SweepDone ==
    /\ At(Sweep, "next") /\ sweepTodo = {}
    /\ Goto(Sweep, Blank)
    /\ UNCHANGED <<cloud, disk, mem, todos, hist>>

-----------------------------------------------------------------------------
(* Failures.                                                               *)

\* The call a task waits on fails, or took effect and its reply was lost
\* (then the task is one step further).  For a client's task this is also the
\* request being dropped at an await because the client went away: then the
\* second half of Remove is dropped with it.
Fail(i) ==
    /\ h[i].pc \notin {"idle", "next", "claim"}
    /\ i \in {Main, Sweep} => h[i].pc \notin {"cleanList", "cleanDel"}
    /\ faults < MaxFaults /\ faults' = faults + 1
    /\ \/ Return(i)
       \/ i \in Clients /\ h[i].rm /\ Leave(i, Blank)
    /\ UNCHANGED <<cloud, disk, mem, todos, crashes>>

\* The process dies and is restarted: memory is gone, the control node has a
\* new key, and the reconciliation pass begins.
Crash ==
    /\ crashes < MaxCrashes /\ crashes' = crashes + 1
    /\ running' = [t \in Tunnels |-> "off"]
    /\ inspectors' = [t \in Tunnels |-> None]
    /\ busy' = {}
    /\ h' = [i \in Procs |-> IF i = Main THEN [Blank EXCEPT !.pc = "list"] ELSE Blank]
    /\ recTodo' = {} /\ sweepTodo' = {}
    /\ conn' = [c \in Conns |-> IF conn[c] = Control THEN Nobody ELSE conn[c]]
    /\ UNCHANGED <<proxy, ad, born, disk, faults>>

-----------------------------------------------------------------------------
Init ==
    /\ proxy = [t \in Tunnels |-> None]
    /\ ad = [t \in Tunnels |-> None]
    /\ conn = [c \in Conns |-> None]
    /\ born = {}
    /\ key = [t \in Tunnels |-> FALSE]
    /\ target = [t \in Tunnels |-> None]
    /\ running = [t \in Tunnels |-> "off"]
    /\ busy = {}
    /\ inspectors = [t \in Tunnels |-> None]
    /\ h = [i \in Procs |-> Blank]
    /\ recTodo = {} /\ sweepTodo = {}
    /\ crashes = 0 /\ faults = 0

Request(i) ==
    \/ \E w \in Targets, p \in Ports : CreateRequest(i, w, p)
    \/ \E t \in Tunnels :
        \/ \E w \in Targets \cup {None} : StartRequest(i, t, w)
        \/ StopRequest(i, t) \/ DeleteRequest(i, t) \/ RemoveRequest(i, t)

Ensure(i) ==
    \/ FindConnector(i) \/ (\E c \in Conns : MakeConnector(i, c)) \/ OverQuota(i)
    \/ PatchConnector(i)

Create(i) == (\E t \in Tunnels : CreateProxy(i, t)) \/ CreateAd(i)

Start(i) ==
    \/ StartClaim(i) \/ StartLook(i) \/ StartKey(i)
    \/ UpdateProxy(i) \/ UpdateAd(i)
    \/ CleanRefs(i) \/ CleanList(i) \/ CleanDelete(i)
    \/ MoveProxy(i) \/ MoveAd(i) \/ InstallInspector(i)
    \/ EnableGet(i) \/ EnableGone(i) \/ EnablePatch(i)
    \/ EnableAd(i) \/ StartInsert(i)

Delete(i) ==
    \/ DeleteLook(i) \/ DeleteProxy(i) \/ DeleteAd(i) \/ DeleteCheck(i)
    \/ DeleteConn(i) \/ DeleteLocal(i) \/ DeleteInspector(i)

\* A task takes its next step by itself.
Task(i) == Ensure(i) \/ Create(i) \/ Start(i) \/ Disable(i) \/ Delete(i)

Reconcile ==
    \/ MainList \/ MainServe
    \/ \E r \in recTodo : MainStopOlder(r) \/ MainReconcile(r)

SweepTask == SweepSnapshot \/ SweepDone \/ \E t \in sweepTodo : SweepStop(t)

Next ==
    \/ \E i \in Clients : Request(i)
    \/ \E i \in Procs : Task(i) \/ Fail(i) \/ CleanFails(i)
    \/ Reconcile
    \/ SweepTask
    \/ \E t \in Tunnels : Expire(t)
    \/ Crash

Spec == Init /\ [][Next]_vars

\* The runtime polls every task that is ready, and every call ends.
Fairness ==
    /\ \A i \in Procs : WF_vars(Task(i))
    /\ WF_vars(Reconcile)
    /\ WF_vars(SweepTask)

FairSpec == Spec /\ Fairness
-----------------------------------------------------------------------------
(* Properties.                                                             *)

Pcs == {"idle", "next", "list", "crProxy", "crAd", "claim", "look", "key",
        "find", "mkConn", "patchConn", "updProxy", "updAd", "cleanRefs",
        "cleanList", "cleanDel", "moveProxy", "moveAd", "install", "enGet",
        "enPatch", "enAd", "insert", "disable", "delLook", "delProxy", "delAd",
        "delCheck", "delConn", "delLocal", "delInsp"}

Backend    == [ep : Ports, conn : Conns]
Identities == Tunnels \cup {Control, Nobody}
TaskType   == [pc : Pcs, t : Tunnels \cup {None}, rep : Targets \cup {None},
               insp : Ports \cup {None}, ep : Ports \cup {None},
               conn : Conns \cup {None}, dirty : BOOLEAN,
               then : {"none", "crProxy", "updProxy", "enPatch"},
               after : {"ret", "enGet", "claim"}, rm : BOOLEAN, lock : BOOLEAN,
               drop : SUBSET Conns]

DataType ==
    /\ proxy \in [Tunnels -> Backend \cup {None}]
    /\ ad \in [Tunnels -> Backend \cup {None}]
    /\ conn \in [Conns -> Identities \cup {None}]
    /\ born \subseteq Tunnels
    /\ key \in [Tunnels -> BOOLEAN]
    /\ target \in [Tunnels -> Targets \cup {None}]
    /\ running \in [Tunnels -> {"off", "fresh", "old"}]
    /\ inspectors \in [Tunnels -> [port : Ports, target : Targets] \cup {None}]
    /\ recTodo \subseteq [t : Tunnels, ep : Ports, on : BOOLEAN, old : BOOLEAN]
    /\ sweepTodo \subseteq Tunnels
    /\ crashes \in Nat /\ faults \in Nat

\* Every variable of the daemon, its disk and the control plane holds a value
\* the code's types allow; a proxy or an advertisement always names a real
\* port and a real connector name.
TypeOK ==
    /\ DataType
    /\ busy \subseteq Tunnels
    /\ h \in [Procs -> TaskType]

\* claim_busy and BusyGuard: a tunnel id is reserved exactly while one start
\* or stop of it is in flight, never by two, and never left reserved by a
\* task that ended (on success, on an error, by cancellation, or by a crash).
BusyExclusion ==
    /\ \A t \in Tunnels : t \in busy <=> \E i \in Procs : h[i].lock /\ h[i].t = t
    /\ \A i, j \in Procs : h[i].lock /\ h[j].lock /\ h[i].t = h[j].t => i = j

Quiet(t) == Up /\ \A i \in Procs : h[i].t # t

\* Once the daemon is up and nothing is in flight for a tunnel, its public
\* route is whole: HTTPProxy and advertisement name the port of the installed
\* inspector, which forwards to the target persisted for the next restart.
RouteIntact ==
    \A t \in Tunnels : Quiet(t) /\ proxy[t] # None /\ inspectors[t] # None =>
        /\ proxy[t].ep = inspectors[t].port
        /\ target[t] = inspectors[t].target
        /\ ad[t] # None => ad[t].ep = proxy[t].ep

\* A tunnel the daemon believes is running can be reached: it is enabled, and
\* its proxy and advertisement name an existing connector of the key on file.
RunningBacked ==
    \A t \in Tunnels : Quiet(t) /\ running[t] # "off" =>
        /\ key[t]
        /\ proxy[t] # None /\ ad[t] # None
        /\ proxy[t].conn = ad[t].conn
        /\ conn[proxy[t].conn] = t

\* A Connector is only ever made for a key that is on file, so a tunnel that
\* still exists finds its connector again after any crash or failed start:
\* save_listen_key_for_tunnel comes before the first use of the key, and
\* delete_tunnel_dir only after the HTTPProxy is gone.
KeyBeforeConnector ==
    \A c \in Conns, t \in Tunnels : conn[c] = t /\ proxy[t] # None => key[t]

\* delete_tunnel_internal deletes server-side first: as long as the HTTPProxy
\* exists no step drops the tunnel's listen key or its persisted target.
LocalStateOutlivesTunnel ==
    [][\A t \in Tunnels : proxy[t] # None =>
          /\ key[t] => key'[t]
          /\ target[t] # None => target'[t] # None]_vars

\* When reconciliation is through, every older tunnel nobody is removing is
\* off: not resumed, and no longer enabled on the control plane.
OlderOff ==
    At(Main, "next") /\ recTodo = {} =>
        \A t \in Tunnels : proxy[t] # None /\ Older(t) /\ (\A i \in Procs : h[i].t # t) =>
            running[t] = "off" /\ ad[t] = None

\* The inductive invariant behind TypeOK, BusyExclusion, KeyBeforeConnector
\* and LocalStateOutlivesTunnel.

\* What a task holds at each point of its code: the locals that have been set
\* by then, and where a BusyGuard cannot be alive.
TaskOK(r) ==
    /\ \/ r.pc \in {"idle", "next", "list", "crProxy"}
       \/ r.then = "crProxy"
       <=> r.t = None
    /\ r.pc \in Ensuring <=> r.then # "none"
    /\ r.lock => r.t # None /\ r.pc \in Ensuring \cup
                {"look", "key", "updProxy", "updAd", "cleanRefs", "cleanList",
                 "cleanDel", "moveProxy", "moveAd", "install", "enGet",
                 "enPatch", "enAd", "insert", "disable"}
    /\ r.pc \in Ensuring \cup
              {"crProxy", "crAd", "key", "updProxy", "updAd",
               "moveProxy", "moveAd", "enPatch", "enAd"} => r.ep # None
    /\ r.pc \in {"patchConn", "crProxy", "crAd", "updProxy", "updAd", "enPatch",
                 "enAd", "delConn"} => r.conn # None
    /\ \/ r.pc \in {"crProxy", "crAd", "moveProxy", "moveAd", "install"}
       \/ r.then = "crProxy"
       => r.rep # None
    /\ r.pc \notin {"claim", "look"} /\ r.rep # None => r.insp # None
    /\ r.rm => r.pc = "disable"
    /\ r.pc \in {"crProxy", "crAd"} \/ r.then = "crProxy" => r.after = "ret"
    /\ r.rep # None /\ (r.lock \/ r.pc = "claim") => r.after # "claim"

\* How a task fits the control plane and the disk: it works on an id the API
\* server handed out; past the delete of the HTTPProxy it is gone; past
\* resolve_listen_key the key is on file, or the tunnel was deleted meanwhile.
TaskFits(r, proxies, keys, ids) ==
    /\ r.t \in ids \cup {None}
    /\ \/ r.pc \in {"delAd", "delCheck", "delConn", "delLocal", "delInsp"}
       \/ r.pc = "delProxy" /\ ~r.dirty
       => proxies[r.t] = None
    /\ \/ r.pc \in {"updProxy", "updAd", "cleanRefs", "cleanList", "cleanDel",
                    "enGet", "enPatch", "enAd", "insert"}
       \/ r.then \in {"updProxy", "enPatch"}
       \/ r.pc \in {"moveProxy", "moveAd", "install"} /\ r.after = "enGet"
       => keys[r.t] \/ proxies[r.t] = None

TasksOK == \A i \in Procs : TaskOK(h[i]) /\ TaskFits(h[i], proxy, key, born)

\* A tunnel id appears only after the API server handed it out, so a deleted
\* tunnel never comes back under its id, and a tunnel's connector has its key
\* on file.
DataOK ==
    /\ \A t \in Tunnels : proxy[t] # None \/ running[t] # "off" => t \in born
    /\ \A c \in Conns : conn[c] \in Tunnels =>
            conn[c] \in born /\ (key[conn[c]] \/ proxy[conn[c]] = None)
    /\ \A r \in recTodo : r.t \in born
    /\ sweepTodo \subseteq born

\* The inductive invariant of the proofs: types, where each task may be and what
\* it holds, the reservations, and what of the data each task relies on.
IndInv == TypeOK /\ TasksOK /\ BusyExclusion /\ DataOK

\* Nothing is recorded as running for a tunnel that no longer exists, once no
\* start or teardown of it is in flight.
NoZombie == \A t \in Tunnels : Quiet(t) /\ running[t] # "off" => proxy[t] # None

\* Connector cleanup deletes only connectors no HTTPProxy references.
CleanupKeepsUsed ==
    [][\A c \in Conns : Exists(c) /\ Used(c) => conn'[c] # None]_vars

\* A reservation is always released in the end.
BusyReleased == \A t \in Tunnels : t \in busy ~> t \notin busy

\* A tunnel that is enabled when the daemon comes up, and whose target is on
\* file, is running again in the end.
EnabledResumes ==
    \A t \in Tunnels :
        At(Main, "list") /\ proxy[t] # None /\ ad[t] # None
            /\ target[t] # None /\ ~Older(t)
        ~> running[t] # "off"

=============================================================================
