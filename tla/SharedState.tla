---------------------------- MODULE SharedState ----------------------------
(***************************************************************************)
(* The proxy list of state.yml and the peer advertisements built on it.    *)
(* Every ListenNode of the daemon (the control node, the peer node and one *)
(* per running tunnel) loads the one file when it is built, keeps its own  *)
(* copy, authorizes connections by that copy, and writes all of it back on *)
(* every update.  Peer advertisements are also listed in advertised.json.  *)
(***************************************************************************)
EXTENDS Naturals

CONSTANTS
    Peers,              \* resource ids of peer advertisements
    Tunnels,            \* tunnel ids; a running tunnel's node has its name
    Tasks,              \* concurrent requests
    Control, PeerNode,  \* the two other nodes
    None, Torn,         \* nothing; a file that does not parse
    MaxCrashes, MaxFaults

ASSUME IdsDistinct == Peers \cap Tunnels = {} /\ {Control, PeerNode} \cap Tunnels = {}
ASSUME NodesDistinct == Control # PeerNode /\ None \notin Tasks
ASSUME BoundsAssumption == MaxCrashes \in Nat /\ MaxFaults \in Nat

Ids   == Peers \cup Tunnels
Nodes == {Control, PeerNode} \cup Tunnels

\* A ProxyState list: per resource id absent, disabled or enabled.
Vals   == {"none", "off", "on"}
Lists  == [Ids -> Vals]
Empty  == [d \in Ids |-> "none"]

ASSUME MarkersDistinct == {None, Torn} \cap Lists = {} /\ None # Torn

VARIABLES
    file,       \* state.yml
    mem,        \* per node its StateWrapper, None when the node is not built
    adv,        \* PeerState.advertised
    advFile,    \* daemon_peers/advertised.json
    lock,       \* holder of advertised_lock
    up,         \* the daemon got through its start
    tun,        \* per tunnel "new", "made" or "gone"
    minted,     \* resource ids handed to an advertise
    revoked,    \* ids whose revoke was answered with "revoked": true
    dropped,    \* ids whose change of adv was cut off before its save
    k,          \* tasks
    crashes, faults

vars == <<file, mem, adv, advFile, lock, up, tun, minted, revoked, dropped, k,
          crashes, faults>>
peer == <<adv, advFile, lock, dropped>>
hist == <<minted, revoked, crashes, faults>>

\* `op` the request, `n` the node it updates, `d` and `v` the entry it
\* writes, `snap` the copy it made, `had` the entry was there, `keep` the
\* snapshot save_advertised took.
Blank == [pc |-> "idle", op |-> "none", n |-> None, d |-> None, v |-> "none",
          snap |-> Empty, had |-> FALSE, keep |-> {}]

At(i, pc) == k[i].pc = pc
Goto(i, r) == k' = [k EXCEPT ![i] = r]

\* A start, a repoint or a stop of t is in flight; a delete reserves nothing.
Reserving == {"start", "move", "stop"}
Busy(t) == \E i \in Tasks : k[i].d = t /\ k[i].op \in Reserving
Moving(t) == \E i \in Tasks : k[i].d = t /\ k[i].op = "move"

-----------------------------------------------------------------------------
(* Requests.                                                               *)

Advertise(i, a) ==
    /\ up /\ At(i, "idle") /\ a \notin minted
    /\ minted' = minted \cup {a}
    /\ Goto(i, [Blank EXCEPT !.pc = "node", !.op = "advertise", !.n = PeerNode,
                             !.d = a, !.v = "on"])
    /\ UNCHANGED <<file, mem, peer, up, tun, revoked, crashes, faults>>

\* revoke refuses an id that was not advertised, and never builds the node.
Revoke(i, a) ==
    /\ up /\ At(i, "idle") /\ a \in adv /\ mem[PeerNode] # None
    /\ Goto(i, [Blank EXCEPT !.pc = "load", !.op = "revoke", !.n = PeerNode, !.d = a])
    /\ UNCHANGED <<file, mem, peer, up, tun, hist>>

\* create_project on the control node.
CreateTunnel(i, t) ==
    /\ up /\ At(i, "idle") /\ tun[t] = "new"
    /\ tun' = [tun EXCEPT ![t] = "made"]
    /\ Goto(i, [Blank EXCEPT !.pc = "load", !.op = "create", !.n = Control,
                             !.d = t, !.v = "on"])
    /\ UNCHANGED <<file, mem, peer, up, hist>>

\* Mutant of StartTunnel: the start enables through the control service.
StartOnControl(i, t) ==
    /\ up /\ At(i, "idle") /\ tun[t] = "made" /\ mem[t] = None /\ ~Busy(t)
    /\ file # Torn
    /\ mem' = [mem EXCEPT ![t] = file]
    /\ Goto(i, [Blank EXCEPT !.pc = "load", !.op = "start", !.n = Control,
                             !.d = t, !.v = "on"])
    /\ UNCHANGED <<file, peer, up, tun, hist>>

\* start_tunnel_internal: the tunnel's own node is built, and set_enabled
\* stores the entry there.
StartTunnel(i, t) ==
    /\ up /\ At(i, "idle") /\ tun[t] = "made" /\ mem[t] = None /\ ~Busy(t)
    /\ Goto(i, [Blank EXCEPT !.pc = "node", !.op = "start", !.n = t, !.d = t, !.v = "on"])
    /\ UNCHANGED <<file, mem, peer, up, tun, hist>>

\* start_tunnel_internal with a new target for a tunnel that runs: its own
\* service repoints it.
RepointTunnel(i, t) ==
    /\ up /\ At(i, "idle") /\ tun[t] = "made" /\ mem[t] # None /\ ~Busy(t)
    /\ Goto(i, [Blank EXCEPT !.pc = "ad", !.op = "move", !.n = t, !.d = t, !.v = "on"])
    /\ UNCHANGED <<file, mem, peer, up, tun, hist>>

\* retarget_project: the entry is stored as enabled if the advertisement is
\* there.  A delete may have taken it, or the proxy, which is an error.
LookForAd(i) ==
    LET gone == tun[k[i].d] = "gone"
    IN  /\ At(i, "ad")
        /\ \/ \E v \in {"on", "off"} :
                 (v = "off" => gone) /\ Goto(i, [k[i] EXCEPT !.pc = "load", !.v = v])
           \/ gone /\ Goto(i, Blank)
        /\ UNCHANGED <<file, mem, peer, up, tun, hist>>

\* stop_tunnel_internal: through the running service, or else through the
\* control service.  Disabling a tunnel that is gone fails before the update.
StopTunnel(i, t) ==
    /\ up /\ At(i, "idle") /\ tun[t] # "new" /\ ~Busy(t)
    /\ Goto(i, [Blank EXCEPT !.pc = IF tun[t] = "made" THEN "load" ELSE "drop",
                             !.op = "stop", !.d = t, !.v = "off",
                             !.n = IF mem[t] = None THEN Control ELSE t])
    /\ UNCHANGED <<file, mem, peer, up, tun, hist>>

\* delete_project on the control node.
DeleteTunnel(i, t) ==
    /\ up /\ At(i, "idle") /\ tun[t] = "made"
    /\ tun' = [tun EXCEPT ![t] = "gone"]
    /\ Goto(i, [Blank EXCEPT !.pc = "load", !.op = "delete", !.n = Control, !.d = t])
    /\ UNCHANGED <<file, mem, peer, up, hist>>

\* A request for an id that is not there is answered with a 404.
NotFound(i) ==
    /\ up /\ At(i, "idle")
    /\ (\E a \in Peers : a \notin adv) \/ (\E t \in Tunnels : tun[t] # "made")
    /\ UNCHANGED vars

-----------------------------------------------------------------------------
(* ListenNode and StateWrapper::update.                                    *)

\* The node is built on first use, from the file.
BuildNode(i) ==
    LET n == k[i].n
    IN  /\ At(i, "node")
        /\ \/ mem[n] # None /\ Goto(i, [k[i] EXCEPT !.pc = "load"]) /\ UNCHANGED mem
           \/ /\ mem[n] = None /\ file # Torn
              /\ mem' = [mem EXCEPT ![n] = file]
              /\ Goto(i, [k[i] EXCEPT !.pc = "load"])
           \/ mem[n] = None /\ file = Torn /\ Goto(i, Blank) /\ UNCHANGED mem
        /\ UNCHANGED <<file, peer, up, tun, hist>>

\* update: load and change a copy, store it, then write it.  Two updates of
\* one node can interleave between the load and the store.
Load(i) ==
    LET r == k[i]
    IN  /\ At(i, "load")
        /\ Goto(i, [r EXCEPT !.pc = "store", !.snap = [mem[r.n] EXCEPT ![r.d] = r.v],
                             !.had = mem[r.n][r.d] # "none"])
        /\ UNCHANGED <<file, mem, peer, up, tun, hist>>

Store(i) ==
    /\ At(i, "store")
    /\ mem' = [mem EXCEPT ![k[i].n] = k[i].snap]
    /\ Goto(i, [k[i] EXCEPT !.pc = "open"])
    /\ UNCHANGED <<file, peer, up, tun, hist>>

\* write_to_file: fs::write truncates the file, then fills it.
OpenFile(i) ==
    /\ At(i, "open")
    /\ file' = Torn
    /\ Goto(i, [k[i] EXCEPT !.pc = "fill"])
    /\ UNCHANGED <<mem, peer, up, tun, hist>>

\* What a request does once its update is over.
Written(i) ==
    LET r == k[i]
    IN  IF r.op = "advertise" \/ (r.op = "revoke" /\ r.had) THEN [r EXCEPT !.pc = "lock"]
        ELSE IF r.op \in {"stop", "delete"} THEN [r EXCEPT !.pc = "drop"]
        ELSE Blank

\* If another writer filled it after this one had opened it, the longer of
\* the two texts leaves a tail.
FillFile(i) ==
    /\ At(i, "fill")
    /\ \/ file' = k[i].snap
       \/ file # Torn /\ file' = Torn
    /\ Goto(i, Written(i))
    /\ UNCHANGED <<mem, peer, up, tun, hist>>

\* A failed write is the caller's error for a peer and a warning for a tunnel.
WriteFails(i) ==
    /\ k[i].pc \in {"open", "fill"}
    /\ faults < MaxFaults /\ faults' = faults + 1
    /\ Goto(i, IF k[i].op \in {"advertise", "revoke"} THEN Blank ELSE Written(i))
    /\ UNCHANGED <<file, mem, peer, up, tun, minted, revoked, crashes>>

\* The running entry goes, and with it the tunnel's node.  A delete finds no
\* entry while a start has not inserted it yet or a stop has taken it; the node
\* of the entry it drops lives as long as a repoint uses it.
DropNode(i) ==
    /\ At(i, "drop") /\ (k[i].op = "delete" => ~Moving(k[i].d))
    /\ mem' = IF k[i].op = "delete" /\ Busy(k[i].d) THEN mem
              ELSE [mem EXCEPT ![k[i].d] = None]
    /\ Goto(i, Blank)
    /\ UNCHANGED <<file, peer, up, tun, hist>>

-----------------------------------------------------------------------------
(* mark_advertised, unmark_advertised and save_advertised.                 *)

Changed(i, s) == IF k[i].op = "advertise" THEN s \cup {k[i].d} ELSE s \ {k[i].d}

\* Mutant of TakeLock: nothing is held across the save.
TakeNoLock(i) ==
    /\ At(i, "lock")
    /\ adv' = Changed(i, adv)
    /\ Goto(i, [k[i] EXCEPT !.pc = "read", !.had = k[i].d \in adv])
    /\ UNCHANGED <<lock, file, mem, advFile, dropped, up, tun, hist>>

TakeLock(i) ==
    /\ At(i, "lock")
    /\ lock = None /\ lock' = i
    /\ adv' = Changed(i, adv)
    /\ Goto(i, [k[i] EXCEPT !.pc = "read", !.had = k[i].d \in adv])
    /\ UNCHANGED <<file, mem, advFile, dropped, up, tun, hist>>

ReadAdvertised(i) ==
    /\ At(i, "read")
    /\ Goto(i, [k[i] EXCEPT !.pc = "save", !.keep = adv])
    /\ UNCHANGED <<file, mem, peer, up, tun, hist>>

\* write_json_atomic replaces the file whole.
SaveAdvertised(i) ==
    /\ At(i, "save")
    /\ advFile' = k[i].keep /\ dropped' = {}
    /\ lock' = None
    /\ revoked' = IF k[i].op = "revoke" THEN revoked \cup {k[i].d} ELSE revoked
    /\ Goto(i, Blank)
    /\ UNCHANGED <<file, mem, adv, up, tun, minted, crashes, faults>>

\* Mutant of SaveFails: the in-memory set is left as it is.
SaveFailsQuietly(i) ==
    /\ k[i].pc \in {"read", "save"}
    /\ faults < MaxFaults /\ faults' = faults + 1
    /\ lock' = None
    /\ Goto(i, Blank)
    /\ UNCHANGED <<adv, file, mem, advFile, dropped, up, tun, minted, revoked, crashes>>

\* The change is taken back, so that memory does not drift from the file.
SaveFails(i) ==
    /\ k[i].pc \in {"read", "save"}
    /\ faults < MaxFaults /\ faults' = faults + 1
    /\ adv' = IF k[i].op = "advertise" THEN adv \ {k[i].d}
              ELSE IF k[i].had THEN adv \cup {k[i].d} ELSE adv
    /\ lock' = None
    /\ Goto(i, Blank)
    /\ UNCHANGED <<file, mem, advFile, dropped, up, tun, minted, revoked, crashes>>

-----------------------------------------------------------------------------
(* A request that is cut off.                                              *)

\* A control-plane call of the request fails, or the client goes away and the
\* handler is dropped at an await: the lock is released, a start's or stop's
\* node goes with it, and the change of the advertised set stays.  A file
\* operation that was under way still ends.
Abandon(i) ==
    LET r == k[i]
    IN  /\ r.pc \notin {"idle", "store"}
        /\ faults < MaxFaults /\ faults' = faults + 1
        /\ mem' = IF r.op \in {"start", "stop"} THEN [mem EXCEPT ![r.d] = None] ELSE mem
        /\ \/ UNCHANGED file
           \/ r.pc = "open" /\ file' = r.snap
           \/ r.pc = "fill" /\ file' \in {r.snap, Torn}
        /\ lock' = IF lock = i THEN None ELSE lock
        /\ \/ r.pc \notin {"read", "save"} /\ UNCHANGED <<advFile, dropped>>
           \/ /\ r.pc \in {"read", "save"} /\ UNCHANGED advFile
              /\ dropped' = dropped \cup {r.d}
           \/ r.pc = "save" /\ advFile' = r.keep /\ dropped' = {}
        /\ Goto(i, Blank)
        /\ UNCHANGED <<adv, up, tun, minted, revoked, crashes>>

-----------------------------------------------------------------------------
(* Restart.                                                                *)

Crash ==
    /\ up
    /\ crashes < MaxCrashes /\ crashes' = crashes + 1
    /\ up' = FALSE
    /\ mem' = [n \in Nodes |-> None]
    /\ adv' = {} /\ lock' = None /\ dropped' = {}
    /\ k' = [i \in Tasks |-> Blank]
    /\ UNCHANGED <<file, advFile, tun, minted, revoked, faults>>

\* Mutant of Boot: a file that does not parse is taken as it is.
BootUnparsed ==
    /\ ~up
    /\ up' = TRUE
    /\ adv' = advFile
    /\ mem' = [mem EXCEPT ![Control] = file]
    /\ UNCHANGED <<file, advFile, lock, dropped, tun, hist, k>>

\* run(): the control node is built first; the peer node if something was
\* advertised before, and if that fails for another reason than the file the
\* daemon goes on without.
Boot ==
    /\ ~up /\ file # Torn
    /\ up' = TRUE
    /\ adv' = advFile
    /\ \/ /\ mem' = [mem EXCEPT ![Control] = file,
                                ![PeerNode] = IF advFile = {} THEN None ELSE file]
          /\ UNCHANGED faults
       \/ /\ advFile # {} /\ faults < MaxFaults /\ faults' = faults + 1
          /\ mem' = [mem EXCEPT ![Control] = file]
    /\ UNCHANGED <<file, advFile, lock, dropped, tun, minted, revoked, crashes, k>>

\* ListenNode::new fails, run() returns the error, and whatever restarts the
\* daemon gets the same again.
BootFails == ~up /\ file = Torn /\ UNCHANGED vars

Init ==
    /\ file = Empty
    /\ mem = [n \in Nodes |-> IF n = Control THEN Empty ELSE None]
    /\ adv = {} /\ advFile = {} /\ lock = None
    /\ up = TRUE
    /\ tun = [t \in Tunnels |-> "new"]
    /\ minted = {} /\ revoked = {} /\ dropped = {}
    /\ k = [i \in Tasks |-> Blank]
    /\ crashes = 0 /\ faults = 0

Request(i) ==
    \/ NotFound(i)
    \/ \E a \in Peers : Advertise(i, a) \/ Revoke(i, a)
    \/ \E t \in Tunnels : \/ CreateTunnel(i, t) \/ StartTunnel(i, t) \/ RepointTunnel(i, t)
                          \/ StopTunnel(i, t) \/ DeleteTunnel(i, t)

Update(i) ==
    \/ BuildNode(i) \/ LookForAd(i) \/ Load(i) \/ Store(i) \/ OpenFile(i) \/ FillFile(i)
    \/ WriteFails(i) \/ DropNode(i)

Mark(i) == TakeLock(i) \/ ReadAdvertised(i) \/ SaveAdvertised(i) \/ SaveFails(i)

Next ==
    \/ \E i \in Tasks : Request(i) \/ Update(i) \/ Mark(i) \/ Abandon(i)
    \/ Crash \/ Boot \/ BootFails

Spec == Init /\ [][Next]_vars
-----------------------------------------------------------------------------
(* Properties.                                                             *)

TaskType ==
    [pc : {"idle", "node", "ad", "load", "store", "open", "fill", "drop", "lock", "read", "save"},
     op : {"none", "advertise", "revoke", "create", "start", "move", "stop", "delete"},
     n : Nodes \cup {None}, d : Ids \cup {None}, v : Vals, snap : Lists,
     had : BOOLEAN, keep : SUBSET Peers]

\* Every variable has its type: in particular no node's copy is ever torn.
TypeOK ==
    /\ file \in Lists \cup {Torn}
    /\ mem \in [Nodes -> Lists \cup {None}]
    /\ adv \subseteq Peers /\ advFile \subseteq Peers
    /\ lock \in Tasks \cup {None}
    /\ up \in BOOLEAN
    /\ tun \in [Tunnels -> {"new", "made", "gone"}]
    /\ minted \subseteq Peers /\ revoked \subseteq Peers /\ dropped \subseteq Peers
    /\ k \in [Tasks -> TaskType]
    /\ crashes \in Nat /\ faults \in Nat

\* advertised_lock: whenever no mark or unmark is in flight, advertised.json
\* holds exactly the set in memory, whatever saves failed before; they differ
\* at most in ids whose request was cut off since the last save.
AdvertisedSaved == up /\ lock = None => advFile \ dropped = adv \ dropped

\* An id whose revoke was answered stays forgotten, on disk too: no save that
\* was in flight and no restart lists it again.
RevokedForgotten == \A a \in revoked : a \notin adv /\ a \notin advFile

\* The node of a running tunnel lets that tunnel's traffic through, once its
\* start or repoint is over and until its stop or delete begins.
RunningServed ==
    \A t \in Tunnels :
        mem[t] # None /\ ~Busy(t) /\ tun[t] # "gone" => mem[t][t] = "on"

\* The inductive invariant behind TypeOK, AdvertisedSaved, RevokedForgotten and
\* RunningServed.

\* Which node and which entry a request works on, by what it is and how far
\* it has got.
TaskOK(r) ==
    /\ r.op = "none" <=> r.pc = "idle"
    /\ r.op # "none" => r.n \in Nodes /\ r.d \in Ids
    /\ r.op \in {"advertise", "revoke"} =>
            r.n = PeerNode /\ r.d \in Peers /\ r.pc # "drop"
    /\ r.op \in {"create", "start", "move", "stop", "delete"} =>
            r.d \in Tunnels /\ r.pc \notin {"lock", "read", "save"}
    /\ r.op \in {"create", "delete"} => r.n = Control
    /\ r.op = "start" => r.n = r.d /\ r.v = "on"
    /\ r.op = "move" => r.n = r.d
    /\ r.op = "stop" => r.n \in {Control, r.d}
    /\ r.pc = "node" => r.op \in {"advertise", "start"}
    /\ r.pc = "ad" => r.op = "move"
    /\ r.pc = "drop" => r.op \in {"stop", "delete"}
    /\ r.op \in {"start", "move"} /\ r.pc \in {"store", "open", "fill"} => r.snap[r.d] = r.v

\* The node a request updates stays built while it does so, and a start leaves
\* its tunnel's entry enabled there.
TaskNode(r, nodes) ==
    /\ r.pc \in {"ad", "load", "store", "open", "fill"} => nodes[r.n] # None
    /\ r.op = "start" /\ r.pc \in {"open", "fill"} => nodes[r.d][r.d] = "on"

\* A repoint finds its tunnel's entry enabled, and leaves it so unless the
\* tunnel was deleted beside it.
MovesOK ==
    \A i \in Tasks : k[i].op = "move" /\ tun[k[i].d] # "gone" =>
        k[i].v = "on" /\ mem[k[i].d][k[i].d] = "on"

NodesOK ==
    /\ up => mem[Control] # None
    /\ \A i \in Tasks : TaskOK(k[i]) /\ TaskNode(k[i], mem) /\ (k[i].op # "none" => up)
    /\ \A i, j \in Tasks : k[i].op \in Reserving /\ k[j].op \in Reserving /\ k[i].d = k[j].d
            => i = j
    /\ MovesOK
    /\ RunningServed

Marking == {"read", "save"}

\* Where the advertised set and its file stand while a task is between the
\* change and the save, and what is known of an id before that.
TaskMark(i) ==
    LET r == k[i]
    IN  /\ r.op \in {"advertise", "revoke"} => r.d \in minted
        /\ r.op = "advertise" => r.d \notin revoked
        /\ r.op = "advertise" /\ r.pc \notin Marking => r.d \notin adv \cup advFile
        /\ r.pc \in Marking => lock = i
        /\ r.pc \in Marking /\ r.op = "advertise" =>
                r.d \notin advFile /\ adv \ dropped = (advFile \cup {r.d}) \ dropped
        /\ r.pc \in Marking /\ r.op = "revoke" =>
                /\ r.d \notin adv /\ adv \ dropped = (advFile \ {r.d}) \ dropped
                /\ r.d \notin dropped => (r.had <=> r.d \in advFile)
                /\ r.had => r.d \notin revoked
        /\ r.pc = "save" => r.keep = adv

PeersOK ==
    /\ \A i \in Tasks : TaskMark(i)
    /\ \A i, j \in Tasks : k[i].op = "advertise" /\ k[i].d = k[j].d =>
            /\ k[j].op = "advertise" => i = j
            /\ k[j].op = "revoke" => k[i].pc \in Marking
    /\ lock # None => k[lock].pc \in Marking
    /\ adv \cup advFile \cup revoked \subseteq minted
    /\ RevokedForgotten
    /\ AdvertisedSaved

\* The inductive invariant of the proofs: a tunnel's node is written by the one
\* request that reserved it (StateWrapper::update), and the set of advertisements
\* and its file differ only by the lock holder's id (mark_advertised).
IndInv == TypeOK /\ NodesOK /\ PeersOK

\* Revoking removes the target for good: nobody who still holds a ticket of a
\* revoked advertisement is let through by the peer node.
RevokedUnreachable ==
    \A a \in revoked : mem[PeerNode] # None => mem[PeerNode][a] # "on"
=============================================================================
