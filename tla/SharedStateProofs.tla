------------------------- MODULE SharedStateProofs -------------------------
(***************************************************************************)
(* SharedState for any set of advertisements, tunnels and requests: IndInv *)
(* is inductive, and with it the advertised set is the one on disk, a      *)
(* revoked id stays forgotten, and a running tunnel's node serves it.      *)
(* A revoked advertisement is let through again only after two             *)
(* overlapping updates of the peer node's list, or a restart from a copy   *)
(* another node wrote back; without them RevokedUnreachable is proved too. *)
(***************************************************************************)
EXTENDS SharedState, TLAPS

-----------------------------------------------------------------------------
(* What an invariant state says of one task.                               *)

\* A repoint of a tunnel that is not deleted finds and leaves its entry enabled.
MoveOK(r) == r.op = "move" /\ tun[r.d] # "gone" => r.v = "on" /\ mem[r.d][r.d] = "on"

\* A deleted tunnel stays so.
GoneStays == \A t \in Tunnels : tun[t] = "gone" => tun'[t] = "gone"

\* The record of a task, and everything IndInv says of it.
LEMMA TaskHere ==
    ASSUME IndInv, NEW i \in Tasks
    PROVE  /\ k[i] \in TaskType /\ TaskOK(k[i]) /\ TaskNode(k[i], mem) /\ TaskMark(i)
           /\ k[i].op # "none" => up
           /\ MoveOK(k[i])
BY DEF IndInv, TypeOK, NodesOK, PeersOK, MovesOK, MoveOK

\* An idle task's record, and the record a request ends with.
LEMMA BlankOK ==
    /\ Blank \in TaskType /\ TaskOK(Blank) /\ Blank.op = "none" /\ Blank.pc = "idle"
    /\ \A nodes : TaskNode(Blank, nodes)
BY DEF Blank, TaskType, TaskOK, TaskNode, Empty, Lists, Vals

\* The end of an update: the next step of the request, or its answer.
LEMMA WrittenOK ==
    ASSUME IndInv, NEW i \in Tasks, k[i].pc \in {"open", "fill"}
    PROVE  /\ Written(i) \in TaskType /\ TaskOK(Written(i))
           /\ Written(i).pc \in {"idle", "lock", "drop"}
           /\ \/ Written(i) = Blank /\ k[i].op # "stop"
              \/ /\ Written(i).pc # "idle" /\ k[i].op # "move"
                 /\ Written(i).op = k[i].op /\ Written(i).d = k[i].d
<1>1. k[i] \in TaskType /\ TaskOK(k[i])
  BY TaskHere
<1>2. CASE k[i].op = "advertise" \/ (k[i].op = "revoke" /\ k[i].had)
  BY <1>1, <1>2 DEF Written, TaskType, TaskOK
<1>3. CASE k[i].op \in {"stop", "delete"}
  BY <1>1, <1>3 DEF Written, TaskType, TaskOK
<1>4. CASE ~(k[i].op = "advertise" \/ (k[i].op = "revoke" /\ k[i].had)
             \/ k[i].op \in {"stop", "delete"})
  BY <1>4, BlankOK DEF Written
<1>5. QED
  BY <1>2, <1>3, <1>4

-----------------------------------------------------------------------------
(* Steps of one task.                                                      *)

\* A step that moves one task and leaves the nodes alone.
LEMMA NodeStep ==
    ASSUME IndInv, NEW i \in Tasks, NEW r \in TaskType, Goto(i, r),
           UNCHANGED <<mem, up>>, GoneStays,
           TaskOK(r), TaskNode(r, mem), MoveOK(r), r.op # "none" => up,
           r.op \in Reserving =>
                IF k[i].op \in Reserving THEN k[i].d = r.d ELSE ~Busy(r.d),
           k[i].op \in Reserving /\ r.op \notin Reserving =>
                \/ mem[k[i].d] = None \/ mem[k[i].d][k[i].d] = "on"
                \/ tun[k[i].d] = "gone"
    PROVE  NodesOK'
<1>1. k' = [k EXCEPT ![i] = r] /\ k \in [Tasks -> TaskType]
  BY DEF Goto, IndInv, TypeOK
<1>2. \A j \in Tasks : TaskOK(k'[j]) /\ TaskNode(k'[j], mem') /\ (k'[j].op # "none" => up')
  BY <1>1, TaskHere
<1>3. \A a, b \in Tasks : k'[a].op \in Reserving /\ k'[b].op \in Reserving
                            /\ k'[a].d = k'[b].d => a = b
  <2> SUFFICES ASSUME NEW a \in Tasks, NEW b \in Tasks, k'[a].op \in Reserving,
                      k'[b].op \in Reserving, k'[a].d = k'[b].d, a # b
               PROVE  FALSE
    OBVIOUS
  <2>1. \A x, y \in Tasks : k[x].op \in Reserving /\ k[y].op \in Reserving
                              /\ k[x].d = k[y].d => x = y
    BY DEF IndInv, NodesOK
  <2>2. CASE a = i
    BY <1>1, <2>1, <2>2 DEF Busy, Reserving
  <2>3. CASE b = i
    BY <1>1, <2>1, <2>3 DEF Busy, Reserving
  <2>4. CASE a # i /\ b # i
    BY <1>1, <2>1, <2>4
  <2>5. QED
    BY <2>2, <2>3, <2>4
<1>4. RunningServed'
  <2> SUFFICES ASSUME NEW t \in Tunnels, mem[t] # None, ~Busy(t)', tun'[t] # "gone",
                      mem[t][t] # "on"
               PROVE  FALSE
    BY DEF RunningServed
  <2>0. tun[t] # "gone"
    BY DEF GoneStays
  <2>1. Busy(t)
    BY <2>0 DEF IndInv, NodesOK, RunningServed
  <2>2. k[i].d = t /\ k[i].op \in Reserving
    BY <1>1, <2>1 DEF Busy, Reserving
  <2>3. r.op \notin Reserving
    BY <1>1, <2>2 DEF Busy, Reserving
  <2>4. QED
    BY <2>0, <2>2, <2>3
<1>5. MovesOK'
  <2> SUFFICES ASSUME NEW j \in Tasks, k'[j].op = "move", tun'[k'[j].d] # "gone"
               PROVE  k'[j].v = "on" /\ mem[k'[j].d][k'[j].d] = "on"
    BY DEF MovesOK
  <2>1. k'[j].d \in Tunnels /\ MoveOK(k'[j])
    BY <1>1, <1>2, TaskHere DEF TaskOK
  <2>2. QED
    BY <2>1 DEF MoveOK, GoneStays
<1>6. QED
  BY <1>2, <1>3, <1>4, <1>5 DEF IndInv, NodesOK

\* A step that moves one task outside the lock and leaves the advertised set,
\* its file and the history of ids alone.
LEMMA PeerStep ==
    ASSUME IndInv, NEW i \in Tasks, NEW r \in TaskType, Goto(i, r),
           UNCHANGED <<peer, up, minted, revoked>>,
           k[i].pc \notin Marking, r.pc \notin Marking,
           r.op = "advertise" => k[i].op = "advertise" /\ k[i].d = r.d,
           r.op = "revoke" => (k[i].op = "revoke" /\ k[i].d = r.d) \/ r.d \in adv
    PROVE  PeersOK'
<1>1. k' = [k EXCEPT ![i] = r] /\ k \in [Tasks -> TaskType]
  BY DEF Goto, IndInv, TypeOK
<1>2. UNCHANGED <<adv, advFile, lock, dropped>>
  BY DEF peer
<1>3. \A j \in Tasks : TaskMark(j)
  BY TaskHere
<1>4. ASSUME NEW j \in Tasks PROVE TaskMark(j)'
  <2>1. CASE j = i
    BY <1>1, <1>2, <1>3, <2>1 DEF TaskMark, Marking, IndInv, PeersOK, RevokedForgotten
  <2>2. CASE j # i
    BY <1>1, <1>2, <1>3, <2>2 DEF TaskMark
  <2>3. QED
    BY <2>1, <2>2
<1>5. ASSUME NEW a \in Tasks, NEW b \in Tasks, k'[a].op = "advertise", k'[a].d = k'[b].d
      PROVE  /\ k'[b].op = "advertise" => a = b
             /\ k'[b].op = "revoke" => k'[a].pc \in Marking
  <2>1. \A x, y \in Tasks : k[x].op = "advertise" /\ k[x].d = k[y].d =>
            /\ k[y].op = "advertise" => x = y
            /\ k[y].op = "revoke" => k[x].pc \in Marking
    BY DEF IndInv, PeersOK, RevokedForgotten
  <2>2. CASE a = i
    BY <1>1, <1>5, <2>1, <2>2
  <2>3. CASE a # i /\ b = i
    BY <1>1, <1>3, <1>5, <2>1, <2>3 DEF TaskMark
  <2>4. CASE a # i /\ b # i
    BY <1>1, <1>5, <2>1, <2>4
  <2>5. QED
    BY <2>2, <2>3, <2>4
<1>6. lock' # None => k'[lock'].pc \in Marking
  BY <1>1, <1>2 DEF IndInv, TypeOK, PeersOK, RevokedForgotten
<1>7. QED
  BY <1>2, <1>4, <1>5, <1>6 DEF IndInv, PeersOK, RevokedForgotten, AdvertisedSaved

\* A step that moves one task, outside the lock, and changes neither nodes nor
\* advertisements.
LEMMA QuietStep ==
    ASSUME IndInv, NEW i \in Tasks, NEW r \in TaskType, Goto(i, r),
           UNCHANGED <<mem, peer, up, minted, revoked>>,
           file' \in Lists \cup {Torn}, tun' \in [Tunnels -> {"new", "made", "gone"}],
           crashes' \in Nat, faults' \in Nat, GoneStays,
           TaskOK(r), TaskNode(r, mem), MoveOK(r), r.op # "none" => up,
           r.op \in Reserving =>
                IF k[i].op \in Reserving THEN k[i].d = r.d ELSE ~Busy(r.d),
           k[i].op \in Reserving /\ r.op \notin Reserving =>
                \/ mem[k[i].d] = None \/ mem[k[i].d][k[i].d] = "on"
                \/ tun[k[i].d] = "gone",
           k[i].pc \notin Marking, r.pc \notin Marking,
           r.op = "advertise" => k[i].op = "advertise" /\ k[i].d = r.d,
           r.op = "revoke" => (k[i].op = "revoke" /\ k[i].d = r.d) \/ r.d \in adv
    PROVE  IndInv'
<1>1. NodesOK'
  BY NodeStep
<1>2. PeersOK'
  BY PeerStep
<1>3. TypeOK'
  BY DEF TypeOK, IndInv, Goto, peer
<1>4. QED
  BY <1>1, <1>2, <1>3 DEF IndInv

-----------------------------------------------------------------------------
(* Requests.                                                               *)

\* The variables a request leaves alone keep their types.
LEMMA RestSame ==
    ASSUME IndInv, UNCHANGED <<crashes, faults>>
    PROVE  /\ crashes' \in Nat /\ faults' \in Nat
           /\ UNCHANGED file => file' \in Lists \cup {Torn}
           /\ UNCHANGED tun => tun' \in [Tunnels -> {"new", "made", "gone"}] /\ GoneStays
BY DEF IndInv, TypeOK, GoneStays

\* revoke of an id that is advertised.
LEMMA RevokeOK ==
    ASSUME IndInv, NEW i \in Tasks, NEW a \in Peers, Revoke(i, a)
    PROVE  IndInv'
<1> DEFINE r == [Blank EXCEPT !.pc = "load", !.op = "revoke", !.n = PeerNode, !.d = a]
<1>1. Goto(i, r) /\ k[i].pc = "idle" /\ k[i].op = "none" /\ up /\ a \in adv
  BY TaskHere DEF Revoke, At, TaskOK
<1>2. r \in TaskType /\ TaskOK(r) /\ TaskNode(r, mem)
  BY BlankOK DEF Revoke, Blank, TaskType, TaskOK, TaskNode, Nodes, Ids
<1>3. r.op = "revoke" /\ r.pc = "load" /\ r.d = a
  BY DEF Blank
<1>4. UNCHANGED <<file, mem, peer, up, tun, minted, revoked, crashes, faults>>
  BY DEF Revoke, hist
<1> HIDE DEF r
<1>5. QED
  BY <1>1, <1>2, <1>3, <1>4, RestSame, QuietStep DEF Reserving, Marking, MoveOK

\* create_project on the control node.
LEMMA CreateOK ==
    ASSUME IndInv, NEW i \in Tasks, NEW t \in Tunnels, CreateTunnel(i, t)
    PROVE  IndInv'
<1> DEFINE r == [Blank EXCEPT !.pc = "load", !.op = "create", !.n = Control,
                              !.d = t, !.v = "on"]
<1>1. Goto(i, r) /\ k[i].pc = "idle" /\ k[i].op = "none" /\ up
  BY TaskHere DEF CreateTunnel, At, TaskOK
<1>2. r \in TaskType /\ TaskOK(r) /\ TaskNode(r, mem)
  <2>1. r \in TaskType
    BY BlankOK DEF Blank, TaskType, Nodes, Ids, Vals
  <2>2. TaskOK(r)
    BY DEF Blank, TaskOK, Nodes, Ids
  <2>3. TaskNode(r, mem)
    BY <1>1 DEF Blank, TaskNode, IndInv, NodesOK
  <2>4. QED
    BY <2>1, <2>2, <2>3
<1>3. r.op = "create" /\ r.pc = "load"
  BY DEF Blank
<1>4. /\ UNCHANGED <<file, mem, peer, up, minted, revoked, crashes, faults>>
      /\ tun' \in [Tunnels -> {"new", "made", "gone"}] /\ GoneStays
  BY DEF CreateTunnel, hist, IndInv, TypeOK, GoneStays
<1> HIDE DEF r
<1>5. QED
  BY <1>1, <1>2, <1>3, <1>4, RestSame, QuietStep DEF Reserving, Marking, MoveOK

\* delete_project on the control node.
LEMMA DeleteOK ==
    ASSUME IndInv, NEW i \in Tasks, NEW t \in Tunnels, DeleteTunnel(i, t)
    PROVE  IndInv'
<1> DEFINE r == [Blank EXCEPT !.pc = "load", !.op = "delete", !.n = Control, !.d = t]
<1>1. Goto(i, r) /\ k[i].pc = "idle" /\ k[i].op = "none" /\ up
  BY TaskHere DEF DeleteTunnel, At, TaskOK
<1>2. r \in TaskType /\ TaskOK(r) /\ TaskNode(r, mem)
  <2>1. r \in TaskType
    BY BlankOK DEF Blank, TaskType, Nodes, Ids
  <2>2. TaskOK(r)
    BY DEF Blank, TaskOK, Nodes, Ids
  <2>3. TaskNode(r, mem)
    BY <1>1 DEF Blank, TaskNode, IndInv, NodesOK
  <2>4. QED
    BY <2>1, <2>2, <2>3
<1>3. r.op = "delete" /\ r.pc = "load"
  BY DEF Blank
<1>4. /\ UNCHANGED <<file, mem, peer, up, minted, revoked, crashes, faults>>
      /\ tun' \in [Tunnels -> {"new", "made", "gone"}] /\ GoneStays
  BY DEF DeleteTunnel, hist, IndInv, TypeOK, GoneStays
<1> HIDE DEF r
<1>5. QED
  BY <1>1, <1>2, <1>3, <1>4, RestSame, QuietStep DEF Reserving, Marking, MoveOK

\* start_tunnel_internal reserves the tunnel.
LEMMA StartOK ==
    ASSUME IndInv, NEW i \in Tasks, NEW t \in Tunnels, StartTunnel(i, t)
    PROVE  IndInv'
<1> DEFINE r == [Blank EXCEPT !.pc = "node", !.op = "start", !.n = t, !.d = t, !.v = "on"]
<1>1. Goto(i, r) /\ k[i].pc = "idle" /\ k[i].op = "none" /\ up /\ ~Busy(t)
  BY TaskHere DEF StartTunnel, At, TaskOK
<1>2. r \in TaskType /\ TaskOK(r) /\ TaskNode(r, mem)
  BY BlankOK DEF Blank, TaskType, TaskOK, TaskNode, Nodes, Ids, Vals
<1>3. r.op = "start" /\ r.pc = "node" /\ r.d = t
  BY DEF Blank
<1>4. UNCHANGED <<file, mem, peer, up, tun, minted, revoked, crashes, faults>>
  BY DEF StartTunnel, hist
<1> HIDE DEF r
<1>5. QED
  BY <1>1, <1>2, <1>3, <1>4, RestSame, QuietStep DEF Reserving, Marking, MoveOK

\* So does the repoint of one that runs.
LEMMA RepointOK ==
    ASSUME IndInv, NEW i \in Tasks, NEW t \in Tunnels, RepointTunnel(i, t)
    PROVE  IndInv'
<1> DEFINE r == [Blank EXCEPT !.pc = "ad", !.op = "move", !.n = t, !.d = t, !.v = "on"]
<1>1. /\ Goto(i, r) /\ k[i].pc = "idle" /\ k[i].op = "none" /\ up /\ ~Busy(t)
      /\ mem[t] # None /\ tun[t] = "made"
  BY TaskHere DEF RepointTunnel, At, TaskOK
<1>2. r \in TaskType /\ TaskOK(r) /\ TaskNode(r, mem)
  BY <1>1, BlankOK DEF Blank, TaskType, TaskOK, TaskNode, Nodes, Ids, Vals
<1>3. r.op = "move" /\ r.pc = "ad" /\ r.d = t /\ r.v = "on"
  BY DEF Blank
<1>4. UNCHANGED <<file, mem, peer, up, tun, minted, revoked, crashes, faults>>
  BY DEF RepointTunnel, hist
<1> HIDE DEF r
<1>5. mem[t][t] = "on"
  BY <1>1 DEF IndInv, NodesOK, RunningServed
<1>6. QED
  BY <1>1, <1>2, <1>3, <1>4, <1>5, RestSame, QuietStep DEF Reserving, Marking, MoveOK

\* What it is to store depends on the advertisement.
LEMMA LookForAdOK ==
    ASSUME IndInv, NEW i \in Tasks, LookForAd(i)
    PROVE  IndInv'
<1>1. /\ k[i].pc = "ad" /\ k[i].op = "move" /\ up /\ k[i] \in TaskType /\ TaskOK(k[i])
      /\ TaskNode(k[i], mem) /\ MoveOK(k[i])
  BY TaskHere DEF LookForAd, At, TaskOK
<1>2. UNCHANGED <<file, mem, peer, up, tun, minted, revoked, crashes, faults>>
  BY DEF LookForAd, hist
<1>3. CASE tun[k[i].d] = "gone" /\ Goto(i, Blank)
  BY <1>1, <1>2, <1>3, BlankOK, RestSame, QuietStep DEF Reserving, Marking, MoveOK
<1>4. ASSUME NEW v \in {"on", "off"}, v = "off" => tun[k[i].d] = "gone",
             Goto(i, [k[i] EXCEPT !.pc = "load", !.v = v])
      PROVE  IndInv'
  <2> DEFINE r == [k[i] EXCEPT !.pc = "load", !.v = v]
  <2>1. /\ r \in TaskType /\ TaskOK(r) /\ TaskNode(r, mem) /\ r.op = "move" /\ r.pc = "load"
        /\ r.d = k[i].d /\ r.v = v /\ Goto(i, r)
    BY <1>1, <1>4 DEF TaskType, TaskOK, TaskNode, Vals
  <2> HIDE DEF r
  <2>2. MoveOK(r)
    BY <1>1, <1>4, <2>1 DEF MoveOK
  <2>3. QED
    BY <1>1, <1>2, <2>1, <2>2, RestSame, QuietStep DEF Reserving, Marking
<1>5. QED
  BY <1>3, <1>4 DEF LookForAd

\* stop_tunnel_internal reserves it too, and takes the tunnel's node or the
\* control node.
LEMMA StopOK ==
    ASSUME IndInv, NEW i \in Tasks, NEW t \in Tunnels, StopTunnel(i, t)
    PROVE  IndInv'
<1> DEFINE r == [Blank EXCEPT !.pc = IF tun[t] = "made" THEN "load" ELSE "drop",
                              !.op = "stop", !.d = t, !.v = "off",
                              !.n = IF mem[t] = None THEN Control ELSE t]
<1>1. Goto(i, r) /\ k[i].pc = "idle" /\ k[i].op = "none" /\ up /\ ~Busy(t)
  BY TaskHere DEF StopTunnel, At, TaskOK
<1>2. r \in TaskType /\ TaskOK(r) /\ TaskNode(r, mem)
  <2>1. r \in TaskType
    BY BlankOK DEF Blank, TaskType, Nodes, Ids, Vals
  <2>2. TaskOK(r)
    BY DEF Blank, TaskOK, Nodes, Ids
  <2>3. TaskNode(r, mem)
    BY <1>1 DEF Blank, TaskNode, IndInv, NodesOK
  <2>4. QED
    BY <2>1, <2>2, <2>3
<1>3. r.op = "stop" /\ r.pc \in {"load", "drop"} /\ r.d = t
  BY DEF Blank
<1>4. UNCHANGED <<file, mem, peer, up, tun, minted, revoked, crashes, faults>>
  BY DEF StopTunnel, hist
<1> HIDE DEF r
<1>5. QED
  BY <1>1, <1>2, <1>3, <1>4, RestSame, QuietStep DEF Reserving, Marking, MoveOK

\* advertise works on an id nobody has seen before.
LEMMA AdvertiseOK ==
    ASSUME IndInv, NEW i \in Tasks, NEW a \in Peers, Advertise(i, a)
    PROVE  IndInv'
<1> DEFINE r == [Blank EXCEPT !.pc = "node", !.op = "advertise", !.n = PeerNode,
                              !.d = a, !.v = "on"]
<1>1. Goto(i, r) /\ k[i].pc = "idle" /\ k[i].op = "none" /\ up
  BY TaskHere DEF Advertise, At, TaskOK
<1>2. r \in TaskType /\ TaskOK(r) /\ TaskNode(r, mem)
  BY BlankOK DEF Blank, TaskType, TaskOK, TaskNode, Nodes, Ids, Vals
<1>3. r.op = "advertise" /\ r.pc = "node" /\ r.d = a
  BY DEF Blank
<1>4. /\ UNCHANGED <<file, mem, adv, advFile, lock, dropped, up, tun, revoked, crashes, faults>>
      /\ a \notin minted /\ minted' = minted \cup {a}
  BY DEF Advertise, peer
<1> HIDE DEF r
<1>5. NodesOK'
  BY <1>1, <1>2, <1>3, <1>4, NodeStep DEF Reserving, MoveOK, GoneStays
<1>6. TypeOK'
  BY <1>1, <1>2, <1>4 DEF IndInv, TypeOK, Goto
<1>7. PeersOK'
  <2>1. k' = [k EXCEPT ![i] = r] /\ k \in [Tasks -> TaskType]
    BY <1>1 DEF Goto, IndInv, TypeOK
  <2>2. \A j \in Tasks : TaskMark(j)
    BY TaskHere
  <2>3. \A j \in Tasks : TaskMark(j)'
    BY <1>3, <1>4, <2>1, <2>2 DEF TaskMark, Marking, IndInv, PeersOK, RevokedForgotten
  <2>4. \A x, y \in Tasks : k'[x].op = "advertise" /\ k'[x].d = k'[y].d =>
            /\ k'[y].op = "advertise" => x = y
            /\ k'[y].op = "revoke" => k'[x].pc \in Marking
    BY <1>3, <1>4, <2>1, <2>2 DEF TaskMark, IndInv, PeersOK, RevokedForgotten
  <2>5. lock' # None => k'[lock'].pc \in Marking
    BY <1>1, <1>4, <2>1 DEF IndInv, TypeOK, PeersOK, RevokedForgotten, Marking
  <2>6. QED
    BY <1>4, <2>3, <2>4, <2>5 DEF IndInv, PeersOK, RevokedForgotten, AdvertisedSaved
<1>8. QED
  BY <1>5, <1>6, <1>7 DEF IndInv

-----------------------------------------------------------------------------
(* ListenNode and StateWrapper::update.                                    *)

\* A node that is a tunnel's belongs to the one start, repoint or stop of that
\* tunnel.
LEMMA OwnNode ==
    ASSUME IndInv, NEW i \in Tasks, k[i].n \in Tunnels, k[i].op # "none"
    PROVE  k[i].op \in Reserving /\ k[i].d = k[i].n
<1>1. k[i] \in TaskType /\ TaskOK(k[i])
  BY TaskHere
<1>2. QED
  BY <1>1, IdsDistinct DEF TaskOK, TaskType, Reserving

\* The node is there already, or is built from the file, or cannot be.
LEMMA BuildNodeOK ==
    ASSUME IndInv, NEW i \in Tasks, BuildNode(i)
    PROVE  IndInv'
<1> DEFINE n == k[i].n
           r == [k[i] EXCEPT !.pc = "load"]
<1>1. /\ k[i].pc = "node" /\ k[i].op \in {"advertise", "start"}
      /\ k[i] \in TaskType /\ TaskOK(k[i]) /\ n \in Nodes /\ up
  BY TaskHere DEF BuildNode, At, TaskOK
<1>2. UNCHANGED <<file, adv, advFile, lock, dropped, peer, up, tun, minted, revoked,
                 crashes, faults>>
  BY DEF BuildNode, hist, peer
<1>3. /\ r \in TaskType /\ TaskOK(r) /\ r.pc = "load" /\ r.op = k[i].op
      /\ r.d = k[i].d /\ r.n = n
  BY <1>1 DEF TaskType, TaskOK
<1>4. CASE mem[n] # None /\ Goto(i, r) /\ UNCHANGED mem
  <2>1. TaskNode(r, mem)
    BY <1>3, <1>4 DEF TaskNode
  <2> HIDE DEF r
  <2>2. QED
    BY <1>1, <1>2, <1>3, <1>4, <2>1, RestSame, QuietStep DEF Reserving, Marking, MoveOK
<1>5. CASE mem[n] = None /\ Goto(i, Blank) /\ UNCHANGED mem
  <2>1. k[i].op \in Reserving => mem[k[i].d] = None
    BY <1>1, <1>5 DEF TaskOK, Reserving
  <2>2. QED
    BY <1>1, <1>2, <1>5, <2>1, BlankOK, RestSame, QuietStep DEF Reserving, Marking, MoveOK
<1>6. CASE mem[n] = None /\ file # Torn /\ mem' = [mem EXCEPT ![n] = file] /\ Goto(i, r)
  <2>1. /\ file \in Lists /\ file # None /\ mem \in [Nodes -> Lists \cup {None}]
        /\ k' = [k EXCEPT ![i] = r] /\ k \in [Tasks -> TaskType]
    BY <1>6, MarkersDistinct DEF IndInv, TypeOK, Goto
  <2> HIDE DEF r
  <2>2. TypeOK'
    BY <1>2, <1>3, <1>6, <2>1 DEF IndInv, TypeOK
  <2>3. PeersOK'
    BY <1>1, <1>2, <1>3, <1>6, PeerStep DEF Marking
  <2>4. \A j \in Tasks : TaskOK(k'[j]) /\ TaskNode(k'[j], mem') /\ (k'[j].op # "none" => up')
    <3> SUFFICES ASSUME NEW j \in Tasks
                 PROVE  TaskOK(k'[j]) /\ TaskNode(k'[j], mem') /\ (k'[j].op # "none" => up')
      OBVIOUS
    <3>1. CASE j = i
      BY <1>1, <1>2, <1>3, <1>6, <2>1, <3>1 DEF TaskNode
    <3>2. CASE j # i
      <4>1. k'[j] = k[j] /\ k[j] \in TaskType /\ TaskOK(k[j]) /\ TaskNode(k[j], mem)
        BY <2>1, <3>2, TaskHere
      <4>2. k[j].op # "none" => k[j].n \in Nodes
        BY <4>1 DEF TaskOK
      <4>3. TaskNode(k[j], mem')
        BY <1>1, <1>6, <2>1, <4>1, <4>2 DEF TaskNode, TaskOK
      <4>4. QED
        BY <1>2, <4>1, <4>3, TaskHere
    <3>3. QED
      BY <3>1, <3>2
  <2>5. \A x, y \in Tasks : k'[x].op \in Reserving /\ k'[y].op \in Reserving
                              /\ k'[x].d = k'[y].d => x = y
    BY <1>3, <2>1 DEF IndInv, NodesOK
  <2>6. RunningServed'
    <3> SUFFICES ASSUME NEW t \in Tunnels, mem'[t] # None, ~Busy(t)', tun'[t] # "gone"
                 PROVE  mem'[t][t] = "on"
      BY DEF RunningServed
    <3>1. t # n
      BY <1>1, <1>3, <2>1, OwnNode DEF Busy, Reserving
    <3>2. mem'[t] = mem[t]
      BY <1>6, <2>1, <3>1 DEF Nodes
    <3>3. ~Busy(t)
      BY <1>3, <2>1 DEF Busy
    <3>4. QED
      BY <1>2, <3>2, <3>3 DEF IndInv, NodesOK, RunningServed
  <2>7. up' => mem'[Control] # None
    BY <1>2, <1>6, <2>1 DEF IndInv, NodesOK, Nodes
  <2>8. MovesOK'
    <3> SUFFICES ASSUME NEW j \in Tasks, k'[j].op = "move", tun'[k'[j].d] # "gone"
                 PROVE  k'[j].v = "on" /\ mem'[k'[j].d][k'[j].d] = "on"
      BY DEF MovesOK
    <3>1. j # i /\ k'[j] = k[j]
      BY <1>1, <1>3, <2>1
    <3>2. MoveOK(k[j]) /\ k[j].d \in Nodes /\ mem[k[j].d] # None
      BY <3>1, TaskHere DEF TaskOK, TaskNode, TaskType
    <3>3. mem'[k[j].d] = mem[k[j].d]
      BY <1>6, <2>1, <3>2
    <3>4. QED
      BY <1>2, <3>1, <3>2, <3>3 DEF MoveOK
  <2>9. QED
    BY <2>2, <2>3, <2>4, <2>5, <2>6, <2>7, <2>8 DEF IndInv, NodesOK
<1>7. QED
  BY <1>4, <1>5, <1>6 DEF BuildNode

\* The copy an update works on.
LEMMA LoadOK ==
    ASSUME IndInv, NEW i \in Tasks, Load(i)
    PROVE  IndInv'
<1> DEFINE s == [mem[k[i].n] EXCEPT ![k[i].d] = k[i].v]
           b == mem[k[i].n][k[i].d] # "none"
           r == [k[i] EXCEPT !.pc = "store", !.snap = s, !.had = b]
<1>1. /\ k[i].pc = "load" /\ k[i].op # "none" /\ up
      /\ k[i] \in TaskType /\ TaskOK(k[i]) /\ k[i].n \in Nodes /\ k[i].d \in Ids
      /\ mem[k[i].n] # None
  BY TaskHere DEF Load, At, TaskOK, TaskNode
<1>2. s \in Lists /\ s[k[i].d] = k[i].v /\ b \in BOOLEAN
  BY <1>1 DEF IndInv, TypeOK, Lists, TaskType
<1>3. Goto(i, r)
  BY DEF Load
<1> HIDE DEF s, b
<1>4. /\ r \in TaskType /\ r.pc = "store" /\ r.op = k[i].op /\ r.d = k[i].d
      /\ r.n = k[i].n /\ r.snap = s /\ r.v = k[i].v
  BY <1>1, <1>2 DEF TaskType
<1>5. TaskOK(r) /\ TaskNode(r, mem)
  BY <1>1, <1>2, <1>4 DEF TaskOK, TaskNode
<1>6. UNCHANGED <<file, mem, peer, up, tun, minted, revoked, crashes, faults>>
  BY DEF Load, hist
<1> HIDE DEF r
<1>7. MoveOK(r)
  BY <1>4, TaskHere DEF MoveOK
<1>8. QED
  BY <1>1, <1>3, <1>4, <1>5, <1>6, <1>7, RestSame, QuietStep DEF Reserving, Marking

\* The copy replaces the node's list; on a tunnel's node only that tunnel's
\* own start, repoint or stop does this.
LEMMA StoreOK ==
    ASSUME IndInv, NEW i \in Tasks, Store(i)
    PROVE  IndInv'
<1> DEFINE n == k[i].n
           r == [k[i] EXCEPT !.pc = "open"]
<1>1. /\ k[i].pc = "store" /\ k[i].op # "none" /\ up
      /\ k[i] \in TaskType /\ TaskOK(k[i]) /\ n \in Nodes
  BY TaskHere DEF Store, At, TaskOK
<1>2. UNCHANGED <<file, adv, advFile, lock, dropped, peer, up, tun, minted, revoked,
                 crashes, faults>>
  BY DEF Store, hist, peer
<1>3. /\ r \in TaskType /\ TaskOK(r) /\ r.pc = "open" /\ r.op = k[i].op
      /\ r.d = k[i].d /\ r.n = n /\ r.snap = k[i].snap /\ r.v = k[i].v
  BY <1>1 DEF TaskType, TaskOK
<1>4. Goto(i, r) /\ mem' = [mem EXCEPT ![n] = k[i].snap]
  BY DEF Store
<1>5. /\ k[i].snap \in Lists /\ k[i].snap # None /\ mem \in [Nodes -> Lists \cup {None}]
      /\ k' = [k EXCEPT ![i] = r] /\ k \in [Tasks -> TaskType]
  BY <1>1, <1>4, MarkersDistinct DEF IndInv, TypeOK, Goto, TaskType
<1> HIDE DEF r
<1>6. TypeOK'
  BY <1>2, <1>3, <1>4, <1>5 DEF IndInv, TypeOK
<1>7. PeersOK'
  BY <1>1, <1>2, <1>3, <1>4, PeerStep DEF Marking
<1>8. \A x, y \in Tasks : k[x].op \in Reserving /\ k[y].op \in Reserving
                            /\ k[x].d = k[y].d => x = y
  BY DEF IndInv, NodesOK
<1>9. \A j \in Tasks : TaskOK(k'[j]) /\ TaskNode(k'[j], mem') /\ (k'[j].op # "none" => up')
  <2> SUFFICES ASSUME NEW j \in Tasks
               PROVE  TaskOK(k'[j]) /\ TaskNode(k'[j], mem') /\ (k'[j].op # "none" => up')
    OBVIOUS
  <2>1. CASE j = i
    BY <1>1, <1>2, <1>3, <1>4, <1>5, <2>1 DEF TaskNode, TaskOK
  <2>2. CASE j # i
    <3>1. k'[j] = k[j] /\ k[j] \in TaskType /\ TaskOK(k[j]) /\ TaskNode(k[j], mem)
      BY <1>5, <2>2, TaskHere
    <3>2. k[j].op = "start" => k[j].d # n /\ k[j].d \in Tunnels
      BY <1>1, <1>8, <2>2, <3>1, OwnNode DEF TaskOK, Reserving
    <3>3. k[j].op # "none" => k[j].n \in Nodes
      BY <3>1 DEF TaskOK
    <3>4. TaskNode(k[j], mem')
      BY <1>1, <1>4, <1>5, <3>1, <3>2, <3>3 DEF TaskNode, TaskOK
    <3>5. QED
      BY <1>2, <3>1, <3>4, TaskHere
  <2>3. QED
    BY <2>1, <2>2
<1>10. \A x, y \in Tasks : k'[x].op \in Reserving /\ k'[y].op \in Reserving
                             /\ k'[x].d = k'[y].d => x = y
  BY <1>3, <1>5, <1>8
<1>11. RunningServed'
  <2> SUFFICES ASSUME NEW t \in Tunnels, mem'[t] # None, ~Busy(t)', tun'[t] # "gone"
               PROVE  mem'[t][t] = "on"
    BY DEF RunningServed
  <2>1. t # n
    BY <1>1, <1>3, <1>5, OwnNode DEF Busy, Reserving
  <2>2. mem'[t] = mem[t] /\ ~Busy(t)
    BY <1>3, <1>4, <1>5, <2>1 DEF Nodes, Busy
  <2>3. QED
    BY <1>2, <2>2 DEF IndInv, NodesOK, RunningServed
<1>12. up' => mem'[Control] # None
  BY <1>2, <1>4, <1>5 DEF IndInv, NodesOK, Nodes
<1>13. MovesOK'
  <2> SUFFICES ASSUME NEW j \in Tasks, k'[j].op = "move", tun'[k'[j].d] # "gone"
               PROVE  k'[j].v = "on" /\ mem'[k'[j].d][k'[j].d] = "on"
    BY DEF MovesOK
  <2>1. CASE j = i
    <3>1. k[i].op = "move" /\ k[i].v = "on" /\ k[i].d = n /\ k[i].snap[n] = "on"
      BY <1>1, <1>2, <1>3, <1>5, <2>1, TaskHere DEF MoveOK, TaskOK
    <3>2. QED
      BY <1>1, <1>3, <1>4, <1>5, <2>1, <3>1
  <2>2. CASE j # i
    <3>1. /\ k'[j] = k[j] /\ MoveOK(k[j]) /\ k[j].d \in Tunnels
      BY <1>5, <2>2, TaskHere DEF TaskOK
    <3>2. k[j].d # n
      BY <1>1, <1>8, <2>2, <3>1, OwnNode DEF Reserving
    <3>3. mem'[k[j].d] = mem[k[j].d]
      BY <1>4, <1>5, <3>1, <3>2 DEF Nodes
    <3>4. QED
      BY <1>2, <3>1, <3>3 DEF MoveOK
  <2>3. QED
    BY <2>1, <2>2
<1>14. QED
  BY <1>6, <1>7, <1>9, <1>10, <1>11, <1>12, <1>13 DEF IndInv, NodesOK

\* fs::write truncates.
LEMMA OpenFileOK ==
    ASSUME IndInv, NEW i \in Tasks, OpenFile(i)
    PROVE  IndInv'
<1> DEFINE r == [k[i] EXCEPT !.pc = "fill"]
<1>1. /\ k[i].pc = "open" /\ k[i].op # "none" /\ up
      /\ k[i] \in TaskType /\ TaskOK(k[i]) /\ TaskNode(k[i], mem)
  BY TaskHere DEF OpenFile, At, TaskOK
<1>2. /\ r \in TaskType /\ TaskOK(r) /\ TaskNode(r, mem) /\ r.pc = "fill"
      /\ r.op = k[i].op /\ r.d = k[i].d /\ r.v = k[i].v
  BY <1>1 DEF TaskType, TaskOK, TaskNode
<1>3. /\ Goto(i, r) /\ file' = Torn
      /\ UNCHANGED <<mem, peer, up, tun, minted, revoked, crashes, faults>>
  BY DEF OpenFile, hist
<1> HIDE DEF r
<1>4. MoveOK(r)
  BY <1>2, TaskHere DEF MoveOK
<1>5. QED
  BY <1>1, <1>2, <1>3, <1>4, RestSame, QuietStep DEF Reserving, Marking

\* Whatever ends a write: the request goes on, or is over.
LEMMA WriteEnds ==
    ASSUME IndInv, NEW i \in Tasks, k[i].pc \in {"open", "fill"},
           file' \in Lists \cup {Torn}, faults' \in Nat,
           UNCHANGED <<mem, peer, up, tun, minted, revoked, crashes>>,
           NEW r, Goto(i, r),
           r = Written(i) \/ (r = Blank /\ k[i].op \in {"advertise", "revoke"})
    PROVE  IndInv'
<1>1. /\ k[i].op # "none" /\ up /\ k[i] \in TaskType /\ TaskOK(k[i])
      /\ TaskNode(k[i], mem)
  BY TaskHere DEF TaskOK
<1>2. /\ r \in TaskType /\ TaskOK(r) /\ r.pc \in {"idle", "lock", "drop"}
      /\ \/ r = Blank /\ k[i].op # "stop"
         \/ r.op = k[i].op /\ r.d = k[i].d /\ r.op # "move"
  BY WrittenOK, BlankOK
<1>3. TaskNode(r, mem)
  BY <1>2 DEF TaskNode
<1>4. /\ k[i].op \in Reserving /\ r.op \notin Reserving =>
            mem[k[i].d][k[i].d] = "on" \/ tun[k[i].d] = "gone"
      /\ MoveOK(r)
  BY <1>1, <1>2, BlankOK, TaskHere DEF TaskNode, Reserving, MoveOK
<1>5. crashes' \in Nat /\ tun' \in [Tunnels -> {"new", "made", "gone"}] /\ GoneStays
  BY DEF IndInv, TypeOK, GoneStays
<1>6. k[i].pc \notin Marking /\ r.pc \notin Marking
  BY <1>2 DEF Marking
<1>7. /\ r.op # "none" => r.op = k[i].op /\ r.d = k[i].d
  BY <1>2, BlankOK
<1>8. QED
  BY <1>1, <1>2, <1>3, <1>4, <1>5, <1>6, <1>7, QuietStep DEF Reserving

\* The whole text, or two overlapping texts, end in a file of its type.
LEMMA FillFileOK ==
    ASSUME IndInv, NEW i \in Tasks, FillFile(i)
    PROVE  IndInv'
<1>1. k[i].pc = "fill" /\ k[i].snap \in Lists
  BY TaskHere DEF FillFile, At, TaskType
<1>2. /\ file' \in Lists \cup {Torn} /\ faults' \in Nat /\ Goto(i, Written(i))
      /\ UNCHANGED <<mem, peer, up, tun, minted, revoked, crashes>>
  BY <1>1 DEF FillFile, hist, IndInv, TypeOK
<1>3. QED
  BY <1>1, <1>2, WriteEnds

\* A failed write ends a peer request and is a warning for a tunnel's.
LEMMA WriteFailsOK ==
    ASSUME IndInv, NEW i \in Tasks, WriteFails(i)
    PROVE  IndInv'
<1> DEFINE r == IF k[i].op \in {"advertise", "revoke"} THEN Blank ELSE Written(i)
<1>1. /\ k[i].pc \in {"open", "fill"} /\ Goto(i, r)
      /\ file' \in Lists \cup {Torn} /\ faults' \in Nat
      /\ UNCHANGED <<mem, peer, up, tun, minted, revoked, crashes>>
  BY DEF WriteFails, IndInv, TypeOK
<1>2. r = Written(i) \/ (r = Blank /\ k[i].op \in {"advertise", "revoke"})
  OBVIOUS
<1> HIDE DEF r
<1>3. QED
  BY <1>1, <1>2, WriteEnds

\* The end of a task that takes its tunnel's node with it: nobody else is
\* using that node.
LEMMA UnbuildNodes ==
    ASSUME IndInv, NEW i \in Tasks, k[i].d \in Tunnels, Goto(i, Blank), UNCHANGED <<up, tun>>,
           mem' = [mem EXCEPT ![k[i].d] = None],
           k[i].op \in Reserving \/ ~Busy(k[i].d)
    PROVE  NodesOK'
<1> DEFINE t == k[i].d
<1>1. /\ mem \in [Nodes -> Lists \cup {None}] /\ t \in Nodes
      /\ k' = [k EXCEPT ![i] = Blank] /\ k \in [Tasks -> TaskType]
  BY DEF IndInv, TypeOK, Goto, Nodes
<1>2. \A x, y \in Tasks : k[x].op \in Reserving /\ k[y].op \in Reserving
                            /\ k[x].d = k[y].d => x = y
  BY DEF IndInv, NodesOK
<1>3. ASSUME NEW j \in Tasks, j # i, k[j].op \in Reserving PROVE k[j].d # t
  BY <1>2, <1>3 DEF Busy, Reserving
<1>4. \A j \in Tasks : TaskOK(k'[j]) /\ TaskNode(k'[j], mem') /\ (k'[j].op # "none" => up')
  <2> SUFFICES ASSUME NEW j \in Tasks
               PROVE  TaskOK(k'[j]) /\ TaskNode(k'[j], mem') /\ (k'[j].op # "none" => up')
    OBVIOUS
  <2>1. CASE j = i
    BY <1>1, <2>1, BlankOK
  <2>2. CASE j # i
    <3>1. k'[j] = k[j] /\ k[j] \in TaskType /\ TaskOK(k[j]) /\ TaskNode(k[j], mem)
      BY <1>1, <2>2, TaskHere
    <3>2. k[j].op # "none" => k[j].n \in Nodes /\ k[j].n # t
      BY <1>3, <2>2, <3>1, OwnNode DEF TaskOK
    <3>3. TaskNode(k[j], mem')
      BY <1>1, <3>1, <3>2 DEF TaskNode, TaskOK
    <3>4. QED
      BY <3>1, <3>3, TaskHere
  <2>3. QED
    BY <2>1, <2>2
<1>5. \A x, y \in Tasks : k'[x].op \in Reserving /\ k'[y].op \in Reserving
                            /\ k'[x].d = k'[y].d => x = y
  BY <1>1, <1>2, BlankOK DEF Reserving
<1>6. RunningServed'
  <2> SUFFICES ASSUME NEW u \in Tunnels, mem'[u] # None, ~Busy(u)', tun'[u] # "gone"
               PROVE  mem'[u][u] = "on"
    BY DEF RunningServed
  <2>1. u # t /\ mem'[u] = mem[u]
    BY <1>1 DEF Nodes
  <2>2. ~Busy(u)
    BY <1>1, <2>1 DEF Busy
  <2>3. QED
    BY <2>1, <2>2 DEF IndInv, NodesOK, RunningServed
<1>7. up' => mem'[Control] # None
  BY <1>1, IdsDistinct DEF IndInv, NodesOK, Nodes
<1>8. MovesOK'
  <2> SUFFICES ASSUME NEW j \in Tasks, k'[j].op = "move", tun'[k'[j].d] # "gone"
               PROVE  k'[j].v = "on" /\ mem'[k'[j].d][k'[j].d] = "on"
    BY DEF MovesOK
  <2>1. j # i /\ k'[j] = k[j]
    BY <1>1, BlankOK
  <2>2. MoveOK(k[j]) /\ k[j].d \in Tunnels
    BY <2>1, TaskHere DEF TaskOK
  <2>3. k[j].d # t /\ mem'[k[j].d] = mem[k[j].d]
    BY <1>1, <1>3, <2>1, <2>2 DEF Reserving, Nodes
  <2>4. QED
    BY <2>1, <2>2, <2>3 DEF MoveOK
<1>9. QED
  BY <1>4, <1>5, <1>6, <1>7, <1>8 DEF NodesOK

\* The running entry goes, and the node with it.
LEMMA DropNodeOK ==
    ASSUME IndInv, NEW i \in Tasks, DropNode(i)
    PROVE  IndInv'
<1>1. /\ k[i].pc = "drop" /\ k[i].op \in {"stop", "delete"} /\ up
      /\ k[i] \in TaskType /\ k[i].d \in Tunnels
  BY TaskHere DEF DropNode, At, TaskOK
<1>2. UNCHANGED <<file, adv, advFile, lock, dropped, peer, up, tun, minted, revoked,
                 crashes, faults>>
  BY DEF DropNode, hist, peer
<1>3. Goto(i, Blank)
  BY DEF DropNode
<1>4. CASE k[i].op = "delete" /\ mem' = mem
  BY <1>1, <1>2, <1>3, <1>4, BlankOK, RestSame, QuietStep DEF Reserving, Marking, MoveOK
<1>5. CASE mem' = [mem EXCEPT ![k[i].d] = None] /\ (k[i].op = "stop" \/ ~Busy(k[i].d))
  <2>1. TypeOK'
    BY <1>1, <1>2, <1>3, <1>5, BlankOK DEF IndInv, TypeOK, Goto, Nodes
  <2>2. NodesOK'
    BY <1>1, <1>2, <1>3, <1>5, UnbuildNodes DEF Reserving
  <2>3. PeersOK'
    BY <1>1, <1>2, <1>3, BlankOK, PeerStep DEF Marking
  <2>4. QED
    BY <2>1, <2>2, <2>3 DEF IndInv
<1>6. QED
  BY <1>1, <1>4, <1>5 DEF DropNode

-----------------------------------------------------------------------------
(* mark_advertised, unmark_advertised and save_advertised.                 *)

\* A task that takes advertised_lock or holds it.
LEMMA MarkHere ==
    ASSUME IndInv, NEW i \in Tasks, k[i].pc \in {"lock", "read", "save"}
    PROVE  /\ k[i] \in TaskType /\ TaskOK(k[i]) /\ up
           /\ k[i].op \in {"advertise", "revoke"}
           /\ k[i].pc \in Marking => lock = i
           /\ \A j \in Tasks : k[j].pc \in Marking => lock = j
<1>1. k[i] \in TaskType /\ TaskOK(k[i]) /\ (k[i].op # "none" => up)
  BY TaskHere
<1>2. \A j \in Tasks : TaskMark(j)
  BY TaskHere
<1>3. k[i].op \in {"advertise", "revoke"}
  BY <1>1 DEF TaskOK, TaskType
<1>4. QED
  BY <1>1, <1>2, <1>3 DEF TaskMark

\* The ids of two requests, as IndInv has them.
LEMMA Pairs ==
    ASSUME IndInv, NEW x \in Tasks, NEW y \in Tasks, k[x].op = "advertise",
           k[x].d = k[y].d
    PROVE  /\ k[y].op = "advertise" => x = y
           /\ k[y].op = "revoke" => k[x].pc \in Marking
BY DEF IndInv, PeersOK, RevokedForgotten

\* A step of mark or unmark leaves the nodes as they are.
LEMMA MarkNodes ==
    ASSUME IndInv, NEW i \in Tasks, k[i].pc \in {"lock", "read", "save"},
           NEW r \in TaskType, Goto(i, r), UNCHANGED <<mem, up, tun>>, TaskOK(r),
           r.pc \in {"idle", "read", "save"}, r.op \in {"none", k[i].op}
    PROVE  NodesOK'
<1>1. k[i].op \in {"advertise", "revoke"} /\ up
  BY MarkHere
<1>2. TaskNode(r, mem)
  BY DEF TaskNode
<1>3. QED
  BY <1>1, <1>2, NodeStep DEF Reserving, MoveOK, GoneStays

\* The set is changed under the lock.
LEMMA TakeLockOK ==
    ASSUME IndInv, NEW i \in Tasks, TakeLock(i)
    PROVE  IndInv'
<1> DEFINE b == k[i].d \in adv
           r == [k[i] EXCEPT !.pc = "read", !.had = b]
<1>1. /\ k[i].pc = "lock" /\ k[i] \in TaskType /\ TaskOK(k[i]) /\ up /\ lock = None
      /\ k[i].op \in {"advertise", "revoke"} /\ k[i].d \in Peers
      /\ \A j \in Tasks : k[j].pc \notin Marking
  BY MarkHere, NodesDistinct DEF TakeLock, At, TaskOK
<1>2. /\ r \in TaskType /\ TaskOK(r) /\ r.pc = "read" /\ r.op = k[i].op /\ r.d = k[i].d
      /\ (r.had <=> k[i].d \in adv)
  <2>1. b \in BOOLEAN /\ (b <=> k[i].d \in adv)
    OBVIOUS
  <2> HIDE DEF b
  <2>2. /\ r \in TaskType /\ TaskOK(r) /\ r.pc = "read" /\ r.op = k[i].op
        /\ r.d = k[i].d /\ r.had = b
    BY <1>1, <2>1 DEF TaskType, TaskOK
  <2>3. QED
    BY <2>1, <2>2
<1>3. /\ Goto(i, r) /\ lock' = i /\ adv' = Changed(i, adv)
      /\ UNCHANGED <<file, mem, advFile, dropped, up, tun, minted, revoked, crashes, faults>>
  BY DEF TakeLock, hist
<1>4. k' = [k EXCEPT ![i] = r] /\ k \in [Tasks -> TaskType]
  BY <1>3 DEF Goto, IndInv, TypeOK
<1>5. adv \ dropped = advFile \ dropped
  BY <1>1 DEF IndInv, PeersOK, RevokedForgotten, AdvertisedSaved
<1> HIDE DEF r
<1>6. TypeOK'
  BY <1>1, <1>2, <1>3, <1>4 DEF IndInv, TypeOK, Changed
<1>7. NodesOK'
  BY <1>1, <1>2, <1>3, MarkNodes
<1>8. \A j \in Tasks : TaskMark(j)
  BY TaskHere
<1>9. ASSUME NEW j \in Tasks PROVE TaskMark(j)'
  <2>1. CASE j = i
    <3>1. k'[i] = r /\ (r.had => r.d \notin revoked)
      BY <1>2, <1>4 DEF IndInv, PeersOK, RevokedForgotten
    <3>2. CASE k[i].op = "advertise"
      <4>1. r.d \notin advFile /\ r.d \in minted /\ r.d \notin revoked
        BY <1>1, <1>2, <1>8, <3>2 DEF TaskMark, Marking
      <4>2. adv' \ dropped' = (advFile' \cup {r.d}) \ dropped'
        BY <1>2, <1>3, <1>5, <3>2 DEF Changed
      <4>3. QED
        BY <1>2, <1>3, <2>1, <3>1, <3>2, <4>1, <4>2 DEF TaskMark, Marking
    <3>3. CASE k[i].op = "revoke"
      <4>1. r.d \in minted
        BY <1>2, <1>8, <3>3 DEF TaskMark
      <4>2. r.d \notin adv' /\ adv' \ dropped' = (advFile' \ {r.d}) \ dropped'
        BY <1>2, <1>3, <1>5, <3>3 DEF Changed
      <4>3. r.d \notin dropped' => (r.had <=> r.d \in advFile')
        BY <1>2, <1>3, <1>5
      <4>4. QED
        BY <1>2, <1>3, <2>1, <3>1, <3>3, <4>1, <4>2, <4>3 DEF TaskMark, Marking
    <3>4. QED
      BY <1>1, <3>2, <3>3
  <2>2. CASE j # i
    <3>1. k'[j] = k[j] /\ k[j].pc \notin Marking
      BY <1>1, <1>4, <2>2
    <3>2. k[j].op = "advertise" /\ k[i].op = "advertise" => k[j].d # k[i].d
      BY <2>2, Pairs
    <3>3. QED
      BY <1>1, <1>3, <1>8, <3>1, <3>2 DEF TaskMark, Marking, Changed
  <2>3. QED
    BY <2>1, <2>2
<1>10. \A x, y \in Tasks : k'[x].op = "advertise" /\ k'[x].d = k'[y].d =>
            /\ k'[y].op = "advertise" => x = y
            /\ k'[y].op = "revoke" => k'[x].pc \in Marking
  BY <1>1, <1>2, <1>4, Pairs DEF Marking
<1>11. k'[lock'].pc \in Marking
  BY <1>2, <1>3, <1>4 DEF Marking
<1>12. /\ adv' \cup advFile' \cup revoked' \subseteq minted'
       /\ \A a \in revoked' : a \notin adv' /\ a \notin advFile'
  BY <1>1, <1>3, <1>8 DEF Changed, TaskMark, IndInv, PeersOK, RevokedForgotten
<1>13. AdvertisedSaved'
  BY <1>3, NodesDistinct DEF AdvertisedSaved
<1>14. QED
  BY <1>6, <1>7, <1>9, <1>10, <1>11, <1>12, <1>13 DEF IndInv, PeersOK, RevokedForgotten

\* save_advertised reads the set that is to be written.
LEMMA ReadAdvertisedOK ==
    ASSUME IndInv, NEW i \in Tasks, ReadAdvertised(i)
    PROVE  IndInv'
<1> DEFINE r == [k[i] EXCEPT !.pc = "save", !.keep = adv]
<1>1. /\ k[i].pc = "read" /\ k[i] \in TaskType /\ TaskOK(k[i])
      /\ k[i].op \in {"advertise", "revoke"} /\ lock = i
  BY MarkHere DEF ReadAdvertised, At, Marking
<1>2. /\ r \in TaskType /\ TaskOK(r) /\ r.pc = "save" /\ r.op = k[i].op /\ r.d = k[i].d
      /\ r.had = k[i].had /\ r.keep = adv
  BY <1>1 DEF TaskType, TaskOK, IndInv, TypeOK
<1>3. /\ Goto(i, r)
      /\ UNCHANGED <<file, mem, adv, advFile, lock, dropped, up, tun, minted, revoked,
                     crashes, faults>>
  BY DEF ReadAdvertised, hist, peer
<1>4. k' = [k EXCEPT ![i] = r] /\ k \in [Tasks -> TaskType]
  BY <1>3 DEF Goto, IndInv, TypeOK
<1> HIDE DEF r
<1>5. TypeOK'
  BY <1>2, <1>3, <1>4 DEF IndInv, TypeOK
<1>6. NodesOK'
  BY <1>1, <1>2, <1>3, MarkNodes
<1>7. \A j \in Tasks : TaskMark(j)
  BY TaskHere
<1>8. \A j \in Tasks : TaskMark(j)'
  BY <1>1, <1>2, <1>3, <1>4, <1>7 DEF TaskMark, Marking
<1>9. \A x, y \in Tasks : k'[x].op = "advertise" /\ k'[x].d = k'[y].d =>
            /\ k'[y].op = "advertise" => x = y
            /\ k'[y].op = "revoke" => k'[x].pc \in Marking
  BY <1>1, <1>2, <1>4, Pairs DEF Marking
<1>10. lock' # None => k'[lock'].pc \in Marking
  BY <1>1, <1>2, <1>3, <1>4 DEF Marking
<1>11. QED
  BY <1>3, <1>5, <1>6, <1>8, <1>9, <1>10 DEF IndInv, PeersOK, RevokedForgotten, AdvertisedSaved

\* The file is replaced and the request answered.
LEMMA SaveAdvertisedOK ==
    ASSUME IndInv, NEW i \in Tasks, SaveAdvertised(i)
    PROVE  IndInv'
<1>1. /\ k[i].pc = "save" /\ k[i] \in TaskType /\ TaskOK(k[i]) /\ k[i].d \in Peers
      /\ k[i].op \in {"advertise", "revoke"} /\ lock = i
      /\ \A j \in Tasks : j # i => k[j].pc \notin Marking
  BY MarkHere DEF SaveAdvertised, At, Marking, TaskOK
<1>2. \A j \in Tasks : TaskMark(j)
  BY TaskHere
<1>3. k[i].keep = adv
  BY <1>1, <1>2 DEF TaskMark
<1>4. /\ Goto(i, Blank) /\ lock' = None /\ advFile' = adv /\ dropped' = {}
      /\ revoked' = IF k[i].op = "revoke" THEN revoked \cup {k[i].d} ELSE revoked
      /\ UNCHANGED <<file, mem, adv, up, tun, minted, crashes, faults>>
  BY <1>3 DEF SaveAdvertised
<1>5. k' = [k EXCEPT ![i] = Blank] /\ k \in [Tasks -> TaskType]
  BY <1>4 DEF Goto, IndInv, TypeOK
<1>6. TypeOK'
  BY <1>1, <1>4, <1>5, BlankOK DEF IndInv, TypeOK
<1>7. NodesOK'
  BY <1>1, <1>4, BlankOK, MarkNodes
<1>8. ASSUME NEW j \in Tasks PROVE TaskMark(j)'
  <2>1. CASE j = i
    BY <1>5, <2>1, BlankOK DEF TaskMark, Marking
  <2>2. CASE j # i
    <3>1. k'[j] = k[j] /\ k[j].pc \notin Marking
      BY <1>1, <1>5, <2>2
    <3>2. k[j].op = "advertise" /\ k[i].op = "revoke" => k[j].d # k[i].d
      BY <3>1, Pairs
    <3>3. QED
      BY <1>2, <1>4, <3>1, <3>2 DEF TaskMark, Marking
  <2>3. QED
    BY <2>1, <2>2
<1>9. \A x, y \in Tasks : k'[x].op = "advertise" /\ k'[x].d = k'[y].d =>
            /\ k'[y].op = "advertise" => x = y
            /\ k'[y].op = "revoke" => k'[x].pc \in Marking
  BY <1>5, BlankOK, Pairs
<1>10. /\ adv' \cup advFile' \cup revoked' \subseteq minted'
       /\ \A a \in revoked' : a \notin adv' /\ a \notin advFile'
  BY <1>1, <1>2, <1>4 DEF TaskMark, Marking, IndInv, PeersOK, RevokedForgotten
<1>11. QED
  BY <1>4, <1>6, <1>7, <1>8, <1>9, <1>10 DEF IndInv, PeersOK, RevokedForgotten, AdvertisedSaved

\* A failed save takes the change of the set back.
LEMMA SaveFailsOK ==
    ASSUME IndInv, NEW i \in Tasks, SaveFails(i)
    PROVE  IndInv'
<1>1. /\ k[i].pc \in Marking /\ k[i] \in TaskType /\ TaskOK(k[i]) /\ k[i].d \in Peers
      /\ k[i].op \in {"advertise", "revoke"} /\ lock = i
      /\ \A j \in Tasks : j # i => k[j].pc \notin Marking
  BY MarkHere DEF SaveFails, Marking, TaskOK
<1>2. \A j \in Tasks : TaskMark(j)
  BY TaskHere
<1>3. /\ Goto(i, Blank) /\ lock' = None
      /\ UNCHANGED <<file, mem, advFile, dropped, up, tun, minted, revoked, crashes>>
      /\ faults' \in Nat
  BY DEF SaveFails, IndInv, TypeOK
<1>4. /\ adv' \ dropped = advFile \ dropped
      /\ adv' \subseteq minted /\ \A a \in revoked : a \notin adv'
      /\ k[i].op = "advertise" => adv' = adv \ {k[i].d}
      /\ k[i].op = "revoke" => adv' \subseteq adv \cup {k[i].d}
  <2>1. CASE k[i].op = "advertise"
    BY <1>1, <1>2, <2>1 DEF SaveFails, TaskMark, IndInv, PeersOK, RevokedForgotten
  <2>2. CASE k[i].op = "revoke"
    BY <1>1, <1>2, <2>2 DEF SaveFails, TaskMark, IndInv, PeersOK, RevokedForgotten
  <2>3. QED
    BY <1>1, <2>1, <2>2
<1>5. k' = [k EXCEPT ![i] = Blank] /\ k \in [Tasks -> TaskType]
  BY <1>3 DEF Goto, IndInv, TypeOK
<1>6. TypeOK'
  BY <1>1, <1>3, <1>4, <1>5, BlankOK DEF IndInv, TypeOK, SaveFails
<1>7. NodesOK'
  BY <1>1, <1>3, BlankOK, MarkNodes DEF Marking
<1>8. ASSUME NEW j \in Tasks PROVE TaskMark(j)'
  <2>1. CASE j = i
    BY <1>5, <2>1, BlankOK DEF TaskMark, Marking
  <2>2. CASE j # i
    <3>1. k'[j] = k[j] /\ k[j].pc \notin Marking
      BY <1>1, <1>5, <2>2
    <3>2. k[j].op = "advertise" /\ k[i].op = "revoke" => k[j].d # k[i].d
      BY <3>1, Pairs
    <3>3. QED
      BY <1>1, <1>2, <1>3, <1>4, <3>1, <3>2 DEF TaskMark, Marking
  <2>3. QED
    BY <2>1, <2>2
<1>9. \A x, y \in Tasks : k'[x].op = "advertise" /\ k'[x].d = k'[y].d =>
            /\ k'[y].op = "advertise" => x = y
            /\ k'[y].op = "revoke" => k'[x].pc \in Marking
  BY <1>5, BlankOK, Pairs
<1>10. QED
  BY <1>3, <1>4, <1>6, <1>7, <1>8, <1>9 DEF IndInv, PeersOK, RevokedForgotten, AdvertisedSaved

-----------------------------------------------------------------------------
(* A request that is cut off.                                              *)

\* The end of a task between the change of the advertised set and its save:
\* the set stays changed, the file is the old one or the new one.
LEMMA AbandonMark ==
    ASSUME IndInv, NEW i \in Tasks, Abandon(i), k[i].pc \in Marking
    PROVE  PeersOK'
<1>1. /\ k[i] \in TaskType /\ TaskOK(k[i]) /\ k[i].d \in Peers
      /\ k[i].op \in {"advertise", "revoke"} /\ lock = i
      /\ \A j \in Tasks : j # i => k[j].pc \notin Marking
  BY MarkHere DEF Marking, TaskOK
<1>2. \A j \in Tasks : TaskMark(j)
  BY TaskHere
<1>3. /\ k' = [k EXCEPT ![i] = Blank] /\ k \in [Tasks -> TaskType] /\ lock' = None
      /\ UNCHANGED <<adv, up, minted, revoked>>
  BY <1>1 DEF Abandon, Goto, IndInv, TypeOK
<1>4. \/ advFile' = advFile /\ dropped' = dropped \cup {k[i].d}
      \/ advFile' = adv /\ dropped' = {}
  BY <1>1, <1>2 DEF Abandon, TaskMark, Marking
<1>5. ASSUME NEW j \in Tasks PROVE TaskMark(j)'
  <2>1. CASE j = i
    BY <1>3, <2>1, BlankOK DEF TaskMark, Marking
  <2>2. CASE j # i
    <3>1. k'[j] = k[j] /\ k[j].pc \notin Marking
      BY <1>1, <1>3, <2>2
    <3>2. QED
      BY <1>2, <1>3, <1>4, <3>1 DEF TaskMark, Marking
  <2>3. QED
    BY <2>1, <2>2
<1>6. \A x, y \in Tasks : k'[x].op = "advertise" /\ k'[x].d = k'[y].d =>
            /\ k'[y].op = "advertise" => x = y
            /\ k'[y].op = "revoke" => k'[x].pc \in Marking
  BY <1>3, BlankOK, Pairs
<1>7. AdvertisedSaved'
  BY <1>1, <1>2, <1>4, <1>3 DEF TaskMark, AdvertisedSaved
<1>8. RevokedForgotten' /\ adv' \cup advFile' \cup revoked' \subseteq minted'
  BY <1>3, <1>4 DEF IndInv, PeersOK, RevokedForgotten
<1>9. QED
  BY <1>3, <1>5, <1>6, <1>7, <1>8 DEF PeersOK

\* A request cut off at any await leaves the invariant true.
LEMMA AbandonOK ==
    ASSUME IndInv, NEW i \in Tasks, Abandon(i)
    PROVE  IndInv'
<1>1. /\ k[i] \in TaskType /\ TaskOK(k[i]) /\ k[i].op # "none" /\ up
      /\ Goto(i, Blank) /\ UNCHANGED <<adv, up, tun, minted, revoked, crashes>>
  BY TaskHere DEF Abandon, TaskOK
<1>2. NodesOK'
  <2>1. CASE k[i].op \in {"start", "stop"}
    <3>1. k[i].d \in Tunnels /\ mem' = [mem EXCEPT ![k[i].d] = None]
      BY <1>1, <2>1 DEF Abandon, TaskOK
    <3>2. QED
      BY <1>1, <2>1, <3>1, UnbuildNodes DEF Reserving
  <2>2. CASE k[i].op \notin {"start", "stop"}
    <3>1. UNCHANGED mem
      BY <2>2 DEF Abandon
    <3>2. MoveOK(k[i])
      BY TaskHere
    <3>3. QED
      BY <1>1, <2>2, <3>1, <3>2, BlankOK, NodeStep DEF Reserving, MoveOK, GoneStays
  <2>3. QED
    BY <2>1, <2>2
<1>3. PeersOK'
  <2>1. CASE k[i].pc \notin Marking
    <3>1. lock # i
      BY <2>1, NodesDistinct DEF IndInv, PeersOK
    <3>2. UNCHANGED <<peer, up, minted, revoked>>
      BY <2>1, <3>1 DEF Abandon, peer, Marking
    <3>3. QED
      BY <1>1, <2>1, <3>2, BlankOK, PeerStep DEF Marking
  <2>2. QED
    BY <2>1, AbandonMark
<1>4. TypeOK'
  <2>1. mem' \in [Nodes -> Lists \cup {None}]
    BY DEF Abandon, IndInv, TypeOK
  <2>2. file' \in Lists \cup {Torn} /\ lock' \in Tasks \cup {None} /\ faults' \in Nat
    BY <1>1 DEF Abandon, IndInv, TypeOK, TaskType
  <2>3. advFile' \subseteq Peers
    BY <1>1 DEF Abandon, IndInv, TypeOK, TaskType
  <2>4. dropped' \subseteq Peers
    <3>1. CASE k[i].pc \in Marking
      <4>1. k[i].d \in Peers
        BY <3>1, MarkHere DEF Marking, TaskOK
      <4>2. QED
        BY <4>1 DEF Abandon, IndInv, TypeOK
    <3>2. CASE k[i].pc \notin Marking
      BY <3>2 DEF Abandon, Marking, IndInv, TypeOK
    <3>3. QED
      BY <3>1, <3>2
  <2>5. k' \in [Tasks -> TaskType]
    BY <1>1, BlankOK DEF Goto, IndInv, TypeOK
  <2>6. QED
    BY <1>1, <2>1, <2>2, <2>3, <2>4, <2>5 DEF IndInv, TypeOK
<1>5. QED
  BY <1>2, <1>3, <1>4 DEF IndInv

-----------------------------------------------------------------------------
(* Restart.                                                                *)

\* A crash ends every task and every node.
LEMMA CrashOK ==
    ASSUME IndInv, Crash
    PROVE  IndInv'
<1>1. /\ k' = [i \in Tasks |-> Blank] /\ mem' = [n \in Nodes |-> None]
      /\ adv' = {} /\ lock' = None /\ dropped' = {} /\ up' = FALSE /\ crashes' \in Nat
      /\ UNCHANGED <<file, advFile, tun, minted, revoked, faults>>
  BY DEF Crash, IndInv, TypeOK
<1>2. TypeOK'
  BY <1>1, BlankOK DEF IndInv, TypeOK
<1>3. NodesOK'
  <2>1. RunningServed'
    BY <1>1 DEF RunningServed, Nodes
  <2>2. \A i \in Tasks : k'[i] = Blank
    BY <1>1
  <2>3. QED
    BY <1>1, <2>1, <2>2, BlankOK DEF NodesOK, Reserving, MovesOK
<1>4. PeersOK'
  <2>1. \A i \in Tasks : TaskMark(i)'
    BY <1>1, BlankOK DEF TaskMark, Marking
  <2>2. QED
    BY <1>1, <2>1, BlankOK DEF IndInv, PeersOK, RevokedForgotten, AdvertisedSaved
<1>5. QED
  BY <1>2, <1>3, <1>4 DEF IndInv

\* A start that gets through: the lists are the ones on disk.
LEMMA BootOK ==
    ASSUME IndInv, Boot
    PROVE  IndInv'
<1>1. /\ ~up /\ up' = TRUE /\ adv' = advFile
      /\ UNCHANGED <<file, advFile, lock, dropped, tun, minted, revoked, crashes, k>>
      /\ file \in Lists /\ file # None /\ faults' \in Nat
  BY MarkersDistinct DEF Boot, hist, IndInv, TypeOK
<1>2. \A i \in Tasks : /\ k[i].op = "none" /\ k[i].pc = "idle" /\ TaskOK(k[i])
                       /\ TaskMark(i)
  BY <1>1, TaskHere DEF TaskOK
<1>3. lock = None
  BY <1>2 DEF IndInv, TypeOK, PeersOK, RevokedForgotten, Marking
<1>4. /\ mem' \in [Nodes -> Lists \cup {None}] /\ mem'[Control] # None
      /\ \A t \in Tunnels : mem'[t] = mem[t]
  BY <1>1, IdsDistinct, NodesDistinct DEF Boot, IndInv, TypeOK, Nodes
<1>5. TypeOK'
  BY <1>1, <1>4 DEF IndInv, TypeOK
<1>6. NodesOK'
  <2>1. RunningServed'
    BY <1>1, <1>4 DEF RunningServed, Busy, IndInv, NodesOK
  <2>2. \A i \in Tasks : TaskNode(k'[i], mem')
    BY <1>1, <1>2 DEF TaskNode
  <2>3. QED
    BY <1>1, <1>2, <1>4, <2>1, <2>2 DEF NodesOK, Reserving, MovesOK
<1>7. PeersOK'
  <2>1. \A i \in Tasks : TaskMark(i)'
    BY <1>1, <1>2 DEF TaskMark, Marking
  <2>2. QED
    BY <1>1, <1>2, <1>3, <2>1 DEF IndInv, PeersOK, RevokedForgotten, AdvertisedSaved
<1>8. QED
  BY <1>5, <1>6, <1>7 DEF IndInv

-----------------------------------------------------------------------------
(* The theorems.                                                           *)

\* A first start, with no state file, satisfies IndInv.
LEMMA InitOK ==
    ASSUME Init
    PROVE  IndInv
<1>1. Empty \in Lists /\ Empty # None
  BY MarkersDistinct DEF Empty, Lists, Vals
<1>2. TypeOK
  BY <1>1, BlankOK DEF Init, TypeOK
<1>3. NodesOK
  <2>1. RunningServed
    BY IdsDistinct DEF Init, RunningServed, Nodes
  <2>2. \A i \in Tasks : k[i] = Blank
    BY DEF Init
  <2>3. mem[Control] # None
    BY <1>1 DEF Init, Nodes
  <2>4. QED
    BY <2>1, <2>2, <2>3, BlankOK DEF NodesOK, Reserving, MovesOK
<1>4. PeersOK
  BY BlankOK DEF Init, PeersOK, RevokedForgotten, TaskMark, Marking, AdvertisedSaved
<1>5. QED
  BY <1>2, <1>3, <1>4 DEF IndInv

\* A step that changes nothing: a 404, or a start that fails.
LEMMA Stutter ==
    ASSUME IndInv, UNCHANGED vars
    PROVE  IndInv'
<1>1. UNCHANGED <<file, mem, adv, advFile, lock, dropped, up, tun, minted, revoked, k,
                 crashes, faults>>
  BY DEF vars
<1>2. TypeOK'
  BY <1>1 DEF IndInv, TypeOK
<1>3. NodesOK'
  BY <1>1 DEF IndInv, NodesOK, RunningServed, MovesOK, Busy
<1>4. PeersOK'
  BY <1>1 DEF IndInv, PeersOK, RevokedForgotten, TaskMark, AdvertisedSaved
<1>5. QED
  BY <1>2, <1>3, <1>4 DEF IndInv

\* Every step of the daemon, a crash and a restart included, keeps IndInv.
THEOREM Inductive ==
    ASSUME IndInv, [Next]_vars
    PROVE  IndInv'
<1>1. CASE UNCHANGED vars
  BY <1>1, Stutter
<1>2. ASSUME NEW i \in Tasks, Request(i) PROVE IndInv'
  BY <1>2, AdvertiseOK, RevokeOK, CreateOK, StartOK, RepointOK, StopOK, DeleteOK, Stutter
     DEF Request, NotFound
<1>3. ASSUME NEW i \in Tasks, Update(i) PROVE IndInv'
  BY <1>3, BuildNodeOK, LookForAdOK, LoadOK, StoreOK, OpenFileOK, FillFileOK, WriteFailsOK, DropNodeOK
     DEF Update
<1>4. ASSUME NEW i \in Tasks, Mark(i) PROVE IndInv'
  BY <1>4, TakeLockOK, ReadAdvertisedOK, SaveAdvertisedOK, SaveFailsOK DEF Mark
<1>5. ASSUME NEW i \in Tasks, Abandon(i) PROVE IndInv'
  BY <1>5, AbandonOK
<1>6. CASE Crash \/ Boot \/ BootFails
  BY <1>6, CrashOK, BootOK, Stutter DEF BootFails
<1>7. QED
  BY <1>1, <1>2, <1>3, <1>4, <1>5, <1>6 DEF Next

\* IndInv holds in every reachable state of state.yml, its copies and the
\* advertised set.
THEOREM Invariance == Spec => []IndInv
<1>1. Init => IndInv
  BY InitOK
<1>2. IndInv /\ [Next]_vars => IndInv'
  BY Inductive
<1>3. QED
  BY <1>1, <1>2, PTL DEF Spec

\* No node's copy is ever torn, and every variable has its type.
THEOREM TypeCorrect == Spec => []TypeOK
<1>1. IndInv => TypeOK
  BY DEF IndInv
<1>2. QED
  BY <1>1, Invariance, PTL

\* mark_advertised and unmark_advertised keep advertised.json and the set in
\* memory the same, over any number of requests, failed saves and restarts.
THEOREM SavedSet == Spec => []AdvertisedSaved
<1>1. IndInv => AdvertisedSaved
  BY DEF IndInv, PeersOK
<1>2. QED
  BY <1>1, Invariance, PTL

\* A revoked id is never advertised again, in memory or on disk.
THEOREM StaysForgotten == Spec => []RevokedForgotten
<1>1. IndInv => RevokedForgotten
  BY DEF IndInv, PeersOK
<1>2. QED
  BY <1>1, Invariance, PTL

\* A running tunnel's node has its entry enabled, whatever the other nodes
\* write to the shared file.
THEOREM Served == Spec => []RunningServed
<1>1. IndInv => RunningServed
  BY DEF IndInv, NodesOK
<1>2. QED
  BY <1>1, Invariance, PTL
-----------------------------------------------------------------------------
(* RevokedUnreachable.                                                     *)

Updating == {"store", "open", "fill"}

\* The first assumption: no two updates of the peer node's list overlap.
PeerUpdatesApart ==
    \A i, j \in Tasks :
        /\ k[i].pc \in Updating /\ k[i].n = PeerNode
        /\ k[j].pc \in Updating /\ k[j].n = PeerNode
        => i = j

\* A revoke of the advertisement is past its update of the peer node.
Past == {"lock", "read", "save"}

Gone(a) ==
    \/ a \in revoked
    \/ \E i \in Tasks : k[i].op = "revoke" /\ k[i].d = a /\ k[i].pc \in Past

\* The second: the copy another node writes back does not bring one of them back.
CopiesForget ==
    \A i \in Tasks : k[i].pc \in {"open", "fill"} /\ k[i].n # PeerNode =>
        \A a \in Peers : Gone(a) => k[i].snap[a] # "on"

\* What an update of the peer node is to write, and what a revoke has done by then.
PeerTask(r, list) ==
    /\ r.op = "revoke" => list # None /\ r.v = "none"
    /\ r.op = "revoke" /\ r.pc \notin {"load", "store"} => list[r.d] # "on"
    /\ r.n = PeerNode /\ r.pc = "store" => r.snap = [list EXCEPT ![r.d] = r.v]
    /\ r.n = PeerNode /\ r.pc \in {"open", "fill"} => r.snap = list

\* The invariant under the first assumption.
PeerInv ==
    /\ \A i \in Tasks : PeerTask(k[i], mem[PeerNode])
    /\ RevokedUnreachable

\* Without a restart the peer node is built before the first revoke.
BuiltFirst == up /\ (mem[PeerNode] = None => revoked = {})

\* Under the second, it is off the file.
FileFollows == file # Torn => \A a \in Peers : Gone(a) => file[a] # "on"

\* A step of one task that leaves the peer node's copy alone, and adds to the revoked ids
\* at most the one it has revoked.
Keeps(i, r) ==
    /\ Goto(i, r)
    /\ mem'[PeerNode] = mem[PeerNode]
    /\ PeerTask(r, mem[PeerNode])
    /\ \/ revoked' = revoked
       \/ /\ k[i].op = "revoke" /\ k[i].pc \notin {"load", "store"}
          /\ revoked' = revoked \cup {k[i].d}

\* Such a step keeps the invariant.
LEMMA KeepsOn ==
    ASSUME IndInv, PeerInv, NEW i \in Tasks, NEW r, Keeps(i, r)
    PROVE  PeerInv'
<1>1. k' = [k EXCEPT ![i] = r] /\ k \in [Tasks -> TaskType]
  BY DEF Keeps, Goto, IndInv, TypeOK
<1>2. \A j \in Tasks : PeerTask(k'[j], mem'[PeerNode])
  BY <1>1 DEF Keeps, PeerInv
<1>3. ASSUME NEW a \in revoked', mem'[PeerNode] # None PROVE mem'[PeerNode][a] # "on"
  <2>1. mem'[PeerNode] = mem[PeerNode]
    BY DEF Keeps
  <2>2. CASE a \in revoked
    BY <1>3, <2>1, <2>2 DEF PeerInv, RevokedUnreachable
  <2>3. CASE a \notin revoked
    <3>1. k[i].op = "revoke" /\ k[i].pc \notin {"load", "store"} /\ a = k[i].d
      BY <1>3, <2>3 DEF Keeps
    <3>2. PeerTask(k[i], mem[PeerNode])
      BY DEF PeerInv
    <3>3. QED
      BY <2>1, <3>1, <3>2 DEF PeerTask
  <2>4. QED
    BY <2>2, <2>3
<1>4. QED
  BY <1>2, <1>3 DEF PeerInv, RevokedUnreachable

\* A record that updates nothing on the peer node.
LEMMA AsidePeer ==
    ASSUME NEW r, r.op # "revoke", r.pc \notin Updating, NEW list
    PROVE  PeerTask(r, list)
BY DEF PeerTask, Updating

\* A request that begins.
LEMMA RequestKeeps ==
    ASSUME IndInv, PeerInv, NEW i \in Tasks, Request(i)
    PROVE  PeerInv'
<1>1. ASSUME NEW r, Goto(i, r), mem' = mem, revoked' = revoked, PeerTask(r, mem[PeerNode])
      PROVE  PeerInv'
  BY <1>1, KeepsOn DEF Keeps
<1>2. ASSUME NEW x \in {"node", "ad", "load", "drop"}, NEW o, o # "revoke", NEW n, NEW d, NEW v,
             Goto(i, [Blank EXCEPT !.pc = x, !.op = o, !.n = n, !.d = d, !.v = v]),
             mem' = mem, revoked' = revoked
      PROVE  PeerInv'
  <2> DEFINE r == [Blank EXCEPT !.pc = x, !.op = o, !.n = n, !.d = d, !.v = v]
  <2>1. r.op = o /\ r.pc = x /\ Goto(i, r)
    BY <1>2 DEF Blank
  <2> HIDE DEF r
  <2>2. PeerTask(r, mem[PeerNode])
    BY <1>2, <2>1, AsidePeer DEF Updating
  <2> QED
    BY <1>1, <1>2, <2>1, <2>2
<1>3. ASSUME NEW a, Advertise(i, a) PROVE PeerInv'
  BY <1>2, <1>3 DEF Advertise
<1>4. ASSUME NEW a, Revoke(i, a) PROVE PeerInv'
  <2> DEFINE r == [Blank EXCEPT !.pc = "load", !.op = "revoke", !.n = PeerNode, !.d = a]
  <2>1. r.pc = "load" /\ r.op = "revoke" /\ r.v = "none" /\ Goto(i, r)
        /\ mem' = mem /\ revoked' = revoked /\ mem[PeerNode] # None
    BY <1>4 DEF Blank, Revoke, hist
  <2> HIDE DEF r
  <2>2. PeerTask(r, mem[PeerNode])
    BY <2>1 DEF PeerTask
  <2> QED
    BY <1>1, <2>1, <2>2
<1>5. ASSUME NEW t, CreateTunnel(i, t) \/ StartTunnel(i, t) \/ RepointTunnel(i, t)
      PROVE  PeerInv'
  BY <1>2, <1>5 DEF CreateTunnel, StartTunnel, RepointTunnel, hist
<1>6. ASSUME NEW t, DeleteTunnel(i, t) PROVE PeerInv'
  <2> DEFINE r == [Blank EXCEPT !.pc = "load", !.op = "delete", !.n = Control, !.d = t]
  <2>1. r.pc = "load" /\ r.op = "delete" /\ Goto(i, r) /\ mem' = mem /\ revoked' = revoked
    BY <1>6 DEF Blank, DeleteTunnel, hist
  <2> HIDE DEF r
  <2>2. PeerTask(r, mem[PeerNode])
    BY <2>1, AsidePeer DEF Updating
  <2> QED
    BY <1>1, <2>1, <2>2
<1>7. ASSUME NEW t, StopTunnel(i, t) PROVE PeerInv'
  <2> DEFINE r == [Blank EXCEPT !.pc = IF tun[t] = "made" THEN "load" ELSE "drop",
                                !.op = "stop", !.d = t, !.v = "off",
                                !.n = IF mem[t] = None THEN Control ELSE t]
  <2>1. r.pc \in {"load", "drop"} /\ r.op = "stop" /\ Goto(i, r) /\ mem' = mem
        /\ revoked' = revoked
    BY <1>7 DEF Blank, StopTunnel, hist
  <2> HIDE DEF r
  <2>2. PeerTask(r, mem[PeerNode])
    BY <2>1, AsidePeer DEF Updating
  <2> QED
    BY <1>1, <2>1, <2>2
<1>8. CASE NotFound(i)
  BY <1>8 DEF NotFound, vars, PeerInv, RevokedUnreachable
<1>9. QED
  BY <1>3, <1>4, <1>5, <1>6, <1>7, <1>8 DEF Request

\* The node is built from a file that is free of what is gone.
LEMMA BuildPeer ==
    ASSUME IndInv, PeerInv, NEW i \in Tasks, BuildNode(i),
           mem[PeerNode] = None /\ file # Torn => \A a \in revoked : file[a] # "on"
    PROVE  PeerInv'
<1>1. k[i] \in TaskType /\ TaskOK(k[i]) /\ k[i].pc = "node" /\ UNCHANGED revoked
  BY TaskHere DEF BuildNode, At, hist
<1>2. k[i].op \in {"advertise", "start"} /\ k[i].n \in Nodes
  BY <1>1 DEF TaskOK
<1>3. ASSUME NEW x \in {"idle", "load"}, NEW r, r.pc = x, r.op # "revoke", Goto(i, r)
      PROVE  PeerInv'
  <2>1. \A list : PeerTask(r, list)
    BY <1>3 DEF PeerTask
  <2>2. CASE mem'[PeerNode] = mem[PeerNode]
    BY <1>1, <1>3, <2>1, <2>2, KeepsOn DEF Keeps
  <2>3. CASE mem[PeerNode] = None /\ file # Torn /\ mem'[PeerNode] = file
    <3>1. k' = [k EXCEPT ![i] = r] /\ k \in [Tasks -> TaskType]
      BY <1>3 DEF Goto, IndInv, TypeOK
    <3>2. ASSUME NEW j \in Tasks PROVE PeerTask(k'[j], mem'[PeerNode])
      <4>1. CASE j = i
        BY <2>1, <3>1, <4>1
      <4>2. CASE j # i
        <5>1. k'[j] = k[j] /\ k[j].op # "revoke"
          BY <2>3, <3>1, <4>2 DEF PeerInv, PeerTask
        <5>2. k[j].n = PeerNode => k[j].pc \notin Updating
          BY <2>3, TaskHere DEF TaskNode, Updating
        <5>3. QED
          BY <5>1, <5>2 DEF PeerTask, Updating
      <4>3. QED
        BY <4>1, <4>2
    <3>3. RevokedUnreachable'
      BY <1>1, <2>3 DEF RevokedUnreachable
    <3>4. QED
      BY <3>2, <3>3 DEF PeerInv
  <2>4. mem'[PeerNode] = mem[PeerNode]
        \/ (mem[PeerNode] = None /\ file # Torn /\ mem'[PeerNode] = file)
    BY <1>2 DEF BuildNode, IndInv, TypeOK, Nodes
  <2>5. QED
    BY <2>2, <2>3, <2>4
<1>4. CASE Goto(i, [k[i] EXCEPT !.pc = "load"])
  <2> DEFINE r == [k[i] EXCEPT !.pc = "load"]
  <2>1. r.pc = "load" /\ r.op # "revoke" /\ Goto(i, r)
    BY <1>1, <1>2, <1>4 DEF TaskType
  <2> HIDE DEF r
  <2> QED
    BY <1>3, <2>1
<1>5. CASE Goto(i, Blank)
  BY <1>3, <1>5, BlankOK
<1>6. QED
  BY <1>4, <1>5 DEF BuildNode

\* A repoint works on its tunnel's node.
LEMMA LookPeer ==
    ASSUME IndInv, PeerInv, NEW i \in Tasks, LookForAd(i)
    PROVE  PeerInv'
<1>1. k[i] \in TaskType /\ k[i].op = "move" /\ mem' = mem /\ revoked' = revoked
  BY TaskHere DEF LookForAd, At, TaskOK, hist
<1>2. ASSUME NEW r, Goto(i, r), r.op # "revoke", r.pc \notin Updating PROVE PeerInv'
  BY <1>1, <1>2, AsidePeer, KeepsOn DEF Keeps
<1>3. ASSUME NEW v, Goto(i, [k[i] EXCEPT !.pc = "load", !.v = v]) PROVE PeerInv'
  <2> DEFINE r == [k[i] EXCEPT !.pc = "load", !.v = v]
  <2>1. r.pc = "load" /\ r.op = "move" /\ Goto(i, r)
    BY <1>1, <1>3 DEF TaskType
  <2> HIDE DEF r
  <2>2. QED
    BY <1>2, <2>1 DEF Updating
<1>4. CASE Goto(i, Blank)
  BY <1>2, <1>4, BlankOK DEF Updating
<1>5. QED
  BY <1>3, <1>4 DEF LookForAd

\* The copy that is changed is the peer node's list.
LEMMA LoadPeer ==
    ASSUME IndInv, PeerInv, NEW i \in Tasks, Load(i)
    PROVE  PeerInv'
<1> DEFINE s == [mem[k[i].n] EXCEPT ![k[i].d] = k[i].v]
           b == mem[k[i].n][k[i].d] # "none"
           r == [k[i] EXCEPT !.pc = "store", !.snap = s, !.had = b]
<1>1. k[i] \in TaskType /\ PeerTask(k[i], mem[PeerNode]) /\ Goto(i, r)
      /\ mem' = mem /\ revoked' = revoked
  BY TaskHere DEF Load, hist, PeerInv
<1>2. s = [mem[k[i].n] EXCEPT ![k[i].d] = k[i].v]
  OBVIOUS
<1> HIDE DEF s, b
<1>3. r.pc = "store" /\ r.snap = s /\ r.op = k[i].op /\ r.d = k[i].d /\ r.v = k[i].v
      /\ r.n = k[i].n
  BY <1>1 DEF TaskType
<1> HIDE DEF r
<1>4. PeerTask(r, mem[PeerNode])
  BY <1>1, <1>2, <1>3 DEF PeerTask
<1>5. QED
  BY <1>1, <1>4, KeepsOn DEF Keeps

\* The changed copy becomes the list: only what this request changes is different, which
\* is no advertisement of a revoked id.
LEMMA StorePeer ==
    ASSUME IndInv, PeerInv, PeerUpdatesApart, NEW i \in Tasks, Store(i)
    PROVE  PeerInv'
<1> DEFINE r == [k[i] EXCEPT !.pc = "open"]
<1>1. /\ k[i] \in TaskType /\ TaskOK(k[i]) /\ TaskMark(i) /\ k[i].pc = "store"
      /\ PeerTask(k[i], mem[PeerNode]) /\ Goto(i, r) /\ revoked' = revoked
      /\ mem' = [mem EXCEPT ![k[i].n] = k[i].snap] /\ mem \in [Nodes -> Lists \cup {None}]
      /\ PeerNode \in Nodes
  BY TaskHere DEF Store, At, hist, PeerInv, IndInv, TypeOK, Nodes
<1>2. /\ r.pc = "open" /\ r.snap = k[i].snap /\ r.op = k[i].op /\ r.d = k[i].d
      /\ r.v = k[i].v /\ r.n = k[i].n
  BY <1>1 DEF TaskType
<1> HIDE DEF r
<1>3. CASE k[i].n # PeerNode
  <2>1. mem'[PeerNode] = mem[PeerNode]
    BY <1>1, <1>3
  <2>2. PeerTask(r, mem[PeerNode])
    BY <1>1, <1>2, <1>3 DEF PeerTask, TaskOK
  <2>3. QED
    BY <1>1, <2>1, <2>2, KeepsOn DEF Keeps
<1>4. CASE k[i].n = PeerNode
  <2>1. /\ mem'[PeerNode] = k[i].snap /\ k[i].snap \in Lists
        /\ k[i].snap = [mem[PeerNode] EXCEPT ![k[i].d] = k[i].v] /\ k[i].snap # None
        /\ mem[PeerNode] # None /\ mem[PeerNode] \in Lists /\ k[i].d \in Ids
    BY <1>1, <1>4, TaskHere, MarkersDistinct DEF PeerTask, TaskType, TaskNode, TaskOK
  <2>2. k[i].op \in {"advertise", "revoke"}
    BY <1>1, <1>4, IdsDistinct, NodesDistinct DEF TaskOK, TaskType
  <2>3. k' = [k EXCEPT ![i] = r] /\ k \in [Tasks -> TaskType]
    BY <1>1 DEF Goto, IndInv, TypeOK
  <2>4. \A d \in Ids : d # k[i].d => k[i].snap[d] = mem[PeerNode][d]
    BY <2>1 DEF Lists
  <2>5. k[i].snap[k[i].d] = k[i].v
    BY <2>1 DEF Lists
  <2>6. ASSUME NEW j \in Tasks PROVE PeerTask(k'[j], mem'[PeerNode])
    <3>1. CASE j = i
      BY <1>1, <1>2, <2>1, <2>3, <2>5, <3>1 DEF PeerTask
    <3>2. CASE j # i
      <4>1. k'[j] = k[j] /\ TaskOK(k[j]) /\ PeerTask(k[j], mem[PeerNode])
        BY <2>3, <3>2, TaskHere DEF PeerInv
      <4>2. ~(k[j].n = PeerNode /\ k[j].pc \in Updating)
        BY <1>1, <1>4, <3>2 DEF PeerUpdatesApart, Updating
      <4>3. ASSUME k[j].op = "revoke", k[j].pc \notin {"load", "store"}
            PROVE  mem'[PeerNode][k[j].d] # "on"
        <5>1. k[j].d \in Ids /\ mem[PeerNode][k[j].d] # "on"
          BY <4>1, <4>3 DEF PeerTask, TaskOK
        <5>2. CASE k[j].d # k[i].d
          BY <2>1, <2>4, <5>1, <5>2
        <5>3. CASE k[j].d = k[i].d
          <6>1. k[i].op = "revoke"
            BY <1>1, <2>2, <4>3, <5>3 DEF IndInv, PeersOK, Marking
          <6>2. k[i].v = "none"
            BY <1>1, <6>1 DEF PeerTask
          <6>3. QED
            BY <2>1, <2>5, <5>3, <6>2
        <5>4. QED
          BY <5>2, <5>3
      <4>4. QED
        BY <2>1, <4>1, <4>2, <4>3 DEF PeerTask, Updating
    <3>3. QED
      BY <3>1, <3>2
  <2>7. ASSUME NEW a \in revoked PROVE mem'[PeerNode][a] # "on"
    <3>1. a \in Ids /\ mem[PeerNode][a] # "on"
      BY <2>1 DEF PeerInv, RevokedUnreachable, IndInv, TypeOK, Ids
    <3>2. CASE a # k[i].d
      BY <2>1, <2>4, <3>1, <3>2
    <3>3. CASE a = k[i].d
      <4>1. k[i].op = "revoke"
        BY <1>1, <2>2, <3>3 DEF TaskMark
      <4>2. k[i].v = "none"
        BY <1>1, <4>1 DEF PeerTask
      <4>3. QED
        BY <2>1, <2>5, <3>3, <4>2
    <3>4. QED
      BY <3>2, <3>3
  <2>8. QED
    BY <1>1, <2>6, <2>7 DEF PeerInv, RevokedUnreachable
<1>5. QED
  BY <1>3, <1>4

\* A task that goes on with its update, or its mark, at a later point.
LEMMA OnPeer ==
    ASSUME NEW r, NEW q, NEW list, PeerTask(r, list), r.pc \notin {"load", "store"},
           q.op = r.op, q.d = r.d, q.v = r.v, q.n = r.n,
           q.pc \in {"open", "fill"} => r.pc \in {"open", "fill"} /\ q.snap = r.snap,
           q.pc # "store"
    PROVE  PeerTask(q, list)
BY DEF PeerTask

\* A task that ends.
LEMMA EndPeer ==
    ASSUME IndInv, PeerInv, NEW i \in Tasks, Goto(i, Blank), mem'[PeerNode] = mem[PeerNode],
           revoked' = revoked
    PROVE  PeerInv'
<1>1. PeerTask(Blank, mem[PeerNode])
  BY BlankOK, AsidePeer DEF Updating
<1>2. QED
  BY <1>1, KeepsOn DEF Keeps

\* The list is written as it is.
LEMMA OpenPeer ==
    ASSUME IndInv, PeerInv, NEW i \in Tasks, OpenFile(i)
    PROVE  PeerInv'
<1> DEFINE r == [k[i] EXCEPT !.pc = "fill"]
<1>1. /\ k[i] \in TaskType /\ k[i].pc = "open" /\ PeerTask(k[i], mem[PeerNode])
      /\ Goto(i, r) /\ mem' = mem /\ revoked' = revoked
  BY TaskHere DEF OpenFile, At, hist, PeerInv
<1>2. /\ r.pc = "fill" /\ r.snap = k[i].snap /\ r.op = k[i].op /\ r.d = k[i].d
      /\ r.v = k[i].v /\ r.n = k[i].n
  BY <1>1 DEF TaskType
<1> HIDE DEF r
<1>3. PeerTask(r, mem[PeerNode])
  BY <1>1, <1>2, OnPeer
<1>4. QED
  BY <1>1, <1>3, KeepsOn DEF Keeps

\* What follows an update has nothing to write.
LEMMA WrittenPeer ==
    ASSUME IndInv, PeerInv, NEW i \in Tasks, k[i].pc \in {"open", "fill"}
    PROVE  PeerTask(Written(i), mem[PeerNode])
<1>1. k[i] \in TaskType /\ PeerTask(k[i], mem[PeerNode])
  BY TaskHere DEF PeerInv
<1>2. ASSUME NEW x \in {"lock", "drop"}, NEW r, r = [k[i] EXCEPT !.pc = x]
      PROVE  PeerTask(r, mem[PeerNode])
  <2>1. r.pc = x /\ r.op = k[i].op /\ r.d = k[i].d /\ r.v = k[i].v /\ r.n = k[i].n
    BY <1>1, <1>2 DEF TaskType
  <2>2. QED
    BY <1>1, <2>1, OnPeer
<1>3. PeerTask(Blank, mem[PeerNode])
  BY BlankOK, AsidePeer DEF Updating
<1>4. Written(i) \in {[k[i] EXCEPT !.pc = "lock"], [k[i] EXCEPT !.pc = "drop"], Blank}
  BY DEF Written
<1>5. QED
  BY <1>2, <1>3, <1>4

\* The end of an update, and of a stop or a delete.
LEMMA UpdatePeer ==
    ASSUME IndInv, PeerInv, NEW i \in Tasks, FillFile(i) \/ WriteFails(i) \/ DropNode(i)
    PROVE  PeerInv'
<1>1. CASE FillFile(i)
  BY <1>1, WrittenPeer, KeepsOn DEF FillFile, At, hist, Keeps
<1>2. CASE WriteFails(i)
  BY <1>2, WrittenPeer, KeepsOn, EndPeer DEF WriteFails, Keeps
<1>3. CASE DropNode(i)
  <2>1. k[i].d \in Tunnels
    BY <1>3, TaskHere DEF DropNode, At, TaskOK
  <2>2. mem'[PeerNode] = mem[PeerNode]
    BY <1>3, <2>1, IdsDistinct DEF DropNode, IndInv, TypeOK
  <2>3. QED
    BY <1>3, <2>2, EndPeer DEF DropNode, hist
<1>4. QED
  BY <1>1, <1>2, <1>3

\* The marks: a revoke that is answered has been written.
LEMMA MarkPeer ==
    ASSUME IndInv, PeerInv, NEW i \in Tasks, Mark(i)
    PROVE  PeerInv'
<1>1. k[i] \in TaskType /\ PeerTask(k[i], mem[PeerNode])
  BY TaskHere DEF PeerInv
<1>2. CASE TakeLock(i)
  <2> DEFINE b == k[i].d \in adv
             r == [k[i] EXCEPT !.pc = "read", !.had = b]
  <2>1. Goto(i, r) /\ mem' = mem /\ revoked' = revoked /\ k[i].pc = "lock"
    BY <1>2 DEF TakeLock, At, hist
  <2> HIDE DEF b
  <2>2. r.pc = "read" /\ r.op = k[i].op /\ r.d = k[i].d /\ r.v = k[i].v /\ r.n = k[i].n
    BY <1>1 DEF TaskType
  <2> HIDE DEF r
  <2>3. PeerTask(r, mem[PeerNode])
    BY <1>1, <2>1, <2>2, OnPeer
  <2>4. QED
    BY <2>1, <2>3, KeepsOn DEF Keeps
<1>3. CASE ReadAdvertised(i)
  <2> DEFINE r == [k[i] EXCEPT !.pc = "save", !.keep = adv]
  <2>1. Goto(i, r) /\ mem' = mem /\ revoked' = revoked /\ k[i].pc = "read"
    BY <1>3 DEF ReadAdvertised, At, hist
  <2>2. r.pc = "save" /\ r.op = k[i].op /\ r.d = k[i].d /\ r.v = k[i].v /\ r.n = k[i].n
    BY <1>1 DEF TaskType
  <2> HIDE DEF r
  <2>3. PeerTask(r, mem[PeerNode])
    BY <1>1, <2>1, <2>2, OnPeer
  <2>4. QED
    BY <2>1, <2>3, KeepsOn DEF Keeps
<1>4. CASE SaveAdvertised(i)
  <2>1. PeerTask(Blank, mem[PeerNode])
    BY BlankOK, AsidePeer DEF Updating
  <2>2. QED
    BY <1>4, <2>1, KeepsOn DEF SaveAdvertised, At, Keeps
<1>5. CASE SaveFails(i)
  BY <1>5, EndPeer DEF SaveFails
<1>6. QED
  BY <1>2, <1>3, <1>4, <1>5 DEF Mark

\* A request that is cut off.
LEMMA AbandonPeer ==
    ASSUME IndInv, PeerInv, NEW i \in Tasks, Abandon(i)
    PROVE  PeerInv'
<1>1. k[i].op \in {"start", "stop"} => k[i].d \in Tunnels
  BY TaskHere DEF TaskOK
<1>2. mem'[PeerNode] = mem[PeerNode]
  BY <1>1, IdsDistinct DEF Abandon, IndInv, TypeOK
<1>3. QED
  BY <1>2, EndPeer DEF Abandon

\* A restart builds the peer node from the file.
LEMMA RestartPeer ==
    ASSUME IndInv, PeerInv, Crash \/ Boot \/ BootFails,
           ~up /\ file # Torn => \A a \in revoked : file[a] # "on"
    PROVE  PeerInv'
<1>0. PeerNode \in Nodes /\ Control \in Nodes /\ Control # PeerNode
      /\ mem \in [Nodes -> Lists \cup {None}]
  BY NodesDistinct DEF Nodes, IndInv, TypeOK
<1>1. CASE Crash
  <2>1. mem'[PeerNode] = None /\ \A j \in Tasks : k'[j] = Blank
    BY <1>0, <1>1 DEF Crash
  <2>2. \A j \in Tasks : PeerTask(k'[j], mem'[PeerNode])
    BY <2>1, BlankOK, AsidePeer DEF Updating
  <2>3. QED
    BY <2>1, <2>2 DEF PeerInv, RevokedUnreachable
<1>2. CASE Boot
  <2>1. k' = k /\ revoked' = revoked /\ ~up /\ file # Torn
    BY <1>2 DEF Boot
  <2>2. mem'[PeerNode] \in {mem[PeerNode], None, file}
    BY <1>0, <1>2 DEF Boot
  <2>3. ASSUME NEW j \in Tasks PROVE PeerTask(k'[j], mem'[PeerNode])
    <3>1. k[j].op = "none" /\ k[j].pc = "idle"
      BY <2>1, TaskHere DEF TaskOK
    <3>2. QED
      BY <2>1, <3>1, AsidePeer DEF Updating
  <2>4. RevokedUnreachable'
    BY <2>1, <2>2 DEF PeerInv, RevokedUnreachable
  <2>5. QED
    BY <2>3, <2>4 DEF PeerInv
<1>3. CASE BootFails
  BY <1>3 DEF BootFails, vars, PeerInv, RevokedUnreachable
<1>4. QED
  BY <1>1, <1>2, <1>3

\* Every step keeps the invariant, as long as what the peer node can be built from is free
\* of what is gone.
LEMMA PeerInvStep ==
    ASSUME IndInv, PeerInv, PeerUpdatesApart, [Next]_vars,
           (mem[PeerNode] = None \/ ~up) /\ file # Torn => \A a \in revoked : file[a] # "on"
    PROVE  PeerInv'
<1>1. CASE UNCHANGED vars
  BY <1>1 DEF vars, PeerInv, RevokedUnreachable
<1>2. ASSUME NEW i \in Tasks, Update(i) PROVE PeerInv'
  BY <1>2, BuildPeer, LookPeer, LoadPeer, StorePeer, OpenPeer, UpdatePeer DEF Update
<1>3. QED
  BY <1>1, <1>2, RequestKeeps, MarkPeer, AbandonPeer, RestartPeer DEF Next

\* Without a crash the peer node stays built, and nothing is revoked before.
LEMMA BuiltFirstStep ==
    ASSUME IndInv, PeerInv, BuiltFirst, [Next]_vars, MaxCrashes = 0
    PROVE  BuiltFirst'
<1>0. /\ mem \in [Nodes -> Lists \cup {None}] /\ PeerNode \in Nodes
      /\ file \in Lists \cup {Torn} /\ crashes \in Nat
  BY DEF Nodes, IndInv, TypeOK
<1>1. ASSUME up' = up, mem[PeerNode] # None => mem'[PeerNode] # None, revoked' = revoked
      PROVE  BuiltFirst'
  BY <1>1 DEF BuiltFirst
<1>2. ASSUME NEW i \in Tasks, BuildNode(i) PROVE BuiltFirst'
  BY <1>0, <1>1, <1>2, MarkersDistinct DEF BuildNode, hist
<1>3. ASSUME NEW i \in Tasks, Store(i) PROVE BuiltFirst'
  <2>1. k[i].snap # None
    BY TaskHere, MarkersDistinct DEF TaskType
  <2>2. QED
    BY <1>0, <1>1, <1>3, <2>1 DEF Store, hist
<1>4. ASSUME NEW i \in Tasks, DropNode(i) \/ Abandon(i) PROVE BuiltFirst'
  <2>1. k[i].op \in {"start", "stop"} \/ k[i].pc = "drop" => k[i].d \in Tunnels
    BY TaskHere DEF TaskOK
  <2>2. mem'[PeerNode] = mem[PeerNode]
    BY <1>0, <1>4, <2>1, IdsDistinct DEF DropNode, Abandon, At
  <2>3. QED
    BY <1>1, <1>4, <2>2 DEF DropNode, Abandon, hist
<1>5. ASSUME NEW i \in Tasks, SaveAdvertised(i) PROVE BuiltFirst'
  <2>1. k[i].op = "revoke" => mem[PeerNode] # None
    BY DEF PeerInv, PeerTask
  <2>2. QED
    BY <1>5, <2>1 DEF SaveAdvertised, BuiltFirst
<1>6. ASSUME NEW i \in Tasks,
             Request(i) \/ LookForAd(i) \/ Load(i) \/ OpenFile(i) \/ FillFile(i) \/ WriteFails(i)
                \/ TakeLock(i) \/ ReadAdvertised(i) \/ SaveFails(i)
      PROVE  BuiltFirst'
  BY <1>1, <1>6
  DEF Request, NotFound, Advertise, Revoke, CreateTunnel, StartTunnel, RepointTunnel,
      StopTunnel, DeleteTunnel, LookForAd, Load, OpenFile, FillFile, WriteFails, TakeLock, ReadAdvertised,
      SaveFails, hist, vars
<1>7. ~Crash /\ ~Boot /\ ~BootFails
  BY <1>0 DEF Crash, Boot, BootFails, BuiltFirst
<1>8. CASE UNCHANGED vars
  BY <1>1, <1>8 DEF vars
<1>9. QED
  BY <1>2, <1>3, <1>4, <1>5, <1>6, <1>7, <1>8 DEF Next, Update, Mark

\* Only the end of the write lets an advertisement go.
NoneGoes == \A a \in Peers : Gone(a)' => Gone(a)

\* A task that gets no further than it was.
LEMMA GoesNot ==
    ASSUME IndInv, NEW i \in Tasks, NEW r, Goto(i, r), revoked' = revoked,
           r.op = "revoke" /\ r.pc \in Past =>
                k[i].op = "revoke" /\ k[i].d = r.d /\ k[i].pc \in Past
    PROVE  NoneGoes
<1>1. k' = [k EXCEPT ![i] = r] /\ k \in [Tasks -> TaskType]
  BY DEF Goto, IndInv, TypeOK
<1>2. QED
  BY <1>1 DEF NoneGoes, Gone, Past

\* Requests and updates.
LEMMA RequestGoes ==
    ASSUME IndInv, NEW i \in Tasks, Request(i)
    PROVE  NoneGoes
<1>1. ASSUME NEW r, Goto(i, r), r.pc \notin Past, revoked' = revoked PROVE NoneGoes
  BY <1>1, GoesNot
<1>2. ASSUME NEW x \in {"node", "ad", "load", "drop"}, NEW o, NEW n, NEW d, NEW v,
             \/ Goto(i, [Blank EXCEPT !.pc = x, !.op = o, !.n = n, !.d = d, !.v = v])
             \/ Goto(i, [Blank EXCEPT !.pc = x, !.op = o, !.n = n, !.d = d])
             \/ Goto(i, [Blank EXCEPT !.pc = x, !.op = o, !.d = d, !.v = v, !.n = n]),
             revoked' = revoked
      PROVE  NoneGoes
  <2> DEFINE r1 == [Blank EXCEPT !.pc = x, !.op = o, !.n = n, !.d = d, !.v = v]
             r2 == [Blank EXCEPT !.pc = x, !.op = o, !.n = n, !.d = d]
             r3 == [Blank EXCEPT !.pc = x, !.op = o, !.d = d, !.v = v, !.n = n]
  <2>1. r1.pc = x /\ r2.pc = x /\ r3.pc = x
    BY DEF Blank
  <2>2. Goto(i, r1) \/ Goto(i, r2) \/ Goto(i, r3)
    BY <1>2
  <2> HIDE DEF r1, r2, r3
  <2> QED
    BY <1>1, <1>2, <2>1, <2>2 DEF Past
<1>3. CASE NotFound(i)
  BY <1>3 DEF NotFound, vars, NoneGoes, Gone
<1>4. ASSUME NEW a, Advertise(i, a) \/ Revoke(i, a) PROVE NoneGoes
  BY <1>2, <1>4 DEF Advertise, Revoke, hist
<1>5. ASSUME NEW t, \/ CreateTunnel(i, t) \/ StartTunnel(i, t) \/ RepointTunnel(i, t)
                    \/ DeleteTunnel(i, t)
      PROVE  NoneGoes
  BY <1>2, <1>5 DEF CreateTunnel, StartTunnel, RepointTunnel, DeleteTunnel, hist
<1>6. ASSUME NEW t, StopTunnel(i, t) PROVE NoneGoes
  <2> DEFINE x == IF tun[t] = "made" THEN "load" ELSE "drop"
             n == IF mem[t] = None THEN Control ELSE t
  <2>1. x \in {"node", "ad", "load", "drop"} /\ revoked' = revoked
        /\ Goto(i, [Blank EXCEPT !.pc = x, !.op = "stop", !.d = t, !.v = "off", !.n = n])
    BY <1>6 DEF StopTunnel, hist
  <2> HIDE DEF x, n
  <2> QED
    BY <1>2, <2>1
<1>7. QED
  BY <1>3, <1>4, <1>5, <1>6 DEF Request

\* An update that is not over.
LEMMA UpdateGoes ==
    ASSUME IndInv, NEW i \in Tasks,
           BuildNode(i) \/ LookForAd(i) \/ Load(i) \/ Store(i) \/ OpenFile(i)
             \/ WriteFails(i) \/ DropNode(i)
    PROVE  NoneGoes
<1>1. k[i] \in TaskType /\ TaskOK(k[i]) /\ revoked' = revoked
  BY TaskHere DEF BuildNode, LookForAd, Load, Store, OpenFile, WriteFails, DropNode, hist
<1>2. ASSUME NEW r, Goto(i, r), r.pc \notin Past PROVE NoneGoes
  BY <1>1, <1>2, GoesNot
<1>3. CASE Goto(i, Blank)
  BY <1>2, <1>3, BlankOK DEF Past
<1>4. ASSUME NEW x \in {"load", "open", "fill"}, Goto(i, [k[i] EXCEPT !.pc = x])
      PROVE  NoneGoes
  <2> DEFINE r == [k[i] EXCEPT !.pc = x]
  <2>1. r.pc = x
    BY <1>1 DEF TaskType
  <2>2. Goto(i, r)
    BY <1>4
  <2> HIDE DEF r
  <2> QED
    BY <1>2, <2>1, <2>2 DEF Past
<1>5. CASE Load(i)
  <2> DEFINE r == [k[i] EXCEPT !.pc = "store", !.snap = [mem[k[i].n] EXCEPT ![k[i].d] = k[i].v],
                               !.had = mem[k[i].n][k[i].d] # "none"]
  <2>1. r.pc = "store"
    BY <1>1 DEF TaskType
  <2>2. Goto(i, r)
    BY <1>5 DEF Load
  <2> HIDE DEF r
  <2> QED
    BY <1>2, <2>1, <2>2 DEF Past
<1>6. CASE WriteFails(i)
  <2>1. CASE Goto(i, Written(i)) /\ k[i].op \notin {"advertise", "revoke"}
    <3>1. Written(i).op # "revoke"
      BY <1>6, <2>1, WrittenOK, BlankOK DEF WriteFails
    <3>2. QED
      BY <1>1, <2>1, <3>1, GoesNot
  <2>2. QED
    BY <1>3, <1>6, <2>1 DEF WriteFails
<1>7. CASE BuildNode(i)
  BY <1>3, <1>4, <1>7 DEF BuildNode
<1>8. CASE LookForAd(i)
  <2>1. ASSUME NEW v, Goto(i, [k[i] EXCEPT !.pc = "load", !.v = v]) PROVE NoneGoes
    <3> DEFINE r == [k[i] EXCEPT !.pc = "load", !.v = v]
    <3>1. r.pc = "load" /\ Goto(i, r)
      BY <1>1, <2>1 DEF TaskType
    <3> HIDE DEF r
    <3>2. QED
      BY <1>2, <3>1 DEF Past
  <2>2. QED
    BY <1>3, <1>8, <2>1 DEF LookForAd
<1>9. QED
  BY <1>3, <1>4, <1>5, <1>6, <1>7, <1>8 DEF Store, OpenFile, DropNode

\* The marks, and what ends a task or all of them.
LEMMA EndGoes ==
    ASSUME IndInv, (\E i \in Tasks : Mark(i) \/ Abandon(i)) \/ Crash \/ Boot \/ BootFails
    PROVE  NoneGoes
<1>1. ASSUME NEW i \in Tasks, TakeLock(i) \/ ReadAdvertised(i) PROVE NoneGoes
  <2>1. k[i] \in TaskType /\ k[i].pc \in Past /\ revoked' = revoked
    BY <1>1, TaskHere DEF TakeLock, ReadAdvertised, At, Past, hist
  <2>2. ASSUME NEW r, Goto(i, r), r.op = k[i].op, r.d = k[i].d PROVE NoneGoes
    BY <2>1, <2>2, GoesNot
  <2>3. CASE TakeLock(i)
    <3> DEFINE r == [k[i] EXCEPT !.pc = "read", !.had = k[i].d \in adv]
    <3>1. r.op = k[i].op /\ r.d = k[i].d
      BY <2>1 DEF TaskType
    <3>2. Goto(i, r)
      BY <2>3 DEF TakeLock
    <3> HIDE DEF r
    <3> QED
      BY <2>2, <3>1, <3>2
  <2>4. CASE ReadAdvertised(i)
    <3> DEFINE r == [k[i] EXCEPT !.pc = "save", !.keep = adv]
    <3>1. r.op = k[i].op /\ r.d = k[i].d
      BY <2>1 DEF TaskType
    <3>2. Goto(i, r)
      BY <2>4 DEF ReadAdvertised
    <3> HIDE DEF r
    <3> QED
      BY <2>2, <3>1, <3>2
  <2>5. QED
    BY <1>1, <2>3, <2>4
<1>2. ASSUME NEW i \in Tasks, SaveFails(i) \/ Abandon(i) PROVE NoneGoes
  BY <1>2, GoesNot, BlankOK DEF SaveFails, Abandon
<1>3. ASSUME NEW i \in Tasks, SaveAdvertised(i) PROVE NoneGoes
  <2>1. k' = [k EXCEPT ![i] = Blank] /\ k \in [Tasks -> TaskType]
    BY <1>3 DEF SaveAdvertised, Goto, IndInv, TypeOK
  <2>2. \A j \in Tasks : k'[j].op = "revoke" => k'[j] = k[j]
    BY <2>1, BlankOK
  <2>3. QED
    BY <1>3, <2>2 DEF SaveAdvertised, At, NoneGoes, Gone, Past
<1>4. CASE Crash
  <2>1. \A j \in Tasks : k'[j].op # "revoke"
    BY <1>4, BlankOK DEF Crash
  <2>2. QED
    BY <1>4, <2>1 DEF Crash, NoneGoes, Gone
<1>5. CASE Boot \/ BootFails
  BY <1>5 DEF Boot, BootFails, vars, NoneGoes, Gone
<1>6. QED
  BY <1>1, <1>2, <1>3, <1>4, <1>5 DEF Mark

\* What a task is about to write to the file has none of them enabled.
LEMMA WritesForget ==
    ASSUME IndInv, PeerInv, CopiesForget, NEW i \in Tasks, k[i].pc \in {"open", "fill"},
           NEW a \in Peers, Gone(a) \/ (k[i].op = "revoke" /\ k[i].d = a)
    PROVE  k[i].snap[a] # "on"
<1>1. k[i] \in TaskType /\ TaskOK(k[i])
  BY TaskHere
<1>2. CASE k[i].n = PeerNode
  <2>1. mem[PeerNode] # None /\ k[i].snap = mem[PeerNode]
    BY <1>2, TaskHere DEF TaskNode, PeerInv, PeerTask
  <2>2. CASE a \in revoked
    BY <2>1, <2>2 DEF PeerInv, RevokedUnreachable
  <2>3. CASE k[i].op = "revoke" /\ k[i].d = a
    BY <2>1, <2>3 DEF PeerInv, PeerTask
  <2>4. ASSUME NEW j \in Tasks, k[j].op = "revoke", k[j].d = a, k[j].pc \in Past
        PROVE  k[i].snap[a] # "on"
    BY <2>1, <2>4 DEF PeerInv, PeerTask, Past
  <2>5. QED
    BY <2>2, <2>3, <2>4 DEF Gone, Past
<1>3. CASE k[i].n # PeerNode
  <2>1. k[i].op # "revoke"
    BY <1>1, <1>3 DEF TaskOK
  <2>2. QED
    BY <1>3, <2>1 DEF CopiesForget
<1>4. QED
  BY <1>2, <1>3

\* The steps that leave the file as it is, or open it.
LEMMA FileStays ==
    ASSUME FileFollows, NoneGoes, file' = file \/ file' = Torn
    PROVE  FileFollows'
BY DEF FileFollows, NoneGoes

\* Under both assumptions nothing that was revoked is written back to the file.
LEMMA FileFollowsStep ==
    ASSUME IndInv, PeerInv, CopiesForget, FileFollows, [Next]_vars
    PROVE  FileFollows'
<1>1. ASSUME NEW i \in Tasks, Request(i) PROVE FileFollows'
  <2>1. file' = file
    BY <1>1 DEF Request, NotFound, Advertise, Revoke, CreateTunnel, StartTunnel,
                RepointTunnel, StopTunnel, DeleteTunnel, vars
  <2>2. QED
    BY <1>1, <2>1, RequestGoes, FileStays
<1>2. ASSUME NEW i \in Tasks,
             BuildNode(i) \/ LookForAd(i) \/ Load(i) \/ Store(i) \/ OpenFile(i)
             \/ WriteFails(i) \/ DropNode(i)
      PROVE  FileFollows'
  <2>1. file' = file \/ file' = Torn
    BY <1>2 DEF BuildNode, LookForAd, Load, Store, OpenFile, WriteFails, DropNode
  <2>2. QED
    BY <1>2, <2>1, UpdateGoes, FileStays
<1>3. ASSUME NEW i \in Tasks, FillFile(i) PROVE FileFollows'
  <2>1. k' = [k EXCEPT ![i] = Written(i)] /\ k \in [Tasks -> TaskType] /\ revoked' = revoked
        /\ k[i].pc = "fill"
    BY <1>3 DEF FillFile, At, Goto, hist, IndInv, TypeOK
  <2>2. Written(i).op = "revoke" => k[i].op = "revoke" /\ Written(i).d = k[i].d
    BY <2>1, WrittenOK, BlankOK
  <2>3. ASSUME NEW a \in Peers, Gone(a)'
        PROVE  Gone(a) \/ (k[i].op = "revoke" /\ k[i].d = a)
    BY <2>1, <2>2, <2>3 DEF Gone
  <2>4. QED
    BY <1>3, <2>1, <2>3, WritesForget DEF FillFile, FileFollows
<1>4. ASSUME NEW i \in Tasks, Mark(i) PROVE FileFollows'
  <2>1. file' = file
    BY <1>4 DEF Mark, TakeLock, ReadAdvertised, SaveAdvertised, SaveFails
  <2>2. QED
    BY <1>4, <2>1, EndGoes, FileStays
<1>5. ASSUME NEW i \in Tasks, Abandon(i) PROVE FileFollows'
  <2>1. NoneGoes
    BY <1>5, EndGoes
  <2>2. CASE file' = file \/ file' = Torn
    BY <2>1, <2>2, FileStays
  <2>3. CASE k[i].pc \in {"open", "fill"} /\ file' = k[i].snap
    BY <2>1, <2>3, WritesForget DEF FileFollows, NoneGoes
  <2>4. QED
    BY <1>5, <2>2, <2>3 DEF Abandon
<1>6. CASE Crash \/ Boot \/ BootFails
  <2>1. file' = file
    BY <1>6 DEF Crash, Boot, BootFails, vars
  <2>2. QED
    BY <1>6, <2>1, EndGoes, FileStays
<1>7. CASE UNCHANGED vars
  BY <1>7 DEF vars, FileFollows, Gone
<1>8. QED
  BY <1>1, <1>2, <1>3, <1>4, <1>5, <1>6, <1>7 DEF Next, Update

\* Nothing is revoked at the start, and no task works.
LEMMA InitPeer == Init => PeerInv /\ BuiltFirst /\ FileFollows
<1> SUFFICES ASSUME Init PROVE PeerInv /\ BuiltFirst /\ FileFollows
  OBVIOUS
<1>1. \A i \in Tasks : k[i] = Blank
  BY DEF Init
<1>2. revoked = {} /\ up
  BY DEF Init
<1>3. \A i \in Tasks : PeerTask(k[i], mem[PeerNode])
  BY <1>1, BlankOK, AsidePeer DEF Updating
<1>4. \A a \in Peers : ~Gone(a)
  BY <1>1, <1>2, BlankOK DEF Gone
<1>5. QED
  BY <1>2, <1>3, <1>4 DEF PeerInv, BuiltFirst, FileFollows, RevokedUnreachable

\* ListenNode::remove_proxy and peers.rs revoke: while the daemon is not restarted, and no
\* two updates of the peer node's list overlap, a revoked advertisement is not let through
\* again.
THEOREM RevokedStaysOff ==
    MaxCrashes = 0 /\ Spec /\ []PeerUpdatesApart => []RevokedUnreachable
<1> SUFFICES ASSUME MaxCrashes = 0 PROVE Spec /\ []PeerUpdatesApart => []RevokedUnreachable
  OBVIOUS
<1>1. ASSUME IndInv, PeerUpdatesApart, PeerInv, BuiltFirst, [Next]_vars
      PROVE  PeerInv' /\ BuiltFirst'
  BY <1>1, BuiltFirstStep, PeerInvStep DEF BuiltFirst
<1>2. Init => PeerInv /\ BuiltFirst
  BY InitPeer
<1>3. PeerInv => RevokedUnreachable
  BY DEF PeerInv
<1>4. QED
  BY <1>1, <1>2, <1>3, Invariance, PTL DEF Spec

\* Over crashes too, the peer node being built again from state.yml, if besides no other
\* node writes back a copy it made while the advertisement was enabled.
THEOREM RevokedStaysOffRestarted ==
    Spec /\ []PeerUpdatesApart /\ []CopiesForget => []RevokedUnreachable
<1>1. ASSUME IndInv, PeerUpdatesApart, CopiesForget, PeerInv, FileFollows, [Next]_vars
      PROVE  PeerInv' /\ FileFollows'
  <2>1. \A a \in revoked : a \in Peers /\ Gone(a)
    BY <1>1 DEF IndInv, TypeOK, Gone
  <2>2. file # Torn => \A a \in revoked : file[a] # "on"
    BY <1>1, <2>1 DEF FileFollows
  <2>3. QED
    BY <1>1, <2>2, FileFollowsStep, PeerInvStep
<1>2. Init => PeerInv /\ FileFollows
  BY InitPeer
<1>3. PeerInv => RevokedUnreachable
  BY DEF PeerInv
<1>4. QED
  BY <1>1, <1>2, <1>3, Invariance, PTL DEF Spec

\* The second assumption is about tunnels: with none, only the peer node writes state.yml.
THEOREM RevokedStaysOffAlone ==
    Tunnels = {} /\ Spec /\ []PeerUpdatesApart => []RevokedUnreachable
<1> SUFFICES ASSUME Tunnels = {} PROVE Spec /\ []PeerUpdatesApart => []RevokedUnreachable
  OBVIOUS
<1>1. IndInv => CopiesForget
  <2>1. ASSUME IndInv, NEW i \in Tasks, k[i].pc \in {"open", "fill"}
        PROVE  k[i].n = PeerNode
    BY <2>1, TaskHere DEF TaskOK, TaskType
  <2>2. QED
    BY <2>1 DEF CopiesForget
<1>2. QED
  BY <1>1, Invariance, RevokedStaysOffRestarted, PTL

\* One request at a time, and either no restart or no tunnel.
OneRequest == \A i, j \in Tasks : i = j

\* Then the two assumptions hold by themselves, or are not needed: what was revoked stays
\* out of reach.
THEOREM RevokedStaysOffInTurn ==
    OneRequest /\ (MaxCrashes = 0 \/ Tunnels = {}) /\ Spec => []RevokedUnreachable
<1> SUFFICES ASSUME OneRequest, MaxCrashes = 0 \/ Tunnels = {}
             PROVE  Spec => []RevokedUnreachable
  OBVIOUS
<1>1. PeerUpdatesApart
  BY DEF OneRequest, PeerUpdatesApart
<1>2. CASE MaxCrashes = 0
  BY <1>1, <1>2, RevokedStaysOff, PTL
<1>3. CASE Tunnels = {}
  BY <1>1, <1>3, RevokedStaysOffAlone, PTL
<1>4. QED
  BY <1>2, <1>3
=============================================================================
