------------------------- MODULE TunnelDaemonProofs -------------------------
(***************************************************************************)
(* IndInv is inductive, for any number of tunnels, clients, targets, ports *)
(* and connectors, and any number of crashes and failures.  From it:       *)
(* TypeOK, BusyExclusion, KeyBeforeConnector and LocalStateOutlivesTunnel, *)
(* and, each from one of its own on top of it, OlderOff and EnabledBack:   *)
(* what reconciliation has turned off, and what it has brought back, when  *)
(* the API is served.                                                      *)
(*                                                                         *)
(* Every action changes the record of at most one task.  The lemmas on     *)
(* Goto, Return and ClaimBusy say what the new record has to satisfy; the  *)
(* lemma of an action checks that, and what the action does to the data.   *)
(***************************************************************************)
EXTENDS TunnelDaemon, TLAPS

\* What no step may do to the facts other tasks rely on: forget an id, bring
\* a deleted HTTPProxy back, or drop the key of a tunnel that still exists.
Stable ==
    /\ born \subseteq born'
    /\ \A t \in born : proxy[t] = None => proxy'[t] = None
    /\ \A t \in Tunnels : key[t] => key'[t] \/ proxy'[t] = None

-----------------------------------------------------------------------------
(* Steps of one task.                                                      *)

\* The records of the other tasks still fit after a stable step.
LEMMA FitsStable ==
    ASSUME TypeOK, TasksOK, Stable, NEW j \in Procs
    PROVE  TaskFits(h[j], proxy', key', born')
<1>1. h[j] \in TaskType /\ TaskFits(h[j], proxy, key, born)
  BY DEF TypeOK, TasksOK
<1>2. h[j].t \in Tunnels \cup {None} /\ born \subseteq Tunnels
  BY <1>1 DEF TaskType, TypeOK, DataType
<1>3. h[j].pc \notin {"idle", "next", "list", "crProxy"} /\ h[j].then # "crProxy"
      => h[j].t \in born
  BY <1>1 DEF TasksOK, TaskOK, Ensuring, TaskFits
<1>4. h[j].pc \in Ensuring <=> h[j].then # "none"
  BY DEF TasksOK, TaskOK
<1>5. QED
  BY <1>1, <1>2, <1>3, <1>4 DEF Stable, TaskFits, Ensuring

\* One task gets a record that is well formed and fits; the others keep theirs.
LEMMA OneTask ==
    ASSUME TypeOK, TasksOK, Stable, NEW i \in Procs,
           NEW r \in TaskType, TaskOK(r), TaskFits(r, proxy', key', born'),
           h' = [h EXCEPT ![i] = r]
    PROVE  h' \in [Procs -> TaskType] /\ TasksOK'
<1>1. h' \in [Procs -> TaskType]
  BY DEF TypeOK
<1>2. ASSUME NEW j \in Procs
      PROVE  TaskOK(h'[j]) /\ TaskFits(h'[j], proxy', key', born')
  <2>1. CASE j = i
    BY <2>1 DEF TypeOK
  <2>2. CASE j # i
    <3>1. h'[j] = h[j]
      BY <2>2 DEF TypeOK
    <3>2. TaskOK(h[j]) /\ TaskFits(h[j], proxy', key', born')
      BY FitsStable DEF TasksOK
    <3>3. QED
      BY <3>1, <3>2
  <2>3. QED
    BY <2>1, <2>2
<1>3. QED
  BY <1>1, <1>2 DEF TasksOK

\* A step that keeps the task's BusyGuard as it is.
LEMMA GotoOK ==
    ASSUME IndInv, Stable, NEW i \in Procs,
           NEW r \in TaskType, TaskOK(r), TaskFits(r, proxy', key', born'),
           r.lock = h[i].lock, r.lock => r.t = h[i].t,
           Goto(i, r), DataType', DataOK'
    PROVE  IndInv'
<1>1. h' \in [Procs -> TaskType] /\ TasksOK'
  BY OneTask DEF IndInv, Goto
<1>2. \A j \in Procs : h'[j].lock = h[j].lock /\ (h'[j].lock => h'[j].t = h[j].t)
  BY DEF Goto, IndInv, TypeOK
<1>3. BusyExclusion'
  BY <1>2 DEF IndInv, BusyExclusion, Goto
<1>4. QED
  BY <1>1, <1>3 DEF IndInv, TypeOK, Goto

\* A step that ends the function the task is in, and drops its BusyGuard.
LEMMA LeaveOK ==
    ASSUME IndInv, Stable, NEW i \in Procs,
           NEW r \in TaskType, TaskOK(r), TaskFits(r, proxy', key', born'),
           ~r.lock, Leave(i, r), DataType', DataOK'
    PROVE  IndInv'
<1>1. h' \in [Procs -> TaskType] /\ TasksOK'
  BY OneTask DEF IndInv, Leave
<1>2. busy' \subseteq Tunnels
  BY DEF Leave, IndInv, TypeOK
<1>3. /\ ~h'[i].lock
      /\ \A j \in Procs \ {i} : h'[j] = h[j]
  BY DEF Leave, IndInv, TypeOK
<1>4. BusyExclusion'
  <2>1. CASE h[i].lock
    <3>1. busy' = busy \ {h[i].t}
      BY <2>1 DEF Leave
    <3>2. QED
      BY <1>3, <2>1, <3>1 DEF IndInv, BusyExclusion
  <2>2. CASE ~h[i].lock
    <3>1. busy' = busy
      BY <2>2 DEF Leave
    <3>2. QED
      BY <1>3, <2>2, <3>1 DEF IndInv, BusyExclusion
  <2>3. QED
    BY <2>1, <2>2
<1>5. QED
  BY <1>1, <1>2, <1>4 DEF IndInv, TypeOK

\* Assigning a field of a task's record a value of its type.
LEMMA Updates ==
    \A r \in TaskType :
        /\ \A x \in Pcs : [r EXCEPT !.pc = x] \in TaskType
        /\ \A x \in Tunnels : [r EXCEPT !.t = x] \in TaskType
        /\ \A x \in Ports : [r EXCEPT !.insp = x] \in TaskType
        /\ \A x \in Ports : [r EXCEPT !.ep = x] \in TaskType
        /\ \A x \in Conns : [r EXCEPT !.conn = x] \in TaskType
        /\ \A x \in BOOLEAN : [r EXCEPT !.dirty = x] \in TaskType
        /\ \A x \in {"none", "crProxy", "updProxy", "enPatch"} :
                [r EXCEPT !.then = x] \in TaskType
        /\ \A x \in {"ret", "enGet", "claim"} : [r EXCEPT !.after = x] \in TaskType
        /\ [r EXCEPT !.lock = TRUE] \in TaskType
        /\ \A x \in SUBSET Conns : [r EXCEPT !.drop = x] \in TaskType
<1> SUFFICES ASSUME NEW r \in TaskType
    PROVE  /\ \A x \in Pcs : [r EXCEPT !.pc = x] \in TaskType
           /\ \A x \in Tunnels : [r EXCEPT !.t = x] \in TaskType
           /\ \A x \in Ports : [r EXCEPT !.insp = x] \in TaskType
           /\ \A x \in Ports : [r EXCEPT !.ep = x] \in TaskType
           /\ \A x \in Conns : [r EXCEPT !.conn = x] \in TaskType
           /\ \A x \in BOOLEAN : [r EXCEPT !.dirty = x] \in TaskType
           /\ \A x \in {"none", "crProxy", "updProxy", "enPatch"} :
                   [r EXCEPT !.then = x] \in TaskType
           /\ \A x \in {"ret", "enGet", "claim"} : [r EXCEPT !.after = x] \in TaskType
           /\ [r EXCEPT !.lock = TRUE] \in TaskType
           /\ \A x \in SUBSET Conns : [r EXCEPT !.drop = x] \in TaskType
  OBVIOUS
<1>1. \A x \in Pcs : [r EXCEPT !.pc = x] \in TaskType
  BY DEF TaskType
<1>2. \A x \in Tunnels : [r EXCEPT !.t = x] \in TaskType
  BY DEF TaskType
<1>3. \A x \in Ports : [r EXCEPT !.insp = x] \in TaskType
  BY DEF TaskType
<1>4. \A x \in Ports : [r EXCEPT !.ep = x] \in TaskType
  BY DEF TaskType
<1>5. \A x \in Conns : [r EXCEPT !.conn = x] \in TaskType
  BY DEF TaskType
<1>6. \A x \in BOOLEAN : [r EXCEPT !.dirty = x] \in TaskType
  BY DEF TaskType
<1>7. \A x \in {"none", "crProxy", "updProxy", "enPatch"} :
        [r EXCEPT !.then = x] \in TaskType
  BY DEF TaskType
<1>8. \A x \in {"ret", "enGet", "claim"} : [r EXCEPT !.after = x] \in TaskType
  BY DEF TaskType
<1>9. [r EXCEPT !.lock = TRUE] \in TaskType
  BY DEF TaskType
<1>10. \A x \in SUBSET Conns : [r EXCEPT !.drop = x] \in TaskType
  BY DEF TaskType
<1>11. QED
  BY <1>1, <1>2, <1>3, <1>4, <1>5, <1>6, <1>7, <1>8, <1>9, <1>10

\* A task that is not running satisfies everything asked of a task.
LEMMA BlankOK ==
    /\ Blank \in TaskType /\ TaskOK(Blank) /\ ~Blank.lock
    /\ \A px, ky, ids : TaskFits(Blank, px, ky, ids)
BY DEF Blank, TaskType, Pcs, TaskOK, Ensuring, TaskFits

\* A return ends the task, or goes on to the next tunnel or to Remove's delete.
LEMMA ContinueOK ==
    ASSUME IndInv, Stable, NEW i \in Procs
    PROVE  /\ Continue(i) \in TaskType /\ TaskOK(Continue(i)) /\ ~Continue(i).lock
           /\ TaskFits(Continue(i), proxy', key', born')
<1>1. /\ h[i] \in TaskType /\ TaskOK(h[i]) /\ TaskFits(h[i], proxy', key', born')
  BY FitsStable DEF IndInv, TypeOK, TasksOK
<1>2. CASE i \in {Main, Sweep}
  <2>1. Continue(i) = [Blank EXCEPT !.pc = "next"]
    BY <1>2 DEF Continue
  <2>2. QED
    <3>1. Continue(i) \in TaskType
      <4>1. Blank \in TaskType /\ "next" \in Pcs
        BY BlankOK DEF Pcs
      <4>2. [Blank EXCEPT !.pc = "next"] \in TaskType
        BY <4>1, Updates, Zenon
      <4>3. QED
        BY <2>1, <4>2
    <3>2. TaskOK(Continue(i)) /\ ~Continue(i).lock
      BY <2>1 DEF Blank, TaskOK, Ensuring
    <3>3. TaskFits(Continue(i), proxy', key', born')
      BY <2>1 DEF Blank, TaskFits
    <3>4. QED
      BY <3>1, <3>2, <3>3
<1>3. CASE i \notin {Main, Sweep} /\ h[i].rm
  <2>1. Continue(i) = [Blank EXCEPT !.pc = "delLook", !.t = h[i].t]
    BY <1>3 DEF Continue
  <2>2. h[i].t \in Tunnels /\ h[i].t # None /\ h[i].t \in born' \cup {None}
    BY <1>1, <1>3 DEF TaskOK, Ensuring, TaskFits, TaskType
  <2>3. Continue(i) \in TaskType /\ TaskOK(Continue(i)) /\ ~Continue(i).lock
    <3>1. Continue(i) \in TaskType
      <4>1. Blank \in TaskType /\ "delLook" \in Pcs
        BY BlankOK DEF Pcs
      <4>2. [Blank EXCEPT !.pc = "delLook", !.t = h[i].t] \in TaskType
        BY <2>2, <4>1, Updates, Zenon
      <4>3. QED
        BY <2>1, <4>2
    <3>2. TaskOK(Continue(i)) /\ ~Continue(i).lock
      BY <2>1, <2>2 DEF Blank, TaskType, TaskOK, Ensuring
    <3>3. QED
      BY <3>1, <3>2
  <2>4. TaskFits(Continue(i), proxy', key', born')
    BY <2>1, <2>2 DEF Blank, TaskFits
  <2>5. QED
    BY <2>3, <2>4
<1>4. CASE i \notin {Main, Sweep} /\ ~h[i].rm
  BY <1>4, BlankOK DEF Continue
<1>5. QED
  BY <1>2, <1>3, <1>4

\* A return drops the BusyGuard with the task, so busy stays exact.
LEMMA ReturnOK ==
    ASSUME IndInv, Stable, NEW i \in Procs, Return(i), DataType', DataOK'
    PROVE  IndInv'
BY ContinueOK, LeaveOK DEF Return

\* A task that holds no BusyGuard claims one.
LEMMA ClaimOK ==
    ASSUME IndInv, Stable, NEW i \in Procs, ~h[i].lock,
           NEW r, [r EXCEPT !.lock = TRUE] \in TaskType,
           TaskOK([r EXCEPT !.lock = TRUE]), r.t \in Tunnels,
           TaskFits([r EXCEPT !.lock = TRUE], proxy', key', born'),
           [r EXCEPT !.lock = TRUE].t = r.t, [r EXCEPT !.lock = TRUE].lock,
           ClaimBusy(i, r), DataType', DataOK'
    PROVE  IndInv'
<1> DEFINE q == [r EXCEPT !.lock = TRUE]
<1>0. q \in TaskType /\ TaskOK(q) /\ TaskFits(q, proxy', key', born')
      /\ q.t = r.t /\ q.lock
  OBVIOUS
<1>1. /\ r.t \notin busy /\ busy' = busy \cup {r.t}
      /\ h' = [h EXCEPT ![i] = q]
  BY DEF ClaimBusy
<1> HIDE DEF q
<1>2. h' \in [Procs -> TaskType] /\ TasksOK'
  BY <1>0, <1>1, OneTask DEF IndInv
<1>3. h'[i] = q /\ \A j \in Procs \ {i} : h'[j] = h[j]
  BY <1>1 DEF IndInv, TypeOK
<1>4. busy' \subseteq Tunnels
  BY <1>1 DEF IndInv, TypeOK
<1>5. BusyExclusion'
  BY <1>0, <1>1, <1>3 DEF IndInv, BusyExclusion
<1>6. QED
  BY <1>2, <1>4, <1>5 DEF IndInv, TypeOK

-----------------------------------------------------------------------------
(* Steps that leave the data alone.                                        *)

\* A step that only moves tasks keeps every fact about the data.
LEMMA DataSame ==
    ASSUME IndInv, UNCHANGED <<cloud, disk, mem, todos>>,
           crashes' \in Nat, faults' \in Nat
    PROVE  Stable /\ DataType' /\ DataOK'
BY DEF IndInv, TypeOK, DataType, DataOK, Stable, cloud, disk, mem, todos

\* What IndInv says of one task.
LEMMA TaskHere ==
    ASSUME IndInv, NEW i \in Procs
    PROVE  /\ h[i] \in TaskType /\ TaskOK(h[i])
           /\ TaskFits(h[i], proxy, key, born)
BY DEF IndInv, TypeOK, TasksOK

\* The counters keep their types when a step leaves them alone.
LEMMA HistSame ==
    ASSUME IndInv, UNCHANGED hist
    PROVE  crashes' \in Nat /\ faults' \in Nat
BY DEF IndInv, TypeOK, DataType, hist

\* A start is accepted, before any reservation.
LEMMA StartRequestOK ==
    ASSUME IndInv, NEW i \in Procs, NEW t \in Tunnels,
           NEW w \in Targets \cup {None}, StartRequest(i, t, w)
    PROVE  IndInv'
<1> DEFINE rep == IF w # None /\ NeedsRepoint(t, w) THEN w ELSE None
           r   == [Blank EXCEPT !.pc = "claim", !.t = t, !.rep = rep]
<1>1. Goto(i, r) /\ t \in born /\ ~h[i].lock
  BY TaskHere DEF StartRequest, Addressable, At, TaskOK, Ensuring
<1>2. rep \in Targets \cup {None}
  OBVIOUS
<1> HIDE DEF rep
<1>3. r \in TaskType /\ TaskOK(r) /\ r.lock = FALSE
  BY <1>2, NoneDistinct DEF Blank, TaskType, Pcs, TaskOK, Ensuring
<1>4. Stable /\ DataType' /\ DataOK'
  BY DataSame, HistSame DEF StartRequest
<1>5. TaskFits(r, proxy', key', born')
  BY <1>1, <1>4 DEF Blank, TaskFits, Stable
<1> HIDE DEF r
<1>6. h[i].lock = FALSE
  BY <1>1, TaskHere DEF TaskType
<1>7. QED
  BY <1>1, <1>3, <1>4, <1>5, <1>6, GotoOK

\* claim_busy reserves an id nobody holds, or the start ends with a 409.
LEMMA StartClaimOK ==
    ASSUME IndInv, NEW i \in Procs, StartClaim(i)
    PROVE  IndInv'
<1> DEFINE r == [h[i] EXCEPT !.pc = "look"]
           q == [r EXCEPT !.lock = TRUE]
<1>1. /\ h[i] \in TaskType /\ TaskOK(h[i]) /\ TaskFits(h[i], proxy, key, born)
      /\ h[i].pc = "claim"
  BY TaskHere DEF StartClaim, At
<1>2. Stable /\ DataType' /\ DataOK'
  BY DataSame, HistSame DEF StartClaim
<1>3. CASE ClaimBusy(i, r)
  <2>1. r.t \in Tunnels /\ ~h[i].lock
    BY <1>1 DEF TaskType, TaskOK, Ensuring
  <2>2. q \in TaskType /\ TaskOK(q) /\ q.t = r.t /\ q.lock
    <3>1. q \in TaskType
      BY <1>1, Updates, Zenon DEF Pcs
    <3>2. TaskOK(q) /\ q.t = r.t /\ q.lock
      BY <1>1 DEF TaskType, TaskOK, Ensuring
    <3>3. QED
      BY <3>1, <3>2
  <2>3. TaskFits(q, proxy', key', born')
    BY <1>1, <1>2 DEF TaskType, TaskOK, Ensuring, TaskFits, Stable
  <2>4. QED
    BY <1>2, <1>3, <2>1, <2>2, <2>3, ClaimOK
<1>4. CASE Return(i)
  BY <1>2, <1>4, ReturnOK
<1>5. QED
  BY <1>3, <1>4 DEF StartClaim

\* A start reads its tunnel and picks the port, or gives up.
LEMMA StartLookOK ==
    ASSUME IndInv, NEW i \in Procs, StartLook(i)
    PROVE  IndInv'
<1>1. /\ h[i] \in TaskType /\ TaskOK(h[i]) /\ TaskFits(h[i], proxy, key, born)
      /\ h[i].pc = "look"
  BY TaskHere DEF StartLook, At
<1>2. Stable /\ DataType' /\ DataOK'
  BY DataSame, HistSame DEF StartLook
<1>3. h[i].t \in Tunnels /\ h[i].t \in born'
  BY <1>1, <1>2 DEF TaskType, TaskOK, Ensuring, TaskFits, Stable
<1>4. CASE Return(i)
  BY <1>2, <1>4, ReturnOK
<1>5. ASSUME NEW p \in FreePorts, h[i].rep # None,
             Goto(i, [[h[i] EXCEPT !.insp = p, !.ep = p]
                        EXCEPT !.pc = "moveProxy", !.after = "ret"])
      PROVE  IndInv'
  <2> DEFINE r == [[h[i] EXCEPT !.insp = p, !.ep = p]
                     EXCEPT !.pc = "moveProxy", !.after = "ret"]
  <2>1. p \in Ports /\ p # None
    BY NoneDistinct DEF FreePorts
  <2>2. r \in TaskType /\ r.lock = h[i].lock /\ r.t = h[i].t
    <3>1. r \in TaskType
      BY <1>1, <2>1, Updates, Zenon DEF Pcs
    <3>2. r.lock = h[i].lock /\ r.t = h[i].t
      BY <1>1, <2>1 DEF TaskType
    <3>3. QED
      BY <3>1, <3>2
  <2>3. TaskOK(r) /\ TaskFits(r, proxy', key', born')
    BY <1>1, <1>3, <1>5, <2>1 DEF TaskType, TaskOK, Ensuring, TaskFits
  <2> HIDE DEF r
  <2>4. QED
    BY <1>2, <1>5, <2>2, <2>3, GotoOK DEF r
<1>6. ASSUME h[i].rep = None, proxy[h[i].t] # None,
             Goto(i, [h[i] EXCEPT !.pc = "key", !.ep = proxy[h[i].t].ep])
      PROVE  IndInv'
  <2> DEFINE r == [h[i] EXCEPT !.pc = "key", !.ep = proxy[h[i].t].ep]
  <2>1. proxy[h[i].t].ep \in Ports /\ proxy[h[i].t].ep # None
    BY <1>3, <1>6, NoneDistinct DEF IndInv, TypeOK, DataType, Backend
  <2>2. r \in TaskType /\ r.lock = h[i].lock /\ r.t = h[i].t
    <3>1. r \in TaskType
      BY <1>1, <2>1, Updates, Zenon DEF Pcs
    <3>2. r.lock = h[i].lock /\ r.t = h[i].t
      BY <1>1, <2>1 DEF TaskType
    <3>3. QED
      BY <3>1, <3>2
  <2>3. TaskOK(r) /\ TaskFits(r, proxy', key', born')
    BY <1>1, <1>3, <1>6, <2>1 DEF TaskType, TaskOK, Ensuring, TaskFits
  <2> HIDE DEF r
  <2>4. QED
    BY <1>2, <1>6, <2>2, <2>3, GotoOK DEF r
<1>7. ASSUME NEW p \in FreePorts, h[i].rep # None,
             Goto(i, [[h[i] EXCEPT !.insp = p, !.ep = p]
                        EXCEPT !.pc = "key", !.after = "enGet"])
      PROVE  IndInv'
  <2> DEFINE r == [[h[i] EXCEPT !.insp = p, !.ep = p]
                     EXCEPT !.pc = "key", !.after = "enGet"]
  <2>1. p \in Ports /\ p # None
    BY NoneDistinct DEF FreePorts
  <2>2. r \in TaskType /\ r.lock = h[i].lock /\ r.t = h[i].t
    <3>1. r \in TaskType
      BY <1>1, <2>1, Updates, Zenon DEF Pcs
    <3>2. r.lock = h[i].lock /\ r.t = h[i].t
      BY <1>1, <2>1 DEF TaskType
    <3>3. QED
      BY <3>1, <3>2
  <2>3. TaskOK(r) /\ TaskFits(r, proxy', key', born')
    BY <1>1, <1>3, <1>7, <2>1 DEF TaskType, TaskOK, Ensuring, TaskFits
  <2> HIDE DEF r
  <2>4. QED
    BY <1>2, <1>7, <2>2, <2>3, GotoOK DEF r
<1>8. QED
  BY <1>4, <1>5, <1>6, <1>7 DEF StartLook

-----------------------------------------------------------------------------
(* Creating.                                                               *)

\* A create starts its inspector and has no tunnel id yet.
LEMMA CreateRequestOK ==
    ASSUME IndInv, NEW i \in Procs, NEW w \in Targets, NEW p \in Ports,
           CreateRequest(i, w, p)
    PROVE  IndInv'
<1> DEFINE r == [Blank EXCEPT !.pc = "find", !.then = "crProxy", !.rep = w,
                              !.insp = p, !.ep = p]
<1>1. Goto(i, r) /\ h[i].lock = FALSE
  BY TaskHere DEF CreateRequest, At, TaskOK, Ensuring, TaskType
<1>2. r \in TaskType /\ TaskOK(r) /\ r.lock = FALSE
  BY NoneDistinct DEF Blank, TaskType, Pcs, TaskOK, Ensuring
<1>3. TaskFits(r, proxy', key', born')
  BY DEF Blank, TaskFits
<1> HIDE DEF r
<1>4. Stable /\ DataType' /\ DataOK'
  BY DataSame, HistSame DEF CreateRequest
<1>5. QED
  BY <1>1, <1>2, <1>3, <1>4, GotoOK

\* The API server hands out an id it has never handed out before.
LEMMA CreateProxyOK ==
    ASSUME IndInv, NEW i \in Procs, NEW t \in Tunnels, CreateProxy(i, t)
    PROVE  IndInv'
<1> DEFINE r == [h[i] EXCEPT !.pc = "crAd", !.t = t]
<1>1. /\ h[i] \in TaskType /\ TaskOK(h[i]) /\ TaskFits(h[i], proxy, key, born)
      /\ h[i].pc = "crProxy"
  BY TaskHere DEF CreateProxy, At
<1>2. [ep |-> h[i].ep, conn |-> h[i].conn] \in Backend
  BY <1>1 DEF TaskType, TaskOK, Ensuring, Backend
<1>3. proxy' \in [Tunnels -> Backend \cup {None}]
  BY <1>2 DEF CreateProxy, IndInv, TypeOK, DataType
<1>4. DataType'
  BY <1>3, HistSame DEF CreateProxy, IndInv, TypeOK, DataType, disk, mem, todos, hist
<1>5. Stable
  BY DEF CreateProxy, Stable, disk, IndInv, TypeOK, DataType
<1>6. DataOK'
  BY DEF CreateProxy, IndInv, TypeOK, DataType, DataOK, disk, mem, todos
<1>7. /\ r \in TaskType /\ TaskOK(r) /\ r.lock = h[i].lock
      /\ r.lock => r.t = h[i].t
  BY <1>1, NoneDistinct DEF TaskType, Pcs, TaskOK, Ensuring
<1>8. TaskFits(r, proxy', key', born')
  BY <1>1 DEF TaskType, TaskOK, Ensuring, TaskFits, CreateProxy
<1>9. Goto(i, r)
  BY DEF CreateProxy
<1> HIDE DEF r
<1>10. QED
  BY <1>4, <1>5, <1>6, <1>7, <1>8, <1>9, GotoOK

\* Changing advertisements alone disturbs nothing the invariant is about.
LEMMA AdsOnly ==
    ASSUME IndInv, ad' \in [Tunnels -> Backend \cup {None}],
           UNCHANGED <<proxy, conn, born, disk, mem, todos>>,
           crashes' \in Nat, faults' \in Nat
    PROVE  Stable /\ DataType' /\ DataOK'
BY DEF IndInv, TypeOK, DataType, DataOK, Stable, disk, mem, todos

\* The advertisement of a create names its port and connector.
LEMMA CreateAdOK ==
    ASSUME IndInv, NEW i \in Procs, CreateAd(i)
    PROVE  IndInv'
<1> DEFINE r == [h[i] EXCEPT !.pc = "install"]
<1>1. /\ h[i] \in TaskType /\ TaskOK(h[i]) /\ TaskFits(h[i], proxy, key, born)
      /\ h[i].pc = "crAd"
  BY TaskHere DEF CreateAd, At
<1>2. [ep |-> h[i].ep, conn |-> h[i].conn] \in Backend
  BY <1>1 DEF TaskType, TaskOK, Ensuring, Backend
<1>3. ad' \in [Tunnels -> Backend \cup {None}]
  BY <1>2 DEF CreateAd, IndInv, TypeOK, DataType
<1>4. Stable /\ DataType' /\ DataOK'
  BY <1>3, AdsOnly, HistSame DEF CreateAd
<1>5. CASE Goto(i, r)
  <2>1. r \in TaskType /\ TaskOK(r) /\ r.lock = h[i].lock /\ r.t = h[i].t
    BY <1>1 DEF TaskType, Pcs, TaskOK, Ensuring
  <2>2. TaskFits(r, proxy', key', born')
    BY <1>1 DEF TaskType, TaskOK, Ensuring, TaskFits, CreateAd
  <2> HIDE DEF r
  <2>3. QED
    BY <1>4, <1>5, <2>1, <2>2, GotoOK
<1>6. CASE Return(i)
  BY <1>4, <1>6, ReturnOK
<1>7. QED
  BY <1>5, <1>6 DEF CreateAd

-----------------------------------------------------------------------------
(* ensure_connector.                                                       *)

\* Where a task is once it has its connector.
LEMMA EnsuredOK ==
    ASSUME IndInv, NEW i \in Procs, h[i].pc \in {"find", "patchConn"},
           NEW c \in Conns, NEW d \in BOOLEAN,
           Goto(i, [h[i] EXCEPT !.pc = h[i].then, !.then = "none", !.conn = c,
                                !.dirty = d]),
           Stable, DataType', DataOK', UNCHANGED <<proxy, key, born>>
    PROVE  IndInv'
<1> DEFINE r == [h[i] EXCEPT !.pc = h[i].then, !.then = "none", !.conn = c,
                             !.dirty = d]
<1>1. /\ h[i] \in TaskType /\ TaskOK(h[i]) /\ TaskFits(h[i], proxy, key, born)
      /\ h[i].then \in {"crProxy", "updProxy", "enPatch"}
  BY TaskHere DEF TaskOK, Ensuring, TaskType
<1>2. r \in TaskType /\ r.lock = h[i].lock /\ r.t = h[i].t
  <2>1. h[i].then \in Pcs
    BY <1>1 DEF Pcs
  <2>2. r \in TaskType
    BY <1>1, <2>1, Updates, Zenon
  <2>3. r.lock = h[i].lock /\ r.t = h[i].t
    BY <1>1 DEF TaskType
  <2>4. QED
    BY <2>2, <2>3
<1>3. TaskOK(r)
  <2>1. CASE h[i].then = "crProxy"
    BY <1>1, <2>1, NoneDistinct DEF TaskType, TaskOK, Ensuring
  <2>2. CASE h[i].then = "updProxy"
    BY <1>1, <2>2, NoneDistinct DEF TaskType, TaskOK, Ensuring
  <2>3. CASE h[i].then = "enPatch"
    BY <1>1, <2>3, NoneDistinct DEF TaskType, TaskOK, Ensuring
  <2>4. QED
    BY <1>1, <2>1, <2>2, <2>3
<1>4. TaskFits(r, proxy', key', born')
  BY <1>1 DEF TaskType, TaskFits
<1> HIDE DEF r
<1>5. QED
  BY <1>2, <1>3, <1>4, GotoOK DEF r

\* ensure_connector finds a connector of its identity, or goes on to make one.
LEMMA FindConnectorOK ==
    ASSUME IndInv, NEW i \in Procs, FindConnector(i)
    PROVE  IndInv'
<1> DEFINE m == [h[i] EXCEPT !.pc = "mkConn"]
<1>1. /\ h[i] \in TaskType /\ TaskOK(h[i]) /\ TaskFits(h[i], proxy, key, born)
      /\ h[i].pc = "find"
  BY TaskHere DEF FindConnector, At
<1>2. Stable /\ DataType' /\ DataOK' /\ UNCHANGED <<proxy, key, born>>
  BY DataSame, HistSame DEF FindConnector, cloud, disk
<1>3. CASE Goto(i, m)
  <2>1. m \in TaskType /\ m.lock = h[i].lock /\ m.t = h[i].t
    BY <1>1 DEF TaskType, Pcs
  <2>2. TaskOK(m) /\ TaskFits(m, proxy', key', born')
    BY <1>1, <1>2 DEF TaskType, TaskOK, Ensuring, TaskFits
  <2> HIDE DEF m
  <2>3. QED
    BY <1>2, <1>3, <2>1, <2>2, GotoOK
<1>4. ASSUME NEW c \in Conns,
             Goto(i, [h[i] EXCEPT !.pc = h[i].then, !.then = "none", !.conn = c,
                                  !.dirty = h[i].conn # c])
      PROVE  IndInv'
  <2> DEFINE d == h[i].conn # c
  <2>1. d \in BOOLEAN
    OBVIOUS
  <2>2. Goto(i, [h[i] EXCEPT !.pc = h[i].then, !.then = "none", !.conn = c, !.dirty = d])
    BY <1>4
  <2> HIDE DEF d
  <2>3. QED
    BY <1>1, <1>2, <2>1, <2>2, EnsuredOK
<1>5. QED
  BY <1>3, <1>4 DEF FindConnector

\* A connector gets an identity only once that identity's key is on file.
LEMMA ConnOK ==
    ASSUME IndInv, NEW c \in Conns, NEW owner \in Tunnels \cup {Control, Nobody},
           conn' \in {conn, [conn EXCEPT ![c] = owner]},
           owner \in Tunnels => owner \in born /\ (key[owner] \/ proxy[owner] = None),
           UNCHANGED <<proxy, ad, born, disk, mem, todos>>,
           crashes' \in Nat, faults' \in Nat
    PROVE  Stable /\ DataType' /\ DataOK'
<1>1. conn' \in [Conns -> Identities \cup {None}]
  BY DEF IndInv, TypeOK, DataType, Identities
<1>2. Stable /\ DataType'
  BY <1>1 DEF IndInv, TypeOK, DataType, Stable, disk, mem, todos
<1>3. \A d \in Conns : conn'[d] \in {conn[d], owner}
  BY DEF IndInv, TypeOK, DataType
<1>4. DataOK'
  BY <1>3, IdentitiesDistinct DEF IndInv, DataOK, disk, mem, todos
<1>5. QED
  BY <1>2, <1>4

\* A new connector takes a free name and no identity yet.
LEMMA MakeConnectorOK ==
    ASSUME IndInv, NEW i \in Procs, NEW c \in Conns, MakeConnector(i, c)
    PROVE  IndInv'
<1> DEFINE r == [h[i] EXCEPT !.pc = "patchConn", !.conn = c, !.dirty = TRUE]
<1>1. /\ h[i] \in TaskType /\ TaskOK(h[i]) /\ TaskFits(h[i], proxy, key, born)
      /\ h[i].pc = "mkConn"
  BY TaskHere DEF MakeConnector, At
<1>2. Stable /\ DataType' /\ DataOK'
  BY ConnOK, HistSame, IdentitiesDistinct DEF MakeConnector
<1>3. r \in TaskType /\ TaskOK(r) /\ r.lock = h[i].lock /\ r.t = h[i].t
  <2>1. r \in TaskType /\ r.lock = h[i].lock /\ r.t = h[i].t
    <3>1. r \in TaskType
      BY <1>1, Updates, Zenon DEF Pcs
    <3>2. r.lock = h[i].lock /\ r.t = h[i].t
      BY <1>1 DEF TaskType
    <3>3. QED
      BY <3>1, <3>2
  <2>2. TaskOK(r)
    BY <1>1, NoneDistinct DEF TaskType, TaskOK, Ensuring
  <2>3. QED
    BY <2>1, <2>2
<1>4. TaskFits(r, proxy', key', born')
  BY <1>1 DEF TaskType, TaskFits, MakeConnector, disk
<1>5. Goto(i, r)
  BY DEF MakeConnector
<1> HIDE DEF r
<1>6. QED
  BY <1>2, <1>3, <1>4, <1>5, GotoOK

\* A refused connector create ends the request.
LEMMA OverQuotaOK ==
    ASSUME IndInv, NEW i \in Procs, OverQuota(i)
    PROVE  IndInv'
BY DataSame, HistSame, ReturnOK DEF OverQuota

\* A connector gets an identity whose key is on file.
LEMMA PatchConnectorOK ==
    ASSUME IndInv, NEW i \in Procs, PatchConnector(i)
    PROVE  IndInv'
<1> DEFINE r == [h[i] EXCEPT !.pc = h[i].then, !.then = "none"]
<1>1. /\ h[i] \in TaskType /\ TaskOK(h[i]) /\ TaskFits(h[i], proxy, key, born)
      /\ h[i].pc = "patchConn"
  BY TaskHere DEF PatchConnector, At
<1>2. h[i].conn \in Conns /\ h[i].then \in {"crProxy", "updProxy", "enPatch"}
  BY <1>1 DEF TaskType, TaskOK, Ensuring
<1>3. /\ Identity(i) \in Tunnels \cup {Control, Nobody}
      /\ Identity(i) \in Tunnels =>
            Identity(i) \in born /\ (key[Identity(i)] \/ proxy[Identity(i)] = None)
  <2>1. CASE h[i].t = None
    BY <2>1, IdentitiesDistinct DEF Identity
  <2>2. CASE h[i].t # None
    <3>1. h[i].t \in born /\ h[i].t \in Tunnels /\ h[i].then # "crProxy"
      BY <1>1, <1>2, <2>2 DEF TaskType, TaskOK, Ensuring, TaskFits
    <3>2. key[h[i].t] \/ proxy[h[i].t] = None
      BY <1>1, <1>2, <3>1 DEF TaskFits
    <3>3. QED
      BY <2>2, <3>1, <3>2 DEF Identity
  <2>3. QED
    BY <2>1, <2>2
<1>4. /\ conn' \in {conn, [conn EXCEPT ![h[i].conn] = Identity(i)]}
      /\ crashes' \in Nat /\ faults' \in Nat
  BY DEF PatchConnector, IndInv, TypeOK, DataType
<1>5. Stable /\ DataType' /\ DataOK'
  BY <1>2, <1>3, <1>4, ConnOK DEF PatchConnector
<1>6. r \in TaskType /\ r.lock = h[i].lock /\ r.t = h[i].t
  <2>1. r \in TaskType
    BY <1>1, <1>2, Updates, Zenon DEF Pcs
  <2>2. r.lock = h[i].lock /\ r.t = h[i].t
    BY <1>1, <1>2 DEF TaskType
  <2>3. QED
    BY <2>1, <2>2
<1>7. TaskOK(r)
  <2>1. CASE h[i].then = "crProxy"
    BY <1>1, <2>1 DEF TaskType, TaskOK, Ensuring
  <2>2. CASE h[i].then = "updProxy"
    BY <1>1, <2>2 DEF TaskType, TaskOK, Ensuring
  <2>3. CASE h[i].then = "enPatch"
    BY <1>1, <2>3 DEF TaskType, TaskOK, Ensuring
  <2>4. QED
    BY <1>2, <2>1, <2>2, <2>3
<1>8. TaskFits(r, proxy', key', born')
  BY <1>1, <1>2 DEF TaskType, TaskFits, PatchConnector, disk
<1>9. Goto(i, r)
  BY DEF PatchConnector
<1> HIDE DEF r
<1>10. QED
  BY <1>5, <1>6, <1>7, <1>8, <1>9, GotoOK

-----------------------------------------------------------------------------
(* Starting.                                                               *)

\* resolve_listen_key has the key on file before it is used.
LEMMA StartKeyOK ==
    ASSUME IndInv, NEW i \in Procs, StartKey(i)
    PROVE  IndInv'
<1> DEFINE r == [h[i] EXCEPT !.pc = "find", !.then = "updProxy"]
           q == [h[i] EXCEPT !.pc = IF h[i].rep # None THEN "moveProxy" ELSE "enGet"]
<1>1. /\ h[i] \in TaskType /\ TaskOK(h[i]) /\ TaskFits(h[i], proxy, key, born)
      /\ h[i].pc = "key" /\ h[i].t \in Tunnels /\ h[i].t \in born
  BY TaskHere DEF StartKey, At, TaskOK, Ensuring, TaskFits, TaskType
<1>2. key' \in [Tunnels -> BOOLEAN] /\ key'[h[i].t]
  BY <1>1 DEF StartKey, IndInv, TypeOK, DataType
<1>3. DataType'
  BY <1>2, HistSame DEF StartKey, IndInv, TypeOK, DataType, cloud, mem, todos, hist
<1>4. Stable /\ DataOK'
  BY DEF StartKey, IndInv, TypeOK, DataType, DataOK, Stable, cloud, mem, todos
<1>5. CASE Goto(i, r)
  <2>1. r \in TaskType /\ TaskOK(r) /\ r.lock = h[i].lock /\ r.t = h[i].t
    <3>1. r \in TaskType
      BY <1>1, Updates, Zenon DEF Pcs
    <3>2. TaskOK(r) /\ r.lock = h[i].lock /\ r.t = h[i].t
      BY <1>1 DEF TaskType, TaskOK, Ensuring
    <3>3. QED
      BY <3>1, <3>2
  <2>2. TaskFits(r, proxy', key', born')
    BY <1>1, <1>2 DEF TaskType, TaskFits, StartKey, cloud
  <2> HIDE DEF r
  <2>3. QED
    BY <1>3, <1>4, <1>5, <2>1, <2>2, GotoOK
<1>6. CASE Goto(i, q)
  <2>1. q \in TaskType /\ TaskOK(q) /\ q.lock = h[i].lock /\ q.t = h[i].t
    BY <1>1 DEF TaskType, Pcs, TaskOK, Ensuring
  <2>2. TaskFits(q, proxy', key', born')
    BY <1>1, <1>2 DEF TaskType, TaskOK, Ensuring, TaskFits, StartKey, cloud
  <2> HIDE DEF q
  <2>3. QED
    BY <1>3, <1>4, <1>6, <2>1, <2>2, GotoOK
<1>7. QED
  BY <1>5, <1>6 DEF StartKey

\* Patching the HTTPProxy of a tunnel that exists.
LEMMA PatchProxy ==
    ASSUME IndInv, NEW t \in Tunnels, NEW b \in Backend, proxy[t] # None,
           proxy' = [proxy EXCEPT ![t] = b],
           UNCHANGED <<ad, conn, born, disk, mem, todos>>,
           crashes' \in Nat, faults' \in Nat
    PROVE  Stable /\ DataType' /\ DataOK'
<1>1. proxy' \in [Tunnels -> Backend \cup {None}]
  BY DEF IndInv, TypeOK, DataType
<1>2. DataType'
  BY <1>1 DEF IndInv, TypeOK, DataType, disk, mem, todos
<1>3. t \in born
  BY DEF IndInv, DataOK
<1>4. \A u \in Tunnels : u # t => proxy'[u] = proxy[u]
  BY DEF IndInv, TypeOK, DataType
<1>5. Stable
  BY <1>4 DEF Stable, IndInv, TypeOK, DataType, disk
<1>6. DataOK'
  BY <1>3, <1>4 DEF IndInv, DataOK, disk, mem, todos, TypeOK, DataType
<1>7. QED
  BY <1>2, <1>5, <1>6

\* update_project writes the HTTPProxy, or finds it gone.
LEMMA UpdateProxyOK ==
    ASSUME IndInv, NEW i \in Procs, UpdateProxy(i)
    PROVE  IndInv'
<1> DEFINE r == [h[i] EXCEPT !.pc = "updAd"]
<1>1. /\ h[i] \in TaskType /\ TaskOK(h[i]) /\ TaskFits(h[i], proxy, key, born)
      /\ h[i].pc = "updProxy" /\ h[i].t \in Tunnels /\ h[i].t \in born
  BY TaskHere DEF UpdateProxy, At, TaskOK, Ensuring, TaskFits, TaskType
<1>2. [ep |-> h[i].ep, conn |-> h[i].conn] \in Backend
  BY <1>1 DEF TaskType, TaskOK, Ensuring, Backend
<1>3. CASE proxy[h[i].t] = None
  <2>1. Return(i) /\ UNCHANGED proxy
    BY <1>3 DEF UpdateProxy
  <2>2. Stable /\ DataType' /\ DataOK'
    BY <2>1, DataSame, HistSame DEF UpdateProxy, cloud
  <2>3. QED
    BY <2>1, <2>2, ReturnOK
<1>4. CASE proxy[h[i].t] # None
  <2>1. Goto(i, r) /\ proxy' = [proxy EXCEPT ![h[i].t] = [ep |-> h[i].ep, conn |-> h[i].conn]]
    BY <1>4 DEF UpdateProxy
  <2>2. Stable /\ DataType' /\ DataOK'
    BY <1>1, <1>2, <1>4, <2>1, PatchProxy, HistSame DEF UpdateProxy
  <2>3. r \in TaskType /\ TaskOK(r) /\ r.lock = h[i].lock /\ r.t = h[i].t
    BY <1>1 DEF TaskType, Pcs, TaskOK, Ensuring
  <2>4. key'[h[i].t] /\ born' = born
    BY <1>1, <1>4 DEF TaskFits, UpdateProxy, disk
  <2>5. TaskFits(r, proxy', key', born')
    BY <1>1, <2>4 DEF TaskType, TaskFits
  <2> HIDE DEF r
  <2>6. QED
    BY <2>1, <2>2, <2>3, <2>5, GotoOK
<1>5. QED
  BY <1>3, <1>4

\* update_project writes the advertisement.
LEMMA UpdateAdOK ==
    ASSUME IndInv, NEW i \in Procs, UpdateAd(i)
    PROVE  IndInv'
<1> DEFINE r == [h[i] EXCEPT !.pc = "cleanRefs"]
<1>1. /\ h[i] \in TaskType /\ TaskOK(h[i]) /\ TaskFits(h[i], proxy, key, born)
      /\ h[i].pc = "updAd" /\ h[i].t \in Tunnels /\ h[i].t \in born
  BY TaskHere DEF UpdateAd, At, TaskOK, Ensuring, TaskFits, TaskType
<1>2. [ep |-> h[i].ep, conn |-> h[i].conn] \in Backend
  BY <1>1 DEF TaskType, TaskOK, Ensuring, Backend
<1>3. ad' \in [Tunnels -> Backend \cup {None}]
  BY <1>2 DEF UpdateAd, IndInv, TypeOK, DataType
<1>4. Stable /\ DataType' /\ DataOK'
  BY <1>3, AdsOnly, HistSame DEF UpdateAd
<1>5. r \in TaskType /\ TaskOK(r) /\ r.lock = h[i].lock /\ r.t = h[i].t
  BY <1>1 DEF TaskType, Pcs, TaskOK, Ensuring
<1>6. TaskFits(r, proxy', key', born')
  BY <1>1 DEF TaskType, TaskFits, UpdateAd, disk
<1>7. Goto(i, r)
  BY DEF UpdateAd
<1> HIDE DEF r
<1>8. QED
  BY <1>4, <1>5, <1>6, <1>7, GotoOK

\* Orphan clean-up lists the proxies.
LEMMA CleanRefsOK ==
    ASSUME IndInv, NEW i \in Procs, CleanRefs(i)
    PROVE  IndInv'
<1> DEFINE cs == {c \in Conns : Used(c)}
           r  == [h[i] EXCEPT !.pc = "cleanList", !.drop = cs]
<1>1. /\ h[i] \in TaskType /\ TaskOK(h[i]) /\ TaskFits(h[i], proxy, key, born)
      /\ h[i].pc = "cleanRefs" /\ h[i].t \in Tunnels /\ h[i].t \in born
  BY TaskHere DEF CleanRefs, At, TaskOK, Ensuring, TaskFits, TaskType
<1>2. Stable /\ DataType' /\ DataOK'
  BY DataSame, HistSame DEF CleanRefs
<1>3. cs \subseteq Conns
  OBVIOUS
<1>4. Goto(i, r)
  BY DEF CleanRefs
<1> HIDE DEF cs
<1>5. r \in TaskType /\ TaskOK(r) /\ r.lock = h[i].lock /\ r.t = h[i].t
  <2>1. r \in TaskType
    BY <1>1, <1>3, Updates, Zenon DEF Pcs
  <2>2. TaskOK(r) /\ r.lock = h[i].lock /\ r.t = h[i].t
    BY <1>1, <1>3 DEF TaskType, TaskOK, Ensuring
  <2>3. QED
    BY <2>1, <2>2
<1>6. TaskFits(r, proxy', key', born')
  BY <1>1 DEF TaskType, TaskFits, CleanRefs, cloud, disk
<1> HIDE DEF r
<1>7. QED
  BY <1>2, <1>4, <1>5, <1>6, GotoOK

\* Orphan clean-up lists the connectors.
LEMMA CleanListOK ==
    ASSUME IndInv, NEW i \in Procs, CleanList(i)
    PROVE  IndInv'
<1> DEFINE cs == {c \in Conns : Exists(c) /\ c \notin h[i].drop}
           r  == [h[i] EXCEPT !.pc = "cleanDel", !.drop = cs]
<1>1. /\ h[i] \in TaskType /\ TaskOK(h[i]) /\ TaskFits(h[i], proxy, key, born)
      /\ h[i].pc = "cleanList" /\ h[i].t \in Tunnels /\ h[i].t \in born
  BY TaskHere DEF CleanList, At, TaskOK, Ensuring, TaskFits, TaskType
<1>2. Stable /\ DataType' /\ DataOK'
  BY DataSame, HistSame DEF CleanList
<1>3. cs \subseteq Conns
  OBVIOUS
<1>4. Goto(i, r)
  BY DEF CleanList
<1> HIDE DEF cs
<1>5. r \in TaskType /\ TaskOK(r) /\ r.lock = h[i].lock /\ r.t = h[i].t
  <2>1. r \in TaskType
    BY <1>1, <1>3, Updates, Zenon DEF Pcs
  <2>2. TaskOK(r) /\ r.lock = h[i].lock /\ r.t = h[i].t
    BY <1>1, <1>3 DEF TaskType, TaskOK, Ensuring
  <2>3. QED
    BY <2>1, <2>2
<1>6. TaskFits(r, proxy', key', born')
  BY <1>1 DEF TaskType, TaskFits, CleanList, cloud, disk
<1> HIDE DEF r
<1>7. QED
  BY <1>2, <1>4, <1>5, <1>6, GotoOK

\* Where a start goes after cleanup_orphaned_connectors.
LEMMA AfterCleanOK ==
    ASSUME IndInv, NEW i \in Procs,
           h[i].pc \in {"cleanRefs", "cleanList", "cleanDel"},
           Stable, DataType', DataOK', Goto(i, AfterClean(i)),
           UNCHANGED <<proxy, born, key>>
    PROVE  IndInv'
<1> DEFINE r == AfterClean(i)
<1>1. /\ h[i] \in TaskType /\ TaskOK(h[i]) /\ TaskFits(h[i], proxy, key, born)
      /\ h[i].t \in Tunnels /\ h[i].t \in born
  BY TaskHere DEF TaskOK, Ensuring, TaskFits, TaskType
<1>2. r \in TaskType /\ r.lock = h[i].lock /\ r.t = h[i].t
  <2>1. r \in TaskType
    BY <1>1, Updates, Zenon DEF AfterClean, Pcs
  <2>2. r.lock = h[i].lock /\ r.t = h[i].t
    BY <1>1 DEF AfterClean, TaskType
  <2>3. QED
    BY <2>1, <2>2
<1>3. TaskOK(r)
  <2>1. CASE h[i].rep = None
    BY <1>1, <2>1 DEF AfterClean, TaskType, TaskOK, Ensuring
  <2>2. CASE h[i].rep # None
    BY <1>1, <2>2 DEF AfterClean, TaskType, TaskOK, Ensuring
  <2>3. QED
    BY <2>1, <2>2
<1>4. TaskFits(r, proxy', key', born')
  BY <1>1 DEF AfterClean, TaskType, TaskFits
<1> HIDE DEF r
<1>5. QED
  BY <1>2, <1>3, <1>4, GotoOK DEF r

\* Deleting connectors, and the advertisements that name them.
LEMMA DropConns ==
    ASSUME IndInv, NEW cs, ad' = WithoutAds(cs), conn' = WithoutConns(cs),
           UNCHANGED <<proxy, born, disk, mem, todos>>,
           crashes' \in Nat, faults' \in Nat
    PROVE  Stable /\ DataType' /\ DataOK'
<1>1. ad' \in [Tunnels -> Backend \cup {None}]
  BY DEF WithoutAds, IndInv, TypeOK, DataType
<1>2. conn' \in [Conns -> Identities \cup {None}]
  BY DEF WithoutConns, IndInv, TypeOK, DataType
<1>3. Stable /\ DataType'
  BY <1>1, <1>2 DEF IndInv, TypeOK, DataType, Stable, disk, mem, todos
<1>4. DataOK'
  BY NoneDistinct DEF WithoutConns, IndInv, TypeOK, DataType, DataOK, disk, mem, todos
<1>5. QED
  BY <1>3, <1>4

\* Deleting connectors takes no key and no proxy away.
LEMMA CleanDeleteOK ==
    ASSUME IndInv, NEW i \in Procs, CleanDelete(i)
    PROVE  IndInv'
<1>1. Stable /\ DataType' /\ DataOK'
  BY DropConns, HistSame DEF CleanDelete
<1>2. QED
  BY <1>1, AfterCleanOK DEF CleanDelete, At, disk

\* A failed clean-up is only a warning.
LEMMA CleanFailsOK ==
    ASSUME IndInv, NEW i \in Procs, CleanFails(i)
    PROVE  IndInv'
<1>1. crashes' \in Nat /\ faults' \in Nat
  BY DEF CleanFails, IndInv, TypeOK, DataType
<1>2. Stable /\ DataType' /\ DataOK'
  BY <1>1, DataSame DEF CleanFails
<1>3. QED
  BY <1>2, AfterCleanOK DEF CleanFails, cloud, disk

\* retarget_project moves the HTTPProxy to the new port.
LEMMA MoveProxyOK ==
    ASSUME IndInv, NEW i \in Procs, MoveProxy(i)
    PROVE  IndInv'
<1> DEFINE r == [h[i] EXCEPT !.pc = "moveAd"]
<1>1. /\ h[i] \in TaskType /\ TaskOK(h[i]) /\ TaskFits(h[i], proxy, key, born)
      /\ h[i].pc = "moveProxy" /\ h[i].t \in Tunnels /\ h[i].t \in born
  BY TaskHere DEF MoveProxy, At, TaskOK, Ensuring, TaskFits, TaskType
<1>2. CASE proxy[h[i].t] = None
  <2>1. Return(i) /\ UNCHANGED proxy
    BY <1>2 DEF MoveProxy
  <2>2. Stable /\ DataType' /\ DataOK'
    BY <2>1, DataSame, HistSame DEF MoveProxy, cloud
  <2>3. QED
    BY <2>1, <2>2, ReturnOK
<1>3. CASE proxy[h[i].t] # None
  <2> DEFINE b == [proxy[h[i].t] EXCEPT !.ep = h[i].ep]
  <2>1. Goto(i, r) /\ proxy' = [proxy EXCEPT ![h[i].t] = b]
    BY <1>1, <1>3 DEF MoveProxy, IndInv, TypeOK, DataType
  <2>2. b \in Backend
    BY <1>1, <1>3 DEF IndInv, TypeOK, DataType, Backend, TaskType, TaskOK, Ensuring
  <2> HIDE DEF b
  <2>3. Stable /\ DataType' /\ DataOK'
    BY <1>1, <1>3, <2>1, <2>2, PatchProxy, HistSame DEF MoveProxy
  <2>4. r \in TaskType /\ TaskOK(r) /\ r.lock = h[i].lock /\ r.t = h[i].t
    BY <1>1 DEF TaskType, Pcs, TaskOK, Ensuring
  <2>5. key' = key /\ born' = born
    BY DEF MoveProxy, disk
  <2>6. TaskFits(r, proxy', key', born')
    BY <1>1, <1>3, <2>5 DEF TaskType, TaskFits
  <2> HIDE DEF r
  <2>7. QED
    BY <2>1, <2>3, <2>4, <2>6, GotoOK
<1>4. QED
  BY <1>2, <1>3

\* retarget_project moves the advertisement with it.
LEMMA MoveAdOK ==
    ASSUME IndInv, NEW i \in Procs, MoveAd(i)
    PROVE  IndInv'
<1> DEFINE r == [h[i] EXCEPT !.pc = "install"]
<1>1. /\ h[i] \in TaskType /\ TaskOK(h[i]) /\ TaskFits(h[i], proxy, key, born)
      /\ h[i].pc = "moveAd" /\ h[i].t \in Tunnels /\ h[i].t \in born
  BY TaskHere DEF MoveAd, At, TaskOK, Ensuring, TaskFits, TaskType
<1>3. ad' \in [Tunnels -> Backend \cup {None}]
  <2>1. h[i].ep \in Ports
    BY <1>1 DEF TaskType, TaskOK, Ensuring
  <2>2. QED
    BY <1>1, <2>1 DEF MoveAd, IndInv, TypeOK, DataType, Backend
<1>4. Stable /\ DataType' /\ DataOK'
  BY <1>3, AdsOnly, HistSame DEF MoveAd
<1>5. r \in TaskType /\ TaskOK(r) /\ r.lock = h[i].lock /\ r.t = h[i].t
  BY <1>1 DEF TaskType, Pcs, TaskOK, Ensuring
<1>6. TaskFits(r, proxy', key', born')
  BY <1>1 DEF TaskType, TaskFits, MoveAd, disk
<1>7. Goto(i, r)
  BY DEF MoveAd
<1> HIDE DEF r
<1>8. QED
  BY <1>4, <1>5, <1>6, <1>7, GotoOK

\* install_inspector sets the map entry and the persisted target.
LEMMA InstallInspectorOK ==
    ASSUME IndInv, NEW i \in Procs, InstallInspector(i)
    PROVE  IndInv'
<1> DEFINE r == [h[i] EXCEPT !.pc = h[i].after, !.insp = None, !.rep = None]
<1>1. /\ h[i] \in TaskType /\ TaskOK(h[i]) /\ TaskFits(h[i], proxy, key, born)
      /\ h[i].pc = "install" /\ h[i].t \in Tunnels /\ h[i].t \in born
  BY TaskHere DEF InstallInspector, At, TaskOK, Ensuring, TaskFits, TaskType
<1>2. h[i].insp \in Ports /\ h[i].rep \in Targets
  BY <1>1 DEF TaskType, TaskOK, Ensuring
<1>3. target' \in [Tunnels -> Targets \cup {None}] /\ faults' \in Nat
  BY <1>1, <1>2 DEF InstallInspector, IndInv, TypeOK, DataType
<1>4. inspectors' \in [Tunnels -> [port : Ports, target : Targets] \cup {None}]
  BY <1>1, <1>2 DEF InstallInspector, IndInv, TypeOK, DataType
<1>5. DataType'
  BY <1>3, <1>4 DEF InstallInspector, IndInv, TypeOK, DataType, cloud, todos
<1>6. Stable /\ DataOK'
  BY DEF InstallInspector, IndInv, TypeOK, DataType, DataOK, Stable, cloud, todos
<1>7. CASE h[i].after = "ret"
  BY <1>5, <1>6, <1>7, ReturnOK DEF InstallInspector
<1>8. CASE h[i].after # "ret"
  <2>1. Goto(i, r) /\ h[i].after \in {"enGet", "claim"}
    BY <1>1, <1>8 DEF InstallInspector, TaskType
  <2>2. r \in TaskType /\ r.lock = h[i].lock /\ r.t = h[i].t
    BY <1>1, <2>1 DEF TaskType, Pcs
  <2>3. TaskOK(r)
    BY <1>1, <2>1 DEF TaskType, TaskOK, Ensuring
  <2>4. TaskFits(r, proxy', key', born')
    BY <1>1, <2>1 DEF TaskType, TaskFits, InstallInspector, cloud
  <2> HIDE DEF r
  <2>5. QED
    BY <1>5, <1>6, <2>1, <2>2, <2>3, <2>4, GotoOK
<1>9. QED
  BY <1>7, <1>8

-----------------------------------------------------------------------------
(* Enabling.                                                               *)

\* set_enabled_project reads the proxy it is going to enable.
LEMMA EnableGetOK ==
    ASSUME IndInv, NEW i \in Procs, EnableGet(i)
    PROVE  IndInv'
<1> DEFINE b == proxy[h[i].t]
           r == [h[i] EXCEPT !.pc = "find", !.then = "enPatch", !.ep = b.ep,
                             !.conn = b.conn]
<1>1. /\ h[i] \in TaskType /\ TaskOK(h[i]) /\ TaskFits(h[i], proxy, key, born)
      /\ h[i].pc = "enGet" /\ h[i].t \in Tunnels /\ h[i].t \in born
  BY TaskHere DEF EnableGet, At, TaskOK, Ensuring, TaskFits, TaskType
<1>2. Stable /\ DataType' /\ DataOK'
  BY DataSame, HistSame DEF EnableGet
<1>3. b.ep \in Ports /\ b.conn \in Conns
  BY <1>1 DEF EnableGet, IndInv, TypeOK, DataType, Backend
<1>4. Goto(i, r)
  BY DEF EnableGet
<1> HIDE DEF b
<1>5. r \in TaskType /\ TaskOK(r) /\ r.lock = h[i].lock /\ r.t = h[i].t
  <2>1. r \in TaskType
    BY <1>1, <1>3, NoneDistinct, Updates, Zenon DEF Pcs
  <2>2. TaskOK(r) /\ r.lock = h[i].lock /\ r.t = h[i].t
    BY <1>1, <1>3, NoneDistinct DEF TaskType, TaskOK, Ensuring
  <2>3. QED
    BY <2>1, <2>2
<1>6. TaskFits(r, proxy', key', born')
  BY <1>1 DEF TaskType, TaskFits, EnableGet, cloud, disk
<1> HIDE DEF r
<1>7. QED
  BY <1>2, <1>4, <1>5, <1>6, GotoOK

\* set_enabled_project of a deleted tunnel ends the start.
LEMMA EnableGoneOK ==
    ASSUME IndInv, NEW i \in Procs, EnableGone(i)
    PROVE  IndInv'
BY DataSame, HistSame, ReturnOK DEF EnableGone

\* set_enabled_project writes the connector into the proxy.
LEMMA EnablePatchOK ==
    ASSUME IndInv, NEW i \in Procs, EnablePatch(i)
    PROVE  IndInv'
<1> DEFINE r == [h[i] EXCEPT !.pc = "enAd"]
<1>1. /\ h[i] \in TaskType /\ TaskOK(h[i]) /\ TaskFits(h[i], proxy, key, born)
      /\ h[i].pc = "enPatch" /\ h[i].t \in Tunnels /\ h[i].t \in born
  BY TaskHere DEF EnablePatch, At, TaskOK, Ensuring, TaskFits, TaskType
<1>2. [ep |-> h[i].ep, conn |-> h[i].conn] \in Backend
  BY <1>1 DEF TaskType, TaskOK, Ensuring, Backend
<1>3. Stable /\ DataType' /\ DataOK'
  <2>1. CASE h[i].dirty
    BY <1>1, <1>2, <2>1, PatchProxy, HistSame DEF EnablePatch
  <2>2. CASE ~h[i].dirty
    BY <2>2, DataSame, HistSame DEF EnablePatch, cloud
  <2>3. QED
    BY <2>1, <2>2
<1>4. r \in TaskType /\ TaskOK(r) /\ r.lock = h[i].lock /\ r.t = h[i].t
  BY <1>1 DEF TaskType, Pcs, TaskOK, Ensuring
<1>5. (proxy' = proxy \/ proxy[h[i].t] # None) /\ key' = key /\ born' = born
  BY DEF EnablePatch, disk
<1>6. TaskFits(r, proxy', key', born')
  BY <1>1, <1>5 DEF TaskType, TaskFits
<1>7. Goto(i, r)
  BY DEF EnablePatch
<1> HIDE DEF r
<1>8. QED
  BY <1>3, <1>4, <1>6, <1>7, GotoOK

\* set_enabled_project writes the advertisement.
LEMMA EnableAdOK ==
    ASSUME IndInv, NEW i \in Procs, EnableAd(i)
    PROVE  IndInv'
<1> DEFINE r == [h[i] EXCEPT !.pc = "insert"]
<1>1. /\ h[i] \in TaskType /\ TaskOK(h[i]) /\ TaskFits(h[i], proxy, key, born)
      /\ h[i].pc = "enAd" /\ h[i].t \in Tunnels /\ h[i].t \in born
  BY TaskHere DEF EnableAd, At, TaskOK, Ensuring, TaskFits, TaskType
<1>2. [ep |-> h[i].ep, conn |-> h[i].conn] \in Backend
  BY <1>1 DEF TaskType, TaskOK, Ensuring, Backend
<1>3. ad' \in [Tunnels -> Backend \cup {None}]
  BY <1>2 DEF EnableAd, IndInv, TypeOK, DataType
<1>4. Stable /\ DataType' /\ DataOK'
  BY <1>3, AdsOnly, HistSame DEF EnableAd
<1>5. r \in TaskType /\ TaskOK(r) /\ r.lock = h[i].lock /\ r.t = h[i].t
  BY <1>1 DEF TaskType, Pcs, TaskOK, Ensuring
<1>6. TaskFits(r, proxy', key', born')
  BY <1>1 DEF TaskType, TaskFits, EnableAd, disk
<1>7. Goto(i, r)
  BY DEF EnableAd
<1> HIDE DEF r
<1>8. QED
  BY <1>4, <1>5, <1>6, <1>7, GotoOK

\* The running entry is inserted and the reservation given back.
LEMMA StartInsertOK ==
    ASSUME IndInv, NEW i \in Procs, StartInsert(i)
    PROVE  IndInv'
<1>1. /\ h[i] \in TaskType /\ TaskOK(h[i]) /\ TaskFits(h[i], proxy, key, born)
      /\ h[i].pc = "insert" /\ h[i].t \in Tunnels /\ h[i].t \in born
  BY TaskHere DEF StartInsert, At, TaskOK, Ensuring, TaskFits, TaskType
<1>2. DataType'
  BY HistSame DEF StartInsert, IndInv, TypeOK, DataType, cloud, disk, todos, hist
<1>3. Stable /\ DataOK'
  BY <1>1 DEF StartInsert, IndInv, TypeOK, DataType, DataOK, Stable, cloud, disk, todos
<1>4. QED
  BY <1>2, <1>3, ReturnOK DEF StartInsert

-----------------------------------------------------------------------------
(* Stopping.                                                               *)

\* Turning running entries off disturbs nothing the invariant is about.
LEMMA RunningOff ==
    ASSUME IndInv, NEW t \in Tunnels,
           running' \in {running, [running EXCEPT ![t] = "off"]},
           UNCHANGED <<cloud, disk, inspectors, hist>>,
           recTodo' \subseteq recTodo, sweepTodo' \subseteq sweepTodo
    PROVE  Stable /\ DataType' /\ DataOK'
<1>1. DataType'
  BY HistSame DEF IndInv, TypeOK, DataType, cloud, disk, hist
<1>2. Stable /\ DataOK'
  BY DEF IndInv, TypeOK, DataType, DataOK, Stable, cloud, disk
<1>3. QED
  BY <1>1, <1>2

\* A task that holds nothing begins a stop.
LEMMA TakeRunningOK ==
    ASSUME IndInv, NEW i \in Procs, ~h[i].lock, NEW t \in born, NEW b \in BOOLEAN,
           TakeRunning(i, t, b),
           Stable, DataType', DataOK'
    PROVE  IndInv'
<1> DEFINE r == [Blank EXCEPT !.pc = "disable", !.t = t, !.rm = b]
           q == [r EXCEPT !.lock = TRUE]
<1>1. t \in Tunnels /\ t # None
  BY NoneDistinct DEF IndInv, TypeOK, DataType
<1>2. q \in TaskType /\ TaskOK(q) /\ q.t = r.t /\ q.lock /\ r.t \in Tunnels
  BY <1>1 DEF Blank, TaskType, Pcs, TaskOK, Ensuring
<1>3. TaskFits(q, proxy', key', born')
  BY DEF Blank, TaskFits, Stable
<1>4. ClaimBusy(i, r)
  BY DEF TakeRunning
<1> HIDE DEF r
<1>5. QED
  BY <1>2, <1>3, <1>4, ClaimOK

\* A stop reserves the id and takes the running entry.
LEMMA StopRequestOK ==
    ASSUME IndInv, NEW i \in Procs, NEW t \in Tunnels, StopRequest(i, t)
    PROVE  IndInv'
<1>1. ~h[i].lock /\ t \in born
  BY TaskHere DEF StopRequest, Addressable, At, TaskOK, Ensuring
<1>2. Stable /\ DataType' /\ DataOK'
  BY RunningOff DEF StopRequest, TakeRunning, todos
<1>3. QED
  BY <1>1, <1>2, TakeRunningOK DEF StopRequest

\* set_enabled_project deletes the advertisement, and the stop ends.
LEMMA DisableOK ==
    ASSUME IndInv, NEW i \in Procs, Disable(i)
    PROVE  IndInv'
<1>1. ad' \in [Tunnels -> Backend \cup {None}]
  BY DEF Disable, IndInv, TypeOK, DataType
<1>2. QED
  BY <1>1, AdsOnly, HistSame, ReturnOK DEF Disable

-----------------------------------------------------------------------------
(* Deleting.                                                               *)

\* A request that goes on to the delete.
LEMMA GoDelete ==
    ASSUME IndInv, NEW i \in Procs, At(i, "idle"), NEW t \in born,
           Goto(i, [Blank EXCEPT !.pc = "delLook", !.t = t]),
           Stable, DataType', DataOK'
    PROVE  IndInv'
<1> DEFINE r == [Blank EXCEPT !.pc = "delLook", !.t = t]
<1>1. t \in Tunnels /\ t # None
  BY NoneDistinct DEF IndInv, TypeOK, DataType
<1>2. r \in TaskType /\ TaskOK(r) /\ r.lock = FALSE
  BY <1>1 DEF Blank, TaskType, Pcs, TaskOK, Ensuring
<1>3. TaskFits(r, proxy', key', born')
  BY DEF Blank, TaskFits, Stable
<1>4. h[i].lock = FALSE
  BY TaskHere DEF TaskOK, Ensuring, TaskType, At
<1> HIDE DEF r
<1>5. QED
  BY <1>2, <1>3, <1>4, GotoOK DEF r

\* A delete is accepted; it reserves nothing.
LEMMA DeleteRequestOK ==
    ASSUME IndInv, NEW i \in Procs, NEW t \in Tunnels, DeleteRequest(i, t)
    PROVE  IndInv'
BY DataSame, HistSame, GoDelete DEF DeleteRequest, Addressable

\* Remove begins with a stop of the older tunnel.
LEMMA RemoveRequestOK ==
    ASSUME IndInv, NEW i \in Procs, NEW t \in Tunnels, RemoveRequest(i, t)
    PROVE  IndInv'
<1>1. t \in born /\ ~h[i].lock /\ At(i, "idle")
  BY TaskHere DEF RemoveRequest, IndInv, DataOK, TaskOK, Ensuring, At
<1>2. CASE UNCHANGED running /\ Goto(i, [Blank EXCEPT !.pc = "delLook", !.t = t])
  BY <1>1, <1>2, DataSame, HistSame, GoDelete DEF RemoveRequest, mem
<1>3. CASE TakeRunning(i, t, TRUE)
  <2>1. Stable /\ DataType' /\ DataOK'
    BY <1>3, RunningOff DEF RemoveRequest, TakeRunning, todos
  <2>2. QED
    BY <1>1, <1>3, <2>1, TakeRunningOK
<1>4. QED
  BY <1>2, <1>3 DEF RemoveRequest

\* delete_project reads the proxy and its connector.
LEMMA DeleteLookOK ==
    ASSUME IndInv, NEW i \in Procs, DeleteLook(i)
    PROVE  IndInv'
<1> DEFINE d == proxy[h[i].t] # None
           r(c) == [h[i] EXCEPT !.pc = "delProxy", !.dirty = d, !.conn = c]
           s == [h[i] EXCEPT !.pc = "delProxy", !.dirty = d]
<1>1. /\ h[i] \in TaskType /\ TaskOK(h[i]) /\ TaskFits(h[i], proxy, key, born)
      /\ h[i].pc = "delLook" /\ h[i].t \in Tunnels /\ h[i].t \in born
  BY TaskHere DEF DeleteLook, At, TaskOK, Ensuring, TaskFits, TaskType
<1>2. Stable /\ DataType' /\ DataOK' /\ UNCHANGED <<proxy, key, born>>
  BY DataSame, HistSame DEF DeleteLook, cloud, disk
<1>3. \/ Goto(i, s)
      \/ \E c \in Conns : Goto(i, r(c))
  <2>1. d => proxy[h[i].t].conn \in Conns
    BY <1>1 DEF IndInv, TypeOK, DataType, Backend
  <2>2. QED
    BY <2>1 DEF DeleteLook
<1>4. CASE Goto(i, s)
  <2>0. s \in TaskType /\ s.lock = h[i].lock /\ s.t = h[i].t
    <3>1. s \in TaskType
      BY <1>1, Updates, Zenon DEF Pcs
    <3>2. s.lock = h[i].lock /\ s.t = h[i].t
      BY <1>1 DEF TaskType
    <3>3. QED
      BY <3>1, <3>2
  <2>1. TaskOK(s)
    BY <1>1 DEF TaskType, TaskOK, Ensuring
  <2>2. TaskFits(s, proxy', key', born')
    BY <1>1, <1>2 DEF TaskType, TaskFits
  <2> HIDE DEF s
  <2>3. QED
    BY <1>2, <1>4, <2>0, <2>1, <2>2, GotoOK
<1>5. ASSUME NEW c \in Conns, Goto(i, r(c))
      PROVE  IndInv'
  <2>0. r(c) \in TaskType /\ r(c).lock = h[i].lock /\ r(c).t = h[i].t
    <3>1. r(c) \in TaskType
      BY <1>1, Updates, Zenon DEF Pcs
    <3>2. r(c).lock = h[i].lock /\ r(c).t = h[i].t
      BY <1>1 DEF TaskType
    <3>3. QED
      BY <3>1, <3>2
  <2>1. TaskOK(r(c))
    BY <1>1 DEF TaskType, TaskOK, Ensuring
  <2>2. TaskFits(r(c), proxy', key', born')
    BY <1>1, <1>2 DEF TaskType, TaskFits
  <2> HIDE DEF r
  <2>3. QED
    BY <1>2, <1>5, <2>0, <2>1, <2>2, GotoOK
<1>6. QED
  BY <1>3, <1>4, <1>5

\* Past this step the HTTPProxy is gone for good.
LEMMA DeleteProxyOK ==
    ASSUME IndInv, NEW i \in Procs, DeleteProxy(i)
    PROVE  IndInv'
<1> DEFINE r == [h[i] EXCEPT !.pc = "delAd"]
<1>1. /\ h[i] \in TaskType /\ TaskOK(h[i]) /\ TaskFits(h[i], proxy, key, born)
      /\ h[i].pc = "delProxy" /\ h[i].t \in Tunnels /\ h[i].t \in born
  BY TaskHere DEF DeleteProxy, At, TaskOK, Ensuring, TaskFits, TaskType
<1>2. proxy' \in [Tunnels -> Backend \cup {None}]
  BY DEF DeleteProxy, IndInv, TypeOK, DataType
<1>3. DataType'
  BY <1>2, HistSame DEF DeleteProxy, IndInv, TypeOK, DataType, disk, mem, todos, hist
<1>4. \A u \in Tunnels : proxy'[u] \in {proxy[u], None}
  BY DEF DeleteProxy, IndInv, TypeOK, DataType
<1>5. Stable
  BY <1>4 DEF DeleteProxy, Stable, IndInv, TypeOK, DataType, disk
<1>6. DataOK'
  BY <1>4 DEF DeleteProxy, IndInv, TypeOK, DataType, DataOK, disk, mem, todos
<1>7. CASE Return(i)
  BY <1>3, <1>5, <1>6, <1>7, ReturnOK
<1>8. CASE Goto(i, r)
  <2>1. proxy'[h[i].t] = None
    BY <1>1 DEF DeleteProxy, TaskFits, IndInv, TypeOK, DataType
  <2>2. r \in TaskType /\ TaskOK(r) /\ r.lock = h[i].lock /\ r.t = h[i].t
    BY <1>1 DEF TaskType, Pcs, TaskOK, Ensuring
  <2>3. TaskFits(r, proxy', key', born')
    BY <1>1, <2>1, <1>5 DEF TaskType, TaskFits, Stable
  <2> HIDE DEF r
  <2>4. QED
    BY <1>3, <1>5, <1>6, <1>8, <2>2, <2>3, GotoOK
<1>9. QED
  BY <1>7, <1>8 DEF DeleteProxy

\* delete_project deletes the advertisement.
LEMMA DeleteAdOK ==
    ASSUME IndInv, NEW i \in Procs, DeleteAd(i)
    PROVE  IndInv'
<1> DEFINE r == [h[i] EXCEPT !.pc = "delCheck"]
<1>1. /\ h[i] \in TaskType /\ TaskOK(h[i]) /\ TaskFits(h[i], proxy, key, born)
      /\ h[i].pc = "delAd" /\ h[i].t \in Tunnels /\ h[i].t \in born
  BY TaskHere DEF DeleteAd, At, TaskOK, Ensuring, TaskFits, TaskType
<1>3. ad' \in [Tunnels -> Backend \cup {None}]
  BY DEF DeleteAd, IndInv, TypeOK, DataType
<1>4. Stable /\ DataType' /\ DataOK'
  BY <1>3, AdsOnly, HistSame DEF DeleteAd
<1>5. r \in TaskType /\ TaskOK(r) /\ r.lock = h[i].lock /\ r.t = h[i].t
  BY <1>1 DEF TaskType, Pcs, TaskOK, Ensuring
<1>6. TaskFits(r, proxy', key', born')
  BY <1>1 DEF TaskType, TaskFits, DeleteAd, disk
<1>7. Goto(i, r)
  BY DEF DeleteAd
<1> HIDE DEF r
<1>8. QED
  BY <1>4, <1>5, <1>6, <1>7, GotoOK

\* delete_connector_if_unused looks for other users.
LEMMA DeleteCheckOK ==
    ASSUME IndInv, NEW i \in Procs, DeleteCheck(i)
    PROVE  IndInv'
<1> DEFINE used == h[i].conn = None \/ Used(h[i].conn)
           r == [h[i] EXCEPT !.pc = IF used THEN "delLocal" ELSE "delConn"]
<1>1. /\ h[i] \in TaskType /\ TaskOK(h[i]) /\ TaskFits(h[i], proxy, key, born)
      /\ h[i].pc = "delCheck" /\ h[i].t \in Tunnels /\ h[i].t \in born
  BY TaskHere DEF DeleteCheck, At, TaskOK, Ensuring, TaskFits, TaskType
<1>2. Stable /\ DataType' /\ DataOK' /\ UNCHANGED <<proxy, key, born>>
  BY DataSame, HistSame DEF DeleteCheck, cloud, disk
<1>3. Goto(i, r)
  BY DEF DeleteCheck
<1>4. ~used => h[i].conn # None
  OBVIOUS
<1> HIDE DEF used
<1>5. r \in TaskType /\ TaskOK(r) /\ r.lock = h[i].lock /\ r.t = h[i].t
  BY <1>1, <1>4 DEF TaskType, Pcs, TaskOK, Ensuring
<1>6. TaskFits(r, proxy', key', born')
  BY <1>1, <1>2 DEF TaskType, TaskFits
<1> HIDE DEF r
<1>7. QED
  BY <1>2, <1>3, <1>5, <1>6, GotoOK

\* delete_connector_if_unused deletes the connector.
LEMMA DeleteConnOK ==
    ASSUME IndInv, NEW i \in Procs, DeleteConn(i)
    PROVE  IndInv'
<1> DEFINE r == [h[i] EXCEPT !.pc = "delLocal"]
<1>1. /\ h[i] \in TaskType /\ TaskOK(h[i]) /\ TaskFits(h[i], proxy, key, born)
      /\ h[i].pc = "delConn" /\ h[i].t \in Tunnels /\ h[i].t \in born
  BY TaskHere DEF DeleteConn, At, TaskOK, Ensuring, TaskFits, TaskType
<1>2. Stable /\ DataType' /\ DataOK'
  BY DropConns, HistSame DEF DeleteConn
<1>3. r \in TaskType /\ TaskOK(r) /\ r.lock = h[i].lock /\ r.t = h[i].t
  BY <1>1 DEF TaskType, Pcs, TaskOK, Ensuring
<1>4. TaskFits(r, proxy', key', born')
  BY <1>1 DEF TaskType, TaskFits, DeleteConn, disk
<1>5. Goto(i, r)
  BY DEF DeleteConn
<1> HIDE DEF r
<1>6. QED
  BY <1>2, <1>3, <1>4, <1>5, GotoOK

\* The key goes only once the HTTPProxy is gone.
LEMMA DeleteLocalOK ==
    ASSUME IndInv, NEW i \in Procs, DeleteLocal(i)
    PROVE  IndInv'
<1> DEFINE r == [h[i] EXCEPT !.pc = "delInsp"]
<1>1. /\ h[i] \in TaskType /\ TaskOK(h[i]) /\ TaskFits(h[i], proxy, key, born)
      /\ h[i].pc = "delLocal" /\ h[i].t \in Tunnels /\ h[i].t \in born
  BY TaskHere DEF DeleteLocal, At, TaskOK, Ensuring, TaskFits, TaskType
<1>2. proxy[h[i].t] = None
  BY <1>1 DEF TaskFits
<1>3. DataType'
  BY HistSame DEF DeleteLocal, IndInv, TypeOK, DataType, cloud, todos, hist
<1>4. Stable
  BY <1>2 DEF DeleteLocal, IndInv, TypeOK, DataType, Stable, cloud
<1>5. DataOK'
  BY <1>2 DEF DeleteLocal, IndInv, TypeOK, DataType, DataOK, cloud, todos
<1>6. r \in TaskType /\ TaskOK(r) /\ r.lock = h[i].lock /\ r.t = h[i].t
  BY <1>1 DEF TaskType, Pcs, TaskOK, Ensuring
<1>7. TaskFits(r, proxy', key', born')
  BY <1>1, <1>2 DEF TaskType, TaskFits, DeleteLocal, cloud
<1>8. Goto(i, r)
  BY DEF DeleteLocal
<1> HIDE DEF r
<1>9. QED
  BY <1>3, <1>4, <1>5, <1>6, <1>7, <1>8, GotoOK

\* The inspector and the persisted target go last.
LEMMA DeleteInspectorOK ==
    ASSUME IndInv, NEW i \in Procs, DeleteInspector(i)
    PROVE  IndInv'
<1>1. DataType'
  BY HistSame DEF DeleteInspector, IndInv, TypeOK, DataType, cloud, todos, hist
<1>2. Stable /\ DataOK'
  BY DEF DeleteInspector, IndInv, TypeOK, DataType, DataOK, Stable, cloud, todos
<1>3. QED
  BY <1>1, <1>2, ReturnOK DEF DeleteInspector

-----------------------------------------------------------------------------
(* Reconciliation, the sweep, failures and restarts.                       *)

\* Main and Sweep are tasks.
LEMMA MainAndSweep == Main \in Procs /\ Sweep \in Procs
BY DEF Procs

\* A task that holds no reservation begins its loop.
LEMMA LoopOK ==
    ASSUME IndInv, NEW i \in Procs, ~h[i].lock,
           Goto(i, [Blank EXCEPT !.pc = "next"]),
           Stable, DataType', DataOK'
    PROVE  IndInv'
<1> DEFINE r == [Blank EXCEPT !.pc = "next"]
<1>1. r \in TaskType /\ TaskOK(r) /\ r.lock = FALSE
  BY DEF Blank, TaskType, Pcs, TaskOK, Ensuring
<1>2. TaskFits(r, proxy', key', born')
  BY DEF Blank, TaskFits
<1>3. h[i].lock = FALSE
  BY TaskHere DEF TaskType
<1> HIDE DEF r
<1>4. QED
  BY <1>1, <1>2, <1>3, GotoOK DEF r

\* A task that holds no reservation ends.
LEMMA EndOK ==
    ASSUME IndInv, NEW i \in Procs, ~h[i].lock, Goto(i, Blank),
           Stable, DataType', DataOK'
    PROVE  IndInv'
<1>1. Blank.lock = FALSE /\ h[i].lock = FALSE
  BY TaskHere DEF Blank, TaskType
<1>2. QED
  BY <1>1, BlankOK, GotoOK

\* The work lists only ever name tunnels the API server handed out.
LEMMA TodosOK ==
    ASSUME IndInv, UNCHANGED <<cloud, disk, mem, hist>>,
           recTodo' \subseteq [t : Tunnels, ep : Ports, on : BOOLEAN, old : BOOLEAN],
           \A r \in recTodo' : r.t \in born, sweepTodo' \subseteq born
    PROVE  Stable /\ DataType' /\ DataOK'
<1>1. DataType'
  BY HistSame DEF IndInv, TypeOK, DataType, cloud, disk, mem, hist
<1>2. Stable /\ DataOK'
  BY DEF IndInv, TypeOK, DataType, DataOK, Stable, cloud, disk, mem
<1>3. QED
  BY <1>1, <1>2

\* Reconciliation lists the tunnels there are.
LEMMA MainListOK ==
    ASSUME IndInv, MainList
    PROVE  IndInv'
<1>1. ~h[Main].lock
  BY TaskHere, MainAndSweep DEF MainList, At, TaskOK, Ensuring
<1>2. \A t \in Tunnels : proxy[t] # None => proxy[t].ep \in Ports /\ t \in born
  BY DEF IndInv, TypeOK, DataType, Backend, DataOK
<1>3. \A t \in Tunnels : (ad[t] # None) \in BOOLEAN /\ Older(t) \in BOOLEAN
  BY Zenon DEF Older
<1>4. /\ recTodo' \subseteq [t : Tunnels, ep : Ports, on : BOOLEAN, old : BOOLEAN]
      /\ \A r \in recTodo' : r.t \in born
  <2>1. ASSUME NEW r \in recTodo'
        PROVE  r \in [t : Tunnels, ep : Ports, on : BOOLEAN, old : BOOLEAN]
               /\ r.t \in born
    <3>1. PICK t \in Tunnels :
            /\ proxy[t] # None
            /\ r = [t |-> t, ep |-> proxy[t].ep, on |-> ad[t] # None, old |-> Older(t)]
      BY <2>1 DEF MainList
    <3> DEFINE on == ad[t] # None
               old == Older(t)
    <3>2. on \in BOOLEAN /\ old \in BOOLEAN
      BY <1>3
    <3>3. r = [t |-> t, ep |-> proxy[t].ep, on |-> on, old |-> old]
      BY <3>1
    <3> HIDE DEF on, old
    <3>4. QED
      BY <1>2, <3>1, <3>2, <3>3
  <2>2. QED
    BY <2>1
<1>5. Stable /\ DataType' /\ DataOK'
  BY <1>4, TodosOK DEF MainList, IndInv, DataOK
<1>6. QED
  BY <1>1, <1>5, LoopOK, MainAndSweep DEF MainList

\* Reconciliation stops an older tunnel through the reservation.
LEMMA MainStopOlderOK ==
    ASSUME IndInv, NEW r \in recTodo, MainStopOlder(r)
    PROVE  IndInv'
<1>1. ~h[Main].lock /\ r.t \in born /\ r.t \in Tunnels
  BY TaskHere, MainAndSweep DEF MainStopOlder, At, TaskOK, Ensuring, IndInv, DataOK, TypeOK, DataType
<1>2. running' \in {running, [running EXCEPT ![r.t] = "off"]}
  BY DEF MainStopOlder, TakeRunning
<1>3. recTodo' \subseteq recTodo
  BY DEF MainStopOlder
<1>4. Stable /\ DataType' /\ DataOK'
  BY <1>1, <1>2, <1>3, RunningOff DEF MainStopOlder
<1>5. CASE TakeRunning(Main, r.t, FALSE)
  BY <1>1, <1>4, <1>5, TakeRunningOK, MainAndSweep
<1>6. CASE UNCHANGED <<h, busy>>
  <2>1. TasksOK'
    BY <1>4, <1>6, FitsStable DEF IndInv, TasksOK
  <2>2. QED
    BY <1>4, <1>6, <2>1 DEF IndInv, TypeOK, BusyExclusion
<1>7. QED
  BY <1>5, <1>6 DEF MainStopOlder

\* Reconciliation restores one tunnel's inspector and resumes it.
LEMMA MainReconcileOK ==
    ASSUME IndInv, NEW r \in recTodo, MainReconcile(r)
    PROVE  IndInv'
<1>1. ~h[Main].lock /\ r.t \in born /\ r.t \in Tunnels
  BY TaskHere, MainAndSweep DEF MainReconcile, At, TaskOK, Ensuring, IndInv, DataOK, TypeOK, DataType
<1>2. recTodo' \subseteq recTodo
  BY DEF MainReconcile
<1>3. Stable /\ DataType' /\ DataOK'
  BY <1>2, TodosOK DEF MainReconcile, IndInv, DataOK, TypeOK, DataType
<1>4. CASE UNCHANGED <<h, busy>>
  <2>1. TasksOK'
    BY <1>3, <1>4, FitsStable DEF IndInv, TasksOK
  <2>2. QED
    BY <1>3, <1>4, <2>1 DEF IndInv, TypeOK, BusyExclusion
<1>5. ASSUME NEW p \in Ports, NEW pc \in {"install", "moveProxy"},
             NEW after \in {"claim", "ret"}, target[r.t] # None,
             Goto(Main, [Blank EXCEPT !.pc = pc, !.t = r.t, !.rep = target[r.t],
                                      !.insp = p, !.ep = p, !.after = after])
      PROVE  IndInv'
  <2> DEFINE q == [Blank EXCEPT !.pc = pc, !.t = r.t, !.rep = target[r.t],
                                !.insp = p, !.ep = p, !.after = after]
  <2>1. target[r.t] \in Targets /\ p # None /\ r.t # None
    BY <1>1, <1>5, NoneDistinct DEF IndInv, TypeOK, DataType
  <2>2. q \in TaskType /\ TaskOK(q) /\ q.lock = FALSE
    BY <1>1, <1>5, <2>1 DEF Blank, TaskType, Pcs, TaskOK, Ensuring
  <2>3. TaskFits(q, proxy', key', born')
    BY <1>1, <1>3, <1>5 DEF Blank, TaskFits, Stable
  <2>4. h[Main].lock = FALSE
    BY <1>1, TaskHere, MainAndSweep DEF TaskType
  <2> HIDE DEF q
  <2>5. QED
    BY <1>3, <1>5, <2>2, <2>3, <2>4, GotoOK, MainAndSweep DEF q
<1>6. QED
  <2>1. CASE UNCHANGED <<h, busy>>
    BY <2>1, <1>4
  <2>2. CASE ~UNCHANGED <<h, busy>>
    <3>1. PICK p \in FreePorts :
            Goto(Main, [Blank EXCEPT !.pc = IF p = r.ep THEN "install" ELSE "moveProxy",
                                     !.t = r.t, !.rep = target[r.t],
                                     !.insp = p, !.ep = p,
                                     !.after = IF r.on THEN "claim" ELSE "ret"])
            /\ target[r.t] # None
      BY <2>2 DEF MainReconcile
    <3>2. p \in Ports
      BY DEF FreePorts
    <3> DEFINE pc == IF p = r.ep THEN "install" ELSE "moveProxy"
               after == IF r.on THEN "claim" ELSE "ret"
    <3>3. pc \in {"install", "moveProxy"} /\ after \in {"claim", "ret"}
      OBVIOUS
    <3>4. Goto(Main, [Blank EXCEPT !.pc = pc, !.t = r.t, !.rep = target[r.t],
                                   !.insp = p, !.ep = p, !.after = after])
      BY <3>1
    <3> HIDE DEF pc, after
    <3>5. QED
      BY <3>1, <3>2, <3>3, <3>4, <1>5
  <2>3. QED
    BY <2>1, <2>2

\* Reconciliation is over and the server starts.
LEMMA MainServeOK ==
    ASSUME IndInv, MainServe
    PROVE  IndInv'
<1>1. ~h[Main].lock
  BY TaskHere, MainAndSweep DEF MainServe, At, TaskOK, Ensuring
<1>2. Stable /\ DataType' /\ DataOK'
  BY DataSame, HistSame DEF MainServe
<1>3. QED
  BY <1>1, <1>2, EndOK, MainAndSweep DEF MainServe

\* A run exceeds max_tunnel_runtime.
LEMMA ExpireOK ==
    ASSUME IndInv, NEW t \in Tunnels, Expire(t)
    PROVE  IndInv'
<1>1. DataType'
  BY HistSame DEF Expire, IndInv, TypeOK, DataType, cloud, disk, todos, hist
<1>2. Stable /\ DataOK'
  BY DEF Expire, IndInv, TypeOK, DataType, DataOK, Stable, cloud, disk, todos
<1>3. TasksOK'
  BY <1>2, FitsStable DEF Expire, IndInv, TasksOK
<1>4. QED
  BY <1>1, <1>2, <1>3 DEF Expire, IndInv, TypeOK, BusyExclusion

\* The sweep collects ids of running tunnels.
LEMMA SweepSnapshotOK ==
    ASSUME IndInv, SweepSnapshot
    PROVE  IndInv'
<1>1. ~h[Sweep].lock
  BY TaskHere, MainAndSweep DEF SweepSnapshot, At, TaskOK, Ensuring
<1>2. sweepTodo' \subseteq born
  BY DEF SweepSnapshot, IndInv, DataOK
<1>3. Stable /\ DataType' /\ DataOK'
  BY <1>2, TodosOK DEF SweepSnapshot, IndInv, DataOK, TypeOK, DataType
<1>4. QED
  BY <1>1, <1>3, LoopOK, MainAndSweep DEF SweepSnapshot

\* The sweep stops one of them through the reservation, or skips it.
LEMMA SweepStopOK ==
    ASSUME IndInv, NEW t \in sweepTodo, SweepStop(t)
    PROVE  IndInv'
<1>1. ~h[Sweep].lock /\ t \in born /\ t \in Tunnels
  BY TaskHere, MainAndSweep DEF SweepStop, At, TaskOK, Ensuring, IndInv, DataOK, TypeOK, DataType
<1>2. running' \in {running, [running EXCEPT ![t] = "off"]}
  BY DEF SweepStop, TakeRunning
<1>3. sweepTodo' \subseteq sweepTodo
  BY DEF SweepStop
<1>4. Stable /\ DataType' /\ DataOK'
  BY <1>1, <1>2, <1>3, RunningOff DEF SweepStop
<1>5. CASE TakeRunning(Sweep, t, FALSE)
  BY <1>1, <1>4, <1>5, TakeRunningOK, MainAndSweep
<1>6. CASE UNCHANGED <<h, busy>>
  <2>1. TasksOK'
    BY <1>4, <1>6, FitsStable DEF IndInv, TasksOK
  <2>2. QED
    BY <1>4, <1>6, <2>1 DEF IndInv, TypeOK, BusyExclusion
<1>7. QED
  BY <1>5, <1>6 DEF SweepStop

\* The sweep has no ids left.
LEMMA SweepDoneOK ==
    ASSUME IndInv, SweepDone
    PROVE  IndInv'
<1>1. ~h[Sweep].lock
  BY TaskHere, MainAndSweep DEF SweepDone, At, TaskOK, Ensuring
<1>2. Stable /\ DataType' /\ DataOK'
  BY DataSame, HistSame DEF SweepDone
<1>3. QED
  BY <1>1, <1>2, EndOK, MainAndSweep DEF SweepDone

\* An error return, a lost reply and a dropped request all give the
\* reservation back.
LEMMA FailOK ==
    ASSUME IndInv, NEW i \in Procs, Fail(i)
    PROVE  IndInv'
<1>1. faults' \in Nat /\ crashes' \in Nat
  BY DEF Fail, IndInv, TypeOK, DataType
<1>2. Stable /\ DataType' /\ DataOK'
  BY <1>1, DataSame DEF Fail
<1>3. CASE Return(i)
  BY <1>2, <1>3, ReturnOK
<1>4. CASE Leave(i, Blank)
  BY <1>2, <1>4, BlankOK, LeaveOK
<1>5. QED
  BY <1>3, <1>4 DEF Fail

\* A restart finds consistent data and no reservation.
LEMMA CrashOK ==
    ASSUME IndInv, Crash
    PROVE  IndInv'
<1>1. conn' \in [Conns -> Identities \cup {None}]
  BY DEF Crash, IndInv, TypeOK, DataType, Identities
<1>2. DataType'
  BY <1>1 DEF Crash, IndInv, TypeOK, DataType, disk
<1>3. \A c \in Conns : conn'[c] \in {conn[c], Nobody}
  BY DEF Crash
<1>4. Stable /\ DataOK'
  BY <1>3, IdentitiesDistinct DEF Crash, IndInv, TypeOK, DataType, DataOK, Stable, disk
<1> DEFINE l == [Blank EXCEPT !.pc = "list"]
<1>5. l \in TaskType /\ TaskOK(l) /\ ~l.lock /\ TaskFits(l, proxy', key', born')
  BY DEF Blank, TaskType, Pcs, TaskOK, Ensuring, TaskFits
<1>6. \A i \in Procs : h'[i] \in {l, Blank}
  BY DEF Crash
<1>7. h' \in [Procs -> TaskType]
  BY <1>5, BlankOK DEF Crash
<1> HIDE DEF l
<1>8. TasksOK'
  BY <1>5, <1>6, BlankOK DEF TasksOK
<1>9. \A i \in Procs : ~h'[i].lock
  BY <1>5, <1>6, BlankOK
<1>10. BusyExclusion'
  BY <1>9 DEF Crash, BusyExclusion
<1>11. QED
  BY <1>2, <1>4, <1>7, <1>8, <1>10 DEF Crash, IndInv, TypeOK

-----------------------------------------------------------------------------
(* The theorems.                                                           *)

\* The daemon's first start on an empty project satisfies the invariant.
LEMMA InitOK ==
    ASSUME Init
    PROVE  IndInv
<1>1. TypeOK
  BY BlankOK DEF Init, TypeOK, DataType
<1>2. TasksOK
  BY BlankOK DEF Init, TasksOK
<1>3. BusyExclusion
  BY BlankOK DEF Init, BusyExclusion
<1>4. DataOK
  BY NoneDistinct DEF Init, DataOK
<1>5. QED
  BY <1>1, <1>2, <1>3, <1>4 DEF IndInv

\* Every step of every handler, of the reconciliation pass and of the sweep,
\* every failure and every restart keeps IndInv.
THEOREM Inductive == IndInv /\ [Next]_vars => IndInv'
<1> SUFFICES ASSUME IndInv, [Next]_vars
             PROVE  IndInv'
  OBVIOUS
<1>1. ASSUME NEW i \in Clients, Request(i)
      PROVE  IndInv'
  <2>1. i \in Procs
    BY DEF Procs
  <2>2. CASE \E w \in Targets, p \in Ports : CreateRequest(i, w, p)
    BY <2>1, <2>2, CreateRequestOK
  <2>3. CASE \E t \in Tunnels, w \in Targets \cup {None} : StartRequest(i, t, w)
    BY <2>1, <2>3, StartRequestOK
  <2>4. CASE \E t \in Tunnels : StopRequest(i, t)
    BY <2>1, <2>4, StopRequestOK
  <2>5. CASE \E t \in Tunnels : DeleteRequest(i, t)
    BY <2>1, <2>5, DeleteRequestOK
  <2>6. CASE \E t \in Tunnels : RemoveRequest(i, t)
    BY <2>1, <2>6, RemoveRequestOK
  <2>7. QED
    BY <1>1, <2>2, <2>3, <2>4, <2>5, <2>6 DEF Request
<1>2. ASSUME NEW i \in Procs, Ensure(i) \/ Create(i)
      PROVE  IndInv'
  BY <1>2, FindConnectorOK, MakeConnectorOK, OverQuotaOK, PatchConnectorOK,
     CreateProxyOK, CreateAdOK DEF Ensure, Create
<1>3. ASSUME NEW i \in Procs, Start(i)
      PROVE  IndInv'
  <2>1. CASE StartClaim(i) \/ StartLook(i) \/ StartKey(i)
    BY <2>1, StartClaimOK, StartLookOK, StartKeyOK
  <2>2. CASE UpdateProxy(i) \/ UpdateAd(i)
    BY <2>2, UpdateProxyOK, UpdateAdOK
  <2>3. CASE CleanRefs(i) \/ CleanList(i) \/ CleanDelete(i)
    BY <2>3, CleanRefsOK, CleanListOK, CleanDeleteOK
  <2>4. CASE MoveProxy(i) \/ MoveAd(i) \/ InstallInspector(i)
    BY <2>4, MoveProxyOK, MoveAdOK, InstallInspectorOK
  <2>5. CASE EnableGet(i) \/ EnableGone(i) \/ EnablePatch(i)
    BY <2>5, EnableGetOK, EnableGoneOK, EnablePatchOK
  <2>6. CASE EnableAd(i) \/ StartInsert(i)
    BY <2>6, EnableAdOK, StartInsertOK
  <2>7. QED
    BY <1>3, <2>1, <2>2, <2>3, <2>4, <2>5, <2>6 DEF Start
<1>4. ASSUME NEW i \in Procs, Delete(i)
      PROVE  IndInv'
  BY <1>4, DeleteLookOK, DeleteProxyOK, DeleteAdOK, DeleteCheckOK, DeleteConnOK,
     DeleteLocalOK, DeleteInspectorOK DEF Delete
<1>5. ASSUME NEW i \in Procs, Task(i) \/ Fail(i) \/ CleanFails(i)
      PROVE  IndInv'
  BY <1>2, <1>3, <1>4, <1>5, DisableOK, FailOK, CleanFailsOK DEF Task
<1>6. CASE Reconcile
  BY <1>6, MainListOK, MainServeOK, MainStopOlderOK, MainReconcileOK DEF Reconcile
<1>7. CASE SweepTask
  BY <1>7, SweepSnapshotOK, SweepDoneOK, SweepStopOK DEF SweepTask
<1>8. CASE UNCHANGED vars
  BY <1>8 DEF vars, IndInv, TypeOK, DataType, TasksOK, BusyExclusion, DataOK
<1>9. QED
  BY <1>1, <1>5, <1>6, <1>7, <1>8, ExpireOK, CrashOK DEF Next

\* IndInv holds in every reachable state.
THEOREM Invariance == Spec => []IndInv
<1>1. Init => IndInv
  BY InitOK
<1>2. QED
  BY <1>1, Inductive, PTL DEF Spec

\* Every variable of the daemon, its disk and the control plane keeps its
\* type, for any number of tunnels, clients, crashes and failures.
THEOREM TypeCorrect == Spec => []TypeOK
<1>1. IndInv => TypeOK
  BY DEF IndInv
<1>2. QED
  BY <1>1, Invariance, PTL

\* claim_busy and BusyGuard exclude two starts or stops of one tunnel, and a
\* reservation never outlives the task that made it.
THEOREM BusyExcludes == Spec => []BusyExclusion
<1>1. IndInv => BusyExclusion
  BY DEF IndInv
<1>2. QED
  BY <1>1, Invariance, PTL

\* A connector of a tunnel that still exists always has its key on file,
\* whatever fails and whenever the process dies.
THEOREM KeySaved == Spec => []KeyBeforeConnector
<1>1. IndInv => KeyBeforeConnector
  BY DEF IndInv, DataOK, KeyBeforeConnector
<1>2. QED
  BY <1>1, Invariance, PTL

-----------------------------------------------------------------------------
(* What no step does to the files of a tunnel that still exists.           *)

KeepsFiles ==
    \A t \in Tunnels : proxy[t] # None =>
        /\ key[t] => key'[t]
        /\ target[t] # None => target'[t] # None

\* Only four steps write to the disk.
LEMMA OtherStepsKeepDisk ==
    ASSUME Next,
           \A i \in Procs : ~StartKey(i) /\ ~InstallInspector(i)
                            /\ ~DeleteLocal(i) /\ ~DeleteInspector(i)
    PROVE  UNCHANGED disk
<1>1. ASSUME NEW i \in Clients, Request(i)
      PROVE  UNCHANGED disk
  BY <1>1 DEF Request, CreateRequest, StartRequest, StopRequest, DeleteRequest,
              RemoveRequest
<1>2. ASSUME NEW i \in Procs, Ensure(i) \/ Create(i) \/ Disable(i)
      PROVE  UNCHANGED disk
  BY <1>2 DEF Ensure, FindConnector, MakeConnector, OverQuota, PatchConnector,
              Create, CreateProxy, CreateAd, Disable
<1>3. ASSUME NEW i \in Procs, Start(i)
      PROVE  UNCHANGED disk
  BY <1>3 DEF Start, StartClaim, StartLook, UpdateProxy, UpdateAd, CleanRefs,
              CleanList, CleanDelete, MoveProxy, MoveAd, EnableGet, EnableGone,
              EnablePatch, EnableAd, StartInsert
<1>4. ASSUME NEW i \in Procs, Delete(i)
      PROVE  UNCHANGED disk
  BY <1>4 DEF Delete, DeleteLook, DeleteProxy, DeleteAd, DeleteCheck, DeleteConn
<1>5. ASSUME NEW i \in Procs, Fail(i) \/ CleanFails(i)
      PROVE  UNCHANGED disk
  BY <1>5 DEF Fail, CleanFails
<1>6. CASE Reconcile
  BY <1>6 DEF Reconcile, MainList, MainServe, MainStopOlder, MainReconcile
<1>7. CASE SweepTask
  BY <1>7 DEF SweepTask, SweepSnapshot, SweepDone, SweepStop
<1>8. ASSUME NEW t \in Tunnels, Expire(t)
      PROVE  UNCHANGED disk
  BY <1>8 DEF Expire
<1>9. CASE Crash
  BY <1>9 DEF Crash
<1>10. QED
  BY <1>1, <1>2, <1>3, <1>4, <1>5, <1>6, <1>7, <1>8, <1>9 DEF Next, Task

\* From IndInv, no step drops the files of a tunnel that still exists: the
\* two that drop files come after the delete of its HTTPProxy.
LEMMA StepKeepsFiles == IndInv /\ [Next]_vars => KeepsFiles
<1> SUFFICES ASSUME IndInv, [Next]_vars
             PROVE  KeepsFiles
  OBVIOUS
<1>1. ASSUME NEW i \in Procs, StartKey(i)
      PROVE  KeepsFiles
  BY <1>1 DEF StartKey, KeepsFiles, IndInv, TypeOK, DataType
<1>2. ASSUME NEW i \in Procs, InstallInspector(i)
      PROVE  KeepsFiles
  <2>1. h[i].rep # None
    BY <1>2, TaskHere DEF InstallInspector, At, TaskOK, Ensuring
  <2>2. target' \in {target, [target EXCEPT ![h[i].t] = h[i].rep]} /\ key' = key
    BY <1>2 DEF InstallInspector
  <2>3. QED
    BY <2>1, <2>2 DEF KeepsFiles, IndInv, TypeOK, DataType
<1>3. ASSUME NEW i \in Procs, DeleteLocal(i)
      PROVE  KeepsFiles
  <2>1. proxy[h[i].t] = None
    BY <1>3, TaskHere DEF DeleteLocal, At, TaskFits
  <2>2. QED
    BY <1>3, <2>1 DEF DeleteLocal, KeepsFiles, IndInv, TypeOK, DataType
<1>4. ASSUME NEW i \in Procs, DeleteInspector(i)
      PROVE  KeepsFiles
  <2>1. proxy[h[i].t] = None
    BY <1>4, TaskHere DEF DeleteInspector, At, TaskFits
  <2>2. QED
    BY <1>4, <2>1 DEF DeleteInspector, KeepsFiles, IndInv, TypeOK, DataType
<1>5. CASE UNCHANGED disk
  BY <1>5 DEF disk, KeepsFiles
<1>6. CASE UNCHANGED vars
  BY <1>6, <1>5 DEF vars, disk
<1>7. QED
  BY <1>1, <1>2, <1>3, <1>4, <1>5, <1>6, OtherStepsKeepDisk

\* delete_tunnel_internal deletes server-side first: whatever runs beside it,
\* fails or restarts, no step drops the key or the persisted target of a
\* tunnel whose HTTPProxy still exists.
THEOREM FilesOutliveTunnel == Spec => LocalStateOutlivesTunnel
<1>1. IndInv /\ [Next]_vars => [KeepsFiles]_vars
  BY StepKeepsFiles
<1>2. Spec => [][KeepsFiles]_vars
  BY <1>1, Invariance, PTL DEF Spec
<1>3. QED
  BY <1>2 DEF LocalStateOutlivesTunnel, KeepsFiles

-----------------------------------------------------------------------------
(* Older tunnels are off when reconciliation is through.                   *)

\* The tunnels DATUM_TUNNEL_EXCLUSIVE_LABEL leaves alone.
Mine(t) == OwnTunnel \in {None, t}

\* The page's Remove, of a tunnel that is off.
Removing == {"delLook", "delProxy", "delAd", "delCheck", "delConn", "delLocal", "delInsp"}

\* Until the API is served, reconciliation works on tunnels it leaves alone, or
\* disables one; the only requests are Removes, and the sweep waits.
OnlyRemoves ==
    /\ \A i \in Clients : h[i].pc \in {"idle"} \cup Removing
    /\ At(Sweep, "idle")
    /\ ~Creating(Main)
    /\ h[Main].t # None /\ ~At(Main, "disable") => Mine(h[Main].t)
    /\ \A t \in Tunnels : running[t] # "off" => Mine(t)

\* An older tunnel that is still enabled is listed to be stopped, or a task is
\* about it.
Listed ==
    /\ \A r \in recTodo : Older(r.t) => r.old
    /\ \A t \in Tunnels : proxy[t] # None /\ Older(t) /\ ad[t] # None =>
          \/ \E r \in recTodo : r.t = t /\ r.old /\ r.on
          \/ \E i \in Procs : h[i].t = t

\* The inductive invariant behind OlderOff.
OlderInv == ~Up => OnlyRemoves /\ (At(Main, "list") \/ Listed)

\* A step that brings a tunnel nothing it did not have.
Fewer(t) ==
    /\ proxy'[t] # None => proxy[t] # None
    /\ ad'[t] # None => ad[t] # None
    /\ running'[t] # "off" => running[t] # "off"
    /\ key'[t] => key[t]
    /\ target'[t] # None => target[t] # None

Alone(i) == \A j \in Procs \ {i} : h'[j] = h[j]

\* What is asked of a step of `i` before the API is served: it brings something only
\* to a tunnel of its own that is left alone, and lets go of any other only when
\* that one is gone or off.
Early(i) ==
    /\ Alone(i) /\ recTodo' = recTodo
    /\ \A t \in Tunnels : Fewer(t) \/ (t = h[i].t /\ Mine(t))
    /\ h[i].t # None /\ h'[i].t # h[i].t =>
          proxy'[h[i].t] = None \/ ad'[h[i].t] = None \/ Mine(h[i].t)
    /\ i \in Clients => h'[i].pc \in {"idle"} \cup Removing
    /\ i = Main => /\ h[i].pc # "list"
                   /\ h'[i].t = None => h'[i].pc = "next"
                   /\ h'[i].t # None => Mine(h'[i].t)

\* The tasks keep to what is said of them before the API is served.
LEMMA EarlyOK ==
    ASSUME IndInv, IndInv', OnlyRemoves, At(Main, "list") \/ Listed,
           NEW i \in Procs \ {Sweep}, Early(i)
    PROVE  OnlyRemoves' /\ (At(Main, "list")' \/ Listed')
<1>0. Main \in Procs /\ Sweep \in Procs /\ Clients \subseteq Procs /\ Main # Sweep
      /\ Main \notin Clients /\ Sweep \notin Clients
  BY TasksDistinct DEF Procs
<1>1. h'[Sweep] = h[Sweep] /\ \A j \in Procs \ {i} : h'[j] = h[j]
  BY <1>0 DEF Early, Alone
<1>2. OnlyRemoves'
  <2>1. \A j \in Clients : h'[j].pc \in {"idle"} \cup Removing
    BY <1>0, <1>1 DEF OnlyRemoves, Early
  <2>2. h'[Sweep].pc = "idle" BY <1>1 DEF OnlyRemoves, At
  <2>3. ~Creating(Main)' /\ (h'[Main].t # None /\ h'[Main].pc # "disable" => Mine(h'[Main].t))
    <3>1. CASE i = Main
      <4>1. TaskOK(h'[Main]) BY <1>0 DEF IndInv, TasksOK
      <4> QED BY <3>1, <4>1 DEF Early, Creating, At, TaskOK, Ensuring
    <3>2. CASE i # Main
      BY <1>0, <1>1, <3>2 DEF OnlyRemoves, Creating, At
    <3> QED BY <3>1, <3>2
  <2>4. \A t \in Tunnels : running'[t] # "off" => Mine(t)
    BY DEF OnlyRemoves, Early, Fewer
  <2> QED BY <2>1, <2>2, <2>3, <2>4 DEF OnlyRemoves, At, Mine
<1>3. CASE At(Main, "list")
  BY <1>0, <1>1, <1>2, <1>3 DEF Early, At
<1>4. CASE Listed
  <2>1. ASSUME NEW t \in Tunnels, Older(t)' PROVE Older(t) /\ ~Mine(t) /\ Fewer(t)
    BY <2>1 DEF Older, Mine, Early, Fewer
  <2>2. ASSUME NEW r \in recTodo', Older(r.t)' PROVE r.old
    <3>1. r \in recTodo /\ r.t \in Tunnels BY DEF Early, IndInv, TypeOK, DataType
    <3> QED BY <1>4, <2>1, <2>2, <3>1 DEF Listed
  <2>3. ASSUME NEW t \in Tunnels, proxy'[t] # None, Older(t)', ad'[t] # None
        PROVE  \/ \E r \in recTodo' : r.t = t /\ r.old /\ r.on
               \/ \E j \in Procs : h'[j].t = t
    <3>1. Older(t) /\ ~Mine(t) /\ proxy[t] # None /\ ad[t] # None
      BY <2>1, <2>3 DEF Fewer
    <3>2. CASE \E r \in recTodo : r.t = t /\ r.old /\ r.on BY <3>2 DEF Early
    <3>3. ASSUME NEW j \in Procs, h[j].t = t PROVE \E k \in Procs : h'[k].t = t
      <4>1. CASE j # i BY <1>1, <3>3, <4>1
      <4>2. CASE j = i
        <5>1. t # None BY NoneDistinct
        <5> QED BY <2>3, <3>1, <3>3, <4>2, <5>1 DEF Early
      <4> QED BY <4>1, <4>2
    <3> QED BY <1>4, <3>1, <3>2, <3>3 DEF Listed
  <2> QED BY <1>2, <2>2, <2>3 DEF Listed, Older
<1> QED BY <1>3, <1>4

\* A task that goes on stays with its tunnel and disables nothing, or it returns.
Moves(i) ==
    /\ Alone(i) /\ recTodo' = recTodo
    /\ h[i].pc \notin {"idle", "next", "list"}
    /\ ~Creating(i) =>
          /\ h'[i] = Continue(i) \/ (h'[i].t = h[i].t /\ h'[i].pc # "disable")
          /\ \A t \in Tunnels : t # h[i].t => Fewer(t)

\* What a task does by itself, it does to its own record and its own tunnel; others
\* may lose their connector's advertisement.
LEMMA TaskMoves ==
    ASSUME IndInv, NEW i \in Procs, Task(i)
    PROVE  Moves(i)
<1>0. /\ h \in [Procs -> TaskType] /\ h[i] \in TaskType
      /\ proxy \in [Tunnels -> Backend \cup {None}] /\ ad \in [Tunnels -> Backend \cup {None}]
      /\ running \in [Tunnels -> {"off", "fresh", "old"}] /\ key \in [Tunnels -> BOOLEAN]
      /\ target \in [Tunnels -> Targets \cup {None}]
      /\ h[i].then \in {"none", "crProxy", "updProxy", "enPatch"}
      /\ h[i].after \in {"ret", "enGet", "claim"}
  BY DEF IndInv, TypeOK, DataType, TaskType
<1>b. ASSUME NEW cs, ad' = WithoutAds(cs)
      PROVE  \A t \in Tunnels : ad'[t] # None => ad[t] # None
  BY <1>b DEF WithoutAds
\* What is left to show of an action: its record, and what it does to others.
<1>c. ASSUME NEW q, h' = [h EXCEPT ![i] = q], recTodo' = recTodo,
             h[i].pc \notin {"idle", "next", "list"},
             ~Creating(i) => q = Continue(i) \/ (q.t = h[i].t /\ q.pc # "disable"),
             \A t \in Tunnels : t # h[i].t => Fewer(t)
      PROVE  Moves(i)
  BY <1>0, <1>c DEF Moves, Alone
<1> DEFINE Shape == \E q : /\ h' = [h EXCEPT ![i] = q]
                           /\ q = Continue(i) \/ (q.t = h[i].t /\ q.pc # "disable")
<1>d. Return(i) => Shape BY DEF Return, Leave
<1>e. ASSUME NEW q, Goto(i, q), q.t = h[i].t, q.pc # "disable"
      PROVE  Shape
  BY <1>e DEF Goto
<1>1. CASE FindConnector(i)
  <2>1. Shape
    <3>1. ASSUME NEW c \in Conns,
                 Goto(i, [h[i] EXCEPT !.pc = h[i].then, !.then = "none", !.conn = c,
                                      !.dirty = h[i].conn # c])
          PROVE  Shape
      BY <1>0, <1>e, <3>1 DEF TaskType
    <3>2. CASE Goto(i, [h[i] EXCEPT !.pc = "mkConn"]) BY <1>0, <1>e, <3>2 DEF TaskType
    <3> QED BY <1>1, <3>1, <3>2 DEF FindConnector
  <2>2. UNCHANGED <<proxy, ad, running, key, target, recTodo>> /\ h[i].pc = "find"
    BY <1>1 DEF FindConnector, At, cloud, disk, mem, todos
  <2> QED BY <1>c, <2>1, <2>2 DEF Fewer
<1>2. CASE \E c \in Conns : MakeConnector(i, c)
  <2>1. PICK c \in Conns : MakeConnector(i, c) BY <1>2
  <2>2. Shape BY <1>0, <1>e, <2>1 DEF MakeConnector, TaskType
  <2>3. /\ h[i].pc \notin {"idle", "next", "list"} /\ recTodo' = recTodo
        /\ \A t \in Tunnels : t # h[i].t => Fewer(t)
    BY <2>1 DEF MakeConnector, At, Fewer, disk, mem, todos
  <2> QED BY <1>c, <2>2, <2>3
<1>3. CASE OverQuota(i)
  <2>1. Shape BY <1>d, <1>3 DEF OverQuota
  <2>2. /\ h[i].pc \notin {"idle", "next", "list"} /\ recTodo' = recTodo
        /\ \A t \in Tunnels : t # h[i].t => Fewer(t)
    BY <1>0, <1>3 DEF OverQuota, At, Fewer, cloud, disk, mem, todos
  <2> QED BY <1>c, <2>1, <2>2
<1>4. CASE PatchConnector(i)
  <2>1. Shape BY <1>0, <1>e, <1>4 DEF PatchConnector, TaskType
  <2>2. /\ h[i].pc \notin {"idle", "next", "list"} /\ recTodo' = recTodo
        /\ \A t \in Tunnels : t # h[i].t => Fewer(t)
    BY <1>4 DEF PatchConnector, At, Fewer, disk, mem, todos
  <2> QED BY <1>c, <2>1, <2>2
<1>5. CASE \E t \in Tunnels : CreateProxy(i, t)
  BY <1>0, <1>5 DEF CreateProxy, Goto, At, Moves, Alone, Creating, todos
<1>6. CASE CreateAd(i)
  <2>1. Shape
    <3>1. CASE Return(i) BY <1>d, <3>1
    <3>2. CASE Goto(i, [h[i] EXCEPT !.pc = "install"]) BY <1>0, <1>e, <3>2 DEF TaskType
    <3> QED BY <1>6, <3>1, <3>2 DEF CreateAd
  <2>2. /\ h[i].pc \notin {"idle", "next", "list"} /\ recTodo' = recTodo
        /\ \A t \in Tunnels : t # h[i].t => Fewer(t)
    BY <1>0, <1>6 DEF CreateAd, At, Fewer, cloud, disk, mem, todos
  <2> QED BY <1>c, <2>1, <2>2
<1>7. CASE StartClaim(i)
  <2>1. Shape
    <3>1. CASE Return(i) BY <1>d, <3>1
    <3>2. CASE ClaimBusy(i, [h[i] EXCEPT !.pc = "look"])
      <4> DEFINE q == [[h[i] EXCEPT !.pc = "look"] EXCEPT !.lock = TRUE]
      <4>1. h' = [h EXCEPT ![i] = q] BY <3>2 DEF ClaimBusy
      <4>2. q.t = h[i].t /\ q.pc # "disable" BY <1>0 DEF TaskType
      <4> QED BY <4>1, <4>2
    <3> QED BY <1>7, <3>1, <3>2 DEF StartClaim
  <2>2. /\ h[i].pc \notin {"idle", "next", "list"} /\ recTodo' = recTodo
        /\ \A t \in Tunnels : t # h[i].t => Fewer(t)
    BY <1>0, <1>7 DEF StartClaim, ClaimBusy, At, Fewer, cloud, disk, mem, todos
  <2> QED BY <1>c, <2>1, <2>2
<1>8. CASE StartLook(i)
  <2>1. Shape
    <3>1. CASE Return(i) BY <1>d, <3>1
    <3>2. ASSUME NEW p \in Ports \cup {None}, NEW e,
                 \/ Goto(i, [[h[i] EXCEPT !.insp = p, !.ep = p]
                              EXCEPT !.pc = "moveProxy", !.after = "ret"])
                 \/ Goto(i, [[h[i] EXCEPT !.insp = p, !.ep = p]
                              EXCEPT !.pc = "key", !.after = "enGet"])
                 \/ Goto(i, [h[i] EXCEPT !.pc = "key", !.ep = e])
          PROVE  Shape
      <4>1. CASE Goto(i, [[h[i] EXCEPT !.insp = p, !.ep = p]
                           EXCEPT !.pc = "moveProxy", !.after = "ret"])
        BY <1>0, <1>e, <4>1 DEF TaskType
      <4>2. CASE Goto(i, [[h[i] EXCEPT !.insp = p, !.ep = p]
                           EXCEPT !.pc = "key", !.after = "enGet"])
        BY <1>0, <1>e, <4>2 DEF TaskType
      <4>3. CASE Goto(i, [h[i] EXCEPT !.pc = "key", !.ep = e])
        BY <1>0, <1>e, <4>3 DEF TaskType
      <4> QED BY <3>2, <4>1, <4>2, <4>3
    <3> HIDE DEF Shape
    <3> QED BY <1>8, <3>1, <3>2 DEF StartLook, FreePorts
  <2>2. /\ h[i].pc \notin {"idle", "next", "list"} /\ recTodo' = recTodo
        /\ \A t \in Tunnels : t # h[i].t => Fewer(t)
    BY <1>0, <1>8 DEF StartLook, At, Fewer, cloud, disk, mem, todos
  <2> QED BY <1>c, <2>1, <2>2
<1>9. CASE StartKey(i)
  <2>1. Shape
    <3>1. CASE Goto(i, [h[i] EXCEPT !.pc = "find", !.then = "updProxy"])
      BY <1>0, <1>e, <3>1 DEF TaskType
    <3>2. CASE Goto(i, [h[i] EXCEPT !.pc = IF h[i].rep # None THEN "moveProxy" ELSE "enGet"])
      BY <1>0, <1>e, <3>2 DEF TaskType
    <3> QED BY <1>9, <3>1, <3>2 DEF StartKey
  <2>2. /\ h[i].pc \notin {"idle", "next", "list"} /\ recTodo' = recTodo
        /\ \A t \in Tunnels : t # h[i].t => Fewer(t)
    BY <1>0, <1>9 DEF StartKey, At, Fewer, cloud, disk, mem, todos
  <2> QED BY <1>c, <2>1, <2>2
<1>10. CASE UpdateProxy(i)
  <2>1. Shape
    <3>1. CASE Return(i) BY <1>d, <3>1
    <3>2. CASE Goto(i, [h[i] EXCEPT !.pc = "updAd"]) BY <1>0, <1>e, <3>2 DEF TaskType
    <3> QED BY <1>10, <3>1, <3>2 DEF UpdateProxy
  <2>2. /\ h[i].pc \notin {"idle", "next", "list"} /\ recTodo' = recTodo
        /\ \A t \in Tunnels : t # h[i].t => Fewer(t)
    BY <1>0, <1>10 DEF UpdateProxy, At, Fewer, cloud, disk, mem, todos
  <2> QED BY <1>c, <2>1, <2>2
<1>11. CASE UpdateAd(i)
  <2>1. Shape BY <1>0, <1>e, <1>11 DEF UpdateAd, TaskType
  <2>2. /\ h[i].pc \notin {"idle", "next", "list"} /\ recTodo' = recTodo
        /\ \A t \in Tunnels : t # h[i].t => Fewer(t)
    BY <1>0, <1>11 DEF UpdateAd, At, Fewer, cloud, disk, mem, todos
  <2> QED BY <1>c, <2>1, <2>2
<1>12. CASE CleanRefs(i) \/ CleanList(i)
  <2>1. Shape
    <3>1. CASE CleanRefs(i) BY <1>0, <1>e, <3>1 DEF CleanRefs, TaskType
    <3>2. CASE CleanList(i) BY <1>0, <1>e, <3>2 DEF CleanList, TaskType
    <3> QED BY <1>12, <3>1, <3>2
  <2>2. /\ h[i].pc \notin {"idle", "next", "list"} /\ recTodo' = recTodo
        /\ \A t \in Tunnels : t # h[i].t => Fewer(t)
    BY <1>0, <1>12 DEF CleanRefs, CleanList, At, Fewer, cloud, disk, mem, todos
  <2> QED BY <1>c, <2>1, <2>2
<1>13. CASE CleanDelete(i)
  <2>1. Shape BY <1>0, <1>e, <1>13 DEF CleanDelete, AfterClean, TaskType
  <2>2. /\ h[i].pc \notin {"idle", "next", "list"} /\ recTodo' = recTodo
        /\ \A t \in Tunnels : t # h[i].t => Fewer(t)
    BY <1>0, <1>b, <1>13 DEF CleanDelete, At, Fewer, cloud, disk, mem, todos
  <2> QED BY <1>c, <2>1, <2>2
<1>14. CASE MoveProxy(i)
  <2>1. Shape
    <3>1. CASE Return(i) BY <1>d, <3>1
    <3>2. CASE Goto(i, [h[i] EXCEPT !.pc = "moveAd"]) BY <1>0, <1>e, <3>2 DEF TaskType
    <3> QED BY <1>14, <3>1, <3>2 DEF MoveProxy
  <2>2. /\ h[i].pc \notin {"idle", "next", "list"} /\ recTodo' = recTodo
        /\ \A t \in Tunnels : t # h[i].t => Fewer(t)
    BY <1>0, <1>14 DEF MoveProxy, At, Fewer, cloud, disk, mem, todos
  <2> QED BY <1>c, <2>1, <2>2
<1>15. CASE MoveAd(i)
  <2>1. Shape BY <1>0, <1>e, <1>15 DEF MoveAd, TaskType
  <2>2. /\ h[i].pc \notin {"idle", "next", "list"} /\ recTodo' = recTodo
        /\ \A t \in Tunnels : t # h[i].t => Fewer(t)
    BY <1>0, <1>15 DEF MoveAd, At, Fewer, cloud, disk, mem, todos
  <2> QED BY <1>c, <2>1, <2>2
<1>16. CASE InstallInspector(i)
  <2>1. Shape
    <3>1. CASE Return(i) BY <1>d, <3>1
    <3>2. CASE Goto(i, [h[i] EXCEPT !.pc = h[i].after, !.insp = None, !.rep = None])
      BY <1>0, <1>e, <3>2 DEF TaskType
    <3> QED BY <1>16, <3>1, <3>2 DEF InstallInspector
  <2>2. /\ h[i].pc \notin {"idle", "next", "list"} /\ recTodo' = recTodo
        /\ \A t \in Tunnels : t # h[i].t => Fewer(t)
    BY <1>0, <1>16 DEF InstallInspector, At, Fewer, cloud, disk, mem, todos
  <2> QED BY <1>c, <2>1, <2>2
<1>17. CASE EnableGet(i)
  <2>1. Shape BY <1>0, <1>e, <1>17 DEF EnableGet, TaskType
  <2>2. /\ h[i].pc \notin {"idle", "next", "list"} /\ recTodo' = recTodo
        /\ \A t \in Tunnels : t # h[i].t => Fewer(t)
    BY <1>0, <1>17 DEF EnableGet, At, Fewer, cloud, disk, mem, todos
  <2> QED BY <1>c, <2>1, <2>2
<1>18. CASE EnableGone(i)
  <2>1. Shape BY <1>d, <1>18 DEF EnableGone
  <2>2. /\ h[i].pc \notin {"idle", "next", "list"} /\ recTodo' = recTodo
        /\ \A t \in Tunnels : t # h[i].t => Fewer(t)
    BY <1>0, <1>18 DEF EnableGone, At, Fewer, cloud, disk, mem, todos
  <2> QED BY <1>c, <2>1, <2>2
<1>19. CASE EnablePatch(i)
  <2>1. Shape BY <1>0, <1>e, <1>19 DEF EnablePatch, TaskType
  <2>2. /\ h[i].pc \notin {"idle", "next", "list"} /\ recTodo' = recTodo
        /\ \A t \in Tunnels : t # h[i].t => Fewer(t)
    BY <1>0, <1>19 DEF EnablePatch, At, Fewer, cloud, disk, mem, todos
  <2> QED BY <1>c, <2>1, <2>2
<1>20. CASE EnableAd(i)
  <2>1. Shape BY <1>0, <1>e, <1>20 DEF EnableAd, TaskType
  <2>2. /\ h[i].pc \notin {"idle", "next", "list"} /\ recTodo' = recTodo
        /\ \A t \in Tunnels : t # h[i].t => Fewer(t)
    BY <1>0, <1>20 DEF EnableAd, At, Fewer, cloud, disk, mem, todos
  <2> QED BY <1>c, <2>1, <2>2
<1>21. CASE StartInsert(i)
  <2>1. Shape BY <1>d, <1>21 DEF StartInsert
  <2>2. /\ h[i].pc \notin {"idle", "next", "list"} /\ recTodo' = recTodo
        /\ \A t \in Tunnels : t # h[i].t => Fewer(t)
    BY <1>0, <1>21 DEF StartInsert, At, Fewer, cloud, disk, mem, todos
  <2> QED BY <1>c, <2>1, <2>2
<1>22. CASE Disable(i)
  <2>1. Shape BY <1>d, <1>22 DEF Disable
  <2>2. /\ h[i].pc \notin {"idle", "next", "list"} /\ recTodo' = recTodo
        /\ \A t \in Tunnels : t # h[i].t => Fewer(t)
    BY <1>0, <1>22 DEF Disable, At, Fewer, cloud, disk, mem, todos
  <2> QED BY <1>c, <2>1, <2>2
<1>23. CASE DeleteLook(i)
  <2>1. Shape
    <3>1. ASSUME NEW c, NEW d,
                 \/ Goto(i, [h[i] EXCEPT !.pc = "delProxy", !.dirty = d])
                 \/ Goto(i, [h[i] EXCEPT !.pc = "delProxy", !.dirty = d, !.conn = c])
          PROVE  Shape
      <4>1. CASE Goto(i, [h[i] EXCEPT !.pc = "delProxy", !.dirty = d])
        BY <1>0, <1>e, <4>1 DEF TaskType
      <4>2. CASE Goto(i, [h[i] EXCEPT !.pc = "delProxy", !.dirty = d, !.conn = c])
        BY <1>0, <1>e, <4>2 DEF TaskType
      <4> QED BY <3>1, <4>1, <4>2
    <3> HIDE DEF Shape
    <3> QED BY <1>23, <3>1 DEF DeleteLook
  <2>2. /\ h[i].pc \notin {"idle", "next", "list"} /\ recTodo' = recTodo
        /\ \A t \in Tunnels : t # h[i].t => Fewer(t)
    BY <1>0, <1>23 DEF DeleteLook, At, Fewer, cloud, disk, mem, todos
  <2> QED BY <1>c, <2>1, <2>2
<1>24. CASE DeleteProxy(i)
  <2>1. Shape
    <3>1. CASE Return(i) BY <1>d, <3>1
    <3>2. CASE Goto(i, [h[i] EXCEPT !.pc = "delAd"]) BY <1>0, <1>e, <3>2 DEF TaskType
    <3> QED BY <1>24, <3>1, <3>2 DEF DeleteProxy
  <2>2. /\ h[i].pc \notin {"idle", "next", "list"} /\ recTodo' = recTodo
        /\ \A t \in Tunnels : t # h[i].t => Fewer(t)
    BY <1>0, <1>24 DEF DeleteProxy, At, Fewer, cloud, disk, mem, todos
  <2> QED BY <1>c, <2>1, <2>2
<1>25. CASE DeleteAd(i)
  <2>1. Shape BY <1>0, <1>e, <1>25 DEF DeleteAd, TaskType
  <2>2. /\ h[i].pc \notin {"idle", "next", "list"} /\ recTodo' = recTodo
        /\ \A t \in Tunnels : t # h[i].t => Fewer(t)
    BY <1>0, <1>25 DEF DeleteAd, At, Fewer, cloud, disk, mem, todos
  <2> QED BY <1>c, <2>1, <2>2
<1>26. CASE DeleteCheck(i)
  <2>1. Shape BY <1>0, <1>e, <1>26 DEF DeleteCheck, TaskType
  <2>2. /\ h[i].pc \notin {"idle", "next", "list"} /\ recTodo' = recTodo
        /\ \A t \in Tunnels : t # h[i].t => Fewer(t)
    BY <1>0, <1>26 DEF DeleteCheck, At, Fewer, cloud, disk, mem, todos
  <2> QED BY <1>c, <2>1, <2>2
<1>27. CASE DeleteConn(i)
  <2>1. Shape BY <1>0, <1>e, <1>27 DEF DeleteConn, TaskType
  <2>2. /\ h[i].pc \notin {"idle", "next", "list"} /\ recTodo' = recTodo
        /\ \A t \in Tunnels : t # h[i].t => Fewer(t)
    BY <1>0, <1>b, <1>27 DEF DeleteConn, At, Fewer, cloud, disk, mem, todos
  <2> QED BY <1>c, <2>1, <2>2
<1>28. CASE DeleteLocal(i)
  <2>1. Shape BY <1>0, <1>e, <1>28 DEF DeleteLocal, TaskType
  <2>2. /\ h[i].pc \notin {"idle", "next", "list"} /\ recTodo' = recTodo
        /\ \A t \in Tunnels : t # h[i].t => Fewer(t)
    BY <1>0, <1>28 DEF DeleteLocal, At, Fewer, cloud, disk, mem, todos
  <2> QED BY <1>c, <2>1, <2>2
<1>29. CASE DeleteInspector(i)
  <2>1. Shape BY <1>d, <1>29 DEF DeleteInspector
  <2>2. /\ h[i].pc \notin {"idle", "next", "list"} /\ recTodo' = recTodo
        /\ \A t \in Tunnels : t # h[i].t => Fewer(t)
    BY <1>0, <1>29 DEF DeleteInspector, At, Fewer, cloud, disk, mem, todos
  <2> QED BY <1>c, <2>1, <2>2
<1> QED
  BY <1>1, <1>2, <1>3, <1>4, <1>5, <1>6, <1>7, <1>8, <1>9, <1>10, <1>11, <1>12, <1>13,
     <1>14, <1>15, <1>16, <1>17, <1>18, <1>19, <1>20, <1>21, <1>22, <1>23, <1>24, <1>25,
     <1>26, <1>27, <1>28, <1>29 DEF Task, Ensure, Create, Start, Delete

\* Before the API is served a request is the delete of a Remove, which frees its tunnel
\* only after the delete of the HTTPProxy.
LEMMA RemoveMoves ==
    ASSUME IndInv, NEW i \in Clients, Task(i), h[i].pc \in {"idle"} \cup Removing
    PROVE  /\ \A t \in Tunnels : Fewer(t)
           /\ h'[i].pc \in {"idle"} \cup Removing
           /\ h'[i].t = h[i].t \/ proxy'[h[i].t] = None
<1>0. i \in Procs /\ i \notin {Main, Sweep} BY TasksDistinct DEF Procs
<1>1. /\ h \in [Procs -> TaskType] /\ h[i] \in TaskType /\ ~h[i].rm
      /\ proxy \in [Tunnels -> Backend \cup {None}] /\ ad \in [Tunnels -> Backend \cup {None}]
      /\ running \in [Tunnels -> {"off", "fresh", "old"}] /\ key \in [Tunnels -> BOOLEAN]
      /\ target \in [Tunnels -> Targets \cup {None}]
      /\ h[i].pc # "idle" => h[i].t \in Tunnels
  BY <1>0, TaskHere DEF IndInv, TypeOK, DataType, TaskType, TaskOK, Removing, Ensuring
<1>2. Continue(i) = Blank /\ Blank.pc = "idle" BY <1>0, <1>1 DEF Continue, Blank
<1>3. Delete(i)
  BY DEF Task, Ensure, FindConnector, MakeConnector, OverQuota, PatchConnector, Create,
         CreateProxy, CreateAd, Start, StartClaim, StartLook, StartKey, UpdateProxy,
         UpdateAd, CleanRefs, CleanList, CleanDelete, MoveProxy, MoveAd, InstallInspector,
         EnableGet, EnableGone, EnablePatch, EnableAd, StartInsert, Disable, At, Removing
<1>4. CASE DeleteLook(i)
  <2>1. \A t \in Tunnels : Fewer(t)
    BY <1>4 DEF DeleteLook, Fewer, cloud, disk, mem
  <2> DEFINE On == h'[i].t = h[i].t /\ h'[i].pc = "delProxy"
  <2>2. ASSUME NEW c, NEW d,
               \/ Goto(i, [h[i] EXCEPT !.pc = "delProxy", !.dirty = d])
               \/ Goto(i, [h[i] EXCEPT !.pc = "delProxy", !.dirty = d, !.conn = c])
        PROVE  On
    <3>1. CASE Goto(i, [h[i] EXCEPT !.pc = "delProxy", !.dirty = d])
      BY <1>0, <1>1, <3>1 DEF Goto, TaskType
    <3>2. CASE Goto(i, [h[i] EXCEPT !.pc = "delProxy", !.dirty = d, !.conn = c])
      BY <1>0, <1>1, <3>2 DEF Goto, TaskType
    <3> QED BY <2>2, <3>1, <3>2
  <2>3. On
    <3> HIDE DEF On
    <3> QED BY <1>4, <2>2 DEF DeleteLook
  <2> QED BY <2>1, <2>3 DEF Removing
<1>5. CASE DeleteProxy(i)
  <2>1. \A t \in Tunnels : Fewer(t)
    BY <1>1, <1>5 DEF DeleteProxy, Fewer, disk, mem
  <2>2. CASE h[i].dirty /\ proxy[h[i].t] = None /\ Return(i)
    <3>1. h'[i] = Blank BY <1>0, <1>1, <1>2, <2>2 DEF Return, Leave
    <3> QED BY <1>1, <1>2, <1>5, <2>1, <2>2, <3>1 DEF DeleteProxy, At
  <2>3. CASE Goto(i, [h[i] EXCEPT !.pc = "delAd"])
    BY <1>0, <1>1, <2>1, <2>3 DEF Goto, Removing, TaskType
  <2> QED BY <1>5, <2>2, <2>3 DEF DeleteProxy
<1>6. CASE DeleteAd(i)
  BY <1>0, <1>1, <1>6 DEF DeleteAd, Goto, Removing, Fewer, disk, mem, TaskType
<1>7. CASE DeleteCheck(i)
  BY <1>0, <1>1, <1>7 DEF DeleteCheck, Goto, Removing, Fewer, cloud, disk, mem, TaskType
<1>8. CASE DeleteConn(i)
  <2>1. \A t \in Tunnels : Fewer(t)
    BY <1>1, <1>8 DEF DeleteConn, WithoutAds, Fewer, disk, mem
  <2> QED BY <1>0, <1>1, <1>8, <2>1 DEF DeleteConn, Goto, Removing, TaskType
<1>9. CASE DeleteLocal(i)
  BY <1>0, <1>1, <1>9 DEF DeleteLocal, Goto, Removing, Fewer, cloud, TaskType
<1>10. CASE DeleteInspector(i)
  <2>1. \A t \in Tunnels : Fewer(t)
    BY <1>1, <1>10 DEF DeleteInspector, Fewer, cloud
  <2>2. h'[i] = Blank BY <1>0, <1>1, <1>2, <1>10 DEF DeleteInspector, Return, Leave
  <2>3. proxy[h[i].t] = None
    BY <1>0, <1>10, TaskHere DEF DeleteInspector, At, TaskFits
  <2> QED BY <1>2, <1>10, <2>1, <2>2, <2>3 DEF DeleteInspector, cloud
<1> QED BY <1>3, <1>4, <1>5, <1>6, <1>7, <1>8, <1>9, <1>10 DEF Delete

\* Every step of a task before the API is served is such a step.
LEMMA EarlyTask ==
    ASSUME IndInv, OnlyRemoves, NEW i \in Procs, Task(i)
    PROVE  i # Sweep /\ Early(i)
<1>0. Main \in Procs /\ Sweep \in Procs /\ Main # Sweep /\ Main \notin Clients
  BY TasksDistinct DEF Procs
<1>1. Moves(i) BY TaskMoves
<1>2. i # Sweep BY <1>1 DEF OnlyRemoves, At, Moves
<1>3. CASE i \in Clients
  <2>1. /\ \A t \in Tunnels : Fewer(t)
        /\ h'[i].pc \in {"idle"} \cup Removing
        /\ h'[i].t = h[i].t \/ proxy'[h[i].t] = None
    BY <1>3, RemoveMoves DEF OnlyRemoves
  <2> QED BY <1>0, <1>1, <1>2, <1>3, <2>1 DEF Moves, Early
<1>4. CASE i = Main
  <2>1. h[i].t # None
    BY <1>1, <1>4, TaskHere DEF Moves, OnlyRemoves, Creating, At, TaskOK, Ensuring
  <2>2. Continue(i).t = None /\ Continue(i).pc = "next"
    BY <1>4 DEF Continue, Blank
  <2>3. h[i].t \in Tunnels BY <2>1, TaskHere DEF TaskType
  <2>4. CASE Mine(h[i].t)
    BY <1>0, <1>1, <1>4, <2>1, <2>2, <2>4 DEF Moves, Early, OnlyRemoves
  <2>5. CASE ~Mine(h[i].t)
    <3>1. h[i].pc = "disable" BY <1>4, <2>1, <2>5 DEF OnlyRemoves, At
    <3>2. Disable(i)
      BY <3>1 DEF Task, Ensure, FindConnector, MakeConnector, OverQuota, PatchConnector,
         Create, CreateProxy, CreateAd, Start, StartClaim, StartLook, StartKey, UpdateProxy,
         UpdateAd, CleanRefs, CleanList, CleanDelete, MoveProxy, MoveAd, InstallInspector,
         EnableGet, EnableGone, EnablePatch, EnableAd, StartInsert, Delete, DeleteLook,
         DeleteProxy, DeleteAd, DeleteCheck, DeleteConn, DeleteLocal, DeleteInspector, At
    <3>3. h'[i] = Continue(i)
      BY <3>2 DEF Disable, Return, Leave, IndInv, TypeOK
    <3>4. (\A t \in Tunnels : Fewer(t)) /\ (proxy'[h[i].t] = None \/ ad'[h[i].t] = None)
      BY <2>3, <3>2 DEF Disable, Fewer, disk, mem, IndInv, TypeOK, DataType
    <3> QED BY <1>0, <1>1, <1>4, <2>2, <3>1, <3>3, <3>4 DEF Moves, Early
  <2> QED BY <2>4, <2>5
<1> QED BY <1>2, <1>3, <1>4 DEF Procs

\* A Remove that is asked for meanwhile finds its tunnel off.
LEMMA EarlyRequest ==
    ASSUME IndInv, OnlyRemoves, ~Up, NEW i \in Clients, Request(i)
    PROVE  Early(i)
<1>0. Main \notin Clients /\ i \in Procs /\ i # Main BY TasksDistinct DEF Procs
<1>1. PICK t \in Tunnels : RemoveRequest(i, t)
  BY DEF Request, CreateRequest, StartRequest, StopRequest, DeleteRequest
<1>2. running[t] = "off" BY <1>1 DEF RemoveRequest, Older, OnlyRemoves, Mine
<1>3. h[i].t = None BY <1>0, <1>1, TaskHere DEF RemoveRequest, At, TaskOK
<1>4. h' = [h EXCEPT ![i] = [Blank EXCEPT !.pc = "delLook", !.t = t]] /\ UNCHANGED running
  BY <1>1, <1>2 DEF RemoveRequest, Goto
<1>5. h'[i].pc = "delLook" /\ Alone(i)
  BY <1>0, <1>4 DEF Alone, Blank, IndInv, TypeOK
<1>6. UNCHANGED <<proxy, ad, running, key, target, recTodo>>
  BY <1>1, <1>4 DEF RemoveRequest, cloud, disk, todos
<1> QED BY <1>0, <1>3, <1>5, <1>6 DEF Early, Fewer, Removing

\* Only a crash ends the serving of the API.
LEMMA StaysUp ==
    ASSUME IndInv, [Next]_vars, ~Crash, Up, MaxFaults = 0
    PROVE  Up'
<1>0. Main \in Procs /\ Sweep \in Procs /\ Main # Sweep /\ Main \notin Clients
      /\ Clients \subseteq Procs /\ h \in [Procs -> TaskType]
  BY TasksDistinct DEF Procs, IndInv, TypeOK
<1>1. ASSUME NEW i \in Clients, Request(i) PROVE Up'
  BY <1>0, <1>1 DEF Request, CreateRequest, StartRequest, StopRequest, DeleteRequest,
     RemoveRequest, TakeRunning, ClaimBusy, Goto, Up, At
<1>2. ASSUME NEW i \in Procs, Task(i) PROVE Up'
  BY <1>0, <1>2, TaskMoves DEF Moves, Alone, Up, At
<1>3. ASSUME NEW i \in Procs PROVE ~Fail(i) /\ ~CleanFails(i)
  BY DEF Fail, CleanFails, IndInv, TypeOK, DataType
<1>4. ~Reconcile
  BY DEF Reconcile, MainList, MainServe, MainStopOlder, MainReconcile, Up, At
<1>5. CASE SweepTask
  BY <1>0, <1>5 DEF SweepTask, SweepSnapshot, SweepDone, SweepStop, TakeRunning, ClaimBusy,
     Goto, Up, At
<1>6. CASE \E t \in Tunnels : Expire(t) BY <1>6 DEF Expire, Up, At
<1>7. CASE UNCHANGED vars BY <1>7 DEF vars, Up, At
<1> QED BY <1>1, <1>2, <1>3, <1>4, <1>5, <1>6, <1>7 DEF Next

\* When reconciliation takes its next tunnel, none is reserved: its 409 cannot happen.
LEMMA NoneReserved ==
    ASSUME IndInv, OnlyRemoves, At(Main, "next")
    PROVE  busy = {}
<1>1. ASSUME NEW i \in Procs PROVE ~h[i].lock
  <2>1. CASE i \in Clients
    BY <2>1, TaskHere DEF OnlyRemoves, TaskOK, Removing, Ensuring
  <2>2. CASE i \in {Main, Sweep}
    BY <2>2, TaskHere DEF OnlyRemoves, At, TaskOK
  <2> QED BY <2>1, <2>2 DEF Procs
<1> QED BY <1>1 DEF IndInv, TypeOK, BusyExclusion

\* The listing puts every older tunnel that is enabled on the list.
LEMMA EarlyList ==
    ASSUME IndInv, OnlyRemoves, MainList
    PROVE  OnlyRemoves' /\ Listed'
<1>0. Main \in Procs /\ Sweep \in Procs /\ Main # Sweep /\ Main \notin Clients
      /\ Clients \subseteq Procs /\ h \in [Procs -> TaskType]
  BY TasksDistinct DEF Procs, IndInv, TypeOK
<1>1. /\ h' = [h EXCEPT ![Main] = [Blank EXCEPT !.pc = "next"]]
      /\ UNCHANGED <<proxy, ad, key, target, running>>
      /\ recTodo' = {[t |-> t, ep |-> proxy[t].ep, on |-> ad[t] # None, old |-> Older(t)] :
                       t \in {u \in Tunnels : proxy[u] # None}}
  BY DEF MainList, Goto, cloud, disk, mem
<1>2. h'[Main].pc = "next" /\ h'[Main].t = None /\ \A j \in Procs \ {Main} : h'[j] = h[j]
  BY <1>0, <1>1 DEF Blank
<1>3. OnlyRemoves'
  BY <1>0, <1>1, <1>2 DEF OnlyRemoves, At, Creating, Ensuring, Mine
<1>4. \A t \in Tunnels : Older(t)' <=> Older(t) BY <1>1 DEF Older
<1>5. ASSUME NEW r \in recTodo', Older(r.t)' PROVE r.old
  <2>1. PICK t \in Tunnels : r = [t |-> t, ep |-> proxy[t].ep, on |-> ad[t] # None,
                                  old |-> Older(t)]
    BY <1>1
  <2> QED BY <1>4, <1>5, <2>1
<1>6. ASSUME NEW t \in Tunnels, proxy'[t] # None, Older(t)', ad'[t] # None
      PROVE  \E r \in recTodo' : r.t = t /\ r.old /\ r.on
  <2> DEFINE r == [t |-> t, ep |-> proxy[t].ep, on |-> ad[t] # None, old |-> Older(t)]
  <2>1. r \in recTodo' BY <1>1, <1>6
  <2>2. r.t = t /\ r.old /\ r.on BY <1>1, <1>4, <1>6
  <2> QED BY <2>1, <2>2
<1> QED BY <1>3, <1>5, <1>6 DEF Listed, Older

\* Taking the next tunnel of the list: an older one that is on is being disabled, and
\* only one that is left alone is reconciled.
LEMMA EarlyNext ==
    ASSUME IndInv, OnlyRemoves, Listed, NEW r \in recTodo, MainStopOlder(r) \/ MainReconcile(r)
    PROVE  OnlyRemoves' /\ Listed'
<1>0. Main \in Procs /\ Sweep \in Procs /\ Main # Sweep /\ Main \notin Clients
      /\ Clients \subseteq Procs /\ h \in [Procs -> TaskType] /\ r.t \in Tunnels
  BY TasksDistinct DEF Procs, IndInv, TypeOK, DataType
<1>1. At(Main, "next") /\ h[Main].t = None /\ busy = {}
  <2>1. At(Main, "next") BY DEF MainStopOlder, MainReconcile
  <2> QED BY <1>0, <2>1, TaskHere, NoneReserved DEF At, TaskOK
<1>2. /\ UNCHANGED <<proxy, ad, key, target>> /\ recTodo' = recTodo \ {r}
      /\ \A j \in Procs \ {Main} : h'[j] = h[j]
  BY <1>0 DEF MainStopOlder, MainReconcile, TakeRunning, ClaimBusy, Goto, cloud, disk
<1>3. \A t \in Tunnels : running'[t] # "off" => running[t] # "off"
  BY DEF MainStopOlder, MainReconcile, TakeRunning, mem, IndInv, TypeOK, DataType
<1>4. ASSUME MainStopOlder(r)
      PROVE  /\ r.on => h'[Main].t = r.t
             /\ h'[Main].pc = "disable" \/ (h'[Main].pc = "next" /\ h'[Main].t = None)
  <2>1. CASE UNCHANGED h /\ ~r.on BY <1>1, <2>1 DEF At
  <2>2. CASE TakeRunning(Main, r.t, FALSE)
    <3> DEFINE q == [Blank EXCEPT !.pc = "disable", !.t = r.t, !.rm = FALSE]
    <3>1. q.pc = "disable" /\ q.t = r.t BY DEF Blank
    <3>2. h' = [h EXCEPT ![Main] = [q EXCEPT !.lock = TRUE]]
      BY <2>2 DEF TakeRunning, ClaimBusy
    <3>3. [q EXCEPT !.lock = TRUE].pc = q.pc /\ [q EXCEPT !.lock = TRUE].t = q.t
      BY DEF Blank
    <3> QED BY <1>0, <3>1, <3>2, <3>3
  <2> QED BY <1>1, <1>4, <2>1, <2>2 DEF MainStopOlder
<1>5. \/ h'[Main].pc = "disable" \/ (h'[Main].pc = "next" /\ h'[Main].t = None)
      \/ h'[Main].pc \in {"install", "moveProxy"} /\ Mine(h'[Main].t)
  <2>1. CASE MainStopOlder(r) BY <1>4, <2>1
  <2>2. CASE MainReconcile(r) /\ target[r.t] = None
    BY <1>0, <1>1, <2>2 DEF MainReconcile, At
  <2>3. CASE MainReconcile(r) /\ target[r.t] # None
    <3>1. Mine(r.t) BY <2>3 DEF MainReconcile, Listed, Older, Mine
    <3>2. PICK p \in FreePorts :
             h' = [h EXCEPT ![Main] = [Blank EXCEPT
                    !.pc = IF p = r.ep THEN "install" ELSE "moveProxy",
                    !.t = r.t, !.rep = target[r.t], !.insp = p, !.ep = p,
                    !.after = IF r.on THEN "claim" ELSE "ret"]]
      BY <2>3 DEF MainReconcile, Goto
    <3>3. h'[Main].t = r.t /\ h'[Main].pc \in {"install", "moveProxy"}
      BY <1>0, <3>2 DEF Blank
    <3> QED BY <3>1, <3>3
  <2> QED BY <2>1, <2>2, <2>3
<1>6. OnlyRemoves'
  BY <1>0, <1>2, <1>3, <1>5 DEF OnlyRemoves, At, Creating, Ensuring, Mine
<1>7. \A t \in Tunnels : Older(t)' <=> Older(t) BY <1>2 DEF Older
<1>8. \A q \in recTodo' : q \in recTodo /\ q.t \in Tunnels
  BY <1>2 DEF IndInv, TypeOK, DataType
<1>9. ASSUME NEW t \in Tunnels, proxy'[t] # None, Older(t)', ad'[t] # None
      PROVE  \/ \E q \in recTodo' : q.t = t /\ q.old /\ q.on
             \/ \E j \in Procs : h'[j].t = t
  <2>1. proxy[t] # None /\ Older(t) /\ ad[t] # None BY <1>2, <1>7, <1>9
  <2>2. CASE \E q \in recTodo : q.t = t /\ q.old /\ q.on
    <3>1. PICK q \in recTodo : q.t = t /\ q.old /\ q.on BY <2>2
    <3>2. CASE q = r
      BY <1>0, <1>4, <3>1, <3>2 DEF MainReconcile
    <3>3. CASE q # r BY <1>2, <3>1, <3>3
    <3> QED BY <3>2, <3>3
  <2>3. ASSUME NEW j \in Procs, h[j].t = t PROVE h'[j].t = t
    BY <1>1, <1>2, <2>3, NoneDistinct
  <2> QED BY <2>1, <2>2, <2>3 DEF Listed
<1> QED BY <1>6, <1>7, <1>8, <1>9 DEF Listed, Older

\* OlderInv is inductive when no call fails.
LEMMA OlderStep ==
    ASSUME IndInv, IndInv', OlderInv, [Next]_vars, MaxFaults = 0
    PROVE  OlderInv'
<1>0. Main \in Procs /\ Sweep \in Procs /\ Main # Sweep /\ Main \notin Clients
      /\ Sweep \notin Clients /\ Clients \subseteq Procs /\ h \in [Procs -> TaskType]
  BY TasksDistinct DEF Procs, IndInv, TypeOK
<1>1. CASE Crash
  <2>1. h'[Main].pc = "list" /\ h'[Main].t = None
        /\ \A j \in Procs \ {Main} : h'[j].pc = "idle"
    BY <1>0, <1>1 DEF Crash, Blank
  <2>2. \A t \in Tunnels : running'[t] = "off" BY <1>1 DEF Crash
  <2> QED BY <1>0, <2>1, <2>2 DEF OlderInv, OnlyRemoves, At, Creating, Ensuring, Mine
<1>2. CASE ~Crash /\ Up
  BY <1>2, StaysUp DEF OlderInv
<1>3. CASE ~Crash /\ ~Up
  <2>0. OnlyRemoves /\ (At(Main, "list") \/ Listed) BY <1>3 DEF OlderInv
  <2>1. ASSUME NEW i \in Procs \ {Sweep}, Early(i) PROVE OlderInv'
    BY <2>0, <2>1, EarlyOK DEF OlderInv
  <2>2. ASSUME NEW i \in Clients, Request(i) PROVE OlderInv'
    BY <1>0, <1>3, <2>0, <2>1, <2>2, EarlyRequest
  <2>3. ASSUME NEW i \in Procs, Task(i) PROVE OlderInv'
    BY <2>0, <2>1, <2>3, EarlyTask
  <2>4. ASSUME NEW i \in Procs PROVE ~Fail(i) /\ ~CleanFails(i)
    BY DEF Fail, CleanFails, IndInv, TypeOK, DataType
  <2>5. CASE MainList BY <2>0, <2>5, EarlyList DEF OlderInv
  <2>6. CASE MainServe
    BY <1>0, <2>6 DEF MainServe, Goto, Blank, Up, At, OlderInv
  <2>7. ASSUME NEW r \in recTodo, MainStopOlder(r) \/ MainReconcile(r) PROVE OlderInv'
    <3>1. Listed BY <2>0, <2>7 DEF MainStopOlder, MainReconcile, At
    <3> QED BY <2>0, <2>7, <3>1, EarlyNext DEF OlderInv
  <2>8. ~SweepTask
    BY <1>3, <2>0 DEF SweepTask, SweepSnapshot, SweepDone, SweepStop, OnlyRemoves, At
  <2>9. ASSUME NEW t \in Tunnels, Expire(t) PROVE OlderInv'
    <3>1. running[t] # "off" /\ \A u \in Tunnels : running'[u] # "off" => running[u] # "off"
      BY <2>9 DEF Expire, IndInv, TypeOK, DataType
    <3>2. UNCHANGED <<proxy, ad, key, target, recTodo, h>>
      BY <2>9 DEF Expire, cloud, disk, todos
    <3> QED BY <2>0, <3>1, <3>2 DEF OlderInv, OnlyRemoves, Listed, Older, Mine, At,
                                    Creating, Up
  <2>10. CASE UNCHANGED vars
    BY <2>0, <2>10 DEF vars, OlderInv, OnlyRemoves, Listed, Older, Mine, At, Creating, Up
  <2> QED
    BY <1>3, <2>2, <2>3, <2>4, <2>5, <2>6, <2>7, <2>8, <2>9, <2>10 DEF Next, Reconcile
<1> QED BY <1>1, <1>2, <1>3

\* The lists and the older tunnels are as the property says.
LEMMA OlderShown ==
    ASSUME IndInv, OlderInv
    PROVE  OlderOff
<1> SUFFICES ASSUME At(Main, "next"), recTodo = {}, NEW t \in Tunnels, proxy[t] # None,
                    Older(t), \A i \in Procs : h[i].t # t
             PROVE  running[t] = "off" /\ ad[t] = None
  BY DEF OlderOff
<1>1. OnlyRemoves /\ Listed BY DEF OlderInv, Up, At
<1>2. ~Mine(t) BY DEF Older, Mine
<1> QED BY <1>1, <1>2 DEF OnlyRemoves, Listed

\* The invariant of reconciliation holds from the start to the serving of the API, in
\* every restart.
THEOREM OlderInvariance == MaxFaults = 0 /\ Spec => []OlderInv
<1> SUFFICES ASSUME MaxFaults = 0 PROVE Spec => []OlderInv
  OBVIOUS
<1>1. Init => OlderInv
  BY DEF Init, OlderInv, Up, At, Blank, Procs
<1>2. IndInv /\ IndInv' /\ OlderInv /\ [Next]_vars => OlderInv'
  BY OlderStep
<1> QED BY <1>1, <1>2, Invariance, PTL DEF Spec

\* The pass of run() over the older tunnels (exclusive.rs): when it is through, each
\* of them is off, for any number of tunnels, of Removes meanwhile and of restarts,
\* as long as no call fails: a failed stop is only logged.
THEOREM OlderTunnelsOff == MaxFaults = 0 /\ Spec => []OlderOff
BY OlderInvariance, Invariance, OlderShown, PTL

-----------------------------------------------------------------------------
(* Enabled tunnels are running when reconciliation is through.             *)

\* The safety half of EnabledResumes: what the control plane has enabled, with its
\* target on file, is running by the time the API is served.
EnabledBack ==
    At(Main, "next") /\ recTodo = {} =>
        \A t \in Tunnels : proxy[t] # None /\ ad[t] # None /\ target[t] # None /\ ~Older(t) =>
            running[t] # "off"

\* The assumption on quota: the resume of a tunnel finds a name to create its
\* connector under.
ResumeHasQuota == At(Main, "mkConn") => \E c \in Conns : Fresh(c)

\* A tunnel that is to be resumed.
Wanted(t) == Mine(t) /\ proxy[t] # None /\ ad[t] # None /\ target[t] # None

\* Where reconciliation is with a tunnel: it moves it to its new port, then starts it.
Moving == {"moveProxy", "moveAd", "install"}
Resuming == {"idle", "list", "next", "disable", "claim", "look", "key", "find", "mkConn",
             "patchConn", "updProxy", "updAd", "cleanRefs", "cleanList", "cleanDel", "enGet",
             "enPatch", "enAd", "insert"}

\* A tunnel that is only moved is not enabled, and one that is started is not moved.
ResumeOK(m) ==
    /\ m.pc \in Resuming \cup Moving
    /\ m.pc \in Resuming => m.rep = None
    /\ m.pc \in Moving => m.after = "claim" \/ (m.after = "ret" /\ ad[m.t] = None)

\* The list has an entry per tunnel that Main has not taken, a tunnel that is not running and
\* is to be resumed has one, and no request is about any of them.
ToResume ==
    /\ \A r \in recTodo : /\ r.t # h[Main].t
                          /\ \A q \in recTodo : q.t = r.t => q = r
                          /\ Mine(r.t) => ~r.old /\ (~r.on => ad[r.t] = None)
    /\ \A t \in Tunnels : Wanted(t) =>
          \/ running[t] # "off" \/ h[Main].t = t
          \/ \E r \in recTodo : r.t = t

ResumeInv ==
    ~Up => /\ ResumeOK(h[Main])
           /\ \A i \in Clients : h[i].t # None => ~Mine(h[i].t)
           /\ At(Main, "list") \/ ToResume

\* Only a start that ends and a delete touch the running map, each for its own tunnel.
LEMMA OthersRun ==
    ASSUME IndInv, NEW i \in Procs, Task(i), NEW t \in Tunnels, t # h[i].t
    PROVE  running'[t] = running[t]
<1>1. running \in [Tunnels -> {"off", "fresh", "old"}]
  BY DEF IndInv, TypeOK, DataType
<1>2. CASE Ensure(i) \/ Create(i) \/ Disable(i)
  BY <1>2 DEF Ensure, FindConnector, MakeConnector, OverQuota, PatchConnector, Create,
              CreateProxy, CreateAd, Disable, mem
<1>3. CASE Start(i)
  BY <1>1, <1>3
  DEF Start, StartClaim, StartLook, StartKey, UpdateProxy, UpdateAd, CleanRefs, CleanList,
      CleanDelete, MoveProxy, MoveAd, InstallInspector, EnableGet, EnableGone, EnablePatch,
      EnableAd, StartInsert, mem
<1>4. CASE Delete(i)
  BY <1>1, <1>4
  DEF Delete, DeleteLook, DeleteProxy, DeleteAd, DeleteCheck, DeleteConn, DeleteLocal,
      DeleteInspector, mem
<1>5. QED
  BY <1>2, <1>3, <1>4 DEF Task

\* A step of Main: it stays with its tunnel, or lets go of one that is running or is not
\* to be.
MainGoesOn ==
    /\ ResumeOK(h[Main])'
    /\ h'[Main].t = None => \A t \in Tunnels : t = h[Main].t /\ Wanted(t)' => running'[t] # "off"
    /\ \A t \in Tunnels : running[t] # "off" => running'[t] # "off"

LEMMA MainSteps ==
    ASSUME IndInv, OnlyRemoves, ResumeOK(h[Main]), ResumeHasQuota, Task(Main)
    PROVE  MainGoesOn
<1> DEFINE m == h[Main]
<1>0. Main \in Procs /\ h \in [Procs -> TaskType] /\ m \in TaskType /\ TaskOK(m)
      /\ running \in [Tunnels -> {"off", "fresh", "old"}]
      /\ proxy \in [Tunnels -> Backend \cup {None}] /\ ad \in [Tunnels -> Backend \cup {None}]
  BY MainAndSweep, TaskHere DEF IndInv, TypeOK, DataType
<1>1. m.pc \in Resuming \cup Moving /\ m.pc \notin {"idle", "next", "list"}
      /\ (m.pc \in Resuming => m.rep = None)
  BY TaskMoves, MainAndSweep DEF Moves, ResumeOK
<1>2. m.t \in Tunnels /\ (m.pc \in Ensuring => m.then \in {"updProxy", "enPatch"})
  BY <1>0, <1>1 DEF OnlyRemoves, Creating, At, TaskOK, TaskType, Ensuring, Resuming, Moving
<1>3. ASSUME NEW q, h' = [h EXCEPT ![Main] = q], q.t = m.t, running' = running,
             q.pc \in Resuming, q.rep = None
      PROVE  MainGoesOn
  <2>1. h'[Main] = q
    BY <1>0, <1>3
  <2>2. q.pc \notin Moving
    BY <1>3 DEF Resuming, Moving
  <2>3. QED
    BY <1>2, <1>3, <2>1, <2>2, NoneDistinct DEF MainGoesOn, ResumeOK
<1>4. ASSUME NEW q, Goto(Main, q), q.t = m.t, running' = running,
             q.pc \in Resuming, q.rep = None
      PROVE  MainGoesOn
  BY <1>3, <1>4 DEF Goto
<1>5. ASSUME NEW q, Goto(Main, q), q.t = m.t, running' = running, m.pc \in Moving,
             q.pc \in Moving, q.after = m.after, ad[m.t] = None => ad'[m.t] = None
      PROVE  MainGoesOn
  <2>1. h'[Main] = q
    BY <1>0, <1>5 DEF Goto
  <2>2. q.pc \notin Resuming
    BY <1>5 DEF Resuming, Moving
  <2>3. QED
    BY <1>2, <1>5, <2>1, <2>2, NoneDistinct DEF MainGoesOn, ResumeOK
<1>6. ASSUME Return(Main), \A t \in Tunnels : t = m.t /\ Wanted(t)' => running'[t] # "off",
             \A t \in Tunnels : running[t] # "off" => running'[t] # "off"
      PROVE  MainGoesOn
  <2>1. h'[Main] = [Blank EXCEPT !.pc = "next"]
    BY <1>0, <1>6 DEF Return, Leave, Continue
  <2>2. h'[Main].pc = "next" /\ h'[Main].rep = None
    BY <2>1 DEF Blank
  <2>3. QED
    BY <1>6, <2>2 DEF MainGoesOn, ResumeOK, Resuming, Moving
<1>7. ASSUME Return(Main), proxy[m.t] = None, proxy' = proxy, running' = running
      PROVE  MainGoesOn
  BY <1>6, <1>7 DEF Wanted
\* The next step, all else of the record staying as it is.
<1>8. ASSUME NEW x \in Resuming, Goto(Main, [m EXCEPT !.pc = x]), m.pc \in Resuming,
             running' = running
      PROVE  MainGoesOn
  <2> DEFINE q == [m EXCEPT !.pc = x]
  <2>1. q.pc = x /\ q.t = m.t /\ q.rep = m.rep
    BY <1>0 DEF TaskType
  <2>2. Goto(Main, q)
    BY <1>8
  <2> HIDE DEF q
  <2>3. QED
    BY <1>1, <1>4, <1>8, <2>1, <2>2
<1>9. CASE FindConnector(Main)
  <2>1. m.pc = "find" /\ running' = running
    BY <1>9 DEF FindConnector, At, mem
  <2>2. ASSUME NEW c, Goto(Main, [m EXCEPT !.pc = m.then, !.then = "none", !.conn = c,
                                           !.dirty = m.conn # c])
        PROVE  MainGoesOn
    <3> DEFINE q == [m EXCEPT !.pc = m.then, !.then = "none", !.conn = c, !.dirty = m.conn # c]
    <3>1. q.pc = m.then /\ q.t = m.t /\ q.rep = m.rep /\ Goto(Main, q)
      BY <1>0, <2>2 DEF TaskType
    <3> HIDE DEF q
    <3>2. QED
      BY <1>1, <1>2, <1>4, <2>1, <3>1 DEF Resuming, Ensuring
  <2>3. QED
    BY <1>8, <1>9, <2>1, <2>2 DEF FindConnector, Resuming
<1>10. ASSUME NEW c \in Conns, MakeConnector(Main, c) PROVE MainGoesOn
  <2> DEFINE q == [m EXCEPT !.pc = "patchConn", !.conn = c, !.dirty = TRUE]
  <2>1. q.pc = "patchConn" /\ q.t = m.t /\ q.rep = m.rep
    BY <1>0 DEF TaskType
  <2>2. Goto(Main, q) /\ running' = running /\ m.pc = "mkConn"
    BY <1>10 DEF MakeConnector, At, mem
  <2> HIDE DEF q
  <2>3. QED
    BY <1>1, <1>4, <2>1, <2>2 DEF Resuming
<1>11. ~OverQuota(Main)
  BY DEF OverQuota, ResumeHasQuota
<1>12. CASE PatchConnector(Main)
  <2> DEFINE q == [m EXCEPT !.pc = m.then, !.then = "none"]
  <2>1. q.pc = m.then /\ q.t = m.t /\ q.rep = m.rep
    BY <1>0 DEF TaskType
  <2>2. Goto(Main, q) /\ running' = running /\ m.pc = "patchConn"
    BY <1>12 DEF PatchConnector, At, mem
  <2> HIDE DEF q
  <2>3. QED
    BY <1>1, <1>2, <1>4, <2>1, <2>2 DEF Resuming, Ensuring
<1>13. ~Create(Main) /\ ~Delete(Main)
  BY <1>1 DEF Create, CreateProxy, CreateAd, Delete, DeleteLook, DeleteProxy, DeleteAd,
     DeleteCheck, DeleteConn, DeleteLocal, DeleteInspector, At, Resuming, Moving
<1>14. CASE StartClaim(Main)
  <2>1. ASSUME NEW j \in Procs PROVE ~(h[j].lock /\ h[j].t = m.t)
    <3>1. TaskOK(h[j])
      BY TaskHere
    <3>2. CASE j \in Clients
      BY <3>1, <3>2 DEF OnlyRemoves, TaskOK, Removing, Ensuring
    <3>3. CASE j = Main
      BY <1>14, <3>1, <3>3 DEF StartClaim, At, TaskOK, Ensuring
    <3>4. CASE j = Sweep
      BY <3>1, <3>4 DEF OnlyRemoves, At, TaskOK, Ensuring
    <3>5. QED
      BY <3>2, <3>3, <3>4 DEF Procs
  <2>2. m.t \notin busy
    BY <1>2, <2>1 DEF IndInv, BusyExclusion
  <2> DEFINE q == [[m EXCEPT !.pc = "look"] EXCEPT !.lock = TRUE]
  <2>3. q.pc = "look" /\ q.t = m.t /\ q.rep = m.rep
    BY <1>0 DEF TaskType
  <2>4. h' = [h EXCEPT ![Main] = q] /\ running' = running /\ m.pc = "claim"
    BY <1>14, <2>2 DEF StartClaim, ClaimBusy, At, mem
  <2> HIDE DEF q
  <2>5. QED
    BY <1>1, <1>3, <2>3, <2>4 DEF Resuming
<1>15. CASE StartLook(Main)
  <2>1. running' = running /\ m.pc = "look" /\ m.rep = None
    BY <1>1, <1>15 DEF StartLook, At, mem, Resuming
  <2>2. CASE Return(Main) /\ (proxy[m.t] = None \/ running[m.t] # "off")
    <3>1. proxy' = proxy
      BY <1>15 DEF StartLook, cloud
    <3>2. QED
      BY <1>6, <1>7, <2>1, <2>2, <3>1
  <2>3. ASSUME NEW e, Goto(Main, [m EXCEPT !.pc = "key", !.ep = e]) PROVE MainGoesOn
    <3> DEFINE q == [m EXCEPT !.pc = "key", !.ep = e]
    <3>1. q.pc = "key" /\ q.t = m.t /\ q.rep = m.rep /\ Goto(Main, q)
      BY <1>0, <2>3 DEF TaskType
    <3> HIDE DEF q
    <3>2. QED
      BY <1>4, <2>1, <3>1 DEF Resuming
  <2>4. QED
    BY <1>15, <2>1, <2>2, <2>3 DEF StartLook
<1>16. CASE StartKey(Main)
  <2>1. running' = running /\ m.pc = "key" /\ m.rep = None
    BY <1>1, <1>16 DEF StartKey, At, mem, Resuming
  <2>2. CASE Goto(Main, [m EXCEPT !.pc = "find", !.then = "updProxy"])
    <3> DEFINE q == [m EXCEPT !.pc = "find", !.then = "updProxy"]
    <3>1. q.pc = "find" /\ q.t = m.t /\ q.rep = m.rep /\ Goto(Main, q)
      BY <1>0, <2>2 DEF TaskType
    <3> HIDE DEF q
    <3>2. QED
      BY <1>4, <2>1, <3>1 DEF Resuming
  <2>3. CASE Goto(Main, [m EXCEPT !.pc = "enGet"])
    BY <1>8, <2>1, <2>3 DEF Resuming
  <2>4. QED
    BY <1>16, <2>1, <2>2, <2>3 DEF StartKey
<1>17. CASE UpdateProxy(Main)
  <2>1. running' = running /\ m.pc = "updProxy"
    BY <1>17 DEF UpdateProxy, At, mem
  <2>2. QED
    BY <1>7, <1>8, <1>17, <2>1 DEF UpdateProxy, Resuming
<1>18. CASE UpdateAd(Main)
  BY <1>8, <1>18 DEF UpdateAd, At, mem, Resuming
<1>19. CASE CleanRefs(Main) \/ CleanList(Main)
  <2>1. running' = running /\ m.pc \in {"cleanRefs", "cleanList"}
    BY <1>19 DEF CleanRefs, CleanList, At, mem
  <2>2. ASSUME NEW x \in {"cleanList", "cleanDel"}, NEW cs,
               Goto(Main, [m EXCEPT !.pc = x, !.drop = cs])
        PROVE  MainGoesOn
    <3> DEFINE q == [m EXCEPT !.pc = x, !.drop = cs]
    <3>1. q.pc = x /\ q.t = m.t /\ q.rep = m.rep /\ Goto(Main, q)
      BY <1>0, <2>2 DEF TaskType
    <3> HIDE DEF q
    <3>2. QED
      BY <1>1, <1>4, <2>1, <3>1 DEF Resuming
  <2>3. QED
    BY <1>19, <2>2 DEF CleanRefs, CleanList
<1>20. CASE CleanDelete(Main)
  <2> DEFINE q == [m EXCEPT !.drop = {}, !.pc = "enGet"]
  <2>1. running' = running /\ m.pc = "cleanDel" /\ m.rep = None
    BY <1>1, <1>20 DEF CleanDelete, At, mem, Resuming
  <2>2. q.pc = "enGet" /\ q.t = m.t /\ q.rep = m.rep
    BY <1>0 DEF TaskType
  <2>3. Goto(Main, q)
    BY <1>20, <2>1 DEF CleanDelete, AfterClean
  <2> HIDE DEF q
  <2>4. QED
    BY <1>4, <2>1, <2>2, <2>3 DEF Resuming
<1>21. CASE MoveProxy(Main)
  <2>1. running' = running /\ ad' = ad /\ m.pc \in Moving
    BY <1>21 DEF MoveProxy, At, mem, Moving
  <2>2. CASE Return(Main) /\ proxy[m.t] = None /\ UNCHANGED proxy
    BY <1>7, <2>1, <2>2
  <2>3. CASE Goto(Main, [m EXCEPT !.pc = "moveAd"])
    <3> DEFINE q == [m EXCEPT !.pc = "moveAd"]
    <3>1. q.pc = "moveAd" /\ q.t = m.t /\ q.after = m.after /\ Goto(Main, q)
      BY <1>0, <2>3 DEF TaskType
    <3> HIDE DEF q
    <3>2. QED
      BY <1>5, <2>1, <3>1 DEF Moving
  <2>4. QED
    BY <1>21, <2>2, <2>3 DEF MoveProxy
<1>22. CASE MoveAd(Main)
  <2> DEFINE q == [m EXCEPT !.pc = "install"]
  <2>1. q.pc = "install" /\ q.t = m.t /\ q.after = m.after
    BY <1>0 DEF TaskType
  <2>2. Goto(Main, q) /\ running' = running /\ m.pc \in Moving
        /\ (ad[m.t] = None => ad'[m.t] = None)
    BY <1>22 DEF MoveAd, At, mem, Moving
  <2> HIDE DEF q
  <2>3. QED
    BY <1>5, <2>1, <2>2 DEF Moving
<1>23. CASE InstallInspector(Main)
  <2>1. running' = running /\ ad' = ad /\ m.pc \in Moving
    BY <1>23 DEF InstallInspector, At, cloud, Moving
  <2>2. CASE m.after = "ret"
    <3>1. ad[m.t] = None /\ Return(Main)
      BY <1>23, <2>1, <2>2 DEF InstallInspector, ResumeOK
    <3>2. QED
      BY <1>6, <2>1, <3>1 DEF Wanted
  <2>3. CASE m.after = "claim"
    <3> DEFINE q == [m EXCEPT !.pc = m.after, !.insp = None, !.rep = None]
    <3>1. q.pc = "claim" /\ q.t = m.t /\ q.rep = None
      BY <1>0, <2>3 DEF TaskType
    <3>2. Goto(Main, q)
      BY <1>23, <2>3 DEF InstallInspector
    <3> HIDE DEF q
    <3>3. QED
      BY <1>4, <2>1, <3>1, <3>2 DEF Resuming
  <2>4. QED
    BY <2>1, <2>2, <2>3 DEF ResumeOK
<1>24. CASE EnableGet(Main)
  <2> DEFINE q == [m EXCEPT !.pc = "find", !.then = "enPatch", !.ep = proxy[m.t].ep,
                            !.conn = proxy[m.t].conn]
  <2>1. q.pc = "find" /\ q.t = m.t /\ q.rep = m.rep
    BY <1>0 DEF TaskType
  <2>2. Goto(Main, q) /\ running' = running /\ m.rep = None
    BY <1>1, <1>24 DEF EnableGet, At, mem, Resuming
  <2> HIDE DEF q
  <2>3. QED
    BY <1>4, <2>1, <2>2 DEF Resuming
<1>25. CASE EnableGone(Main)
  BY <1>7, <1>25 DEF EnableGone, cloud, mem
<1>26. CASE EnablePatch(Main)
  BY <1>8, <1>26 DEF EnablePatch, At, mem, Resuming
<1>27. CASE EnableAd(Main)
  BY <1>8, <1>27 DEF EnableAd, At, mem, Resuming
<1>28. CASE StartInsert(Main)
  <2>1. running' = [running EXCEPT ![m.t] = "fresh"]
    BY <1>28 DEF StartInsert
  <2>2. \A t \in Tunnels : running[t] # "off" \/ t = m.t => running'[t] # "off"
    BY <1>0, <2>1
  <2>3. QED
    BY <1>6, <1>28, <2>2 DEF StartInsert
<1>29. CASE Disable(Main)
  <2>1. proxy[m.t] = None \/ ad'[m.t] = None
    BY <1>0, <1>2, <1>29 DEF Disable
  <2>2. Return(Main) /\ proxy' = proxy /\ running' = running
    BY <1>29 DEF Disable, mem
  <2>3. \A t \in Tunnels : t = m.t => ~Wanted(t)'
    BY <2>1, <2>2 DEF Wanted
  <2>4. QED
    BY <1>6, <2>2, <2>3
<1>30. QED
  BY <1>9, <1>10, <1>11, <1>12, <1>13, <1>14, <1>15, <1>16, <1>17, <1>18, <1>19, <1>20,
     <1>21, <1>22, <1>23, <1>24, <1>25, <1>26, <1>27, <1>28, <1>29 DEF Task, Ensure, Start

\* What is to be resumed stays listed, running or in hand through a step that brings others
\* nothing, turns off only older tunnels, and lets go of none that is not running.
LEMMA ResumeKept ==
    ASSUME IndInv, ToResume, recTodo' = recTodo,
           \A t \in Tunnels : Fewer(t) \/ t = h[Main].t,
           \A t \in Tunnels : running[t] # "off" /\ Mine(t) => running'[t] # "off",
           \/ h'[Main].t = h[Main].t
           \/ /\ h'[Main].t = None
              /\ \A t \in Tunnels : t = h[Main].t /\ Wanted(t)' => running'[t] # "off"
    PROVE  ToResume'
<1>1. \A r \in recTodo : r.t \in Tunnels
  BY DEF IndInv, TypeOK, DataType
<1>2. ASSUME NEW r \in recTodo
      PROVE  /\ r.t # h'[Main].t
             /\ \A q \in recTodo : q.t = r.t => q = r
             /\ Mine(r.t) => ~r.old /\ (~r.on => ad'[r.t] = None)
  BY <1>1, <1>2, NoneDistinct DEF ToResume, Fewer
<1>3. ASSUME NEW t \in Tunnels, Wanted(t)'
      PROVE  \/ running'[t] # "off" \/ h'[Main].t = t
             \/ \E r \in recTodo : r.t = t
  <2>1. CASE t = h[Main].t
    BY <1>3, <2>1
  <2>2. CASE t # h[Main].t
    <3>1. Wanted(t)
      BY <1>3, <2>2 DEF Wanted, Mine, Fewer
    <3>2. QED
      BY <2>2, <3>1 DEF ToResume, Wanted
  <2>3. QED
    BY <2>1, <2>2
<1>4. QED
  BY <1>2, <1>3 DEF ToResume, Mine

\* Before the API is served no request is about a tunnel that is to be resumed.
LEMMA RequestsAside ==
    ASSUME IndInv, OnlyRemoves, NEW i \in Clients,
           \A j \in Clients : h[j].t # None => ~Mine(h[j].t),
           (Request(i) /\ ~Up) \/ Task(i)
    PROVE  /\ h'[Main] = h[Main] /\ (ToResume => ToResume')
           /\ \A j \in Clients : h'[j].t # None => ~Mine(h'[j].t)
           /\ \A t \in Tunnels : ad[t] = None => ad'[t] = None
<1>0. Main \in Procs /\ Clients \subseteq Procs /\ i # Main /\ Main \notin Clients
      /\ i \in Procs /\ i # Sweep /\ h \in [Procs -> TaskType]
  BY TasksDistinct DEF Procs, IndInv, TypeOK
<1>1. ASSUME Alone(i), \A t \in Tunnels : Fewer(t), recTodo' = recTodo,
             h'[i].t # None => ~Mine(h'[i].t),
             \A t \in Tunnels : running[t] # "off" /\ Mine(t) => running'[t] # "off"
      PROVE  /\ h'[Main] = h[Main] /\ (ToResume => ToResume')
             /\ \A j \in Clients : h'[j].t # None => ~Mine(h'[j].t)
             /\ \A t \in Tunnels : ad[t] = None => ad'[t] = None
  <2>1. \A j \in Procs \ {i} : h'[j] = h[j]
    BY <1>1 DEF Alone
  <2>2. ToResume => ToResume'
    BY <1>0, <1>1, <2>1, ResumeKept
  <2>3. QED
    BY <1>0, <1>1, <2>1, <2>2 DEF Fewer
<1>2. CASE Request(i) /\ ~Up
  <2>1. PICK t \in Tunnels : RemoveRequest(i, t)
    BY <1>2 DEF Request, CreateRequest, StartRequest, StopRequest, DeleteRequest
  <2>2. ~Mine(t) /\ running[t] = "off"
    BY <2>1 DEF RemoveRequest, Older, OnlyRemoves, Mine
  <2>3. h' = [h EXCEPT ![i] = [Blank EXCEPT !.pc = "delLook", !.t = t]]
        /\ UNCHANGED <<proxy, ad, running, key, target, recTodo>>
    BY <2>1, <2>2 DEF RemoveRequest, Goto, cloud, disk, todos
  <2>4. h'[i].t = t /\ Alone(i)
    BY <1>0, <2>3 DEF Alone, Blank
  <2>5. QED
    BY <1>1, <2>2, <2>3, <2>4 DEF Fewer
<1>3. CASE Task(i)
  <2>1. Moves(i)
    BY <1>0, <1>3, TaskMoves
  <2>2. h[i].pc \in {"idle"} \cup Removing
    BY DEF OnlyRemoves
  <2>3. \A t \in Tunnels : Fewer(t)
    BY <1>3, <2>2, RemoveMoves
  <2>4. h[i].t \in Tunnels /\ ~h[i].rm /\ ~Creating(i)
    BY <1>0, <2>1, <2>2, TaskHere
    DEF Moves, TaskOK, TaskType, Removing, Ensuring, Creating, At
  <2>5. h'[i].t = None \/ h'[i].t = h[i].t
    <3>1. Continue(i) = Blank /\ Blank.t = None
      BY <1>0, <2>4 DEF Continue, Blank
    <3>2. QED
      BY <2>1, <2>4, <3>1 DEF Moves
  <2>6. ~Mine(h[i].t)
    BY <2>4, NoneDistinct
  <2>7. \A t \in Tunnels : Mine(t) => running'[t] = running[t]
    BY <1>0, <1>3, <2>6, OthersRun
  <2>8. QED
    BY <1>1, <2>1, <2>3, <2>5, <2>6, <2>7 DEF Moves
<1>4. QED
  BY <1>2, <1>3

\* The listing has every tunnel that is to be resumed.
LEMMA ResumeListed ==
    ASSUME IndInv, MainList
    PROVE  ToResume' /\ ResumeOK(h[Main])' /\ \A j \in Procs \ {Main} : h'[j] = h[j]
<1>0. Main \in Procs /\ h \in [Procs -> TaskType]
  BY MainAndSweep DEF IndInv, TypeOK
<1>1. /\ h' = [h EXCEPT ![Main] = [Blank EXCEPT !.pc = "next"]]
      /\ UNCHANGED <<proxy, ad, key, target, running>>
      /\ recTodo' = {[t |-> t, ep |-> proxy[t].ep, on |-> ad[t] # None, old |-> Older(t)] :
                       t \in {u \in Tunnels : proxy[u] # None}}
  BY DEF MainList, Goto, cloud, disk, mem
<1>2. h'[Main].pc = "next" /\ h'[Main].t = None /\ h'[Main].rep = None
  BY <1>0, <1>1 DEF Blank
<1>3. ResumeOK(h[Main])'
  BY <1>2 DEF ResumeOK, Resuming, Moving
<1>4. ASSUME NEW r \in recTodo'
      PROVE  /\ r.t # h'[Main].t
             /\ \A q \in recTodo' : q.t = r.t => q = r
             /\ Mine(r.t) => ~r.old /\ (~r.on => ad'[r.t] = None)
  <2>1. PICK t \in Tunnels : r = [t |-> t, ep |-> proxy[t].ep, on |-> ad[t] # None,
                                  old |-> Older(t)]
    BY <1>1
  <2>2. r.t = t /\ (r.on <=> ad[t] # None) /\ (r.old <=> Older(t))
    BY <2>1
  <2>3. ASSUME NEW q \in recTodo', q.t = r.t PROVE q = r
    <3>1. PICK u \in Tunnels : q = [t |-> u, ep |-> proxy[u].ep, on |-> ad[u] # None,
                                    old |-> Older(u)]
      BY <1>1
    <3>2. u = t
      BY <2>2, <2>3, <3>1
    <3>3. QED
      BY <2>1, <3>1, <3>2
  <2>4. Mine(t) => ~Older(t)
    BY DEF Mine, Older
  <2>5. QED
    BY <1>1, <1>2, <2>2, <2>3, <2>4, NoneDistinct
<1>5. ASSUME NEW t \in Tunnels, Wanted(t)' PROVE \E r \in recTodo' : r.t = t
  <2> DEFINE r == [t |-> t, ep |-> proxy[t].ep, on |-> ad[t] # None, old |-> Older(t)]
  <2>1. r \in recTodo' /\ r.t = t
    BY <1>1, <1>5 DEF Wanted
  <2>2. QED
    BY <2>1
<1>6. \A j \in Procs \ {Main} : h'[j] = h[j]
  BY <1>0, <1>1
<1>7. QED
  BY <1>3, <1>4, <1>5, <1>6 DEF ToResume, Mine

\* Taking the next tunnel of the list: one that is to be resumed is in hand then.
LEMMA ResumeNext ==
    ASSUME IndInv, OnlyRemoves, Listed, ToResume, ResumeOK(h[Main]), NEW r \in recTodo,
           MainStopOlder(r) \/ MainReconcile(r)
    PROVE  ToResume' /\ ResumeOK(h[Main])' /\ \A j \in Procs \ {Main} : h'[j] = h[j]
<1>0. Main \in Procs /\ h \in [Procs -> TaskType] /\ r.t \in Tunnels
      /\ \A q \in recTodo : q.t \in Tunnels
  BY MainAndSweep DEF IndInv, TypeOK, DataType
<1>1. At(Main, "next") /\ h[Main].t = None /\ h[Main].rep = None
  <2>1. At(Main, "next")
    BY DEF MainStopOlder, MainReconcile
  <2>2. QED
    BY <1>0, <2>1, TaskHere DEF At, TaskOK, ResumeOK, Resuming
<1>2. /\ UNCHANGED <<proxy, ad, key, target>> /\ recTodo' = recTodo \ {r}
      /\ \A j \in Procs \ {Main} : h'[j] = h[j]
  BY <1>0 DEF MainStopOlder, MainReconcile, TakeRunning, ClaimBusy, Goto, cloud, disk
\* What is left to show: Main is with the tunnel, or it is not to be resumed.
<1>3. ASSUME h'[Main].t = r.t \/ (h'[Main].t = None /\ ~Wanted(r.t)),
             \A t \in Tunnels : running[t] # "off" /\ Mine(t) => running'[t] # "off"
      PROVE  ToResume'
  <2>1. ASSUME NEW q \in recTodo'
        PROVE  /\ q.t # h'[Main].t
               /\ \A p \in recTodo' : p.t = q.t => p = q
               /\ Mine(q.t) => ~q.old /\ (~q.on => ad'[q.t] = None)
    <3>1. q \in recTodo /\ q # r
      BY <1>2, <2>1
    <3>2. q.t # r.t /\ q.t # None
      BY <1>0, <3>1, NoneDistinct DEF ToResume
    <3>3. QED
      BY <1>2, <1>3, <3>1, <3>2 DEF ToResume
  <2>2. ASSUME NEW t \in Tunnels, Wanted(t)'
        PROVE  \/ running'[t] # "off" \/ h'[Main].t = t
               \/ \E q \in recTodo' : q.t = t
    <3>1. Wanted(t) /\ Mine(t)
      BY <1>2, <2>2 DEF Wanted, Mine
    <3>2. CASE t = r.t
      BY <1>3, <3>1, <3>2
    <3>3. CASE t # r.t
      <4>1. running[t] # "off" \/ \E q \in recTodo : q.t = t
        BY <1>1, <3>1, NoneDistinct DEF ToResume
      <4>2. QED
        BY <1>2, <1>3, <3>1, <3>3, <4>1
    <3>4. QED
      BY <3>2, <3>3
  <2>3. QED
    BY <2>1, <2>2 DEF ToResume, Mine
<1>4. CASE UNCHANGED <<h, running>> /\ ~Wanted(r.t)
  BY <1>1, <1>2, <1>3, <1>4 DEF ResumeOK
<1>5. CASE MainStopOlder(r)
  <2>1. ~Mine(r.t)
    BY <1>5 DEF MainStopOlder, ToResume
  <2>2. CASE TakeRunning(Main, r.t, FALSE)
    <3> DEFINE q == [[Blank EXCEPT !.pc = "disable", !.t = r.t, !.rm = FALSE]
                     EXCEPT !.lock = TRUE]
    <3>1. q.pc = "disable" /\ q.t = r.t /\ q.rep = None
      BY DEF Blank
    <3>2. h' = [h EXCEPT ![Main] = q] /\ running' = [running EXCEPT ![r.t] = "off"]
      BY <2>2 DEF TakeRunning, ClaimBusy
    <3> HIDE DEF q
    <3>3. h'[Main] = q
      BY <1>0, <3>2
    <3>4. ResumeOK(h[Main])'
      BY <3>1, <3>3 DEF ResumeOK, Resuming, Moving
    <3>5. \A t \in Tunnels : running[t] # "off" /\ Mine(t) => running'[t] # "off"
      BY <2>1, <3>2 DEF IndInv, TypeOK, DataType
    <3>6. QED
      BY <1>2, <1>3, <3>1, <3>3, <3>4, <3>5
  <2>3. QED
    BY <1>4, <1>5, <2>1, <2>2 DEF MainStopOlder, Wanted
<1>6. CASE MainReconcile(r) /\ target[r.t] # None
  <2>1. Mine(r.t)
    BY <1>6 DEF MainReconcile, Listed, Older, Mine
  <2>2. PICK p \in FreePorts :
           h' = [h EXCEPT ![Main] = [Blank EXCEPT
                  !.pc = IF p = r.ep THEN "install" ELSE "moveProxy",
                  !.t = r.t, !.rep = target[r.t], !.insp = p, !.ep = p,
                  !.after = IF r.on THEN "claim" ELSE "ret"]]
    BY <1>6 DEF MainReconcile, Goto
  <2>3. /\ h'[Main].t = r.t /\ h'[Main].pc \in Moving
        /\ h'[Main].after = IF r.on THEN "claim" ELSE "ret"
    BY <1>0, <2>2 DEF Blank, Moving
  <2>4. ~r.on => ad[r.t] = None
    BY <2>1 DEF ToResume
  <2>5. ResumeOK(h[Main])'
    BY <1>2, <2>3, <2>4 DEF ResumeOK, Resuming, Moving
  <2>6. running' = running
    BY <1>6 DEF MainReconcile, mem
  <2>7. QED
    BY <1>2, <1>3, <2>3, <2>5, <2>6
<1>7. CASE MainReconcile(r) /\ target[r.t] = None
  BY <1>4, <1>7 DEF MainReconcile, mem, Wanted
<1>8. QED
  BY <1>5, <1>6, <1>7

\* ResumeInv is inductive when no call fails and the quota suffices.
LEMMA ResumeStep ==
    ASSUME IndInv, OlderInv, ResumeInv, ResumeHasQuota, [Next]_vars, MaxFaults = 0
    PROVE  ResumeInv'
<1>0. Main \in Procs /\ Sweep \in Procs /\ Main # Sweep /\ Main \notin Clients
      /\ Sweep \notin Clients /\ Clients \subseteq Procs /\ h \in [Procs -> TaskType]
  BY TasksDistinct DEF Procs, IndInv, TypeOK
<1>1. CASE Crash
  <2>1. h' = [i \in Procs |-> IF i = Main THEN [Blank EXCEPT !.pc = "list"] ELSE Blank]
    BY <1>1 DEF Crash
  <2>2. h'[Main].pc = "list" /\ h'[Main].rep = None /\ \A j \in Clients : h'[j].t = None
    BY <1>0, <2>1 DEF Blank
  <2>3. QED
    BY <2>2 DEF ResumeInv, ResumeOK, At, Resuming, Moving
<1>2. CASE ~Crash /\ Up
  BY <1>2, StaysUp DEF ResumeInv
<1>3. CASE ~Crash /\ ~Up
  <2>0. /\ OnlyRemoves /\ (At(Main, "list") \/ Listed)
        /\ ResumeOK(h[Main]) /\ (At(Main, "list") \/ ToResume)
        /\ \A j \in Clients : h[j].t # None => ~Mine(h[j].t)
    BY <1>3 DEF OlderInv, ResumeInv
  <2>1. ASSUME NEW i \in Clients, Request(i) \/ Task(i) PROVE ResumeInv'
    <3>1. /\ h'[Main] = h[Main] /\ (ToResume => ToResume')
          /\ \A j \in Clients : h'[j].t # None => ~Mine(h'[j].t)
          /\ \A t \in Tunnels : ad[t] = None => ad'[t] = None
      BY <1>3, <2>0, <2>1, RequestsAside
    <3>2. h[Main].pc \in Moving => h[Main].t \in Tunnels
      BY <1>0, TaskHere DEF TaskOK, TaskType, Moving, Ensuring, OnlyRemoves, Creating, At
    <3>3. ResumeOK(h[Main])'
      BY <2>0, <3>1, <3>2 DEF ResumeOK
    <3>4. QED
      BY <2>0, <3>1, <3>3 DEF ResumeInv, At, Mine
  <2>2. ASSUME Task(Main) PROVE ResumeInv'
    <3>1. MainGoesOn /\ Moves(Main) /\ ~Creating(Main)
      BY <1>0, <2>0, <2>2, MainSteps, TaskMoves DEF OnlyRemoves
    <3>2. \A j \in Procs \ {Main} : h'[j] = h[j]
      BY <3>1 DEF Moves, Alone
    <3>3. h'[Main].t = h[Main].t \/ h'[Main].t = None
      BY <3>1 DEF Moves, Continue, Blank
    <3>4. ToResume
      BY <2>0, <3>1 DEF Moves, At
    <3>5. ToResume'
      BY <3>1, <3>3, <3>4, ResumeKept DEF Moves, MainGoesOn
    <3>6. QED
      BY <1>0, <2>0, <3>1, <3>2, <3>5 DEF ResumeInv, MainGoesOn, Mine
  <2>3. ~Task(Sweep)
    <3>1. ~Moves(Sweep)
      BY <2>0 DEF Moves, OnlyRemoves, At
    <3>2. QED
      BY <1>0, <3>1, TaskMoves
  <2>4. ASSUME NEW i \in Procs PROVE ~Fail(i) /\ ~CleanFails(i)
    BY DEF Fail, CleanFails, IndInv, TypeOK, DataType
  <2>5. CASE MainList
    BY <1>0, <2>0, <2>5, ResumeListed DEF ResumeInv, Mine
  <2>6. CASE MainServe
    BY <1>0, <2>6 DEF MainServe, Goto, Blank, Up, At, ResumeInv
  <2>7. ASSUME NEW r \in recTodo, MainStopOlder(r) \/ MainReconcile(r) PROVE ResumeInv'
    <3>1. Listed /\ ToResume
      BY <2>0, <2>7 DEF MainStopOlder, MainReconcile, At
    <3>2. QED
      BY <1>0, <2>0, <2>7, <3>1, ResumeNext DEF ResumeInv, Mine
  <2>8. ~SweepTask
    BY <1>3, <2>0 DEF SweepTask, SweepSnapshot, SweepDone, SweepStop, OnlyRemoves, At
  <2>9. ASSUME NEW t \in Tunnels, Expire(t) PROVE ResumeInv'
    <3>1. \A u \in Tunnels : running[u] # "off" <=> running'[u] # "off"
      BY <2>9 DEF Expire, IndInv, TypeOK, DataType
    <3>2. UNCHANGED <<proxy, ad, key, target, recTodo, h>>
      BY <2>9 DEF Expire, cloud, disk, todos
    <3>3. ToResume => ToResume'
      BY <3>1, <3>2, ResumeKept DEF Fewer
    <3>4. QED
      BY <2>0, <3>2, <3>3 DEF ResumeInv, ResumeOK, At, Mine
  <2>10. CASE UNCHANGED vars
    <3>1. UNCHANGED <<proxy, ad, key, target, running, recTodo, h>>
      BY <2>10 DEF vars
    <3>2. ToResume => ToResume'
      BY <3>1, ResumeKept DEF Fewer
    <3>3. QED
      BY <2>0, <3>1, <3>2 DEF ResumeInv, ResumeOK, At, Mine
  <2>11. QED
    BY <1>3, <2>1, <2>2, <2>3, <2>4, <2>5, <2>6, <2>7, <2>8, <2>9, <2>10
    DEF Next, Reconcile, Procs
<1>4. QED
  BY <1>1, <1>2, <1>3

\* The lists are as the property says.
LEMMA ResumeShown ==
    ASSUME IndInv, ResumeInv
    PROVE  EnabledBack
<1> SUFFICES ASSUME At(Main, "next"), recTodo = {}, NEW t \in Tunnels, proxy[t] # None,
                    ad[t] # None, target[t] # None, ~Older(t)
             PROVE  running[t] # "off"
  BY DEF EnabledBack
<1>1. ToResume
  BY DEF ResumeInv, Up, At
<1>2. Wanted(t)
  BY DEF Wanted, Mine, Older
<1>3. h[Main].t = None
  BY MainAndSweep, TaskHere DEF At, TaskOK
<1>4. QED
  BY <1>1, <1>2, <1>3, NoneDistinct DEF ToResume

\* The reconciliation pass of run(), after any restart and with any number of tunnels, older
\* ones among them and Removes meanwhile: when it is through, every tunnel the control plane
\* shows enabled and whose target is on file is running, as long as no call fails and no
\* Connector is refused.
THEOREM EnabledComeBack == MaxFaults = 0 /\ Spec /\ []ResumeHasQuota => []EnabledBack
<1> SUFFICES ASSUME MaxFaults = 0 PROVE Spec /\ []ResumeHasQuota => []EnabledBack
  OBVIOUS
<1>1. Init => ResumeInv
  BY DEF Init, ResumeInv, Up, At, Blank, Procs
<1>2. IndInv /\ OlderInv /\ ResumeHasQuota /\ ResumeInv /\ [Next]_vars => ResumeInv'
  BY ResumeStep
<1>3. QED
  BY <1>1, <1>2, Invariance, OlderInvariance, ResumeShown, PTL DEF Spec

=============================================================================
