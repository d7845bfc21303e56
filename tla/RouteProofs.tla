---------------------------- MODULE RouteProofs -----------------------------
(***************************************************************************)
(* RouteIntact, for any number of tunnels, clients, ports and crashes, as  *)
(* long as no call fails, clients wait for a create to end, and a tunnel   *)
(* that is resumed at startup is not refused a connector for want of       *)
(* quota.                                                                  *)
(*                                                                         *)
(* A route is a proxy, an advertisement, an inspector and a persisted      *)
(* target.  At any time at most one task writes the route of a tunnel; the *)
(* invariant says how far that task has come, and that a route nobody      *)
(* writes is whole.                                                        *)
(*                                                                         *)
(* Then NoZombie and RunningBacked, which the code as a whole does not     *)
(* keep: what runs exists as long as no delete of a tunnel meets a start   *)
(* of it, and can be reached as long as, besides, no connector that is in  *)
(* use is deleted.  Both come for free where nothing is deleted and there  *)
(* is one tunnel; the first one also where a single client makes one       *)
(* request at a time.                                                      *)
(***************************************************************************)
EXTENDS TunnelDaemonProofs

-----------------------------------------------------------------------------
(* The inductive invariant.                                                *)

\* The proxy names the inspector's port, and the inspector forwards to the target on
\* file.
Whole(px, insps, tg, t) ==
    insps[t] # None => px[t].ep = insps[t].port /\ tg[t] = insps[t].target

\* The advertisement names the proxy's port.
AdFits(px, ads, t) == ads[t] # None => ads[t].ep = px[t].ep

\* A route that leads anywhere is whole in both respects.
Intact(px, ads, insps, tg, t) ==
    insps[t] # None => Whole(px, insps, tg, t) /\ AdFits(px, ads, t)

\* Where a task writes the route of its tunnel, or has read it and will.
Writing == Ensuring \cup
    {"crAd", "look", "key", "updProxy", "updAd", "cleanRefs", "cleanList", "cleanDel",
     "moveProxy", "moveAd", "install", "enGet", "enPatch", "enAd", "insert"}

\* Reconciliation has the route of a tunnel it is about to resume, too.
Writes(i, r) == r.t # None /\ (r.pc \in Writing \/ (i = Main /\ r.pc = "claim"))

\* How far the task `i` with the record `r` has come with its route.  Only the
\* advertisement of a tunnel that is resumed may be out of step until the resume
\* writes it: a crash came between the two writes of a repoint.
Progress(i, r, px, ads, insps, tg, run) ==
    LET t     == r.t
        whole == Whole(px, insps, tg, t)
        fits  == AdFits(px, ads, t)
        intact == Intact(px, ads, insps, tg, t)
        named == px[t].ep = r.ep
    IN  /\ r.pc = "crAd" => named /\ r.ep = r.insp /\ insps[t] = None
        /\ r.pc = "claim" => whole
        /\ r.pc = "look" => whole /\ (i # Main \/ run[t] # "off" => intact)
        /\ r.pc \in {"key", "updProxy"} \/ r.then = "updProxy" =>
              /\ IF r.rep = None THEN whole /\ named ELSE r.ep = r.insp
              /\ i # Main => intact
        /\ r.pc = "updAd" => named /\ IF r.rep = None THEN whole ELSE r.ep = r.insp
        /\ r.pc \in {"cleanRefs", "cleanList", "cleanDel"} =>
              named /\ fits /\ IF r.rep = None THEN whole ELSE r.ep = r.insp
        /\ r.pc = "moveProxy" => r.ep = r.insp
        /\ r.pc = "moveAd" => named /\ r.ep = r.insp
        /\ r.pc = "install" => px[t].ep = r.insp /\ (r.after # "claim" => fits)
        /\ r.pc = "enGet" => whole /\ (i # Main => intact)
        /\ r.pc = "enPatch" \/ r.then = "enPatch" =>
              whole /\ named /\ (i # Main => intact)
        /\ r.pc = "enAd" => whole /\ named
        /\ r.pc = "insert" => whole /\ fits

\* A task that writes has come so far, unless the tunnel was deleted meanwhile; one
\* that has no id yet will publish the port of its inspector.
Fact(i, r, px, ads, insps, tg, run) ==
    /\ Writes(i, r) => px[r.t] = None \/ Progress(i, r, px, ads, insps, tg, run)
    /\ r.pc = "crProxy" \/ r.then = "crProxy" => r.ep = r.insp

Facts == \A i \in Procs : Fact(i, h[i], proxy, ad, inspectors, target, running)

OneWriter ==
    \A i, j \in Procs : Writes(i, h[i]) /\ Writes(j, h[j]) /\ h[i].t = h[j].t => i = j

\* A route nobody writes is whole.
Rest == \A t \in Tunnels :
    (\A i \in Procs : Writes(i, h[i]) => h[i].t # t)
        => proxy[t] = None \/ Intact(proxy, ad, inspectors, target, t)

\* The steps of stopping and deleting, which write no endpoint.
Ending == {"disable", "delLook", "delProxy", "delAd", "delCheck", "delConn", "delLocal",
           "delInsp"}

\* A create that has its id.
Makes(r) == r.t # None /\ (r.pc = "crAd" \/ (r.pc = "install" /\ ~r.lock))

\* A request other than the page's Remove is served once the daemon is up, and
\* writes a route under its reservation, or as the create of its tunnel.
ClientOK(r, isUp) ==
    /\ r.pc \notin {"idle"} \cup Ending => isUp
    /\ r.t # None /\ r.pc \in Writing => r.lock \/ r.pc \in {"crAd", "install"}
    /\ ~r.lock /\ r.pc = "install" => r.after = "ret"

SweepOK(r, isUp) == r.pc \in {"idle", "next", "disable"} /\ (r.pc # "idle" => isUp)

\* What reconciliation works on is off, and nobody has reserved it.
MainOK(r, run, taken) == r.t # None /\ ~r.lock => run[r.t] = "off" /\ r.t \notin taken

TasksFit ==
    /\ \A i \in Clients : ClientOK(h[i], Up)
    /\ SweepOK(h[Sweep], Up)
    /\ MainOK(h[Main], running, busy)

\* Nobody but a stop or a delete is about the tunnel of a create.
SoleMaker ==
    \A i \in Clients, j \in Procs :
        i # j /\ Makes(h[i]) /\ h[j].t = h[i].t => h[j].pc \in Ending

\* Nothing runs when reconciliation begins, and what it still has to do is as it was
\* listed.
TodoOK ==
    /\ recTodo # {} => ~Up
    /\ At(Main, "list") => busy = {} /\ \A t \in Tunnels : running[t] = "off"
    /\ \A r, s \in recTodo : r.t = s.t => r = s
    /\ \A r \in recTodo :
          /\ h[Main].t # r.t /\ running[r.t] = "off" /\ r.t \notin busy
          /\ proxy[r.t] # None => proxy[r.t].ep = r.ep /\ (~r.on => ad[r.t] = None)

\* Only a tunnel that was created has an inspector.
InspectorsBorn == \A t \in Tunnels : inspectors[t] # None => t \in born

RouteInv == Facts /\ OneWriter /\ Rest /\ TasksFit /\ SoleMaker /\ TodoOK /\ InspectorsBorn

-----------------------------------------------------------------------------
(* Steps of one task.                                                      *)

\* A step that takes parts of the route of `t` away, at most.
Calm(t) ==
    /\ proxy'[t] \in {proxy[t], None}
    /\ ad'[t] \in {ad[t], None}
    /\ inspectors'[t] = None \/ (inspectors'[t] = inspectors[t] /\ target'[t] = target[t])
    /\ running'[t] # "off" => running[t] # "off"

FactNext(i, q)  == Fact(i, q, proxy', ad', inspectors', target', running')
IntactNext(t)   == proxy'[t] = None \/ Intact(proxy', ad', inspectors', target', t)

\* What is asked of a step in which the task `i` gets the record `q`.
Step(i, q) ==
    /\ h' = [h EXCEPT ![i] = q]
    /\ recTodo' \subseteq recTodo
    /\ \A t \in Tunnels :
          Calm(t) \/ (Writes(i, q) /\ t = q.t) \/ (Writes(i, h[i]) /\ t = h[i].t)
    /\ \A t \in busy' \ busy : Up \/ running[t] # "off" \/ (i = Main /\ t = q.t)
    /\ \A t \in Tunnels : inspectors'[t] # None => t \in born'
    /\ FactNext(i, q)
    /\ Writes(i, h[i]) /\ ~(Writes(i, q) /\ q.t = h[i].t) => IntactNext(h[i].t)
    /\ Writes(i, q) => \/ Writes(i, h[i]) /\ q.t = h[i].t
                       \/ \A j \in Procs \ {i} : Writes(j, h[j]) => h[j].t # q.t
    /\ i \in Clients /\ Makes(q) => \/ Makes(h[i]) /\ q.t = h[i].t
                                    \/ \A j \in Procs \ {i} : h[j].t # q.t
    /\ q.t # None /\ q.pc \notin Ending =>
          \/ q.t = h[i].t /\ h[i].pc \notin Ending
          \/ \A j \in Clients \ {i} : Makes(h[j]) => h[j].t # q.t
    /\ i \in Clients => ClientOK(q, Up)
    /\ i = Sweep => SweepOK(q, Up)
    /\ i = Main =>
          /\ q.pc # "list" /\ (Up => q.pc = "idle") /\ (q.pc = "idle" => recTodo' = {})
          /\ MainOK(q, running', busy')
          /\ \A r \in recTodo' : q.t # r.t

\* What a calm step leaves of a route that was intact is intact.
LEMMA CalmIntact ==
    ASSUME NEW t \in Tunnels, Calm(t),
           proxy[t] = None \/ Intact(proxy, ad, inspectors, target, t)
    PROVE  IntactNext(t)
  BY DEF Calm, IntactNext, Intact, Whole, AdFits

\* A calm step takes nothing from what a task has done.
LEMMA CalmFact ==
    ASSUME NEW i, NEW r \in TaskType, Writes(i, r) => Calm(r.t),
           Fact(i, r, proxy, ad, inspectors, target, running)
    PROVE  FactNext(i, r)
  <1>1. CASE ~Writes(i, r) BY <1>1 DEF Fact, FactNext
  <1>2. CASE Writes(i, r) /\ proxy'[r.t] = None BY <1>2 DEF Fact, FactNext
  <1>3. CASE Writes(i, r) /\ proxy'[r.t] # None
    <2>1. /\ Calm(r.t) /\ proxy'[r.t] = proxy[r.t]
          /\ Progress(i, r, proxy, ad, inspectors, target, running)
      BY <1>3 DEF Fact, Calm
    <2>2. /\ Whole(proxy, inspectors, target, r.t) => Whole(proxy', inspectors', target', r.t)
          /\ AdFits(proxy, ad, r.t) => AdFits(proxy', ad', r.t)
          /\ Intact(proxy, ad, inspectors, target, r.t)
                => Intact(proxy', ad', inspectors', target', r.t)
          /\ inspectors[r.t] = None => inspectors'[r.t] = None
          /\ running'[r.t] # "off" => running[r.t] # "off"
      BY <2>1 DEF Calm, Intact, Whole, AdFits
    <2>3. Progress(i, r, proxy', ad', inspectors', target', running')
      BY <2>1, <2>2 DEF Progress
    <2> QED BY <2>3 DEF Fact, FactNext
  <1> QED BY <1>1, <1>2, <1>3

\* What the types say of a task.
LEMMA TaskTypes ==
    ASSUME IndInv, NEW j \in Procs
    PROVE  /\ h \in [Procs -> TaskType] /\ h[j] \in TaskType
           /\ h[j].t \in Tunnels \cup {None} /\ TaskOK(h[j])
           /\ h[j].t # None => h[j].t \in born
  <1>1. h \in [Procs -> TaskType] /\ h[j] \in TaskType /\ TaskOK(h[j])
        /\ TaskFits(h[j], proxy, key, born)
    BY DEF IndInv, TypeOK, TasksOK
  <1> QED BY <1>1 DEF TaskType, TaskFits

\* Before the daemon is up nobody but reconciliation writes a route.
LEMMA OnlyMain ==
    ASSUME RouteInv, NEW j \in Procs, j # Main, ~Up
    PROVE  ~Writes(j, h[j]) /\ (j \in Clients => ~Makes(h[j]))
  <1>1. CASE j \in Clients
    BY <1>1 DEF RouteInv, TasksFit, ClientOK, Writes, Makes, Writing, Ensuring, Ending
  <1>2. CASE j = Sweep
    BY <1>2, TasksDistinct DEF RouteInv, TasksFit, SweepOK, Writes, Writing, Ensuring
  <1> QED BY <1>1, <1>2 DEF Procs

\* The sweep writes no route.
LEMMA SweepWritesNot ==
    ASSUME RouteInv
    PROVE  ~Writes(Sweep, h[Sweep])
  BY TasksDistinct DEF RouteInv, TasksFit, SweepOK, Writes, Writing, Ensuring

\* What the invariant of the tasks says of the record a task is given.
LEMMA NewTask ==
    ASSUME IndInv, IndInv', NEW i \in Procs, NEW q, h' = [h EXCEPT ![i] = q]
    PROVE  q \in TaskType /\ TaskOK(q) /\ q.t \in Tunnels \cup {None}
  <1>1. h'[i] = q /\ h' \in [Procs -> TaskType] /\ TaskOK(h'[i])
    BY DEF IndInv, TypeOK, TasksOK
  <1> QED BY <1>1 DEF TaskType

\* A step that satisfies what is asked of it keeps the invariant.
LEMMA StepOK ==
    ASSUME RouteInv, IndInv, IndInv', NEW i \in Procs, NEW q \in TaskType, Step(i, q)
    PROVE  RouteInv'
  <1>0. h \in [Procs -> TaskType] BY TaskTypes
  <1>1. h'[i] = q /\ \A j \in Procs \ {i} : h'[j] = h[j] BY <1>0 DEF Step
  <1>2. Main \in Procs /\ Sweep \in Procs /\ Clients \subseteq Procs /\ Main # Sweep
        /\ Main \notin Clients /\ Sweep \notin Clients
    BY TasksDistinct DEF Procs
  <1>3. /\ Up' <=> h'[Main].pc = "idle"
        /\ Up <=> h[Main].pc = "idle"
        /\ i # Main => (Up' <=> Up)
        /\ Up => Up'
    BY <1>1, <1>2 DEF Step, Up, At
  \* The tunnels that other tasks write, and the ones reconciliation has to do, are
  \* left in peace.
  <1>4. ASSUME NEW j \in Procs \ {i}, Writes(j, h[j])
        PROVE  h[j].t \in Tunnels /\ Calm(h[j].t)
    <2>1. h[j].t \in Tunnels BY <1>4, TaskTypes DEF Writes
    <2>2. ~(Writes(i, h[i]) /\ h[j].t = h[i].t) BY <1>4 DEF RouteInv, OneWriter
    <2>3. ~(Writes(i, q) /\ h[j].t = q.t) BY <1>4, <2>2 DEF Step
    <2> QED BY <2>1, <2>2, <2>3 DEF Step
  <1>5. ASSUME ~Up, i # Main, NEW t \in Tunnels
        PROVE  Calm(t)
    <2>1. ~Writes(i, h[i]) BY <1>5, OnlyMain
    <2>2. ~Writes(i, q)
      <3>1. CASE i \in Clients
        BY <1>2, <1>5, <3>1 DEF Step, ClientOK, Writes, Writing, Ensuring, Ending
      <3>2. CASE i = Sweep
        BY <1>2, <1>5, <3>2 DEF Step, SweepOK, Writes, Writing, Ensuring
      <3> QED BY <1>5, <3>1, <3>2 DEF Procs
    <2> QED BY <2>1, <2>2 DEF Step
  <1>6. Facts'
    <2>1. ASSUME NEW j \in Procs PROVE FactNext(j, h'[j])
      <3>1. CASE j = i BY <1>1, <3>1 DEF Step
      <3>2. CASE j # i
        <4>1. h'[j] = h[j] /\ h[j] \in TaskType BY <1>1, <3>2, TaskTypes
        <4>2. Fact(j, h[j], proxy, ad, inspectors, target, running)
          BY DEF RouteInv, Facts
        <4>3. Writes(j, h[j]) => Calm(h[j].t) BY <1>4, <3>2
        <4> QED BY <4>1, <4>2, <4>3, CalmFact
      <3> QED BY <3>1, <3>2
    <2> QED BY <2>1 DEF Facts, FactNext
  <1>7. OneWriter'
    <2> SUFFICES ASSUME NEW j \in Procs, NEW k \in Procs, Writes(j, h'[j]), Writes(k, h'[k]),
                        h'[j].t = h'[k].t, j # k
                 PROVE  FALSE
      BY DEF OneWriter
    <2>1. CASE j # i /\ k # i BY <1>1, <2>1 DEF RouteInv, OneWriter
    <2>2. CASE j = i BY <1>1, <2>2 DEF Step, RouteInv, OneWriter
    <2>3. CASE k = i BY <1>1, <2>3 DEF Step, RouteInv, OneWriter
    <2> QED BY <2>1, <2>2, <2>3
  <1>8. Rest'
    <2>1. ASSUME NEW t \in Tunnels, \A j \in Procs : Writes(j, h'[j]) => h'[j].t # t
          PROVE  IntactNext(t)
      <3>1. CASE Writes(i, h[i]) /\ h[i].t = t
        BY <1>1, <2>1, <3>1 DEF Step
      <3>2. CASE ~(Writes(i, h[i]) /\ h[i].t = t)
        <4>1. \A j \in Procs : Writes(j, h[j]) => h[j].t # t BY <1>1, <2>1, <3>2
        <4>2. proxy[t] = None \/ Intact(proxy, ad, inspectors, target, t)
          BY <4>1 DEF RouteInv, Rest
        <4>3. Calm(t) BY <1>1, <2>1, <3>2 DEF Step
        <4> QED BY <4>2, <4>3, CalmIntact
      <3> QED BY <3>1, <3>2
    <2> QED BY <2>1 DEF Rest, IntactNext
  <1>9. TasksFit'
    <2>1. ASSUME NEW j \in Clients PROVE ClientOK(h'[j], Up')
      <3>1. ClientOK(h'[j], Up)
        <4>1. CASE j = i BY <1>1, <4>1 DEF Step
        <4>2. CASE j # i BY <1>1, <1>2, <4>2 DEF RouteInv, TasksFit
        <4> QED BY <4>1, <4>2
      <3> QED BY <1>3, <3>1 DEF ClientOK
    <2>2. SweepOK(h'[Sweep], Up')
      <3>1. SweepOK(h'[Sweep], Up)
        <4>1. CASE Sweep = i BY <1>1, <4>1 DEF Step
        <4>2. CASE Sweep # i BY <1>1, <1>2, <4>2 DEF RouteInv, TasksFit
        <4> QED BY <4>1, <4>2
      <3> QED BY <1>3, <3>1 DEF SweepOK
    <2>3. MainOK(h'[Main], running', busy')
      <3>1. CASE i = Main BY <1>1, <3>1 DEF Step
      <3>2. CASE i # Main
        <4>1. h'[Main] = h[Main] BY <1>1, <1>2, <3>2
        <4> SUFFICES ASSUME h[Main].t # None, ~h[Main].lock
                     PROVE  running'[h[Main].t] = "off" /\ h[Main].t \notin busy'
          BY <4>1 DEF MainOK
        <4>2. h[Main].t \in Tunnels /\ ~Up
          BY <1>2, <1>3, TaskTypes DEF TaskOK
        <4>3. running[h[Main].t] = "off" /\ h[Main].t \notin busy
          BY DEF RouteInv, TasksFit, MainOK
        <4>4. Calm(h[Main].t) BY <1>5, <3>2, <4>2
        <4> QED BY <3>2, <4>2, <4>3, <4>4 DEF Step, Calm
      <3> QED BY <3>1, <3>2
    <2> QED BY <2>1, <2>2, <2>3 DEF TasksFit, ClientOK, SweepOK, MainOK
  <1>10. SoleMaker'
    <2> SUFFICES ASSUME NEW j \in Clients, NEW k \in Procs, j # k, Makes(h'[j]),
                        h'[k].t = h'[j].t
                 PROVE  h'[k].pc \in Ending
      BY DEF SoleMaker
    <2>0. \A l \in Procs \ {j} : Makes(h[j]) /\ h[l].t = h[j].t => h[l].pc \in Ending
      BY DEF RouteInv, SoleMaker
    <2>1. CASE j # i /\ k # i BY <1>1, <1>2, <2>0, <2>1
    <2>2. CASE j = i BY <1>1, <2>0, <2>2 DEF Step
    <2>3. CASE k = i
      <3>1. h'[j] = h[j] /\ h'[k] = q BY <1>1, <1>2, <2>3
      <3>2. q.t # None /\ q.t = h[j].t /\ Makes(h[j]) BY <3>1 DEF Makes
      <3>3. j \in Clients \ {i} BY <2>3
      <3> QED BY <2>0, <2>3, <3>1, <3>2, <3>3 DEF Step
    <2> QED BY <2>1, <2>2, <2>3
  <1>11. TodoOK'
    <2>1. recTodo' \subseteq recTodo BY DEF Step
    <2>2. recTodo' # {} => ~Up'
      BY <1>1, <1>3, <2>1 DEF Step, RouteInv, TodoOK
    <2>5. At(Main, "list")' => busy' = {} /\ \A t \in Tunnels : running'[t] = "off"
      <3> SUFFICES ASSUME h'[Main].pc = "list"
                   PROVE  busy' = {} /\ \A t \in Tunnels : running'[t] = "off"
        BY DEF At
      <3>1. i # Main BY <1>1 DEF Step
      <3>2. h[Main].pc = "list" /\ ~Up BY <1>1, <1>2, <1>3, <3>1
      <3>3. busy = {} /\ \A t \in Tunnels : running[t] = "off"
        BY <3>2 DEF RouteInv, TodoOK, At
      <3>4. \A t \in Tunnels : running'[t] = "off" BY <1>5, <3>1, <3>2, <3>3 DEF Calm
      <3>6. \A t \in busy' : FALSE BY <3>1, <3>2, <3>3 DEF Step, IndInv, TypeOK
      <3> QED BY <3>4, <3>6
    <2>3. \A r, s \in recTodo' : r.t = s.t => r = s BY <2>1 DEF RouteInv, TodoOK
    <2>4. ASSUME NEW r \in recTodo'
          PROVE  /\ h'[Main].t # r.t /\ running'[r.t] = "off" /\ r.t \notin busy'
                 /\ proxy'[r.t] # None => proxy'[r.t].ep = r.ep /\ (~r.on => ad'[r.t] = None)
      <3>1. r \in recTodo /\ ~Up BY <2>1, <2>4 DEF RouteInv, TodoOK
      <3>2. /\ h[Main].t # r.t /\ running[r.t] = "off" /\ r.t \notin busy
            /\ proxy[r.t] # None => proxy[r.t].ep = r.ep /\ (~r.on => ad[r.t] = None)
        BY <3>1 DEF RouteInv, TodoOK
      <3>3. r.t \in Tunnels BY <3>1 DEF IndInv, TypeOK, DataType
      <3>4. CASE i # Main
        <4>1. Calm(r.t) BY <1>5, <3>1, <3>3, <3>4
        <4>2. r.t \notin busy' BY <3>1, <3>2, <3>4 DEF Step
        <4> QED BY <1>1, <1>2, <3>2, <3>4, <4>1, <4>2 DEF Calm
      <3>5. CASE i = Main
        <4>1. q.t # r.t BY <2>4, <3>5 DEF Step
        <4>2. Calm(r.t) BY <3>2, <3>3, <3>5, <4>1 DEF Step
        <4>3. r.t \notin busy' BY <3>1, <3>2, <4>1 DEF Step
        <4> QED BY <1>1, <3>2, <3>5, <4>1, <4>2, <4>3 DEF Calm
      <3> QED BY <3>4, <3>5
    <2> QED BY <2>2, <2>3, <2>4, <2>5 DEF TodoOK
  <1>12. InspectorsBorn' BY DEF Step , InspectorsBorn
  <1> QED BY <1>6, <1>7, <1>8, <1>9, <1>10, <1>11, <1>12 DEF RouteInv

-----------------------------------------------------------------------------
(* Kinds of steps.                                                         *)

\* A step that leaves every route alone is calm.
LEMMA SameCalm ==
    ASSUME IndInv, UNCHANGED <<proxy, ad, inspectors, target, running>>
    PROVE  \A t \in Tunnels : Calm(t)
  BY DEF Calm

\* Inspectors that stay are of tunnels that stay known.
LEMMA SameBorn ==
    ASSUME RouteInv, UNCHANGED inspectors, born \subseteq born'
    PROVE  InspectorsBorn'
  BY DEF RouteInv, InspectorsBorn

\* How far a task has come, while its tunnel exists.
LEMMA Told ==
    ASSUME RouteInv, NEW i \in Procs, Writes(i, h[i]), proxy[h[i].t] # None
    PROVE  Progress(i, h[i], proxy, ad, inspectors, target, running)
  BY DEF RouteInv, Facts, Fact

\* A task that has the route of its tunnel goes on with it.
LEMMA GoesOn ==
    ASSUME RouteInv, IndInv, IndInv', NEW i \in Procs, NEW q \in TaskType,
           Writes(i, h[i]), i \in Clients => h[i].lock,
           Goto(i, q), q.t = h[i].t, q.lock = h[i].lock,
           q.pc \in Writing \ {"crAd"} \/ (i = Main /\ q.pc = "claim"),
           UNCHANGED <<running, recTodo>>, InspectorsBorn',
           \A t \in Tunnels \ {h[i].t} : Calm(t), FactNext(i, q)
    PROVE  RouteInv'
  <1>1. h' = [h EXCEPT ![i] = q] /\ busy' = busy BY DEF Goto
  <1>2. Writes(i, q) /\ q.pc \notin Ending \cup {"idle", "list"}
    BY DEF Writes, Writing, Ensuring, Ending
  <1>3. h[i].pc \notin Ending /\ h[i].pc # "idle" BY DEF Writes, Writing, Ensuring, Ending
  <1>4. i \in Clients => ClientOK(q, Up) /\ ~Makes(q)
    BY <1>2, <1>3, TasksDistinct DEF RouteInv, TasksFit, ClientOK, Makes, Procs
  <1>5. i # Sweep BY SweepWritesNot
  <1>6. i = Main => MainOK(q, running', busy') /\ ~Up /\ \A r \in recTodo : q.t # r.t
    BY <1>1, <1>3 DEF RouteInv, TasksFit, MainOK, TodoOK, Up, At
  <1>7. Step(i, q)
    BY <1>1, <1>2, <1>3, <1>4, <1>5, <1>6 DEF Step, InspectorsBorn
  <1> QED BY <1>7, StepOK

\* Where a task goes that had a route to write.
LEMMA WriterContinues ==
    ASSUME IndInv, RouteInv, NEW i \in Procs, Writes(i, h[i])
    PROVE  /\ Continue(i) \in TaskType /\ Continue(i).t = None /\ ~Writes(i, Continue(i))
           /\ Continue(i).pc = IF i = Main THEN "next" ELSE "idle"
           /\ Continue(i).then = "none" /\ ~Continue(i).lock
  <1>1. i # Sweep BY SweepWritesNot
  <1>2. TaskOK(h[i]) /\ ~h[i].rm
    BY TaskTypes DEF TaskOK, Writes, Writing, Ensuring
  <1>3. CASE i = Main
    <2>1. Continue(i) = [Blank EXCEPT !.pc = "next"] BY <1>3 DEF Continue
    <2> QED BY <1>3, <2>1 DEF Blank, TaskType, Pcs, Writes, Writing, Ensuring
  <1>4. CASE i # Main
    <2>1. Continue(i) = Blank BY <1>1, <1>2, <1>4 DEF Continue
    <2> QED BY <1>4, <2>1, BlankOK DEF Blank, Writes
  <1> QED BY <1>3, <1>4

\* A task leaves its route intact.
LEMMA Leaves ==
    ASSUME RouteInv, IndInv, IndInv', NEW i \in Procs, Writes(i, h[i]), Return(i),
           UNCHANGED recTodo, InspectorsBorn',
           \A t \in Tunnels \ {h[i].t} : Calm(t), IntactNext(h[i].t)
    PROVE  RouteInv'
  <1> DEFINE q == Continue(i)
  <1>1. h' = [h EXCEPT ![i] = q] /\ busy' \subseteq busy BY DEF Return, Leave
  <1>2. /\ q \in TaskType /\ q.t = None /\ ~Writes(i, q) /\ ~q.lock /\ q.then = "none"
        /\ q.pc = IF i = Main THEN "next" ELSE "idle"
    BY WriterContinues
  <1> HIDE DEF q
  <1>3. i # Sweep BY SweepWritesNot
  <1>4. h[i].pc # "idle" BY DEF Writes, Writing, Ensuring
  <1>5. FactNext(i, q) /\ ~Makes(q) BY <1>2 DEF FactNext, Fact, Makes
  <1>6. i \in Clients => ClientOK(q, Up) BY <1>2, TasksDistinct DEF ClientOK, Writing, Ensuring
  <1>7. i = Main => MainOK(q, running', busy') /\ ~Up /\ \A r \in recTodo : q.t # r.t
    <2>1. None \notin Tunnels BY NoneDistinct
    <2>2. \A r \in recTodo : r.t \in Tunnels BY DEF IndInv, TypeOK, DataType
    <2> QED BY <1>2, <1>4, <2>1, <2>2 DEF MainOK, Up, At
  <1>8. Step(i, q)
    BY <1>1, <1>2, <1>3, <1>5, <1>6, <1>7 DEF Step, InspectorsBorn
  <1> QED BY <1>2, <1>8, StepOK

\* A task that has no route to write does something else.
LEMMA Aside ==
    ASSUME RouteInv, IndInv, IndInv', NEW i \in Procs, NEW q \in TaskType,
           ~Writes(i, h[i]), ~Writes(i, q), h' = [h EXCEPT ![i] = q],
           recTodo' \subseteq recTodo, InspectorsBorn', \A t \in Tunnels : Calm(t),
           \A t \in busy' \ busy : Up \/ running[t] # "off" \/ (i = Main /\ t = q.t),
           q.pc = "crProxy" \/ q.then = "crProxy" => q.ep = q.insp,
           q.t # None /\ q.pc \notin Ending =>
               \A j \in Clients \ {i} : Makes(h[j]) => h[j].t # q.t,
           i \in Clients => ClientOK(q, Up), i = Sweep => SweepOK(q, Up),
           i = Main => /\ q.pc # "list" /\ (Up => q.pc = "idle") /\ (q.pc = "idle" => recTodo' = {})
                       /\ MainOK(q, running', busy')
                       /\ \A r \in recTodo' : q.t # r.t
    PROVE  RouteInv'
  <1>1. FactNext(i, q) BY DEF FactNext, Fact
  <1>2. ~Makes(q) BY DEF Makes, Writes, Writing
  <1>3. Step(i, q) BY <1>1, <1>2 DEF Step, InspectorsBorn
  <1> QED BY <1>3, StepOK

-----------------------------------------------------------------------------
(* ensure_connector and create_tunnel.                                     *)

\* A call of ensure_connector, or its return, leaves the route as it was read.
LEMMA Ensures ==
    ASSUME RouteInv, IndInv, IndInv', NEW i \in Procs, NEW q \in TaskType, h[i].pc \in Ensuring,
           Goto(i, q), q.t = h[i].t, q.lock = h[i].lock, q.rep = h[i].rep, q.ep = h[i].ep,
           q.insp = h[i].insp, q.after = h[i].after,
           \/ q.pc \in Ensuring /\ q.then = h[i].then
           \/ q.pc = h[i].then /\ q.then = "none",
           UNCHANGED <<proxy, ad, inspectors, target, running, born, recTodo>>
    PROVE  RouteInv'
  <1>1. \A t \in Tunnels : Calm(t) BY SameCalm
  <1>2. InspectorsBorn' BY SameBorn
  <1>3. TaskOK(h[i]) /\ h[i].then \in {"crProxy", "updProxy", "enPatch"} /\ h[i].pc # "crProxy"
    BY TaskTypes DEF TaskOK, TaskType, Ensuring
  <1>4. CASE h[i].t # None
    <2>1. h[i].then # "crProxy" BY <1>3, <1>4 DEF TaskOK
    <2>2. Writes(i, h[i]) /\ (i \in Clients => h[i].lock)
      BY <1>4, TasksDistinct DEF Writes, Writing, Ensuring, RouteInv, TasksFit, ClientOK
    <2>3. q.pc \in Writing \ {"crAd"} BY <1>3, <2>1 DEF Writing, Ensuring
    <2>4. FactNext(i, q)
      <3>1. CASE proxy[q.t] = None
        BY <1>3, <2>1, <3>1 DEF FactNext, Fact, Ensuring
      <3>2. CASE proxy[q.t] # None
        <4>1. Progress(i, h[i], proxy, ad, inspectors, target, running) BY <2>2, <3>2, Told
        <4>2. Progress(i, q, proxy, ad, inspectors, target, running)
          BY <1>3, <2>1, <4>1 DEF Progress, Ensuring
        <4> QED BY <1>3, <2>1, <4>2 DEF FactNext, Fact, Ensuring
      <3> QED BY <3>1, <3>2
    <2> QED BY <1>1, <1>2, <2>2, <2>3, <2>4, GoesOn
  <1>5. CASE h[i].t = None
    <2>1. h[i].then = "crProxy" BY <1>3, <1>5 DEF TaskOK, Ensuring
    <2>2. ~Writes(i, h[i]) /\ ~Writes(i, q) BY <1>5 DEF Writes
    <2>3. q.ep = q.insp BY <2>1 DEF RouteInv, Facts, Fact
    <2>4. h[i].pc \notin {"idle"} \cup Ending /\ q.pc \notin {"idle", "list", "install"} \cup Ending
      BY <2>1 DEF Ensuring, Ending
    <2>5. i \in Clients => ClientOK(q, Up)
      BY <1>5, <2>4 DEF RouteInv, TasksFit, ClientOK
    <2>6. i # Sweep
      BY TasksDistinct DEF RouteInv, TasksFit, SweepOK, Ensuring
    <2>7. i = Main => ~Up /\ MainOK(q, running', busy') /\ \A r \in recTodo : q.t # r.t
      BY <1>5, <2>4, NoneDistinct DEF Up, At, MainOK, RouteInv, TodoOK
    <2>8. h' = [h EXCEPT ![i] = q] /\ busy' = busy BY DEF Goto
    <2> QED BY <1>1, <1>2, <1>5, <2>2, <2>3, <2>4, <2>5, <2>6, <2>7, <2>8, Aside
  <1> QED BY <1>4, <1>5

\* The connector is found, or has to be made.
LEMMA FindConnectorRoute ==
    ASSUME RouteInv, IndInv, IndInv', NEW i \in Procs, FindConnector(i)
    PROVE  RouteInv'
  <1>1. /\ h[i] \in TaskType /\ h[i].pc = "find" /\ h[i].pc \in Ensuring
        /\ UNCHANGED <<proxy, ad, inspectors, target, running, born, recTodo>>
    BY TaskTypes DEF FindConnector, At, Ensuring, cloud, disk, mem, todos
  <1>2. CASE \E c \in Conns :
               Goto(i, [h[i] EXCEPT !.pc = h[i].then, !.then = "none", !.conn = c,
                                    !.dirty = h[i].conn # c])
    <2>1. PICK c \in Conns :
               Goto(i, [h[i] EXCEPT !.pc = h[i].then, !.then = "none", !.conn = c,
                                    !.dirty = h[i].conn # c])
      BY <1>2
    <2>2. h[i].then \in {"crProxy", "updProxy", "enPatch"}
      BY <1>1, TaskTypes DEF TaskOK, TaskType
    <2> DEFINE d == h[i].conn # c
               q == [h[i] EXCEPT !.pc = h[i].then, !.then = "none", !.conn = c, !.dirty = d]
    <2>3. d \in BOOLEAN OBVIOUS
    <2>4. Goto(i, q) BY <2>1
    <2> HIDE DEF d
    <2>5. q \in TaskType BY <2>4, NewTask DEF Goto
    <2>6. /\ q.t = h[i].t /\ q.lock = h[i].lock /\ q.rep = h[i].rep
          /\ q.ep = h[i].ep /\ q.insp = h[i].insp /\ q.after = h[i].after
          /\ q.pc = h[i].then /\ q.then = "none"
      BY <1>1 DEF TaskType
    <2> HIDE DEF q
    <2> QED BY <1>1, <2>4, <2>5, <2>6, Ensures
  <1>3. CASE Goto(i, [h[i] EXCEPT !.pc = "mkConn"])
    <2> DEFINE q == [h[i] EXCEPT !.pc = "mkConn"]
    <2>1. /\ q \in TaskType /\ q.t = h[i].t /\ q.lock = h[i].lock /\ q.rep = h[i].rep
          /\ q.ep = h[i].ep /\ q.insp = h[i].insp /\ q.after = h[i].after
          /\ q.pc = "mkConn" /\ q.then = h[i].then
      BY <1>1 DEF TaskType, Pcs
    <2>2. Goto(i, q) /\ q.pc \in Ensuring BY <1>3, <2>1 DEF Ensuring
    <2> HIDE DEF q
    <2> QED BY <1>1, <2>1, <2>2, Ensures
  <1> QED BY <1>2, <1>3 DEF FindConnector

\* A connector is made.
LEMMA MakeConnectorRoute ==
    ASSUME RouteInv, IndInv, IndInv', NEW i \in Procs, NEW c \in Conns, MakeConnector(i, c)
    PROVE  RouteInv'
  <1>1. /\ h[i] \in TaskType /\ h[i].pc = "mkConn" /\ h[i].pc \in Ensuring
        /\ UNCHANGED <<proxy, ad, inspectors, target, running, born, recTodo>>
    BY TaskTypes DEF MakeConnector, At, Ensuring, disk, mem, todos
  <1> DEFINE q == [h[i] EXCEPT !.pc = "patchConn", !.conn = c, !.dirty = TRUE]
  <1>2. /\ q \in TaskType /\ q.t = h[i].t /\ q.lock = h[i].lock /\ q.rep = h[i].rep
        /\ q.ep = h[i].ep /\ q.insp = h[i].insp /\ q.after = h[i].after
        /\ q.pc = "patchConn" /\ q.then = h[i].then
    BY <1>1 DEF TaskType, Pcs
  <1>3. Goto(i, q) /\ q.pc \in Ensuring BY <1>2 DEF MakeConnector, Ensuring
  <1> HIDE DEF q
  <1> QED BY <1>1, <1>2, <1>3, Ensures

\* Its details are patched.
LEMMA PatchConnectorRoute ==
    ASSUME RouteInv, IndInv, IndInv', NEW i \in Procs, PatchConnector(i)
    PROVE  RouteInv'
  <1>1. /\ h[i] \in TaskType /\ h[i].pc = "patchConn" /\ h[i].pc \in Ensuring
        /\ UNCHANGED <<proxy, ad, inspectors, target, running, born, recTodo>>
    BY TaskTypes DEF PatchConnector, At, Ensuring, disk, mem, todos
  <1>2. h[i].then \in {"crProxy", "updProxy", "enPatch"}
    BY <1>1, TaskTypes DEF TaskOK, TaskType
  <1> DEFINE q == [h[i] EXCEPT !.pc = h[i].then, !.then = "none"]
  <1>3. /\ q.t = h[i].t /\ q.lock = h[i].lock /\ q.rep = h[i].rep
        /\ q.ep = h[i].ep /\ q.insp = h[i].insp /\ q.after = h[i].after
        /\ q.pc = h[i].then /\ q.then = "none"
    BY <1>1 DEF TaskType
  <1>4. Goto(i, q) BY DEF PatchConnector
  <1>5. q \in TaskType BY <1>4, NewTask DEF Goto
  <1> HIDE DEF q
  <1> QED BY <1>1, <1>3, <1>4, <1>5, Ensures

-----------------------------------------------------------------------------
(* Steps of tasks that have no route to write.                             *)

\* A return from anywhere but a write.
LEMMA Returns ==
    ASSUME RouteInv, IndInv, IndInv', NEW i \in Procs, ~Writes(i, h[i]), h[i].pc # "idle",
           Return(i), UNCHANGED recTodo, InspectorsBorn', \A t \in Tunnels : Calm(t)
    PROVE  RouteInv'
  <1> DEFINE q == Continue(i)
  <1>1. h' = [h EXCEPT ![i] = q] /\ busy' \subseteq busy BY DEF Return, Leave
  <1>2. q \in TaskType BY <1>1, NewTask
  <1>3. /\ q.then = "none" /\ q.pc \in {"next", "idle", "delLook"}
        /\ (q.t # None => q.pc = "delLook")
        /\ (i \in {Main, Sweep} => q.pc = "next") /\ (i \in Clients => q.pc # "next")
    BY TasksDistinct DEF Continue, Blank
  <1> HIDE DEF q
  <1>4. ~Writes(i, q) BY <1>3 DEF Writes, Writing, Ensuring
  <1>5. i \in Clients => ClientOK(q, Up) BY <1>3 DEF ClientOK, Ending, Writing, Ensuring
  <1>6. i = Sweep => SweepOK(q, Up) BY <1>3 DEF RouteInv, TasksFit, SweepOK
  <1>7. i = Main => q.t = None /\ q.pc = "next" /\ ~Up BY <1>3 DEF Up, At
  <1>8. \A r \in recTodo : r.t # None BY NoneDistinct DEF IndInv, TypeOK, DataType
  <1>9. i = Main => MainOK(q, running', busy') BY <1>7 DEF MainOK
  <1>10. q.t # None => q.pc \in Ending BY <1>3 DEF Ending
  <1> QED BY <1>1, <1>2, <1>3, <1>4, <1>5, <1>6, <1>7, <1>8, <1>9, <1>10, Aside

\* Only a client starts from idle; it is none of the two others.
LEMMA IdleClient ==
    ASSUME NEW i \in Clients, At(i, "idle")
    PROVE  i \in Procs /\ i # Main /\ i # Sweep /\ ~Writes(i, h[i])
  BY TasksDistinct DEF Procs, At, Writes, Writing, Ensuring

\* A step that leaves the tasks and the reservations alone.
LEMMA Stays ==
    ASSUME RouteInv, IndInv, IndInv', UNCHANGED <<h, busy>>, recTodo' \subseteq recTodo,
           InspectorsBorn', \A t \in Tunnels : Calm(t)
    PROVE  RouteInv'
  <1>1. Sweep \in Procs /\ Sweep # Main /\ Sweep \notin Clients BY TasksDistinct DEF Procs
  <1> DEFINE q == h[Sweep]
  <1>2. q \in TaskType /\ h \in [Procs -> TaskType] BY <1>1, TaskTypes
  <1>3. h' = [h EXCEPT ![Sweep] = q] BY <1>2
  <1>4. ~Writes(Sweep, q) BY SweepWritesNot
  <1>5. SweepOK(q, Up) BY DEF RouteInv, TasksFit
  <1>6. q.pc = "crProxy" \/ q.then = "crProxy" => q.ep = q.insp
    BY <1>1 DEF RouteInv, Facts, Fact
  <1>7. q.t # None /\ q.pc \notin Ending => \A j \in Clients \ {Sweep} : Makes(h[j]) => h[j].t # q.t
    BY <1>1 DEF RouteInv, SoleMaker
  <1> HIDE DEF q
  <1> QED BY <1>1, <1>2, <1>3, <1>4, <1>5, <1>6, <1>7, Aside

\* A stop is begun.
LEMMA Takes ==
    ASSUME RouteInv, IndInv, IndInv', NEW i \in Procs, NEW t \in Tunnels, NEW b,
           TakeRunning(i, t, b), ~Writes(i, h[i]), recTodo' \subseteq recTodo,
           UNCHANGED <<proxy, ad, inspectors, target, born>>,
           Up \/ running[t] # "off" \/ i = Main, i = Sweep => Up,
           i = Main => ~Up /\ \A r \in recTodo' : r.t # t
    PROVE  RouteInv'
  <1> DEFINE q == [[Blank EXCEPT !.pc = "disable", !.t = t, !.rm = b] EXCEPT !.lock = TRUE]
  <1>1. h' = [h EXCEPT ![i] = q] /\ busy' = busy \cup {t}
        /\ running' = [running EXCEPT ![t] = "off"]
    BY DEF TakeRunning, ClaimBusy, Blank
  <1>2. q \in TaskType BY <1>1, NewTask
  <1>3. q.pc = "disable" /\ q.t = t /\ q.then = "none" /\ q.lock = TRUE BY DEF Blank
  <1> HIDE DEF q
  <1>4. ~Writes(i, q) /\ q.pc \in Ending BY <1>3 DEF Writes, Writing, Ensuring, Ending
  <1>5. i \in Clients => ClientOK(q, Up) BY <1>3 DEF ClientOK, Ending, Writing, Ensuring
  <1>6. i = Sweep => SweepOK(q, Up) BY <1>3 DEF SweepOK
  <1>7. i = Main => MainOK(q, running', busy') BY <1>3 DEF MainOK
  <1>8. \A u \in Tunnels : Calm(u) BY <1>1 DEF Calm, IndInv, TypeOK, DataType
  <1>9. InspectorsBorn' BY SameBorn
  <1> QED BY <1>1, <1>2, <1>3, <1>4, <1>5, <1>6, <1>7, <1>8, <1>9, Aside

\* A delete is begun.
LEMMA Deletes ==
    ASSUME RouteInv, IndInv, IndInv', NEW i \in Clients, NEW t, At(i, "idle"),
           Goto(i, [Blank EXCEPT !.pc = "delLook", !.t = t]),
           UNCHANGED <<proxy, ad, inspectors, target, born, running, recTodo>>
    PROVE  RouteInv'
  <1> DEFINE q == [Blank EXCEPT !.pc = "delLook", !.t = t]
  <1>1. h' = [h EXCEPT ![i] = q] /\ busy' = busy BY DEF Goto
  <1>2. q \in TaskType BY <1>1, IdleClient, NewTask
  <1>3. q.pc = "delLook" /\ q.then = "none" BY DEF Blank
  <1> HIDE DEF q
  <1>4. ~Writes(i, q) /\ q.pc \in Ending
    BY <1>3, IdleClient DEF Writes, Writing, Ensuring, Ending
  <1>5. ClientOK(q, Up) BY <1>3 DEF ClientOK, Ending, Writing, Ensuring
  <1>6. \A u \in Tunnels : Calm(u) BY SameCalm
  <1>7. InspectorsBorn' BY SameBorn
  <1> QED BY <1>1, <1>2, <1>3, <1>4, <1>5, <1>6, <1>7, IdleClient, Aside

\* A delete goes on.
LEMMA EndsOn ==
    ASSUME RouteInv, IndInv, IndInv', NEW i \in Procs, NEW q, h[i].pc \in Ending \ {"disable"},
           Goto(i, q), q.pc \in Ending, q.t = h[i].t, q.lock = h[i].lock,
           UNCHANGED recTodo, InspectorsBorn', \A t \in Tunnels : Calm(t)
    PROVE  RouteInv'
  <1>1. h' = [h EXCEPT ![i] = q] /\ busy' = busy BY DEF Goto
  <1>2. q \in TaskType /\ TaskOK(q) BY <1>1, NewTask
  <1>3. q.then = "none" BY <1>2 DEF TaskOK, Ensuring, Ending
  <1>4. ~Writes(i, q) /\ ~Writes(i, h[i]) /\ q.pc \notin {"idle", "list", "crProxy"}
    BY DEF Writes, Writing, Ensuring, Ending
  <1>5. i \in Clients => ClientOK(q, Up) BY DEF ClientOK, Ending, Writing, Ensuring
  <1>6. i # Sweep BY DEF RouteInv, TasksFit, SweepOK, Ending
  <1>7. i = Main => ~Up /\ MainOK(q, running', busy') /\ \A r \in recTodo : q.t # r.t
    <2> SUFFICES ASSUME i = Main
                 PROVE  ~Up /\ MainOK(q, running', busy') /\ \A r \in recTodo : q.t # r.t
      OBVIOUS
    <2>1. ~Up /\ \A r \in recTodo : q.t # r.t BY DEF Up, At, Ending, RouteInv, TodoOK
    <2>2. MainOK(h[Main], running, busy) /\ h[Main].t \in Tunnels \cup {None}
      BY TaskTypes DEF RouteInv, TasksFit
    <2>3. MainOK(q, running', busy') BY <1>1, <2>2 DEF MainOK, Calm
    <2> QED BY <2>1, <2>3
  <1> QED BY <1>1, <1>2, <1>3, <1>4, <1>5, <1>6, <1>7, Aside

-----------------------------------------------------------------------------
(* Requests.                                                               *)

\* A create has no tunnel yet.
LEMMA CreateRequestRoute ==
    ASSUME RouteInv, IndInv, IndInv', NEW i \in Clients, NEW w \in Targets, NEW p \in Ports,
           CreateRequest(i, w, p)
    PROVE  RouteInv'
  <1> DEFINE q == [Blank EXCEPT !.pc = "find", !.then = "crProxy", !.rep = w,
                                !.insp = p, !.ep = p]
  <1>1. /\ h' = [h EXCEPT ![i] = q] /\ busy' = busy /\ Up /\ At(i, "idle")
        /\ UNCHANGED <<proxy, ad, inspectors, target, running, born, recTodo>>
    BY DEF CreateRequest, Goto, cloud, disk, mem, todos
  <1>2. q \in TaskType BY <1>1, IdleClient, NewTask
  <1>3. q.pc = "find" /\ q.t = None /\ q.ep = q.insp BY DEF Blank
  <1> HIDE DEF q
  <1>4. ~Writes(i, q) BY <1>3 DEF Writes
  <1>5. ClientOK(q, Up) BY <1>1, <1>3 DEF ClientOK
  <1>6. \A u \in Tunnels : Calm(u) BY <1>1, SameCalm
  <1>7. InspectorsBorn' BY <1>1, SameBorn
  <1> QED BY <1>1, <1>2, <1>3, <1>4, <1>5, <1>6, <1>7, IdleClient, Aside

\* A start is asked for once the create has ended.
LEMMA StartRequestRoute ==
    ASSUME RouteInv, IndInv, IndInv', AwaitCreate, NEW i \in Clients, NEW t \in Tunnels,
           NEW w, StartRequest(i, t, w)
    PROVE  RouteInv'
  <1>1. PICK rep : Goto(i, [Blank EXCEPT !.pc = "claim", !.t = t, !.rep = rep])
    BY DEF StartRequest
  <1> DEFINE q == [Blank EXCEPT !.pc = "claim", !.t = t, !.rep = rep]
  <1>2. /\ h' = [h EXCEPT ![i] = q] /\ busy' = busy /\ Up /\ At(i, "idle") /\ Addressable(t)
        /\ UNCHANGED <<proxy, ad, inspectors, target, running, born, recTodo>>
    BY <1>1 DEF StartRequest, Goto, cloud, disk, mem, todos
  <1>3. q \in TaskType BY <1>2, IdleClient, NewTask
  <1>4. q.pc = "claim" /\ q.t = t /\ q.then = "none" BY DEF Blank
  <1> HIDE DEF q
  <1>5. ~Writes(i, q) BY <1>2, <1>4, IdleClient DEF Writes, Writing, Ensuring
  <1>6. ClientOK(q, Up) BY <1>2, <1>4 DEF ClientOK, Writing, Ensuring
  <1>7. \A j \in Clients \ {i} : Makes(h[j]) => h[j].t # q.t
    BY <1>2, <1>4 DEF Addressable, Makes, At
  <1>8. \A u \in Tunnels : Calm(u) BY <1>2, SameCalm
  <1>9. InspectorsBorn' BY <1>2, SameBorn
  <1> QED BY <1>2, <1>3, <1>4, <1>5, <1>6, <1>7, <1>8, <1>9, IdleClient, Aside

\* A stop is asked for.
LEMMA StopRequestRoute ==
    ASSUME RouteInv, IndInv, IndInv', NEW i \in Clients, NEW t \in Tunnels, StopRequest(i, t)
    PROVE  RouteInv'
  <1>1. /\ TakeRunning(i, t, FALSE) /\ Up /\ At(i, "idle")
        /\ UNCHANGED <<proxy, ad, inspectors, target, born, recTodo>>
    BY DEF StopRequest, cloud, disk, todos
  <1> QED BY <1>1, IdleClient, Takes

\* A delete is asked for.
LEMMA DeleteRequestRoute ==
    ASSUME RouteInv, IndInv, IndInv', NEW i \in Clients, NEW t \in Tunnels, DeleteRequest(i, t)
    PROVE  RouteInv'
  BY Deletes DEF DeleteRequest, cloud, disk, mem, todos

\* Remove stops what runs, and deletes the rest at once.
LEMMA RemoveRequestRoute ==
    ASSUME RouteInv, IndInv, IndInv', NEW i \in Clients, NEW t \in Tunnels, RemoveRequest(i, t)
    PROVE  RouteInv'
  <1>1. At(i, "idle") /\ UNCHANGED <<proxy, ad, inspectors, target, born, recTodo>>
    BY DEF RemoveRequest, cloud, disk, todos
  <1>2. CASE Goto(i, [Blank EXCEPT !.pc = "delLook", !.t = t]) /\ UNCHANGED running
    BY <1>1, <1>2, Deletes
  <1>3. CASE running[t] # "off" /\ TakeRunning(i, t, TRUE)
    BY <1>1, <1>3, IdleClient, Takes
  <1> QED BY <1>2, <1>3 DEF RemoveRequest

-----------------------------------------------------------------------------
(* Quota, and create_tunnel.                                               *)

\* A request that gets no connector has changed nothing that matters.
LEMMA OverQuotaRoute ==
    ASSUME RouteInv, IndInv, IndInv', ResumeHasQuota, NEW i \in Procs, OverQuota(i)
    PROVE  RouteInv'
  <1>1. /\ h[i].pc = "mkConn" /\ i # Main /\ Return(i) /\ UNCHANGED recTodo
        /\ UNCHANGED <<proxy, ad, inspectors, target, running, born>>
    BY DEF OverQuota, ResumeHasQuota, At, cloud, disk, mem, todos
  <1>2. \A u \in Tunnels : Calm(u) BY <1>1, SameCalm
  <1>3. InspectorsBorn' BY <1>1, SameBorn
  <1>4. CASE h[i].t = None
    BY <1>1, <1>2, <1>3, <1>4, Returns DEF Writes
  <1>5. CASE h[i].t # None
    <2>1. Writes(i, h[i]) BY <1>1, <1>5 DEF Writes, Writing, Ensuring
    <2>2. h[i].then \in {"updProxy", "enPatch"}
      BY <1>1, <1>5, TaskTypes DEF TaskOK, TaskType, Ensuring
    <2>3. IntactNext(h[i].t)
      BY <1>1, <2>1, <2>2, Told DEF Progress, IntactNext
    <2> QED BY <1>1, <1>2, <1>3, <2>1, <2>3, Leaves
  <1> QED BY <1>4, <1>5

\* The API server gives the tunnel of a create an id of its own.
LEMMA CreateProxyRoute ==
    ASSUME RouteInv, IndInv, IndInv', NEW i \in Procs, NEW t \in Tunnels, CreateProxy(i, t)
    PROVE  RouteInv'
  <1> DEFINE q == [h[i] EXCEPT !.pc = "crAd", !.t = t]
  <1>1. /\ h' = [h EXCEPT ![i] = q] /\ busy' = busy /\ h[i].pc = "crProxy" /\ t \notin born
        /\ born' = born \cup {t}
        /\ proxy' = [proxy EXCEPT ![t] = [ep |-> h[i].ep, conn |-> h[i].conn]]
        /\ UNCHANGED <<ad, inspectors, target, running, recTodo>>
    BY DEF CreateProxy, Goto, At, disk, mem, todos
  <1>2. q \in TaskType /\ TaskOK(q) BY <1>1, NewTask
  <1>3. h[i] \in TaskType /\ TaskOK(h[i]) BY TaskTypes
  <1>4. /\ q.pc = "crAd" /\ q.t = t /\ q.then = "none" /\ q.lock = FALSE
        /\ q.ep = h[i].ep /\ q.insp = h[i].insp
    BY <1>1, <1>2, <1>3 DEF TaskType, TaskOK, Ensuring
  <1> HIDE DEF q
  <1>5. \A j \in Procs : h[j].t # t BY <1>1, NoneDistinct, TaskTypes
  <1>6. t # None /\ running[t] = "off" /\ t \notin busy /\ inspectors[t] = None
        /\ \A r \in recTodo : r.t # t
    BY <1>1, <1>5, NoneDistinct DEF IndInv, DataOK, BusyExclusion, RouteInv, InspectorsBorn
  <1>7. proxy \in [Tunnels -> Backend \cup {None}] BY DEF IndInv, TypeOK, DataType
  <1>8. proxy'[t].ep = h[i].ep /\ \A u \in Tunnels \ {t} : proxy'[u] = proxy[u] BY <1>1, <1>7
  <1>9. \A u \in Tunnels \ {t} : Calm(u) BY <1>1, <1>8 DEF Calm
  <1>10. Writes(i, q) /\ ~Writes(i, h[i])
    BY <1>1, <1>4, <1>6 DEF Writes, Writing, Ensuring
  <1>11. h[i].ep = h[i].insp BY <1>1 DEF RouteInv, Facts, Fact
  <1>12. FactNext(i, q)
    BY <1>1, <1>4, <1>6, <1>8, <1>11 DEF FactNext, Fact, Progress
  <1>13. i \in Clients => ClientOK(q, Up)
    BY <1>1, <1>4 DEF RouteInv, TasksFit, ClientOK, Ending
  <1>14. i # Sweep BY <1>1 DEF RouteInv, TasksFit, SweepOK
  <1>15. i = Main => ~Up /\ MainOK(q, running', busy')
    BY <1>1, <1>4, <1>6 DEF Up, At, MainOK
  <1>16. \A u \in Tunnels : inspectors'[u] # None => u \in born'
    BY <1>1 DEF RouteInv, InspectorsBorn
  <1>17. Step(i, q)
    BY <1>1, <1>4, <1>5, <1>6, <1>9, <1>10, <1>12, <1>13, <1>14, <1>15, <1>16
    DEF Step, Procs
  <1> QED BY <1>2, <1>17, StepOK

\* A create publishes its port before the inspector is installed.
LEMMA CreateAdRoute ==
    ASSUME RouteInv, IndInv, IndInv', NEW i \in Procs, CreateAd(i)
    PROVE  RouteInv'
  <1>1. /\ h[i].pc = "crAd" /\ UNCHANGED <<proxy, born, inspectors, target, running, recTodo>>
    BY DEF CreateAd, At, disk, mem, todos
  <1>2. /\ h[i] \in TaskType /\ h[i].t \in Tunnels /\ h[i].t # None /\ h[i].after = "ret"
        /\ h[i].then = "none" /\ h[i].lock = FALSE
    BY <1>1, TaskTypes, NoneDistinct DEF TaskOK, TaskType, Ensuring
  <1>3. Writes(i, h[i]) /\ Makes(h[i]) BY <1>1, <1>2 DEF Writes, Writing, Makes
  <1>4. InspectorsBorn' BY <1>1, SameBorn
  <1>5. CASE Return(i) /\ UNCHANGED ad
    <2>1. \A u \in Tunnels : Calm(u) BY <1>1, <1>5, SameCalm
    <2>2. IntactNext(h[i].t)
      BY <1>1, <1>3, Told DEF Progress, IntactNext, Intact
    <2> QED BY <1>1, <1>3, <1>4, <1>5, <2>1, <2>2, Leaves
  <1>6. CASE /\ ad' = [ad EXCEPT ![h[i].t] = [ep |-> h[i].ep, conn |-> h[i].conn]]
             /\ Goto(i, [h[i] EXCEPT !.pc = "install"])
    <2> DEFINE q == [h[i] EXCEPT !.pc = "install"]
    <2>1. h' = [h EXCEPT ![i] = q] /\ busy' = busy BY <1>6 DEF Goto
    <2>2. q \in TaskType BY <2>1, NewTask
    <2>3. /\ q.pc = "install" /\ q.t = h[i].t /\ q.then = "none" /\ q.lock = FALSE
          /\ q.after = "ret" /\ q.insp = h[i].insp
      BY <1>2 DEF TaskType
    <2> HIDE DEF q
    <2>4. ad \in [Tunnels -> Backend \cup {None}] BY DEF IndInv, TypeOK, DataType
    <2>5. ad'[q.t].ep = h[i].ep /\ \A u \in Tunnels \ {q.t} : ad'[u] = ad[u]
      BY <1>2, <1>6, <2>3, <2>4
    <2>6. \A u \in Tunnels \ {q.t} : Calm(u) BY <1>1, <2>5 DEF Calm
    <2>7. Writes(i, q) BY <1>2, <2>3 DEF Writes, Writing
    <2>8. FactNext(i, q)
      <3>1. CASE proxy[q.t] = None
        BY <1>1, <2>3, <3>1 DEF FactNext, Fact
      <3>2. CASE proxy[q.t] # None
        <4>1. proxy[q.t].ep = h[i].ep /\ h[i].ep = h[i].insp
          BY <1>1, <1>3, <2>3, <3>2, Told DEF Progress
        <4> QED BY <1>1, <2>3, <2>5, <4>1 DEF FactNext, Fact, Progress, AdFits
      <3> QED BY <3>1, <3>2
    <2>9. i \in Clients => ClientOK(q, Up)
      BY <1>1, <2>3 DEF RouteInv, TasksFit, ClientOK, Ending
    <2>10. i # Sweep BY <1>1 DEF RouteInv, TasksFit, SweepOK
    <2>11. i = Main => ~Up /\ MainOK(q, running', busy') /\ \A r \in recTodo : q.t # r.t
      BY <1>1, <1>2, <2>1, <2>3 DEF Up, At, MainOK, RouteInv, TasksFit, TodoOK
    <2>12. h[i].pc \notin Ending BY <1>1 DEF Ending
    <2>13. Step(i, q)
      BY <1>1, <1>3, <1>4, <2>1, <2>3, <2>6, <2>7, <2>8, <2>9, <2>10, <2>11, <2>12
      DEF Step, InspectorsBorn
    <2> QED BY <2>2, <2>13, StepOK
  <1> QED BY <1>5, <1>6 DEF CreateAd

-----------------------------------------------------------------------------
(* start_tunnel_internal.                                                  *)

\* A client that writes a route and is no create has reserved the tunnel.
LEMMA Reserved ==
    ASSUME RouteInv, NEW i \in Procs, Writes(i, h[i]), h[i].pc # "crAd",
           h[i].pc = "install" => h[i].after # "ret"
    PROVE  i \in Clients => h[i].lock
  BY TasksDistinct DEF RouteInv, TasksFit, ClientOK, Writes, Procs

\* The reservation is what gives a start the route.
LEMMA StartClaimRoute ==
    ASSUME RouteInv, IndInv, IndInv', NEW i \in Procs, StartClaim(i)
    PROVE  RouteInv'
  <1>1. /\ h[i].pc = "claim"
        /\ UNCHANGED <<proxy, ad, born, inspectors, target, running, recTodo>>
    BY DEF StartClaim, At, cloud, disk, mem, todos
  <1>2. /\ h[i] \in TaskType /\ h[i].t \in Tunnels /\ h[i].t # None
        /\ h[i].then = "none" /\ h[i].lock = FALSE
    BY <1>1, TaskTypes, NoneDistinct DEF TaskOK, TaskType, Ensuring
  <1>3. InspectorsBorn' BY <1>1, SameBorn
  <1>4. \A u \in Tunnels : Calm(u) BY <1>1, SameCalm
  <1>5. i # Sweep BY <1>1 DEF RouteInv, TasksFit, SweepOK
  <1>6. i = Main => running[h[i].t] = "off" /\ h[i].t \notin busy
    BY <1>2 DEF RouteInv, TasksFit, MainOK
  <1>7. i \in Clients => Up BY <1>1 DEF RouteInv, TasksFit, ClientOK, Ending
  <1>8. CASE h[i].t \in busy /\ Return(i)
    <2>1. i \in Clients /\ i # Main BY <1>5, <1>6, <1>8 DEF Procs
    <2>2. ~Writes(i, h[i]) BY <1>1, <2>1 DEF Writes, Writing, Ensuring
    <2> QED BY <1>1, <1>3, <1>4, <1>8, <2>2, Returns
  <1>9. CASE ClaimBusy(i, [h[i] EXCEPT !.pc = "look"])
    <2> DEFINE q == [[h[i] EXCEPT !.pc = "look"] EXCEPT !.lock = TRUE]
    <2>1. [h[i] EXCEPT !.pc = "look"].t = h[i].t BY <1>2 DEF TaskType
    <2>2. h' = [h EXCEPT ![i] = q] /\ h[i].t \notin busy /\ busy' = busy \cup {h[i].t}
      BY <1>9, <2>1 DEF ClaimBusy
    <2>3. q \in TaskType BY <2>2, NewTask
    <2>4. q.pc = "look" /\ q.t = h[i].t /\ q.lock = TRUE /\ q.then = "none"
      BY <1>2 DEF TaskType
    <2> HIDE DEF q
    <2>5. Writes(i, q) BY <1>2, <2>4 DEF Writes, Writing
    <2>6. i = Main => Writes(i, h[i]) BY <1>1, <1>2 DEF Writes
    <2>7. ASSUME i \in Clients, NEW j \in Procs, Writes(j, h[j]), h[j].t = h[i].t
          PROVE  FALSE
      <3>1. j # i BY <1>1, <2>7, TasksDistinct DEF Writes, Writing, Ensuring
      <3>2. ~h[j].lock BY <1>2, <2>2, <2>7 DEF IndInv, BusyExclusion
      <3>3. j # Main
        BY <1>7, <2>7 DEF Up, At, Writes, Writing, Ensuring
      <3>4. j # Sweep BY <2>7, SweepWritesNot
      <3>5. j \in Clients BY <3>3, <3>4 DEF Procs
      <3>6. Makes(h[j])
        BY <2>7, <3>2, <3>3, <3>5 DEF RouteInv, TasksFit, ClientOK, Writes, Makes
      <3>7. h[i].pc \in Ending BY <2>7, <3>1, <3>5, <3>6 DEF RouteInv, SoleMaker
      <3> QED BY <1>1, <3>7 DEF Ending
    <2>8. FactNext(i, q)
      <3> SUFFICES ASSUME proxy[q.t] # None
                   PROVE  /\ Whole(proxy, inspectors, target, q.t)
                          /\ i # Main \/ running[q.t] # "off"
                                => Intact(proxy, ad, inspectors, target, q.t)
        BY <1>1, <2>4 DEF FactNext, Fact, Progress
      <3>1. CASE i = Main
        BY <1>1, <1>6, <2>4, <2>6, <3>1, Told DEF Progress
      <3>2. CASE i \in Clients
        BY <1>2, <2>4, <2>7, <3>2 DEF RouteInv, Rest, Intact, Whole
      <3> QED BY <1>5, <3>1, <3>2 DEF Procs
    <2>9. i \in Clients => ClientOK(q, Up) BY <1>7, <2>4 DEF ClientOK
    <2>10. i = Main => ~Up /\ MainOK(q, running', busy') /\ \A r \in recTodo : q.t # r.t
      BY <1>1, <2>4 DEF Up, At, MainOK, RouteInv, TodoOK
    <2>11. ~Makes(q) BY <2>4 DEF Makes
    <2>12. h[i].pc \notin Ending BY <1>1 DEF Ending
    <2>13. \/ Writes(i, h[i])
           \/ \A j \in Procs \ {i} : Writes(j, h[j]) => h[j].t # q.t
      BY <1>5, <2>4, <2>6, <2>7 DEF Procs
    <2>14. \A t \in busy' \ busy : Up \/ (i = Main /\ t = q.t)
      BY <1>5, <1>7, <2>2, <2>4 DEF Procs
    <2>15. Step(i, q)
      BY <1>1, <1>3, <1>4, <1>5, <2>2, <2>4, <2>5, <2>8, <2>9, <2>10, <2>11, <2>12, <2>13,
         <2>14
      DEF Step, InspectorsBorn
    <2> QED BY <2>3, <2>15, StepOK
  <1> QED BY <1>8, <1>9 DEF StartClaim

\* What a start reads and decides.
LEMMA StartLookRoute ==
    ASSUME RouteInv, IndInv, IndInv', NEW i \in Procs, StartLook(i)
    PROVE  RouteInv'
  <1> DEFINE t == h[i].t
  <1>1. /\ h[i].pc = "look"
        /\ UNCHANGED <<proxy, ad, born, inspectors, target, running, recTodo>>
    BY DEF StartLook, At, cloud, disk, mem, todos
  <1>2. h[i] \in TaskType /\ t \in Tunnels /\ t # None /\ h[i].then = "none"
    BY <1>1, TaskTypes, NoneDistinct DEF TaskOK, TaskType, Ensuring
  <1>3. Writes(i, h[i]) BY <1>1, <1>2 DEF Writes, Writing
  <1>4. i \in Clients => h[i].lock BY <1>1, <1>3, Reserved
  <1>5. InspectorsBorn' BY <1>1, SameBorn
  <1>6. \A u \in Tunnels : Calm(u) BY <1>1, SameCalm
  <1>7. proxy[t] # None => /\ Whole(proxy, inspectors, target, t)
                           /\ i # Main \/ running[t] # "off"
                                => Intact(proxy, ad, inspectors, target, t)
    BY <1>1, <1>3, Told DEF Progress
  <1>8. CASE (proxy[t] = None \/ (running[t] # "off" /\ h[i].rep = None)) /\ Return(i)
    <2>1. IntactNext(t) BY <1>1, <1>7, <1>8 DEF IntactNext
    <2> QED BY <1>1, <1>3, <1>5, <1>6, <1>8, <2>1, Leaves
  <1>9. CASE \E p \in FreePorts :
               Goto(i, [[h[i] EXCEPT !.insp = p, !.ep = p]
                            EXCEPT !.pc = "moveProxy", !.after = "ret"])
    <2>1. PICK p \in FreePorts :
               Goto(i, [[h[i] EXCEPT !.insp = p, !.ep = p]
                            EXCEPT !.pc = "moveProxy", !.after = "ret"])
      BY <1>9
    <2> DEFINE q == [[h[i] EXCEPT !.insp = p, !.ep = p]
                            EXCEPT !.pc = "moveProxy", !.after = "ret"]
    <2>2. q \in TaskType BY <2>1, NewTask DEF Goto
    <2>3. /\ q.pc = "moveProxy" /\ q.t = t /\ q.lock = h[i].lock /\ q.then = "none"
          /\ q.ep = p /\ q.insp = p
      BY <1>2 DEF TaskType
    <2>4. Goto(i, q) BY <2>1
    <2> HIDE DEF q
    <2>5. FactNext(i, q) BY <2>3 DEF FactNext, Fact, Progress
    <2> QED BY <1>1, <1>3, <1>4, <1>5, <1>6, <2>2, <2>3, <2>4, <2>5, GoesOn DEF Writing
  <1>10. CASE proxy[t] # None /\ h[i].rep = None
              /\ Goto(i, [h[i] EXCEPT !.pc = "key", !.ep = proxy[t].ep])
    <2> DEFINE q == [h[i] EXCEPT !.pc = "key", !.ep = proxy[t].ep]
    <2>1. q \in TaskType BY <1>10, NewTask DEF Goto
    <2>2. /\ q.pc = "key" /\ q.t = t /\ q.lock = h[i].lock /\ q.then = "none"
          /\ q.ep = proxy[t].ep /\ q.rep = None
      BY <1>2, <1>10 DEF TaskType
    <2>3. Goto(i, q) BY <1>10
    <2> HIDE DEF q
    <2>4. FactNext(i, q) BY <1>1, <1>7, <1>10, <2>2 DEF FactNext, Fact, Progress
    <2> QED BY <1>1, <1>3, <1>4, <1>5, <1>6, <2>1, <2>2, <2>3, <2>4, GoesOn DEF Writing
  <1>11. CASE proxy[t] # None /\ h[i].rep # None /\ \E p \in FreePorts :
               Goto(i, [[h[i] EXCEPT !.insp = p, !.ep = p]
                            EXCEPT !.pc = "key", !.after = "enGet"])
    <2>1. PICK p \in FreePorts :
               Goto(i, [[h[i] EXCEPT !.insp = p, !.ep = p]
                            EXCEPT !.pc = "key", !.after = "enGet"])
      BY <1>11
    <2> DEFINE q == [[h[i] EXCEPT !.insp = p, !.ep = p] EXCEPT !.pc = "key", !.after = "enGet"]
    <2>2. q \in TaskType BY <2>1, NewTask DEF Goto
    <2>3. /\ q.pc = "key" /\ q.t = t /\ q.lock = h[i].lock /\ q.then = "none"
          /\ q.ep = p /\ q.insp = p /\ q.rep # None
      BY <1>2, <1>11 DEF TaskType
    <2>4. Goto(i, q) BY <2>1
    <2> HIDE DEF q
    <2>5. FactNext(i, q) BY <1>1, <1>7, <1>11, <2>3 DEF FactNext, Fact, Progress
    <2> QED BY <1>1, <1>3, <1>4, <1>5, <1>6, <2>2, <2>3, <2>4, <2>5, GoesOn DEF Writing
  <1> QED BY <1>8, <1>9, <1>10, <1>11 DEF StartLook

\* Where resolve_listen_key leads.
LEMMA StartKeyRoute ==
    ASSUME RouteInv, IndInv, IndInv', NEW i \in Procs, StartKey(i)
    PROVE  RouteInv'
  <1>1. /\ h[i].pc = "key"
        /\ UNCHANGED <<proxy, ad, born, inspectors, target, running, recTodo>>
    BY DEF StartKey, At, cloud, mem, todos
  <1>2. h[i] \in TaskType /\ h[i].t \in Tunnels /\ h[i].t # None /\ h[i].then = "none"
    BY <1>1, TaskTypes, NoneDistinct DEF TaskOK, TaskType, Ensuring
  <1>3. Writes(i, h[i]) BY <1>1, <1>2 DEF Writes, Writing
  <1>4. i \in Clients => h[i].lock BY <1>1, <1>3, Reserved
  <1>5. InspectorsBorn' BY <1>1, SameBorn
  <1>6. \A u \in Tunnels : Calm(u) BY <1>1, SameCalm
  <1>7. proxy[h[i].t] # None =>
          /\ IF h[i].rep = None
             THEN Whole(proxy, inspectors, target, h[i].t) /\ proxy[h[i].t].ep = h[i].ep
             ELSE h[i].ep = h[i].insp
          /\ i # Main => Intact(proxy, ad, inspectors, target, h[i].t)
    BY <1>1, <1>3, Told DEF Progress
  <1>8. ASSUME NEW q, Goto(i, q), q.t = h[i].t, q.lock = h[i].lock, q.rep = h[i].rep,
               q.ep = h[i].ep, q.insp = h[i].insp,
               \/ q.pc = "find" /\ q.then = "updProxy"
               \/ q.pc = "moveProxy" /\ q.then = "none" /\ h[i].rep # None
               \/ q.pc = "enGet" /\ q.then = "none" /\ h[i].rep = None
        PROVE  RouteInv'
    <2>1. q \in TaskType BY <1>8, NewTask DEF Goto
    <2>2. FactNext(i, q)
      <3>1. CASE proxy[h[i].t] = None BY <1>1, <1>8, <3>1 DEF FactNext, Fact
      <3>2. CASE proxy[h[i].t] # None
        BY <1>1, <1>7, <1>8, <3>2 DEF FactNext, Fact, Progress
      <3> QED BY <3>1, <3>2
    <2>3. q.pc \in Writing \ {"crAd"} BY <1>8 DEF Writing, Ensuring
    <2> QED BY <1>1, <1>3, <1>4, <1>5, <1>6, <1>8, <2>1, <2>2, <2>3, GoesOn
  <1>9. CASE Goto(i, [h[i] EXCEPT !.pc = "find", !.then = "updProxy"])
    <2> DEFINE q == [h[i] EXCEPT !.pc = "find", !.then = "updProxy"]
    <2>1. /\ q.t = h[i].t /\ q.lock = h[i].lock /\ q.rep = h[i].rep
          /\ q.ep = h[i].ep /\ q.insp = h[i].insp /\ q.pc = "find" /\ q.then = "updProxy"
      BY <1>2 DEF TaskType
    <2>2. Goto(i, q) BY <1>9
    <2> HIDE DEF q
    <2> QED BY <1>8, <2>1, <2>2
  <1>10. CASE Goto(i, [h[i] EXCEPT !.pc = IF h[i].rep # None THEN "moveProxy" ELSE "enGet"])
    <2> DEFINE x == IF h[i].rep # None THEN "moveProxy" ELSE "enGet"
               q == [h[i] EXCEPT !.pc = x]
    <2>1. /\ (h[i].rep # None /\ x = "moveProxy") \/ (h[i].rep = None /\ x = "enGet")
          /\ Goto(i, q)
      BY <1>10
    <2> HIDE DEF x
    <2>2. /\ q.t = h[i].t /\ q.lock = h[i].lock /\ q.rep = h[i].rep
          /\ q.ep = h[i].ep /\ q.insp = h[i].insp /\ q.pc = x /\ q.then = "none"
      BY <1>2 DEF TaskType
    <2> HIDE DEF q
    <2> QED BY <1>8, <2>1, <2>2
  <1> QED BY <1>9, <1>10 DEF StartKey

\* What is known of a start that is past its reservation.
LEMMA WriterHere ==
    ASSUME RouteInv, IndInv, NEW i \in Procs, h[i].pc \in Writing \ (Ensuring \cup {"crAd"})
    PROVE  /\ h[i] \in TaskType /\ h[i].t \in Tunnels /\ h[i].t # None /\ h[i].then = "none"
           /\ Writes(i, h[i])
           /\ (h[i].pc = "install" => h[i].after # "ret") => (i \in Clients => h[i].lock)
  <1>1. h[i] \in TaskType /\ h[i].t \in Tunnels /\ h[i].t # None /\ h[i].then = "none"
    BY TaskTypes, NoneDistinct DEF TaskOK, TaskType, Ensuring, Writing
  <1>2. Writes(i, h[i]) BY <1>1 DEF Writes
  <1> QED BY <1>1, <1>2, Reserved

\* A start goes on, and has come as far as the next point asks.
LEMMA Passes ==
    ASSUME RouteInv, IndInv, IndInv', NEW i \in Procs, NEW q,
           h[i].pc \in Writing \ (Ensuring \cup {"crAd"}),
           h[i].pc = "install" => h[i].after # "ret",
           q.pc \in Writing \ {"crAd"} \/ (i = Main /\ q.pc = "claim"),
           q.then # "crProxy", q.t = h[i].t, q.lock = h[i].lock, Goto(i, q),
           UNCHANGED <<born, running, recTodo>>, InspectorsBorn',
           \A t \in Tunnels \ {h[i].t} : Calm(t),
           proxy'[q.t] # None => Progress(i, q, proxy', ad', inspectors', target', running')
    PROVE  RouteInv'
  <1>1. q \in TaskType BY NewTask DEF Goto
  <1>2. FactNext(i, q) BY DEF FactNext, Fact, Writing, Ensuring
  <1> QED BY <1>1, <1>2, WriterHere, GoesOn

\* An update names the port it will serve, or the one that is served.
LEMMA UpdateProxyRoute ==
    ASSUME RouteInv, IndInv, IndInv', NEW i \in Procs, UpdateProxy(i)
    PROVE  RouteInv'
  <1> DEFINE t == h[i].t
  <1>1. /\ h[i].pc = "updProxy"
        /\ UNCHANGED <<ad, born, inspectors, target, running, recTodo>>
    BY DEF UpdateProxy, At, disk, mem, todos
  <1>2. h[i].pc \in Writing \ (Ensuring \cup {"crAd"}) BY <1>1 DEF Writing, Ensuring
  <1>3. h[i] \in TaskType /\ t \in Tunnels /\ h[i].then = "none" /\ Writes(i, h[i])
    BY <1>2, WriterHere
  <1>4. InspectorsBorn' BY <1>1, SameBorn
  <1>5. CASE proxy[t] = None /\ Return(i) /\ UNCHANGED proxy
    <2>1. \A u \in Tunnels : Calm(u) BY <1>1, <1>5, SameCalm
    <2>2. IntactNext(t) BY <1>5 DEF IntactNext
    <2> QED BY <1>1, <1>3, <1>4, <1>5, <2>1, <2>2, Leaves
  <1>6. CASE /\ proxy[t] # None
             /\ proxy' = [proxy EXCEPT ![t] = [ep |-> h[i].ep, conn |-> h[i].conn]]
             /\ Goto(i, [h[i] EXCEPT !.pc = "updAd"])
    <2> DEFINE q == [h[i] EXCEPT !.pc = "updAd"]
    <2>1. /\ q.pc = "updAd" /\ q.t = t /\ q.lock = h[i].lock /\ q.then = "none"
          /\ q.rep = h[i].rep /\ q.ep = h[i].ep /\ q.insp = h[i].insp
      BY <1>3 DEF TaskType
    <2>2. Goto(i, q) BY <1>6
    <2> HIDE DEF q
    <2>3. proxy \in [Tunnels -> Backend \cup {None}] BY DEF IndInv, TypeOK, DataType
    <2>4. proxy'[t].ep = h[i].ep /\ \A u \in Tunnels \ {t} : proxy'[u] = proxy[u]
      BY <1>3, <1>6, <2>3
    <2>5. \A u \in Tunnels \ {t} : Calm(u) BY <1>1, <2>4 DEF Calm
    <2>6. Progress(i, h[i], proxy, ad, inspectors, target, running) BY <1>3, <1>6, Told
    <2>7. IF h[i].rep = None
          THEN Whole(proxy, inspectors, target, t) /\ proxy[t].ep = h[i].ep
          ELSE h[i].ep = h[i].insp
      BY <1>1, <2>6 DEF Progress
    <2>8. Progress(i, q, proxy', ad', inspectors', target', running')
      BY <1>1, <2>1, <2>4, <2>7 DEF Progress, Whole
    <2> QED BY <1>1, <1>2, <1>4, <2>1, <2>2, <2>5, <2>8, Passes DEF Writing
  <1> QED BY <1>5, <1>6 DEF UpdateProxy

\* The advertisement follows the proxy.
LEMMA UpdateAdRoute ==
    ASSUME RouteInv, IndInv, IndInv', NEW i \in Procs, UpdateAd(i)
    PROVE  RouteInv'
  <1> DEFINE t == h[i].t
             q == [h[i] EXCEPT !.pc = "cleanRefs"]
  <1>1. /\ h[i].pc = "updAd" /\ Goto(i, q)
        /\ UNCHANGED <<proxy, born, inspectors, target, running, recTodo>>
    BY DEF UpdateAd, At, disk, mem, todos
  <1>2. h[i].pc \in Writing \ (Ensuring \cup {"crAd"}) BY <1>1 DEF Writing, Ensuring
  <1>3. h[i] \in TaskType /\ t \in Tunnels /\ h[i].then = "none" /\ Writes(i, h[i])
    BY <1>2, WriterHere
  <1>4. InspectorsBorn' BY <1>1, SameBorn
  <1>5. /\ q.pc = "cleanRefs" /\ q.t = t /\ q.lock = h[i].lock /\ q.then = "none"
        /\ q.rep = h[i].rep /\ q.ep = h[i].ep /\ q.insp = h[i].insp
    BY <1>3 DEF TaskType
  <1> HIDE DEF q
  <1>6. ad \in [Tunnels -> Backend \cup {None}] BY DEF IndInv, TypeOK, DataType
  <1>7. /\ ad'[t] = None \/ ad'[t].ep = h[i].ep
        /\ \A u \in Tunnels \ {t} : ad'[u] = ad[u]
    <2>1. CASE ad[t] = None BY <2>1 DEF UpdateAd
    <2>2. CASE ad[t] # None
      <3>1. ad' = [ad EXCEPT ![t] = [ep |-> h[i].ep, conn |-> h[i].conn]]
        BY <2>2 DEF UpdateAd
      <3> QED BY <1>3, <1>6, <3>1
    <2> QED BY <2>1, <2>2
  <1>8. \A u \in Tunnels \ {t} : Calm(u) BY <1>1, <1>7 DEF Calm
  <1>9. proxy[t] # None => Progress(i, q, proxy', ad', inspectors', target', running')
    <2> SUFFICES ASSUME proxy[t] # None
                 PROVE  Progress(i, q, proxy', ad', inspectors', target', running')
      OBVIOUS
    <2>1. Progress(i, h[i], proxy, ad, inspectors, target, running) BY <1>3, Told
    <2>2. /\ proxy[t].ep = h[i].ep
          /\ IF h[i].rep = None THEN Whole(proxy, inspectors, target, t)
             ELSE h[i].ep = h[i].insp
      BY <1>1, <2>1 DEF Progress
    <2> QED BY <1>1, <1>5, <1>7, <2>2 DEF Progress, Whole, AdFits
  <1> QED BY <1>1, <1>2, <1>4, <1>5, <1>8, <1>9, Passes DEF Writing

\* The steps of the cleanup before its deletes.
LEMMA CleanReadRoute ==
    ASSUME RouteInv, IndInv, IndInv', NEW i \in Procs, CleanRefs(i) \/ CleanList(i)
    PROVE  RouteInv'
  <1>1. PICK x \in {"cleanList", "cleanDel"}, d \in SUBSET Conns :
            Goto(i, [h[i] EXCEPT !.pc = x, !.drop = d])
    <2>1. {c \in Conns : Used(c)} \in SUBSET Conns
          /\ {c \in Conns : Exists(c) /\ c \notin h[i].drop} \in SUBSET Conns
      OBVIOUS
    <2>2. CASE CleanRefs(i) BY <2>1, <2>2, Zenon DEF CleanRefs
    <2>3. CASE CleanList(i) BY <2>1, <2>3, Zenon DEF CleanList
    <2> QED BY <2>2, <2>3
  <1> DEFINE q == [h[i] EXCEPT !.pc = x, !.drop = d]
  <1>2. /\ h[i].pc \in {"cleanRefs", "cleanList"} /\ Goto(i, q)
        /\ UNCHANGED <<proxy, ad, born, inspectors, target, running, recTodo>>
    BY <1>1 DEF CleanRefs, CleanList, At, cloud, disk, mem, todos
  <1>3. h[i].pc \in Writing \ (Ensuring \cup {"crAd"}) BY <1>2 DEF Writing, Ensuring
  <1>4. h[i] \in TaskType /\ h[i].t \in Tunnels /\ h[i].then = "none" /\ Writes(i, h[i])
    BY <1>3, WriterHere
  <1>5. /\ q.pc = x /\ q.t = h[i].t /\ q.lock = h[i].lock /\ q.then = "none"
        /\ q.rep = h[i].rep /\ q.ep = h[i].ep /\ q.insp = h[i].insp
    BY <1>4 DEF TaskType
  <1> HIDE DEF q
  <1>6. \A u \in Tunnels : Calm(u) BY <1>2, SameCalm
  <1>7. InspectorsBorn' BY <1>2, SameBorn
  <1>8. proxy[q.t] # None => Progress(i, q, proxy', ad', inspectors', target', running')
    <2> SUFFICES ASSUME proxy[h[i].t] # None
                 PROVE  Progress(i, q, proxy, ad, inspectors, target, running)
      BY <1>2, <1>5
    <2>1. Progress(i, h[i], proxy, ad, inspectors, target, running) BY <1>4, Told
    <2>2. /\ proxy[h[i].t].ep = h[i].ep /\ AdFits(proxy, ad, h[i].t)
          /\ IF h[i].rep = None THEN Whole(proxy, inspectors, target, h[i].t)
             ELSE h[i].ep = h[i].insp
      BY <1>2, <2>1 DEF Progress
    <2> QED BY <1>1, <1>5, <2>2 DEF Progress
  <1>9. q.pc \in Writing \ {"crAd"} BY <1>1, <1>5 DEF Writing
  <1> QED BY <1>2, <1>3, <1>5, <1>6, <1>7, <1>8, <1>9, Passes

\* Advertisements of dropped connectors go with them.
LEMMA DropCalm ==
    ASSUME NEW cs, ad' = WithoutAds(cs), UNCHANGED <<proxy, inspectors, target, running>>
    PROVE  \A t \in Tunnels : Calm(t)
  BY DEF WithoutAds, Calm

\* The cleanup is over: the inspector in hand is installed, or the one there stays.
LEMMA CleanDeleteRoute ==
    ASSUME RouteInv, IndInv, IndInv', NEW i \in Procs, CleanDelete(i)
    PROVE  RouteInv'
  <1> DEFINE x == IF h[i].rep # None THEN "install" ELSE "enGet"
             q == [h[i] EXCEPT !.drop = {}, !.pc = x]
  <1>1. /\ h[i].pc = "cleanDel" /\ Goto(i, q) /\ ad' = WithoutAds(h[i].drop)
        /\ UNCHANGED <<proxy, born, inspectors, target, running, recTodo>>
    BY DEF CleanDelete, AfterClean, At, disk, mem, todos
  <1>2. (h[i].rep # None /\ x = "install") \/ (h[i].rep = None /\ x = "enGet") OBVIOUS
  <1> HIDE DEF x
  <1>3. h[i].pc \in Writing \ (Ensuring \cup {"crAd"}) BY <1>1 DEF Writing, Ensuring
  <1>4. h[i] \in TaskType /\ h[i].t \in Tunnels /\ h[i].then = "none" /\ Writes(i, h[i])
    BY <1>3, WriterHere
  <1>5. /\ q.pc = x /\ q.t = h[i].t /\ q.lock = h[i].lock /\ q.then = "none"
        /\ q.rep = h[i].rep /\ q.ep = h[i].ep /\ q.insp = h[i].insp
    BY <1>4 DEF TaskType
  <1> HIDE DEF q
  <1>6. \A u \in Tunnels : Calm(u) BY <1>1, DropCalm
  <1>7. InspectorsBorn' BY <1>1, SameBorn
  <1>8. proxy[q.t] # None => Progress(i, q, proxy', ad', inspectors', target', running')
    <2> SUFFICES ASSUME proxy[h[i].t] # None
                 PROVE  Progress(i, q, proxy', ad', inspectors', target', running')
      BY <1>5
    <2>1. Progress(i, h[i], proxy, ad, inspectors, target, running) BY <1>4, Told
    <2>2. /\ proxy[h[i].t].ep = h[i].ep /\ AdFits(proxy, ad, h[i].t)
          /\ IF h[i].rep = None THEN Whole(proxy, inspectors, target, h[i].t)
             ELSE h[i].ep = h[i].insp
      BY <1>1, <2>1 DEF Progress
    <2>3. AdFits(proxy', ad', h[i].t) BY <1>1, <1>4, <1>6, <2>2 DEF Calm, AdFits
    <2> QED BY <1>1, <1>2, <1>5, <2>2, <2>3 DEF Progress, Intact, Whole
  <1>9. q.pc \in Writing \ {"crAd"} BY <1>2, <1>5 DEF Writing
  <1> QED BY <1>1, <1>3, <1>5, <1>6, <1>7, <1>8, <1>9, Passes

\* A repoint names the new port in the proxy first.
LEMMA MoveProxyRoute ==
    ASSUME RouteInv, IndInv, IndInv', NEW i \in Procs, MoveProxy(i)
    PROVE  RouteInv'
  <1> DEFINE t == h[i].t
  <1>1. /\ h[i].pc = "moveProxy"
        /\ UNCHANGED <<ad, born, inspectors, target, running, recTodo>>
    BY DEF MoveProxy, At, disk, mem, todos
  <1>2. h[i].pc \in Writing \ (Ensuring \cup {"crAd"}) BY <1>1 DEF Writing, Ensuring
  <1>3. h[i] \in TaskType /\ t \in Tunnels /\ h[i].then = "none" /\ Writes(i, h[i])
    BY <1>2, WriterHere
  <1>4. InspectorsBorn' BY <1>1, SameBorn
  <1>5. CASE proxy[t] = None /\ Return(i) /\ UNCHANGED proxy
    <2>1. \A u \in Tunnels : Calm(u) BY <1>1, <1>5, SameCalm
    <2>2. IntactNext(t) BY <1>5 DEF IntactNext
    <2> QED BY <1>1, <1>3, <1>4, <1>5, <2>1, <2>2, Leaves
  <1>6. CASE /\ proxy[t] # None
             /\ proxy' = [proxy EXCEPT ![t].ep = h[i].ep]
             /\ Goto(i, [h[i] EXCEPT !.pc = "moveAd"])
    <2> DEFINE q == [h[i] EXCEPT !.pc = "moveAd"]
    <2>1. /\ q.pc = "moveAd" /\ q.t = t /\ q.lock = h[i].lock /\ q.then = "none"
          /\ q.ep = h[i].ep /\ q.insp = h[i].insp
      BY <1>3 DEF TaskType
    <2>2. Goto(i, q) BY <1>6
    <2> HIDE DEF q
    <2>3. proxy \in [Tunnels -> Backend \cup {None}] BY DEF IndInv, TypeOK, DataType
    <2>4. proxy'[t].ep = h[i].ep /\ \A u \in Tunnels \ {t} : proxy'[u] = proxy[u]
      BY <1>3, <1>6, <2>3 DEF Backend
    <2>5. \A u \in Tunnels \ {t} : Calm(u) BY <1>1, <2>4 DEF Calm
    <2>6. h[i].ep = h[i].insp BY <1>1, <1>3, <1>6, Told DEF Progress
    <2>7. Progress(i, q, proxy', ad', inspectors', target', running')
      BY <2>1, <2>4, <2>6 DEF Progress
    <2> QED BY <1>1, <1>2, <1>4, <2>1, <2>2, <2>5, <2>7, Passes DEF Writing
  <1> QED BY <1>5, <1>6 DEF MoveProxy

\* The advertisement comes second.
LEMMA MoveAdRoute ==
    ASSUME RouteInv, IndInv, IndInv', NEW i \in Procs, MoveAd(i)
    PROVE  RouteInv'
  <1> DEFINE t == h[i].t
             q == [h[i] EXCEPT !.pc = "install"]
  <1>1. /\ h[i].pc = "moveAd" /\ Goto(i, q)
        /\ UNCHANGED <<proxy, born, inspectors, target, running, recTodo>>
    BY DEF MoveAd, At, disk, mem, todos
  <1>2. h[i].pc \in Writing \ (Ensuring \cup {"crAd"}) BY <1>1 DEF Writing, Ensuring
  <1>3. h[i] \in TaskType /\ t \in Tunnels /\ h[i].then = "none" /\ Writes(i, h[i])
    BY <1>2, WriterHere
  <1>4. InspectorsBorn' BY <1>1, SameBorn
  <1>5. /\ q.pc = "install" /\ q.t = t /\ q.lock = h[i].lock /\ q.then = "none"
        /\ q.insp = h[i].insp
    BY <1>3 DEF TaskType
  <1> HIDE DEF q
  <1>6. ad \in [Tunnels -> Backend \cup {None}] BY DEF IndInv, TypeOK, DataType
  <1>7. /\ ad'[t] = None \/ ad'[t].ep = h[i].ep
        /\ \A u \in Tunnels \ {t} : ad'[u] = ad[u]
    <2>1. CASE ad[t] = None BY <2>1 DEF MoveAd
    <2>2. CASE ad[t] # None
      <3>1. ad' = [ad EXCEPT ![t].ep = h[i].ep] BY <2>2 DEF MoveAd
      <3> QED BY <1>3, <1>6, <2>2, <3>1 DEF Backend
    <2> QED BY <2>1, <2>2
  <1>8. \A u \in Tunnels \ {t} : Calm(u) BY <1>1, <1>7 DEF Calm
  <1>9. proxy[t] # None => Progress(i, q, proxy', ad', inspectors', target', running')
    <2> SUFFICES ASSUME proxy[t] # None
                 PROVE  Progress(i, q, proxy', ad', inspectors', target', running')
      OBVIOUS
    <2>1. proxy[t].ep = h[i].ep /\ h[i].ep = h[i].insp
      BY <1>1, <1>3, Told DEF Progress
    <2> QED BY <1>1, <1>5, <1>7, <2>1 DEF Progress, AdFits
  <1> QED BY <1>1, <1>2, <1>4, <1>5, <1>8, <1>9, Passes DEF Writing

\* The new inspector closes the route, on file and in memory.
LEMMA InstallInspectorRoute ==
    ASSUME RouteInv, IndInv, IndInv', MaxFaults = 0, NEW i \in Procs, InstallInspector(i)
    PROVE  RouteInv'
  <1> DEFINE t == h[i].t
             insp == [port |-> h[i].insp, target |-> h[i].rep]
  <1>1. ~(faults < MaxFaults) BY DEF IndInv, TypeOK, DataType
  <1>2. /\ h[i].pc = "install" /\ UNCHANGED <<proxy, ad, born, running, recTodo>>
        /\ target' = [target EXCEPT ![t] = h[i].rep]
        /\ inspectors' = [inspectors EXCEPT ![t] = insp]
    BY <1>1 DEF InstallInspector, At, cloud, todos
  <1>3. h[i].pc \in Writing \ (Ensuring \cup {"crAd"}) BY <1>2 DEF Writing, Ensuring
  <1>4. /\ h[i] \in TaskType /\ TaskOK(h[i]) /\ t \in Tunnels /\ h[i].then = "none"
        /\ Writes(i, h[i]) /\ t \in born
    BY <1>3, WriterHere, TaskTypes
  <1>5. /\ inspectors'[t] = insp /\ target'[t] = h[i].rep
        /\ \A u \in Tunnels \ {t} : inspectors'[u] = inspectors[u] /\ target'[u] = target[u]
    BY <1>2, <1>4 DEF IndInv, TypeOK, DataType
  <1>6. InspectorsBorn'
    <2>1. ASSUME NEW u \in Tunnels, inspectors'[u] # None PROVE u \in born'
      BY <1>2, <1>4, <1>5, <2>1 DEF RouteInv, InspectorsBorn
    <2> QED BY <2>1 DEF InspectorsBorn
  <1>7. \A u \in Tunnels \ {t} : Calm(u) BY <1>2, <1>5 DEF Calm
  <1>8. proxy[t] # None =>
          proxy[t].ep = h[i].insp /\ (h[i].after # "claim" => AdFits(proxy, ad, t))
    BY <1>2, <1>4, Told DEF Progress
  <1>9. proxy[t] # None =>
          /\ Whole(proxy', inspectors', target', t)
          /\ h[i].after # "claim" => AdFits(proxy', ad', t)
    BY <1>2, <1>5, <1>8 DEF Whole, AdFits
  <1>10. CASE h[i].after = "ret"
    <2>1. Return(i) BY <1>10 DEF InstallInspector
    <2>2. IntactNext(t) BY <1>2, <1>9, <1>10 DEF IntactNext, Intact
    <2> QED BY <1>2, <1>4, <1>6, <1>7, <2>1, <2>2, Leaves
  <1>11. CASE h[i].after # "ret"
    <2> DEFINE q == [h[i] EXCEPT !.pc = h[i].after, !.insp = None, !.rep = None]
    <2>1. Goto(i, q) BY <1>11 DEF InstallInspector
    <2>2. /\ q.pc = h[i].after /\ q.t = t /\ q.lock = h[i].lock /\ q.then = "none"
      BY <1>4 DEF TaskType
    <2> HIDE DEF q
    <2>3. h[i].after \in {"enGet", "claim"} BY <1>4, <1>11 DEF TaskType
    <2>4. h[i].after = "claim" => i = Main
      <3> SUFFICES ASSUME h[i].after = "claim", i # Main PROVE FALSE OBVIOUS
      <3>1. i # Sweep BY <1>4, SweepWritesNot
      <3>2. i \in Clients BY <3>1 DEF Procs
      <3>3. h[i].lock BY <1>3, <1>11, <3>2, WriterHere
      <3> QED BY <1>2, <1>4, <3>3 DEF TaskOK
    <2>5. proxy[t] # None => Progress(i, q, proxy', ad', inspectors', target', running')
      BY <1>9, <2>2, <2>3 DEF Progress, Intact
    <2>6. q.pc \in Writing \ {"crAd"} \/ (i = Main /\ q.pc = "claim")
      BY <2>2, <2>3, <2>4 DEF Writing
    <2> QED BY <1>2, <1>3, <1>6, <1>7, <1>11, <2>1, <2>2, <2>5, <2>6, Passes
  <1> QED BY <1>10, <1>11

\* Enabling reads the port the proxy names.
LEMMA EnableGetRoute ==
    ASSUME RouteInv, IndInv, IndInv', NEW i \in Procs, EnableGet(i)
    PROVE  RouteInv'
  <1> DEFINE t == h[i].t
             q == [h[i] EXCEPT !.pc = "find", !.then = "enPatch", !.ep = proxy[t].ep,
                               !.conn = proxy[t].conn]
  <1>1. /\ h[i].pc = "enGet" /\ proxy[t] # None /\ Goto(i, q)
        /\ UNCHANGED <<proxy, ad, born, inspectors, target, running, recTodo>>
    BY DEF EnableGet, At, cloud, disk, mem, todos
  <1>2. h[i].pc \in Writing \ (Ensuring \cup {"crAd"}) BY <1>1 DEF Writing, Ensuring
  <1>3. h[i] \in TaskType /\ t \in Tunnels /\ Writes(i, h[i]) BY <1>2, WriterHere
  <1>4. /\ q.pc = "find" /\ q.t = t /\ q.lock = h[i].lock /\ q.then = "enPatch"
        /\ q.ep = proxy[t].ep
    BY <1>3 DEF TaskType
  <1> HIDE DEF q
  <1>5. InspectorsBorn' BY <1>1, SameBorn
  <1>6. \A u \in Tunnels : Calm(u) BY <1>1, SameCalm
  <1>7. /\ Whole(proxy, inspectors, target, t)
        /\ i # Main => Intact(proxy, ad, inspectors, target, t)
    BY <1>1, <1>3, Told DEF Progress
  <1>8. Progress(i, q, proxy', ad', inspectors', target', running')
    BY <1>1, <1>4, <1>7 DEF Progress
  <1>9. q.pc \in Writing \ {"crAd"} BY <1>4 DEF Writing, Ensuring
  <1> QED BY <1>1, <1>2, <1>4, <1>5, <1>6, <1>8, <1>9, Passes

\* A tunnel that is gone is not enabled.
LEMMA EnableGoneRoute ==
    ASSUME RouteInv, IndInv, IndInv', NEW i \in Procs, EnableGone(i)
    PROVE  RouteInv'
  <1>1. /\ h[i].pc \in {"enGet", "enPatch"} /\ proxy[h[i].t] = None /\ Return(i)
        /\ UNCHANGED <<proxy, ad, born, inspectors, target, running, recTodo>>
    BY DEF EnableGone, At, cloud, disk, mem, todos
  <1>2. h[i].pc \in Writing \ (Ensuring \cup {"crAd"}) BY <1>1 DEF Writing, Ensuring
  <1>3. InspectorsBorn' BY <1>1, SameBorn
  <1>4. \A u \in Tunnels : Calm(u) BY <1>1, SameCalm
  <1>5. IntactNext(h[i].t) BY <1>1 DEF IntactNext
  <1> QED BY <1>1, <1>2, <1>3, <1>4, <1>5, WriterHere, Leaves

\* The patch of the proxy leaves its port as it was.
LEMMA EnablePatchRoute ==
    ASSUME RouteInv, IndInv, IndInv', NEW i \in Procs, EnablePatch(i)
    PROVE  RouteInv'
  <1> DEFINE t == h[i].t
             q == [h[i] EXCEPT !.pc = "enAd"]
  <1>1. /\ h[i].pc = "enPatch" /\ Goto(i, q)
        /\ UNCHANGED <<ad, born, inspectors, target, running, recTodo>>
        /\ \/ UNCHANGED proxy
           \/ /\ proxy[t] # None
              /\ proxy' = [proxy EXCEPT ![t] = [ep |-> h[i].ep, conn |-> h[i].conn]]
    BY DEF EnablePatch, At, disk, mem, todos
  <1>2. h[i].pc \in Writing \ (Ensuring \cup {"crAd"}) BY <1>1 DEF Writing, Ensuring
  <1>3. h[i] \in TaskType /\ t \in Tunnels /\ h[i].then = "none" /\ Writes(i, h[i])
    BY <1>2, WriterHere
  <1>4. InspectorsBorn' BY <1>1, SameBorn
  <1>5. /\ q.pc = "enAd" /\ q.t = t /\ q.lock = h[i].lock /\ q.then = "none"
        /\ q.ep = h[i].ep
    BY <1>3 DEF TaskType
  <1> HIDE DEF q
  <1>6. proxy \in [Tunnels -> Backend \cup {None}] BY DEF IndInv, TypeOK, DataType
  <1>7. /\ proxy'[t] = proxy[t] \/ (proxy[t] # None /\ proxy'[t].ep = h[i].ep)
        /\ \A u \in Tunnels \ {t} : proxy'[u] = proxy[u]
    BY <1>1, <1>3, <1>6
  <1>8. \A u \in Tunnels \ {t} : Calm(u) BY <1>1, <1>7 DEF Calm
  <1>9. proxy'[t] # None => Progress(i, q, proxy', ad', inspectors', target', running')
    <2> SUFFICES ASSUME proxy'[t] # None
                 PROVE  Progress(i, q, proxy', ad', inspectors', target', running')
      OBVIOUS
    <2>1. Whole(proxy, inspectors, target, t) /\ proxy[t].ep = h[i].ep
      BY <1>1, <1>3, <1>7, Told DEF Progress
    <2> QED BY <1>1, <1>5, <1>7, <2>1 DEF Progress, Whole
  <1> QED BY <1>1, <1>2, <1>4, <1>5, <1>8, <1>9, Passes DEF Writing

\* The advertisement names the port of the proxy.
LEMMA EnableAdRoute ==
    ASSUME RouteInv, IndInv, IndInv', NEW i \in Procs, EnableAd(i)
    PROVE  RouteInv'
  <1> DEFINE t == h[i].t
             q == [h[i] EXCEPT !.pc = "insert"]
  <1>1. /\ h[i].pc = "enAd" /\ Goto(i, q)
        /\ UNCHANGED <<proxy, born, inspectors, target, running, recTodo>>
        /\ ad' = [ad EXCEPT ![t] = [ep |-> h[i].ep, conn |-> h[i].conn]]
    BY DEF EnableAd, At, disk, mem, todos
  <1>2. h[i].pc \in Writing \ (Ensuring \cup {"crAd"}) BY <1>1 DEF Writing, Ensuring
  <1>3. h[i] \in TaskType /\ t \in Tunnels /\ h[i].then = "none" /\ Writes(i, h[i])
    BY <1>2, WriterHere
  <1>4. InspectorsBorn' BY <1>1, SameBorn
  <1>5. q.pc = "insert" /\ q.t = t /\ q.lock = h[i].lock /\ q.then = "none"
    BY <1>3 DEF TaskType
  <1> HIDE DEF q
  <1>6. ad \in [Tunnels -> Backend \cup {None}] BY DEF IndInv, TypeOK, DataType
  <1>7. ad'[t].ep = h[i].ep /\ \A u \in Tunnels \ {t} : ad'[u] = ad[u] BY <1>1, <1>3, <1>6
  <1>8. \A u \in Tunnels \ {t} : Calm(u) BY <1>1, <1>7 DEF Calm
  <1>9. proxy[t] # None => Progress(i, q, proxy', ad', inspectors', target', running')
    <2> SUFFICES ASSUME proxy[t] # None
                 PROVE  Progress(i, q, proxy', ad', inspectors', target', running')
      OBVIOUS
    <2>1. Whole(proxy, inspectors, target, t) /\ proxy[t].ep = h[i].ep
      BY <1>1, <1>3, Told DEF Progress
    <2> QED BY <1>1, <1>5, <1>7, <2>1 DEF Progress, Whole, AdFits
  <1> QED BY <1>1, <1>2, <1>4, <1>5, <1>8, <1>9, Passes DEF Writing

\* The start is over.
LEMMA StartInsertRoute ==
    ASSUME RouteInv, IndInv, IndInv', NEW i \in Procs, StartInsert(i)
    PROVE  RouteInv'
  <1> DEFINE t == h[i].t
  <1>1. /\ h[i].pc = "insert" /\ Return(i) /\ running' = [running EXCEPT ![t] = "fresh"]
        /\ UNCHANGED <<proxy, ad, born, inspectors, target, recTodo>>
    BY DEF StartInsert, At, cloud, disk, todos
  <1>2. h[i].pc \in Writing \ (Ensuring \cup {"crAd"}) BY <1>1 DEF Writing, Ensuring
  <1>3. h[i] \in TaskType /\ t \in Tunnels /\ Writes(i, h[i]) BY <1>2, WriterHere
  <1>4. InspectorsBorn' BY <1>1, SameBorn
  <1>5. \A u \in Tunnels \ {t} : running'[u] = running[u]
    BY <1>1 DEF IndInv, TypeOK, DataType
  <1>6. \A u \in Tunnels \ {t} : Calm(u) BY <1>1, <1>5 DEF Calm
  <1>7. proxy[t] # None => Whole(proxy, inspectors, target, t) /\ AdFits(proxy, ad, t)
    BY <1>1, <1>3, Told DEF Progress
  <1>8. IntactNext(t) BY <1>1, <1>7 DEF IntactNext, Intact
  <1> QED BY <1>1, <1>3, <1>4, <1>6, <1>8, Leaves

-----------------------------------------------------------------------------
(* stop_tunnel_internal and delete_tunnel_internal.                        *)

\* Disabling takes the advertisement away.
LEMMA DisableRoute ==
    ASSUME RouteInv, IndInv, IndInv', NEW i \in Procs, Disable(i)
    PROVE  RouteInv'
  <1>1. /\ h[i].pc = "disable" /\ Return(i)
        /\ ad' \in {ad, [ad EXCEPT ![h[i].t] = None]}
        /\ UNCHANGED <<proxy, born, inspectors, target, running, recTodo>>
    BY DEF Disable, At, disk, mem, todos
  <1>2. ~Writes(i, h[i]) BY <1>1 DEF Writes, Writing, Ensuring
  <1>3. \A u \in Tunnels : Calm(u) BY <1>1 DEF Calm, IndInv, TypeOK, DataType
  <1>4. InspectorsBorn' BY <1>1, SameBorn
  <1> QED BY <1>1, <1>2, <1>3, <1>4, Returns

\* The steps of a delete that change a route only by taking from it.
LEMMA DeleteStep ==
    ASSUME RouteInv, IndInv, IndInv', NEW i \in Procs, NEW q, h[i].pc \in Ending \ {"disable"},
           Goto(i, q), q.pc \in Ending, q.t = h[i].t, q.lock = h[i].lock,
           UNCHANGED <<born, inspectors, target, recTodo>>,
           \A u \in Tunnels : /\ proxy'[u] \in {proxy[u], None} /\ ad'[u] \in {ad[u], None}
                              /\ running'[u] \in {running[u], "off"}
    PROVE  RouteInv'
  <1>1. \A u \in Tunnels : Calm(u) BY DEF Calm
  <1>2. InspectorsBorn' BY SameBorn
  <1> QED BY <1>1, <1>2, EndsOn

\* Only the program counter, the connector and the flag of a delete change.
LEMMA DeleteFields ==
    ASSUME NEW r \in TaskType, NEW x, NEW d, NEW c
    PROVE  /\ [r EXCEPT !.pc = x].pc = x /\ [r EXCEPT !.pc = x].t = r.t
           /\ [r EXCEPT !.pc = x].lock = r.lock
           /\ [r EXCEPT !.pc = x, !.dirty = d].pc = x
           /\ [r EXCEPT !.pc = x, !.dirty = d].t = r.t
           /\ [r EXCEPT !.pc = x, !.dirty = d].lock = r.lock
           /\ [r EXCEPT !.pc = x, !.dirty = d, !.conn = c].pc = x
           /\ [r EXCEPT !.pc = x, !.dirty = d, !.conn = c].t = r.t
           /\ [r EXCEPT !.pc = x, !.dirty = d, !.conn = c].lock = r.lock
  BY DEF TaskType

\* A delete finds its connector.
LEMMA DeleteLookRoute ==
    ASSUME RouteInv, IndInv, IndInv', NEW i \in Procs, DeleteLook(i)
    PROVE  RouteInv'
  <1>1. /\ h[i].pc = "delLook" /\ h[i] \in TaskType
        /\ UNCHANGED <<proxy, ad, born, inspectors, target, running, recTodo>>
    BY TaskTypes DEF DeleteLook, At, cloud, disk, mem, todos
  <1>2. h[i].pc \in Ending \ {"disable"} /\ "delProxy" \in Ending BY <1>1 DEF Ending
  <1>3. ASSUME NEW q, Goto(i, q), q.pc = "delProxy", q.t = h[i].t, q.lock = h[i].lock
        PROVE  RouteInv'
    BY <1>1, <1>2, <1>3, DeleteStep
  <1> DEFINE d == proxy[h[i].t] # None
  <1>4. \/ Goto(i, [h[i] EXCEPT !.pc = "delProxy", !.dirty = d])
        \/ \E c : Goto(i, [h[i] EXCEPT !.pc = "delProxy", !.dirty = d, !.conn = c])
    BY Zenon DEF DeleteLook
  <1> HIDE DEF d
  <1>5. CASE Goto(i, [h[i] EXCEPT !.pc = "delProxy", !.dirty = d])
    <2> DEFINE q == [h[i] EXCEPT !.pc = "delProxy", !.dirty = d]
    <2>1. Goto(i, q) BY <1>5
    <2>2. q.pc = "delProxy" /\ q.t = h[i].t /\ q.lock = h[i].lock BY <1>1, DeleteFields
    <2> HIDE DEF q
    <2> QED BY <1>3, <2>1, <2>2
  <1>6. CASE \E c : Goto(i, [h[i] EXCEPT !.pc = "delProxy", !.dirty = d, !.conn = c])
    <2>1. PICK c : Goto(i, [h[i] EXCEPT !.pc = "delProxy", !.dirty = d, !.conn = c])
      BY <1>6
    <2> DEFINE q == [h[i] EXCEPT !.pc = "delProxy", !.dirty = d, !.conn = c]
    <2>2. Goto(i, q) BY <2>1
    <2>3. q.pc = "delProxy" /\ q.t = h[i].t /\ q.lock = h[i].lock BY <1>1, DeleteFields
    <2> HIDE DEF q
    <2> QED BY <1>3, <2>2, <2>3
  <1> QED BY <1>4, <1>5, <1>6

\* The proxy goes.
LEMMA DeleteProxyRoute ==
    ASSUME RouteInv, IndInv, IndInv', NEW i \in Procs, DeleteProxy(i)
    PROVE  RouteInv'
  <1>1. /\ h[i].pc = "delProxy" /\ h[i] \in TaskType
        /\ proxy' \in {proxy, [proxy EXCEPT ![h[i].t] = None]}
        /\ UNCHANGED <<ad, born, inspectors, target, running, recTodo>>
    BY TaskTypes DEF DeleteProxy, At, disk, mem, todos
  <1>2. \A u \in Tunnels : proxy'[u] \in {proxy[u], None}
    BY <1>1 DEF IndInv, TypeOK, DataType
  <1>3. h[i].pc \in Ending \ {"disable"} /\ "delAd" \in Ending BY <1>1 DEF Ending
  <1>4. CASE Return(i)
    <2>1. ~Writes(i, h[i]) BY <1>1 DEF Writes, Writing, Ensuring
    <2>2. \A u \in Tunnels : Calm(u) BY <1>1, <1>2 DEF Calm
    <2>3. InspectorsBorn' BY <1>1, SameBorn
    <2> QED BY <1>1, <1>4, <2>1, <2>2, <2>3, Returns
  <1>5. CASE Goto(i, [h[i] EXCEPT !.pc = "delAd"])
    <2> DEFINE q == [h[i] EXCEPT !.pc = "delAd"]
    <2>1. Goto(i, q) BY <1>5
    <2>2. q.pc = "delAd" /\ q.t = h[i].t /\ q.lock = h[i].lock BY <1>1, DeleteFields
    <2> HIDE DEF q
    <2> QED BY <1>1, <1>2, <1>3, <2>1, <2>2, DeleteStep
  <1> QED BY <1>4, <1>5 DEF DeleteProxy

\* The advertisement goes.
LEMMA DeleteAdRoute ==
    ASSUME RouteInv, IndInv, IndInv', NEW i \in Procs, DeleteAd(i)
    PROVE  RouteInv'
  <1>1. /\ h[i].pc = "delAd" /\ h[i] \in TaskType
        /\ Goto(i, [h[i] EXCEPT !.pc = "delCheck"])
        /\ ad' = [ad EXCEPT ![h[i].t] = None]
        /\ UNCHANGED <<proxy, born, inspectors, target, running, recTodo>>
    BY TaskTypes DEF DeleteAd, At, disk, mem, todos
  <1>2. \A u \in Tunnels : ad'[u] \in {ad[u], None} BY <1>1 DEF IndInv, TypeOK, DataType
  <1>3. h[i].pc \in Ending \ {"disable"} /\ "delCheck" \in Ending BY <1>1 DEF Ending
  <1> DEFINE q == [h[i] EXCEPT !.pc = "delCheck"]
  <1>4. Goto(i, q) BY <1>1
  <1>5. q.pc = "delCheck" /\ q.t = h[i].t /\ q.lock = h[i].lock BY <1>1, DeleteFields
  <1> HIDE DEF q
  <1> QED BY <1>1, <1>2, <1>3, <1>4, <1>5, DeleteStep

\* The connector is checked for other users.
LEMMA DeleteCheckRoute ==
    ASSUME RouteInv, IndInv, IndInv', NEW i \in Procs, DeleteCheck(i)
    PROVE  RouteInv'
  <1> DEFINE x == IF h[i].conn = None \/ Used(h[i].conn) THEN "delLocal" ELSE "delConn"
  <1>1. /\ h[i].pc = "delCheck" /\ h[i] \in TaskType /\ Goto(i, [h[i] EXCEPT !.pc = x])
        /\ UNCHANGED <<proxy, ad, born, inspectors, target, running, recTodo>>
    BY TaskTypes DEF DeleteCheck, At, cloud, disk, mem, todos
  <1>2. x \in {"delLocal", "delConn"} OBVIOUS
  <1> HIDE DEF x
  <1>3. h[i].pc \in Ending \ {"disable"} /\ x \in Ending BY <1>1, <1>2 DEF Ending
  <1> DEFINE q == [h[i] EXCEPT !.pc = x]
  <1>4. Goto(i, q) BY <1>1
  <1>5. q.pc = x /\ q.t = h[i].t /\ q.lock = h[i].lock BY <1>1, DeleteFields
  <1> HIDE DEF q
  <1> QED BY <1>1, <1>3, <1>4, <1>5, DeleteStep

\* It goes, with the advertisements that name it.
LEMMA DeleteConnRoute ==
    ASSUME RouteInv, IndInv, IndInv', NEW i \in Procs, DeleteConn(i)
    PROVE  RouteInv'
  <1>1. /\ h[i].pc = "delConn" /\ h[i] \in TaskType
        /\ Goto(i, [h[i] EXCEPT !.pc = "delLocal"])
        /\ ad' = WithoutAds({h[i].conn})
        /\ UNCHANGED <<proxy, born, inspectors, target, running, recTodo>>
    BY TaskTypes DEF DeleteConn, At, disk, mem, todos
  <1>2. \A u \in Tunnels : ad'[u] \in {ad[u], None} BY <1>1 DEF WithoutAds
  <1>3. h[i].pc \in Ending \ {"disable"} /\ "delLocal" \in Ending BY <1>1 DEF Ending
  <1> DEFINE q == [h[i] EXCEPT !.pc = "delLocal"]
  <1>4. Goto(i, q) BY <1>1
  <1>5. q.pc = "delLocal" /\ q.t = h[i].t /\ q.lock = h[i].lock BY <1>1, DeleteFields
  <1> HIDE DEF q
  <1> QED BY <1>1, <1>2, <1>3, <1>4, <1>5, DeleteStep

\* The key and the running entry go.
LEMMA DeleteLocalRoute ==
    ASSUME RouteInv, IndInv, IndInv', NEW i \in Procs, DeleteLocal(i)
    PROVE  RouteInv'
  <1>1. /\ h[i].pc = "delLocal" /\ h[i] \in TaskType
        /\ Goto(i, [h[i] EXCEPT !.pc = "delInsp"])
        /\ running' = [running EXCEPT ![h[i].t] = "off"]
        /\ UNCHANGED <<proxy, ad, born, inspectors, target, recTodo>>
    BY TaskTypes DEF DeleteLocal, At, cloud, todos
  <1>2. \A u \in Tunnels : running'[u] \in {running[u], "off"}
    BY <1>1 DEF IndInv, TypeOK, DataType
  <1>3. h[i].pc \in Ending \ {"disable"} /\ "delInsp" \in Ending BY <1>1 DEF Ending
  <1> DEFINE q == [h[i] EXCEPT !.pc = "delInsp"]
  <1>4. Goto(i, q) BY <1>1
  <1>5. q.pc = "delInsp" /\ q.t = h[i].t /\ q.lock = h[i].lock BY <1>1, DeleteFields
  <1> HIDE DEF q
  <1> QED BY <1>1, <1>2, <1>3, <1>4, <1>5, DeleteStep

\* The inspector goes, with its target.
LEMMA DeleteInspectorRoute ==
    ASSUME RouteInv, IndInv, IndInv', NEW i \in Procs, DeleteInspector(i)
    PROVE  RouteInv'
  <1>1. /\ h[i].pc = "delInsp" /\ Return(i)
        /\ inspectors' = [inspectors EXCEPT ![h[i].t] = None]
        /\ target' = [target EXCEPT ![h[i].t] = None]
        /\ UNCHANGED <<proxy, ad, born, running, recTodo>>
    BY DEF DeleteInspector, At, cloud, todos
  <1>2. ~Writes(i, h[i]) BY <1>1 DEF Writes, Writing, Ensuring
  <1>3. \A u \in Tunnels :
            inspectors'[u] = None \/ (inspectors'[u] = inspectors[u] /\ target'[u] = target[u])
    BY <1>1 DEF IndInv, TypeOK, DataType
  <1>4. \A u \in Tunnels : Calm(u) BY <1>1, <1>3 DEF Calm
  <1>5. InspectorsBorn' BY <1>1, <1>3 DEF RouteInv, InspectorsBorn
  <1> QED BY <1>1, <1>2, <1>4, <1>5, Returns

-----------------------------------------------------------------------------
(* Reconciliation, the sweep and the rest.                                 *)

\* Every existing tunnel is listed as it is.
LEMMA MainListRoute ==
    ASSUME RouteInv, IndInv, IndInv', MainList
    PROVE  RouteInv'
  <1> DEFINE q == [Blank EXCEPT !.pc = "next"]
  <1>1. /\ h[Main].pc = "list" /\ At(Main, "list") /\ h' = [h EXCEPT ![Main] = q]
        /\ recTodo' = {[t |-> t, ep |-> proxy[t].ep, on |-> ad[t] # None, old |-> Older(t)] :
                         t \in {u \in Tunnels : proxy[u] # None}}
        /\ UNCHANGED <<proxy, ad, born, inspectors, target, running, busy>>
    BY DEF MainList, Goto, At, cloud, disk, mem
  <1>2. q.pc = "next" /\ q.t = None /\ q.then = "none" BY DEF Blank
  <1> HIDE DEF q
  <1>3. h \in [Procs -> TaskType] /\ Main \in Procs /\ Sweep \in Procs
        /\ Main # Sweep /\ Main \notin Clients /\ Clients \subseteq Procs
    BY TaskTypes, TasksDistinct DEF Procs
  <1>4. h'[Main] = q /\ \A j \in Procs \ {Main} : h'[j] = h[j] BY <1>1, <1>3
  <1>5. ~Writes(Main, h[Main]) /\ ~Writes(Main, q) /\ ~Up /\ ~Up' /\ ~Makes(q)
    BY <1>1, <1>2, <1>4 DEF Writes, Writing, Ensuring, Up, At, Makes
  <1>6. Facts'
    <2>1. ASSUME NEW j \in Procs PROVE FactNext(j, h'[j])
      <3>1. CASE j = Main BY <1>2, <1>4, <1>5, <3>1 DEF Fact, FactNext
      <3>2. CASE j # Main
        <4>1. h'[j] = h[j] /\ h[j] \in TaskType BY <1>3, <1>4, <3>2
        <4>2. Fact(j, h[j], proxy, ad, inspectors, target, running)
          BY DEF RouteInv, Facts
        <4>3. Writes(j, h[j]) => Calm(h[j].t) BY <1>1, TaskTypes, SameCalm DEF Writes
        <4> QED BY <4>1, <4>2, <4>3, CalmFact
      <3> QED BY <3>1, <3>2
    <2> QED BY <2>1 DEF Facts, FactNext
  <1>7. OneWriter' BY <1>4, <1>5 DEF RouteInv, OneWriter
  <1>8. Rest'
    <2>1. ASSUME NEW t \in Tunnels, \A j \in Procs : Writes(j, h'[j]) => h'[j].t # t
          PROVE  proxy[t] = None \/ Intact(proxy, ad, inspectors, target, t)
      BY <1>4, <1>5, <2>1 DEF RouteInv, Rest
    <2> QED BY <1>1, <2>1 DEF Rest, Intact, Whole, AdFits
  <1>9. TasksFit'
    <2>1. \A j \in Clients : ClientOK(h'[j], Up')
      BY <1>3, <1>4, <1>5 DEF RouteInv, TasksFit, ClientOK
    <2>2. SweepOK(h'[Sweep], Up') BY <1>3, <1>4, <1>5 DEF RouteInv, TasksFit, SweepOK
    <2>3. MainOK(h'[Main], running', busy') BY <1>2, <1>4 DEF MainOK
    <2> QED BY <2>1, <2>2, <2>3 DEF TasksFit, ClientOK, SweepOK, MainOK
  <1>10. SoleMaker'
    <2> SUFFICES ASSUME NEW j \in Clients, NEW k \in Procs, j # k, Makes(h'[j]),
                        h'[k].t = h'[j].t
                 PROVE  h'[k].pc \in Ending
      BY DEF SoleMaker
    <2>1. h'[j] = h[j] /\ h[j].t # None BY <1>3, <1>4 DEF Makes
    <2>2. k # Main BY <1>2, <1>4, <2>1
    <2> QED BY <1>4, <2>1, <2>2 DEF RouteInv, SoleMaker
  <1>11. TodoOK'
    <2>1. busy = {} /\ \A t \in Tunnels : running[t] = "off" BY <1>1 DEF RouteInv, TodoOK
    <2> DEFINE Item(t, b, o) == [t |-> t, ep |-> proxy[t].ep, on |-> b, old |-> o]
    <2>2. ASSUME NEW r \in recTodo'
          PROVE  \E t \in Tunnels : /\ r = Item(t, ad[t] # None, Older(t))
                                    /\ r.t = t /\ r.ep = proxy[t].ep
                                    /\ ~r.on => ad[t] = None
      <3>1. PICK t \in Tunnels : r = Item(t, ad[t] # None, Older(t)) BY <1>1, <2>2
      <3>2. r.t = t /\ r.ep = proxy[t].ep /\ r.on = (ad[t] # None) BY <3>1
      <3> QED BY <3>1, <3>2
    <2>3. \A r, s \in recTodo' : r.t = s.t => r = s BY <2>2
    <2>4. ASSUME NEW r \in recTodo'
          PROVE  /\ h'[Main].t # r.t /\ running'[r.t] = "off" /\ r.t \notin busy'
                 /\ proxy'[r.t] # None => proxy'[r.t].ep = r.ep /\ (~r.on => ad'[r.t] = None)
      BY <1>1, <1>2, <1>4, <2>1, <2>2, <2>4, NoneDistinct
    <2> QED BY <1>2, <1>4, <1>5, <2>3, <2>4 DEF TodoOK, At
  <1>12. InspectorsBorn' BY <1>1, SameBorn
  <1> QED BY <1>6, <1>7, <1>8, <1>9, <1>10, <1>11, <1>12 DEF RouteInv

\* An older tunnel is stopped, or left as it is.
LEMMA MainStopOlderRoute ==
    ASSUME RouteInv, IndInv, IndInv', NEW r \in recTodo, MainStopOlder(r)
    PROVE  RouteInv'
  <1>1. /\ h[Main].pc = "next" /\ recTodo' = recTodo \ {r}
        /\ UNCHANGED <<proxy, ad, born, inspectors, target>>
    BY DEF MainStopOlder, At, cloud, disk
  <1>2. Main \in Procs /\ Main # Sweep BY TasksDistinct DEF Procs
  <1>3. r.t \in Tunnels BY DEF IndInv, TypeOK, DataType
  <1>4. ~Up /\ ~Writes(Main, h[Main]) BY <1>1 DEF Up, At, Writes, Writing, Ensuring
  <1>5. \A s \in recTodo' : s.t # r.t BY <1>1 DEF RouteInv, TodoOK
  <1>6. CASE TakeRunning(Main, r.t, FALSE)
    BY <1>1, <1>2, <1>3, <1>4, <1>5, <1>6, Takes
  <1>7. CASE UNCHANGED <<h, busy, running>>
    <2>1. \A u \in Tunnels : Calm(u) BY <1>1, <1>7, SameCalm
    <2>2. InspectorsBorn' BY <1>1, SameBorn
    <2> QED BY <1>1, <1>7, <2>1, <2>2, Stays
  <1> QED BY <1>6, <1>7 DEF MainStopOlder

\* A listed tunnel gets its inspector back, under the port its proxy names or a new one.
LEMMA MainReconcileRoute ==
    ASSUME RouteInv, IndInv, IndInv', NEW r \in recTodo, MainReconcile(r)
    PROVE  RouteInv'
  <1>1. /\ h[Main].pc = "next" /\ recTodo' = recTodo \ {r}
        /\ UNCHANGED <<proxy, ad, born, inspectors, target, running>>
    BY DEF MainReconcile, At, cloud, disk, mem
  <1>2. Main \in Procs /\ Main # Sweep /\ Main \notin Clients BY TasksDistinct DEF Procs
  <1>3. r.t \in Tunnels /\ r.t # None BY NoneDistinct DEF IndInv, TypeOK, DataType
  <1>4. ~Up /\ ~Writes(Main, h[Main]) BY <1>1 DEF Up, At, Writes, Writing, Ensuring
  <1>5. /\ \A s \in recTodo' : s.t # r.t
        /\ running[r.t] = "off" /\ r.t \notin busy
        /\ proxy[r.t] # None => proxy[r.t].ep = r.ep /\ (~r.on => ad[r.t] = None)
    BY <1>1 DEF RouteInv, TodoOK
  <1>6. \A u \in Tunnels : Calm(u) BY <1>1, SameCalm
  <1>7. InspectorsBorn' BY <1>1, SameBorn
  <1>8. CASE UNCHANGED <<h, busy>> BY <1>1, <1>6, <1>7, <1>8, Stays
  <1>9. ASSUME NEW p, Goto(Main, [Blank EXCEPT !.pc = IF p = r.ep THEN "install" ELSE "moveProxy",
                                    !.t = r.t, !.rep = target[r.t], !.insp = p, !.ep = p,
                                    !.after = IF r.on THEN "claim" ELSE "ret"])
        PROVE  RouteInv'
    <2> DEFINE x == IF p = r.ep THEN "install" ELSE "moveProxy"
               a == IF r.on THEN "claim" ELSE "ret"
               q == [Blank EXCEPT !.pc = x, !.t = r.t, !.rep = target[r.t], !.insp = p,
                                  !.ep = p, !.after = a]
    <2>1. h' = [h EXCEPT ![Main] = q] /\ busy' = busy BY <1>9 DEF Goto
    <2>2. q \in TaskType BY <1>2, <2>1, NewTask
    <2>3. /\ (x = "install" /\ p = r.ep) \/ x = "moveProxy"
          /\ a # "claim" => ~r.on
      OBVIOUS
    <2> HIDE DEF x, a
    <2>4. /\ q.pc = x /\ q.t = r.t /\ q.insp = p /\ q.ep = p /\ q.after = a
          /\ q.then = "none" /\ q.lock = FALSE
      BY DEF Blank
    <2> HIDE DEF q
    <2>5. Writes(Main, q) BY <1>3, <2>3, <2>4 DEF Writes, Writing
    <2>6. FactNext(Main, q)
      <3>1. CASE proxy[r.t] = None BY <1>1, <2>3, <2>4, <3>1 DEF FactNext, Fact
      <3>2. CASE proxy[r.t] # None
        BY <1>1, <1>5, <2>3, <2>4, <3>2 DEF FactNext, Fact, Progress, AdFits
      <3> QED BY <3>1, <3>2
    <2>7. \A j \in Procs \ {Main} : ~Writes(j, h[j]) /\ (j \in Clients => ~Makes(h[j]))
      BY <1>4, OnlyMain
    <2>8. MainOK(q, running', busy') BY <1>1, <1>5, <2>1, <2>4 DEF MainOK
    <2>9. q.pc \notin {"list", "idle"} BY <2>3, <2>4
    <2>10. Clients \subseteq Procs BY DEF Procs
    <2>11. Step(Main, q)
      BY <1>1, <1>2, <1>4, <1>5, <1>6, <1>7, <2>1, <2>4, <2>5, <2>6, <2>7, <2>8, <2>9, <2>10
      DEF Step, InspectorsBorn
    <2> QED BY <1>2, <2>2, <2>11, StepOK
  <1> QED BY <1>8, <1>9 DEF MainReconcile

\* A task that goes round its loop, or ends.
LEMMA LoopRoute ==
    ASSUME RouteInv, IndInv, IndInv', NEW i \in {Main, Sweep}, NEW q, Goto(i, q), q.t = None,
           ~Writes(i, h[i]), q.then = "none", q.pc \in {"next", "idle"}, i = Sweep => Up,
           i = Main => q.pc = "idle" /\ recTodo = {},
           UNCHANGED <<proxy, ad, born, inspectors, target, running, recTodo>>
    PROVE  RouteInv'
  <1>1. i \in Procs /\ i \notin Clients /\ Main # Sweep BY TasksDistinct DEF Procs
  <1>2. h' = [h EXCEPT ![i] = q] /\ busy' = busy BY DEF Goto
  <1>3. q \in TaskType BY <1>1, <1>2, NewTask
  <1>4. ~Writes(i, q) BY DEF Writes
  <1>5. \A u \in Tunnels : Calm(u) BY SameCalm
  <1>6. InspectorsBorn' BY SameBorn
  <1>7. SweepOK(q, Up) \/ i = Main BY DEF SweepOK
  <1>8. MainOK(q, running', busy') BY DEF MainOK
  <1> QED BY <1>1, <1>2, <1>3, <1>4, <1>5, <1>6, <1>7, <1>8, Aside

\* Reconciliation is over.
LEMMA MainServeRoute ==
    ASSUME RouteInv, IndInv, IndInv', MainServe
    PROVE  RouteInv'
  <1>1. /\ h[Main].pc = "next" /\ recTodo = {} /\ Goto(Main, Blank)
        /\ UNCHANGED <<proxy, ad, born, inspectors, target, running, recTodo>>
    BY DEF MainServe, At, cloud, disk, mem, todos
  <1>2. ~Writes(Main, h[Main]) BY <1>1 DEF Writes, Writing, Ensuring
  <1>3. Blank.pc = "idle" /\ Blank.t = None /\ Blank.then = "none" BY DEF Blank
  <1> QED BY <1>1, <1>2, <1>3, TasksDistinct, LoopRoute

\* The sweep writes no route, and works only once the daemon is up.
LEMMA SweepRoute ==
    ASSUME RouteInv, IndInv, IndInv',
           SweepSnapshot \/ SweepDone \/ \E t \in sweepTodo : SweepStop(t)
    PROVE  RouteInv'
  <1>1. ~Writes(Sweep, h[Sweep]) BY SweepWritesNot
  <1>2. SweepOK(h[Sweep], Up) /\ Sweep \in Procs /\ Sweep # Main
    BY TasksDistinct DEF RouteInv, TasksFit, Procs
  <1>3. CASE SweepSnapshot
    <2>1. /\ Up /\ Goto(Sweep, [Blank EXCEPT !.pc = "next"])
          /\ UNCHANGED <<proxy, ad, born, inspectors, target, running, recTodo>>
      BY <1>3 DEF SweepSnapshot, cloud, disk, mem
    <2> DEFINE q == [Blank EXCEPT !.pc = "next"]
    <2>2. q.pc = "next" /\ q.t = None /\ q.then = "none" BY DEF Blank
    <2>3. Goto(Sweep, q) BY <2>1
    <2> HIDE DEF q
    <2> QED BY <1>1, <1>2, <2>1, <2>2, <2>3, LoopRoute
  <1>4. CASE SweepDone
    <2>1. /\ h[Sweep].pc = "next" /\ Goto(Sweep, Blank)
          /\ UNCHANGED <<proxy, ad, born, inspectors, target, running, recTodo>>
      BY <1>4 DEF SweepDone, At, cloud, disk, mem, todos
    <2>2. Up BY <1>2, <2>1 DEF SweepOK
    <2>3. Blank.pc = "idle" /\ Blank.t = None /\ Blank.then = "none" BY DEF Blank
    <2> QED BY <1>1, <1>2, <2>1, <2>2, <2>3, LoopRoute
  <1>5. CASE \E t \in sweepTodo : SweepStop(t)
    <2>1. PICK t \in sweepTodo : SweepStop(t) BY <1>5
    <2>2. /\ h[Sweep].pc = "next" /\ t \in Tunnels
          /\ UNCHANGED <<proxy, ad, born, inspectors, target, recTodo>>
      BY <2>1 DEF SweepStop, At, cloud, disk, IndInv, TypeOK, DataType
    <2>3. Up BY <1>2, <2>2 DEF SweepOK
    <2>4. CASE TakeRunning(Sweep, t, FALSE) BY <1>1, <1>2, <2>2, <2>3, <2>4, Takes
    <2>5. CASE UNCHANGED <<h, busy, running>>
      <3>1. \A u \in Tunnels : Calm(u) BY <2>2, <2>5, SameCalm
      <3>2. InspectorsBorn' BY <2>2, SameBorn
      <3> QED BY <2>2, <2>5, <3>1, <3>2, Stays
    <2> QED BY <2>1, <2>4, <2>5 DEF SweepStop
  <1> QED BY <1>3, <1>4, <1>5

\* A tunnel's time is up.
LEMMA ExpireRoute ==
    ASSUME RouteInv, IndInv, IndInv', NEW t \in Tunnels, Expire(t)
    PROVE  RouteInv'
  <1>1. /\ running[t] = "fresh" /\ running' = [running EXCEPT ![t] = "old"]
        /\ UNCHANGED <<proxy, ad, born, inspectors, target, recTodo, h, busy>>
    BY DEF Expire, cloud, disk, todos
  <1>2. \A u \in Tunnels : running'[u] # "off" => running[u] # "off"
    BY <1>1 DEF IndInv, TypeOK, DataType
  <1>3. \A u \in Tunnels : Calm(u) BY <1>1, <1>2 DEF Calm
  <1>4. InspectorsBorn' BY <1>1, SameBorn
  <1> QED BY <1>1, <1>3, <1>4, Stays

\* A crash leaves no inspector, so no route leads anywhere.
LEMMA CrashRoute ==
    ASSUME RouteInv, IndInv, IndInv', Crash
    PROVE  RouteInv'
  <1>1. /\ running' = [t \in Tunnels |-> "off"] /\ inspectors' = [t \in Tunnels |-> None]
        /\ busy' = {} /\ recTodo' = {}
        /\ h' = [i \in Procs |-> IF i = Main THEN [Blank EXCEPT !.pc = "list"] ELSE Blank]
    BY DEF Crash
  <1>2. Main \in Procs /\ Sweep \in Procs /\ Main # Sweep /\ Clients \subseteq Procs
        /\ Main \notin Clients
    BY TasksDistinct DEF Procs
  <1>3. \A j \in Procs : /\ h'[j].t = None /\ h'[j].then = "none"
                         /\ h'[j].pc = IF j = Main THEN "list" ELSE "idle"
    BY <1>1 DEF Blank
  <1>4. \A j \in Procs : ~Writes(j, h'[j]) /\ ~Makes(h'[j]) BY <1>3 DEF Writes, Makes
  <1>5. Facts' /\ OneWriter' /\ SoleMaker'
    BY <1>2, <1>3, <1>4 DEF Facts, Fact, OneWriter, SoleMaker
  <1>6. Rest' /\ InspectorsBorn' BY <1>1 DEF Rest, Intact, InspectorsBorn
  <1>7. TasksFit'
    <2>1. ASSUME NEW j \in Clients PROVE ClientOK(h'[j], Up')
      BY <1>2, <1>3 DEF ClientOK, Writing, Ensuring
    <2>2. SweepOK(h'[Sweep], Up') BY <1>2, <1>3 DEF SweepOK
    <2>3. MainOK(h'[Main], running', busy') BY <1>2, <1>3 DEF MainOK
    <2> QED BY <2>1, <2>2, <2>3 DEF TasksFit, ClientOK, SweepOK, MainOK
  <1>8. TodoOK' BY <1>1, <1>2, <1>3 DEF TodoOK
  <1> QED BY <1>5, <1>6, <1>7, <1>8 DEF RouteInv

\* There is no route to begin with.
LEMMA RouteInit ==
    ASSUME Init
    PROVE  RouteInv
  <1>1. /\ inspectors = [t \in Tunnels |-> None] /\ proxy = [t \in Tunnels |-> None]
        /\ h = [i \in Procs |-> Blank] /\ recTodo = {} /\ busy = {}
        /\ running = [t \in Tunnels |-> "off"]
    BY DEF Init
  <1>2. Main \in Procs /\ Sweep \in Procs /\ Clients \subseteq Procs BY DEF Procs
  <1>3. \A j \in Procs : h[j].t = None /\ h[j].then = "none" /\ h[j].pc = "idle"
    BY <1>1 DEF Blank
  <1>4. \A j \in Procs : ~Writes(j, h[j]) /\ ~Makes(h[j]) BY <1>3 DEF Writes, Makes
  <1>5. Facts /\ OneWriter /\ SoleMaker
    BY <1>2, <1>3, <1>4 DEF Facts, Fact, OneWriter, SoleMaker
  <1>6. Rest /\ InspectorsBorn BY <1>1 DEF Rest, InspectorsBorn
  <1>7. TasksFit
    BY <1>2, <1>3 DEF TasksFit, ClientOK, SweepOK, MainOK, Writing, Ensuring
  <1>8. TodoOK BY <1>1, <1>2, <1>3 DEF TodoOK
  <1> QED BY <1>5, <1>6, <1>7, <1>8 DEF RouteInv

-----------------------------------------------------------------------------
(* The theorem.                                                            *)

\* Every step keeps the invariant.
LEMMA RouteStep ==
    ASSUME RouteInv, IndInv, IndInv', [Next]_vars,
           MaxFaults = 0, AwaitCreate, ResumeHasQuota
    PROVE  RouteInv'
  <1>1. CASE UNCHANGED vars
    <2>1. \A u \in Tunnels : Calm(u) BY <1>1, SameCalm DEF vars
    <2>2. InspectorsBorn' BY <1>1, SameBorn DEF vars
    <2> QED BY <1>1, <2>1, <2>2, Stays DEF vars
  <1>2. ASSUME NEW i \in Clients, Request(i) PROVE RouteInv'
    BY <1>2, CreateRequestRoute, StartRequestRoute, StopRequestRoute, DeleteRequestRoute,
       RemoveRequestRoute
    DEF Request
  <1>3. ASSUME NEW i \in Procs, Task(i) PROVE RouteInv'
    <2>1. CASE Ensure(i)
      BY <2>1, FindConnectorRoute, MakeConnectorRoute, OverQuotaRoute, PatchConnectorRoute
      DEF Ensure
    <2>2. CASE Create(i) BY <2>2, CreateProxyRoute, CreateAdRoute DEF Create
    <2>3. CASE Start(i)
      BY <2>3, StartClaimRoute, StartLookRoute, StartKeyRoute, UpdateProxyRoute,
         UpdateAdRoute, CleanReadRoute, CleanDeleteRoute, MoveProxyRoute, MoveAdRoute,
         InstallInspectorRoute, EnableGetRoute, EnableGoneRoute, EnablePatchRoute,
         EnableAdRoute, StartInsertRoute
      DEF Start
    <2>4. CASE Disable(i) BY <2>4, DisableRoute
    <2>5. CASE Delete(i)
      BY <2>5, DeleteLookRoute, DeleteProxyRoute, DeleteAdRoute, DeleteCheckRoute,
         DeleteConnRoute, DeleteLocalRoute, DeleteInspectorRoute
      DEF Delete
    <2> QED BY <1>3, <2>1, <2>2, <2>3, <2>4, <2>5 DEF Task
  <1>4. ASSUME NEW i \in Procs, Fail(i) \/ CleanFails(i) PROVE FALSE
    <2>1. faults \in Nat /\ faults < MaxFaults
      BY <1>4 DEF Fail, CleanFails, IndInv, TypeOK, DataType
    <2> QED BY <2>1
  <1>5. CASE Reconcile
    BY <1>5, MainListRoute, MainServeRoute, MainStopOlderRoute, MainReconcileRoute
    DEF Reconcile
  <1>6. CASE SweepTask BY <1>6, SweepRoute DEF SweepTask
  <1>7. CASE Crash BY <1>7, CrashRoute
  <1>8. ASSUME NEW t \in Tunnels, Expire(t) PROVE RouteInv' BY <1>8, ExpireRoute
  <1> QED BY <1>1, <1>2, <1>3, <1>4, <1>5, <1>6, <1>7, <1>8 DEF Next

\* A route of a tunnel that nothing is in flight for is whole.
LEMMA QuietIntact == RouteInv => RouteIntact
  <1> SUFFICES ASSUME RouteInv, NEW t \in Tunnels, Quiet(t), proxy[t] # None,
                      inspectors[t] # None
               PROVE  /\ proxy[t].ep = inspectors[t].port
                      /\ target[t] = inspectors[t].target
                      /\ ad[t] # None => ad[t].ep = proxy[t].ep
    BY DEF RouteIntact
  <1>1. \A i \in Procs : Writes(i, h[i]) => h[i].t # t BY DEF Quiet
  <1>2. Intact(proxy, ad, inspectors, target, t) BY <1>1 DEF RouteInv, Rest
  <1> QED BY <1>2 DEF Intact, Whole, AdFits

\* The invariant holds as long as the quota does.
THEOREM RouteInvariance ==
    MaxFaults = 0 /\ AwaitCreate /\ Spec /\ []ResumeHasQuota => []RouteInv
  <1> SUFFICES ASSUME MaxFaults = 0, AwaitCreate
               PROVE  Spec /\ []ResumeHasQuota => []RouteInv
    OBVIOUS
  <1>1. Init => RouteInv BY RouteInit
  <1>2. RouteInv /\ IndInv /\ IndInv' /\ [Next]_vars /\ ResumeHasQuota => RouteInv'
    BY RouteStep
  <1>3. Spec => []IndInv BY Invariance
  <1> QED BY <1>1, <1>2, <1>3, PTL DEF Spec

\* The public route of a tunnel that nothing is in flight for is whole, for any number
\* of tunnels, clients, ports, targets and crashes: proxy and advertisement name the
\* port of the installed inspector, which forwards to the target on file.  No call
\* fails, clients wait for a create to end, and the quota covers every resume.
THEOREM RouteStaysIntact ==
    MaxFaults = 0 /\ AwaitCreate /\ Spec /\ []ResumeHasQuota => []RouteIntact
  BY RouteInvariance, QuietIntact, PTL

-----------------------------------------------------------------------------
(* What runs exists, and can be reached.                                   *)

\* A start that has looked.
Starts(r) ==
    \/ r.pc \in {"key", "updProxy", "updAd", "cleanRefs", "cleanList", "cleanDel",
                 "enGet", "enPatch", "enAd", "insert"}
    \/ r.then \in {"updProxy", "enPatch"}
    \/ r.pc \in {"moveProxy", "moveAd", "install"} /\ r.after = "enGet"

\* The first assumption: no delete, and no Remove of a tunnel that was found off, is
\* under way for a tunnel that is being started.
DeletesApart ==
    \A i, j \in Procs : h[i].pc \in Removing /\ Starts(h[j]) => h[i].t # h[j].t

\* A start is about to write the connector into its tunnel's proxy.
InHand(i, c) ==
    /\ h[i].conn = c
    /\ h[i].pc = "enPatch" \/ (h[i].pc = "patchConn" /\ h[i].then = "enPatch")

\* The second assumption: a step deletes no connector that a proxy names, or that a
\* start is about to write into one.
ConnectorsSpared ==
    \A c \in Conns : Exists(c) /\ (Used(c) \/ \E i \in Procs : InHand(i, c)) => conn'[c] # None

\* What a task may count on for the tunnel it has reserved: a start, that it is off and
\* exists; its cleanup, that the proxy names the connector it has written, which is not
\* among those it deletes.
Counts(r, px, run) ==
    /\ Starts(r) \/ r.pc \in {"look", "disable"} => r.lock
    /\ Starts(r) \/ r.pc = "disable" => run[r.t] = "off"
    /\ Starts(r) => px[r.t] # None
    /\ r.pc \in {"updAd", "cleanRefs", "cleanList", "cleanDel"} => px[r.t].conn = r.conn
    /\ r.pc = "cleanList" => r.conn \in r.drop
    /\ r.pc = "cleanDel" => r.conn \notin r.drop

\* The steps of a delete from the end of the proxy to the end of the running entry.
Halfway == {"delAd", "delCheck", "delConn", "delLocal"}

GoesOff(t) == \E i \in Procs : h[i].t = t /\ h[i].pc \in Halfway

\* The invariant under the first assumption: what runs exists, or is being deleted.
ExistsInv ==
    /\ \A i \in Procs : Counts(h[i], proxy, running)
    /\ \A t \in Tunnels : running[t] # "off" => proxy[t] # None \/ GoesOff(t)

\* The connector a start has found or made, and how far it is written.
Holds(r, px, ads, cn) ==
    /\ r.pc = "find" /\ r.then = "enPatch" => r.conn = px[r.t].conn
    /\ r.pc = "patchConn" /\ r.then = "enPatch" => cn[r.conn] = Nobody /\ r.dirty
    /\ r.pc = "enPatch" => cn[r.conn] = r.t /\ (~r.dirty => px[r.t].conn = r.conn)
    /\ r.pc \in {"enAd", "insert"} => cn[r.conn] = r.t /\ px[r.t].conn = r.conn
    /\ r.pc = "insert" => ads[r.t] # None /\ ads[r.t].conn = r.conn

\* A connector is nobody's until the task that made it has patched it.
NewIsOwn ==
    /\ \A i \in Procs : At(i, "patchConn") => conn[h[i].conn] \in {Nobody, None}
    /\ \A i, j \in Procs :
          At(i, "patchConn") /\ At(j, "patchConn") /\ h[i].conn = h[j].conn => i = j

\* What RunningBacked says of a tunnel.
Backed(t, ks, px, ads, cn) ==
    /\ ks[t] /\ px[t] # None /\ ads[t] # None
    /\ px[t].conn = ads[t].conn /\ cn[px[t].conn] = t

\* The invariant under both: what runs is backed, or is being deleted.
BackedInv ==
    /\ \A i \in Procs : Holds(h[i], proxy, ad, conn)
    /\ NewIsOwn
    /\ \A t \in Tunnels :
          running[t] # "off" => Backed(t, key, proxy, ad, conn) \/ GoesOff(t)

-----------------------------------------------------------------------------
(* What a step owes to the other tasks.                                    *)

\* A step that takes nothing from a tunnel, except an advertisement whose connector goes,
\* and does not set it running.
Kept(t) ==
    /\ proxy'[t] = None <=> proxy[t] = None
    /\ proxy[t] # None => proxy'[t].conn = proxy[t].conn
    /\ running'[t] # "off" => running[t] # "off"
    /\ key[t] => key'[t]
    /\ ad[t] # None =>
          conn'[ad[t].conn] = None \/ (ad'[t] # None /\ ad'[t].conn = ad[t].conn)

\* The tunnel a task may change: the one it starts, disables or deletes, or creates.
Own(i, t) ==
    \/ t \notin born
    \/ t = h[i].t /\ (Starts(h[i]) \/ h[i].pc \in {"disable"} \cup Removing)

\* The new state of a tunnel that is changed.
Settled(q, t) ==
    \/ running'[t] = "off"
    \/ q.t = t /\ q.pc \in Halfway
    \/ proxy'[t] # None /\ (BackedInv => Backed(t, key', proxy', ad', conn'))

\* A connector is made, patched by its maker, or deleted.
ConnMoves(i) == \A c \in Conns :
    \/ conn'[c] \in {conn[c], None}
    \/ conn[c] = None /\ conn'[c] = Nobody
    \/ h[i].pc = "patchConn" /\ c = h[i].conn

\* What is asked of a step in which the task `i` gets the record `q`.
Respects(i, q) ==
    /\ h' = [h EXCEPT ![i] = q]
    /\ \A t \in Tunnels : Kept(t) \/ (Own(i, t) /\ Settled(q, t))
    /\ \A t \in Tunnels : running'[t] # "off" =>
          running[t] # "off" \/ (t = h[i].t /\ Starts(h[i]))
    /\ h[i].pc \in Halfway => running'[h[i].t] = "off" \/ (q.t = h[i].t /\ q.pc \in Halfway)
    /\ ConnMoves(i)
    /\ Counts(q, proxy', running')
    /\ BackedInv => Holds(q, proxy', ad', conn')
    /\ q.pc = "patchConn" => /\ conn'[q.conn] \in {Nobody, None}
                             /\ \A j \in Procs \ {i} : h[j].conn # q.conn

\* The two invariants go on.
Onward == ExistsInv' /\ (BackedInv /\ ConnectorsSpared => BackedInv')

\* What a start or a disable of another task changes is no start's tunnel.
LEMMA StartsAlone ==
    ASSUME ExistsInv, IndInv, DeletesApart, NEW i \in Procs, NEW j \in Procs, i # j,
           Starts(h[j])
    PROVE  h[j].t \in Tunnels /\ h[j].lock /\ ~Own(i, h[j].t)
  <1>1. h[j].lock /\ h[j].t # None /\ h[j].t \in Tunnels /\ h[j].t \in born
    BY TaskTypes DEF ExistsInv, Counts, TaskOK
  <1>2. h[i].t = h[j].t => ~h[i].lock BY <1>1 DEF IndInv, BusyExclusion
  <1>3. Starts(h[i]) \/ h[i].pc = "disable" => h[i].lock BY DEF ExistsInv, Counts
  <1>4. h[i].pc \in Removing => h[i].t # h[j].t BY DEF DeletesApart
  <1> QED BY <1>1, <1>2, <1>3, <1>4 DEF Own

\* A tunnel that is being deleted goes on being deleted, or is off.
LEMMA StillGoesOff ==
    ASSUME IndInv, NEW i \in Procs, NEW q, Respects(i, q), NEW t \in Tunnels, GoesOff(t)
    PROVE  GoesOff(t)' \/ running'[t] = "off"
  <1>1. h'[i] = q /\ \A j \in Procs \ {i} : h'[j] = h[j]
    BY DEF Respects, IndInv, TypeOK
  <1>2. PICK j \in Procs : h[j].t = t /\ h[j].pc \in Halfway BY DEF GoesOff
  <1>3. CASE j = i BY <1>1, <1>2, <1>3 DEF Respects, GoesOff
  <1>4. CASE j # i BY <1>1, <1>2, <1>4 DEF GoesOff
  <1> QED BY <1>3, <1>4

\* What a start counts on stays so.
LEMMA StepExists ==
    ASSUME ExistsInv, IndInv, DeletesApart, NEW i \in Procs, NEW q, Respects(i, q)
    PROVE  ExistsInv'
  <1>1. h'[i] = q /\ \A j \in Procs \ {i} : h'[j] = h[j]
    BY DEF Respects, IndInv, TypeOK
  <1>2. ASSUME NEW j \in Procs PROVE Counts(h'[j], proxy', running')
    <2>1. CASE j = i BY <1>1, <2>1 DEF Respects
    <2>2. CASE j # i
      <3>1. h'[j] = h[j] /\ Counts(h[j], proxy, running) BY <1>1, <2>2 DEF ExistsInv
      <3>2. running \in [Tunnels -> {"off", "fresh", "old"}] BY DEF IndInv, TypeOK, DataType
      <3>3. CASE Starts(h[j])
        <4>1. h[j].t \in Tunnels /\ ~Own(i, h[j].t) BY <2>2, <3>3, StartsAlone
        <4>2. Kept(h[j].t) BY <4>1 DEF Respects
        <4> QED BY <3>1, <3>3, <4>2 DEF Counts, Kept
      <3>4. CASE ~Starts(h[j]) /\ h[j].pc = "disable"
        <4>1. h[j].lock /\ h[j].t \in Tunnels /\ running[h[j].t] = "off"
          BY <3>1, <3>4, TaskTypes DEF Counts, TaskOK
        <4>2. Starts(h[i]) => h[i].lock BY DEF ExistsInv, Counts
        <4>3. ~(Starts(h[i]) /\ h[i].t = h[j].t)
          BY <2>2, <4>1, <4>2 DEF IndInv, BusyExclusion
        <4>4. running'[h[j].t] = "off" BY <4>1, <4>3 DEF Respects
        <4> QED BY <3>1, <3>4, <4>4 DEF Counts, Starts
      <3>5. CASE ~Starts(h[j]) /\ h[j].pc # "disable"
        BY <3>1, <3>5 DEF Counts, Starts
      <3> QED BY <3>3, <3>4, <3>5
    <2> QED BY <2>1, <2>2
  <1>3. ASSUME NEW t \in Tunnels, running'[t] # "off" PROVE proxy'[t] # None \/ GoesOff(t)'
    <2>1. CASE Kept(t)
      <3>1. proxy[t] # None \/ GoesOff(t) BY <1>3, <2>1 DEF Kept, ExistsInv
      <3> QED BY <1>3, <2>1, <3>1, StillGoesOff DEF Kept
    <2>2. CASE Settled(q, t) BY <1>1, <1>3, <2>2 DEF Settled, GoesOff
    <2> QED BY <2>1, <2>2 DEF Respects
  <1> QED BY <1>2, <1>3 DEF ExistsInv

\* A connector that is a tunnel's stays so while it is spared.
LEMMA ConnStays ==
    ASSUME ExistsInv, BackedInv, ConnectorsSpared, NEW i \in Procs, ConnMoves(i),
           NEW c \in Conns, Used(c) \/ \E j \in Procs : InHand(j, c),
           conn[c] \in Tunnels
    PROVE  conn'[c] = conn[c]
  <1>1. conn[c] \notin {None, Nobody} BY NoneDistinct, IdentitiesDistinct
  <1>2. conn'[c] # None BY <1>1 DEF ConnectorsSpared, Exists
  <1>3. ~(h[i].pc = "patchConn" /\ c = h[i].conn) BY <1>1 DEF BackedInv, NewIsOwn, At
  <1> QED BY <1>1, <1>2, <1>3 DEF ConnMoves

\* What runs stays backed.
LEMMA StepBacked ==
    ASSUME ExistsInv, BackedInv, IndInv, DeletesApart, ConnectorsSpared, NEW i \in Procs,
           NEW q, Respects(i, q)
    PROVE  BackedInv'
  <1>0. /\ proxy \in [Tunnels -> Backend \cup {None}]
        /\ ad \in [Tunnels -> Backend \cup {None}]
        /\ \A t \in Tunnels : proxy[t] # None => proxy[t].conn \in Conns
        /\ Nobody \notin Tunnels \cup {None}
    BY IdentitiesDistinct DEF IndInv, TypeOK, DataType, Backend
  <1>1. h'[i] = q /\ \A j \in Procs \ {i} : h'[j] = h[j]
    BY DEF Respects, IndInv, TypeOK
  <1>2. ConnMoves(i) BY DEF Respects
  <1>3. ASSUME NEW j \in Procs PROVE Holds(h'[j], proxy', ad', conn')
    <2>1. CASE j = i BY <1>1, <2>1 DEF Respects
    <2>2. CASE j # i /\ Starts(h[j])
      <3>1. h'[j] = h[j] /\ Holds(h[j], proxy, ad, conn) BY <1>1, <2>2 DEF BackedInv
      <3>2. h[j].t \in Tunnels /\ ~Own(i, h[j].t) BY <2>2, StartsAlone
      <3>3. Kept(h[j].t) BY <3>2 DEF Respects
      <3>4. proxy[h[j].t] # None BY <2>2 DEF ExistsInv, Counts
      <3>5. proxy'[h[j].t].conn = proxy[h[j].t].conn BY <3>3, <3>4 DEF Kept
      <3>6. h[j].pc \in {"patchConn", "enPatch"} => h[j].conn \in Conns
        BY TaskTypes, NoneDistinct DEF TaskType, TaskOK
      <3>7. CASE h[j].pc = "find" BY <3>1, <3>5, <3>7 DEF Holds
      <3>8. CASE h[j].pc = "patchConn"
        <4> SUFFICES ASSUME h[j].then = "enPatch"
                     PROVE  conn'[h[j].conn] = Nobody /\ h[j].dirty
          BY <3>1, <3>8 DEF Holds
        <4>1. conn[h[j].conn] = Nobody /\ h[j].dirty BY <3>1, <3>8 DEF Holds
        <4>2. InHand(j, h[j].conn) BY <3>8 DEF InHand
        <4>3. conn'[h[j].conn] # None
          BY <1>0, <3>6, <3>8, <4>1, <4>2 DEF ConnectorsSpared, Exists
        <4>4. ~(h[i].pc = "patchConn" /\ h[j].conn = h[i].conn)
          BY <2>2, <3>8 DEF BackedInv, NewIsOwn, At
        <4> QED BY <1>0, <1>2, <3>6, <3>8, <4>1, <4>3, <4>4 DEF ConnMoves
      <3>9. CASE h[j].pc = "enPatch"
        <4>1. InHand(j, h[j].conn) BY <3>9 DEF InHand
        <4>2. conn'[h[j].conn] = conn[h[j].conn]
          BY <1>2, <3>1, <3>2, <3>6, <3>9, <4>1, ConnStays DEF Holds
        <4> QED BY <3>1, <3>5, <3>9, <4>2 DEF Holds
      <3>10. CASE h[j].pc \in {"enAd", "insert"}
        <4>1. Used(h[j].conn) /\ h[j].conn \in Conns
          BY <1>0, <3>1, <3>2, <3>4, <3>10 DEF Holds, Used
        <4>2. conn'[h[j].conn] = h[j].t
          BY <1>2, <3>1, <3>2, <3>10, <4>1, ConnStays DEF Holds
        <4>3. h[j].t # None BY <3>2, NoneDistinct
        <4> QED BY <3>1, <3>3, <3>5, <3>10, <4>2, <4>3 DEF Holds, Kept
      <3> QED BY <3>1, <3>7, <3>8, <3>9, <3>10 DEF Holds
    <2>3. CASE j # i /\ ~Starts(h[j]) BY <1>1, <2>3 DEF Holds, Starts
    <2> QED BY <2>1, <2>2, <2>3
  <1>4. NewIsOwn'
    <2>1. ASSUME NEW j \in Procs, h'[j].pc = "patchConn"
          PROVE  conn'[h'[j].conn] \in {Nobody, None}
      <3>1. CASE j = i BY <1>1, <2>1, <3>1 DEF Respects
      <3>2. CASE j # i
        <4>1. h'[j] = h[j] /\ h[j].conn \in Conns
          BY <1>1, <2>1, <3>2, TaskTypes DEF TaskType, TaskOK
        <4>2. conn[h[j].conn] \in {Nobody, None}
          BY <2>1, <4>1 DEF BackedInv, NewIsOwn, At
        <4>3. ~(h[i].pc = "patchConn" /\ h[j].conn = h[i].conn)
          BY <2>1, <3>2, <4>1 DEF BackedInv, NewIsOwn, At
        <4> QED BY <1>2, <4>1, <4>2, <4>3 DEF ConnMoves
      <3> QED BY <3>1, <3>2
    <2>2. ASSUME NEW j \in Procs, NEW k \in Procs, h'[j].pc = "patchConn",
                 h'[k].pc = "patchConn", h'[j].conn = h'[k].conn, j # k
          PROVE  FALSE
      <3>1. CASE j # i /\ k # i BY <1>1, <2>2, <3>1 DEF BackedInv, NewIsOwn, At
      <3>2. CASE j = i BY <1>1, <2>2, <3>2 DEF Respects
      <3>3. CASE k = i BY <1>1, <2>2, <3>3 DEF Respects
      <3> QED BY <3>1, <3>2, <3>3
    <2> QED BY <2>1, <2>2 DEF NewIsOwn, At
  <1>5. ASSUME NEW t \in Tunnels, running'[t] # "off"
        PROVE  Backed(t, key', proxy', ad', conn') \/ GoesOff(t)'
    <2>1. CASE Kept(t) /\ GoesOff(t) BY <1>5, <2>1, StillGoesOff
    <2>2. CASE Kept(t) /\ ~GoesOff(t)
      <3>1. Backed(t, key, proxy, ad, conn) BY <1>5, <2>2 DEF Kept, BackedInv
      <3>2. proxy[t].conn \in Conns /\ Used(proxy[t].conn) /\ conn[proxy[t].conn] = t
        BY <1>0, <3>1 DEF Backed, Used
      <3>3. conn'[proxy[t].conn] = t BY <1>2, <3>2, ConnStays
      <3>4. t # None BY NoneDistinct
      <3> QED BY <2>2, <3>1, <3>3, <3>4 DEF Kept, Backed
    <2>3. CASE Settled(q, t) BY <1>1, <1>5, <2>3 DEF Settled, GoesOff
    <2> QED BY <2>1, <2>2, <2>3 DEF Respects
  <1> QED BY <1>3, <1>4, <1>5 DEF BackedInv

\* Both invariants.
LEMMA StepOnward ==
    ASSUME ExistsInv, IndInv, DeletesApart, NEW i \in Procs, NEW q, Respects(i, q)
    PROVE  Onward
  BY StepExists, StepBacked DEF Onward

-----------------------------------------------------------------------------
(* Kinds of steps.                                                         *)

\* A step that leaves the control plane and the running entries alone keeps every tunnel.
LEMMA SameKept ==
    ASSUME UNCHANGED <<proxy, ad, conn, running>>, \A t \in Tunnels : key[t] => key'[t]
    PROVE  (\A t \in Tunnels : Kept(t)) /\ \A i : ConnMoves(i)
  BY DEF Kept, ConnMoves

\* Whoever starts and disables nothing counts on nothing.
LEMMA FreeTask ==
    ASSUME NEW q, ~Starts(q), q.pc \notin {"look", "disable"}, NEW px, NEW ads, NEW cn, NEW run
    PROVE  Counts(q, px, run) /\ Holds(q, px, ads, cn)
  BY DEF Counts, Holds, Starts

\* A task that reads, decides or waits.
LEMMA ReadsOnward ==
    ASSUME ExistsInv, IndInv, DeletesApart, NEW i \in Procs, NEW q, h' = [h EXCEPT ![i] = q],
           UNCHANGED <<proxy, ad, conn, running>>, \A t \in Tunnels : key[t] => key'[t],
           h[i].pc \in Halfway => q.t = h[i].t /\ q.pc \in Halfway, q.pc # "patchConn",
           Counts(q, proxy, running), BackedInv => Holds(q, proxy, ad, conn)
    PROVE  Onward
  <1>1. (\A t \in Tunnels : Kept(t)) /\ ConnMoves(i) BY SameKept
  <1>2. Respects(i, q) BY <1>1 DEF Respects
  <1> QED BY <1>2, StepOnward

\* Where a task goes when its function returns.
LEMMA ContinueFree ==
    ASSUME NEW i
    PROVE  /\ ~Starts(Continue(i)) /\ Continue(i).pc \in {"next", "idle", "delLook"}
  <1>1. CASE i \in {Main, Sweep}
    <2>1. Continue(i) = [Blank EXCEPT !.pc = "next"] BY <1>1 DEF Continue
    <2> QED BY <2>1 DEF Blank, Starts
  <1>2. CASE i \notin {Main, Sweep} /\ h[i].rm
    <2>1. Continue(i) = [Blank EXCEPT !.pc = "delLook", !.t = h[i].t] BY <1>2 DEF Continue
    <2> QED BY <2>1 DEF Blank, Starts
  <1>3. CASE i \notin {Main, Sweep} /\ ~h[i].rm
    <2>1. Continue(i) = Blank BY <1>3 DEF Continue
    <2> QED BY <2>1 DEF Blank, Starts
  <1> QED BY <1>1, <1>2, <1>3

\* A task whose function returns leaves its tunnel settled.
LEMMA ReturnOnward ==
    ASSUME ExistsInv, IndInv, DeletesApart, NEW i \in Procs, Return(i), h[i].pc \notin Halfway,
           UNCHANGED conn,
           \A t \in Tunnels : Kept(t) \/ (Own(i, t) /\ Settled(Continue(i), t)),
           \A t \in Tunnels : running'[t] # "off" =>
               running[t] # "off" \/ (t = h[i].t /\ Starts(h[i]))
    PROVE  Onward
  <1>1. h' = [h EXCEPT ![i] = Continue(i)] BY DEF Return, Leave
  <1>2. /\ ~Starts(Continue(i)) /\ Continue(i).pc \notin {"look", "disable", "patchConn"}
    BY ContinueFree
  <1>3. Respects(i, Continue(i)) BY <1>1, <1>2, FreeTask DEF Respects, ConnMoves
  <1> QED BY <1>3, StepOnward

\* A return that changes nothing.
LEMMA JustReturns ==
    ASSUME ExistsInv, IndInv, DeletesApart, NEW i \in Procs, Return(i), h[i].pc \notin Halfway,
           UNCHANGED <<proxy, ad, conn, running, key>>
    PROVE  Onward
  BY ReturnOnward, SameKept

\* What is known of a start.
LEMMA StartHere ==
    ASSUME ExistsInv, IndInv, NEW i \in Procs, Starts(h[i])
    PROVE  /\ h[i] \in TaskType /\ h[i].t \in Tunnels /\ h[i].t # None /\ h[i].lock
           /\ running[h[i].t] = "off" /\ proxy[h[i].t] # None /\ proxy[h[i].t] \in Backend
           /\ h[i].pc \notin Halfway /\ Own(i, h[i].t)
  <1>1. /\ h[i] \in TaskType /\ h[i].t \in Tunnels /\ h[i].t # None /\ h[i].lock
        /\ running[h[i].t] = "off" /\ proxy[h[i].t] # None
        /\ h[i].then = "none" \/ h[i].pc \in Ensuring
    BY TaskTypes DEF ExistsInv, Counts, TaskOK
  <1>2. proxy[h[i].t] \in Backend BY <1>1 DEF IndInv, TypeOK, DataType
  <1>3. h[i].pc \notin Halfway BY <1>1 DEF Starts, Halfway, Ensuring
  <1> QED BY <1>1, <1>2, <1>3 DEF Own

-----------------------------------------------------------------------------
(* ensure_connector and create_tunnel.                                     *)

\* What is found is the tunnel's own.
LEMMA FindConnectorOn ==
    ASSUME ExistsInv, IndInv, DeletesApart, NEW i \in Procs, FindConnector(i)
    PROVE  Onward
  <1>1. /\ h[i] \in TaskType /\ h[i].pc = "find" /\ UNCHANGED <<proxy, ad, conn, running, key>>
        /\ h[i].then \in {"crProxy", "updProxy", "enPatch"} /\ h[i].pc \notin Halfway
    BY TaskTypes DEF FindConnector, At, cloud, disk, mem, TaskType, TaskOK, Ensuring, Halfway
  <1>2. CASE Goto(i, [h[i] EXCEPT !.pc = "mkConn"])
    <2> DEFINE q == [h[i] EXCEPT !.pc = "mkConn"]
    <2>1. /\ q.pc = "mkConn" /\ q.t = h[i].t /\ q.lock = h[i].lock /\ q.then = h[i].then
          /\ h' = [h EXCEPT ![i] = q]
      BY <1>1, <1>2 DEF TaskType, Goto
    <2> HIDE DEF q
    <2>2. Counts(q, proxy, running) BY <1>1, <2>1 DEF ExistsInv, Counts, Starts
    <2>3. Holds(q, proxy, ad, conn) BY <2>1 DEF Holds
    <2> QED BY <1>1, <2>1, <2>2, <2>3, ReadsOnward
  <1>3. ASSUME NEW c \in Conns, conn[c] = Identity(i),
               Goto(i, [h[i] EXCEPT !.pc = h[i].then, !.then = "none", !.conn = c,
                                    !.dirty = h[i].conn # c])
        PROVE  Onward
    <2> DEFINE d == h[i].conn # c
               q == [h[i] EXCEPT !.pc = h[i].then, !.then = "none", !.conn = c, !.dirty = d]
    <2>1. h' = [h EXCEPT ![i] = q] /\ (~d => h[i].conn = c) BY <1>3 DEF Goto
    <2> HIDE DEF d
    <2>2. /\ q.pc = h[i].then /\ q.then = "none" /\ q.t = h[i].t /\ q.lock = h[i].lock
          /\ q.conn = c /\ q.dirty = d
      BY <1>1 DEF TaskType
    <2> HIDE DEF q
    <2>3. CASE h[i].then = "crProxy"
      <3>1. ~Starts(q) BY <2>2, <2>3 DEF Starts
      <3> QED BY <1>1, <2>1, <2>2, <2>3, <3>1, FreeTask, ReadsOnward
    <2>4. CASE h[i].then \in {"updProxy", "enPatch"}
      <3>1. Starts(h[i]) BY <2>4 DEF Starts
      <3>2. Counts(q, proxy, running)
        BY <1>1, <2>2, <2>4, <3>1, StartHere DEF Counts, Starts
      <3>3. conn[c] = h[i].t BY <1>3, <3>1, StartHere DEF Identity
      <3>4. BackedInv => Holds(q, proxy, ad, conn)
        BY <1>1, <2>1, <2>2, <2>4, <3>3 DEF BackedInv, Holds
      <3> QED BY <1>1, <2>1, <2>2, <2>4, <3>2, <3>4, ReadsOnward
    <2> QED BY <1>1, <2>3, <2>4
  <1> QED BY <1>2, <1>3 DEF FindConnector

\* A new connector is nobody's.
LEMMA MakeConnectorOn ==
    ASSUME ExistsInv, IndInv, DeletesApart, NEW i \in Procs, NEW c \in Conns,
           MakeConnector(i, c)
    PROVE  Onward
  <1> DEFINE q == [h[i] EXCEPT !.pc = "patchConn", !.conn = c, !.dirty = TRUE]
  <1>1. /\ h[i] \in TaskType /\ h[i].pc = "mkConn" /\ UNCHANGED <<proxy, ad, running, key>>
        /\ h' = [h EXCEPT ![i] = q] /\ conn' = [conn EXCEPT ![c] = Nobody] /\ Fresh(c)
        /\ conn \in [Conns -> Identities \cup {None}]
    BY TaskTypes
    DEF MakeConnector, Goto, At, disk, mem, IndInv, TypeOK, DataType
  <1>2. /\ q.pc = "patchConn" /\ q.t = h[i].t /\ q.lock = h[i].lock /\ q.then = h[i].then
        /\ q.conn = c /\ q.dirty = TRUE
    BY <1>1 DEF TaskType
  <1> HIDE DEF q
  <1>3. conn'[c] = Nobody /\ conn[c] = None /\ \A d \in Conns \ {c} : conn'[d] = conn[d]
    BY <1>1 DEF Fresh, Exists
  <1>4. ConnMoves(i) BY <1>3 DEF ConnMoves
  <1>5. \A t \in Tunnels : Kept(t) BY <1>1, <1>3 DEF Kept, Fresh
  <1>6. Counts(q, proxy, running) BY <1>1, <1>2 DEF ExistsInv, Counts, Starts
  <1>7. Holds(q, proxy', ad', conn') BY <1>2, <1>3 DEF Holds
  <1>8. \A j \in Procs : h[j].conn # c BY <1>1 DEF Fresh
  <1>9. h[i].pc \notin Halfway BY <1>1 DEF Halfway
  <1>10. Respects(i, q)
    BY <1>1, <1>2, <1>3, <1>4, <1>5, <1>6, <1>7, <1>8, <1>9 DEF Respects
  <1> QED BY <1>10, StepOnward

\* Its maker makes it the tunnel's, or the control node's.
LEMMA PatchConnectorOn ==
    ASSUME ExistsInv, IndInv, DeletesApart, MaxFaults = 0, NEW i \in Procs, PatchConnector(i)
    PROVE  Onward
  <1> DEFINE q == [h[i] EXCEPT !.pc = h[i].then, !.then = "none"]
  <1>0. ~(faults < MaxFaults) BY DEF IndInv, TypeOK, DataType
  <1>1. /\ h[i] \in TaskType /\ h[i].pc = "patchConn" /\ UNCHANGED <<proxy, ad, running, key>>
        /\ h' = [h EXCEPT ![i] = q]
        /\ conn' = IF Exists(h[i].conn) THEN [conn EXCEPT ![h[i].conn] = Identity(i)] ELSE conn
        /\ conn \in [Conns -> Identities \cup {None}] /\ h[i].conn \in Conns
        /\ h[i].then \in {"crProxy", "updProxy", "enPatch"} /\ h[i].pc \notin Halfway
    BY <1>0, TaskTypes
    DEF PatchConnector, Goto, At, disk, mem, IndInv, TypeOK, DataType, TaskType, TaskOK,
        Ensuring, Halfway
  <1>2. /\ q.pc = h[i].then /\ q.t = h[i].t /\ q.lock = h[i].lock /\ q.then = "none"
        /\ q.conn = h[i].conn /\ q.dirty = h[i].dirty
    BY <1>1 DEF TaskType
  <1> HIDE DEF q
  <1>3. \A d \in Conns \ {h[i].conn} : conn'[d] = conn[d] BY <1>1
  <1>4. ConnMoves(i) BY <1>1, <1>3 DEF ConnMoves
  <1>5. \A t \in Tunnels : Kept(t) BY <1>1 DEF Kept
  <1>6. Counts(q, proxy, running) /\ (BackedInv => Holds(q, proxy, ad, conn'))
    <2>1. CASE h[i].then = "crProxy"
      <3>1. ~Starts(q) BY <1>2, <2>1 DEF Starts
      <3> QED BY <1>2, <2>1, <3>1, FreeTask
    <2>2. CASE h[i].then \in {"updProxy", "enPatch"}
      <3>1. Starts(h[i]) BY <2>2 DEF Starts
      <3>2. Counts(q, proxy, running)
        BY <1>2, <2>2, <3>1, StartHere DEF Counts, Starts
      <3>3. Identity(i) = h[i].t BY <3>1, StartHere DEF Identity
      <3>4. ASSUME BackedInv, h[i].then = "enPatch"
            PROVE  conn'[h[i].conn] = h[i].t /\ h[i].dirty
        <4>1. conn[h[i].conn] = Nobody /\ h[i].dirty
          BY <1>1, <3>4 DEF BackedInv, Holds
        <4> QED BY <1>1, <3>3, <4>1, IdentitiesDistinct DEF Exists
      <3>5. BackedInv => Holds(q, proxy, ad, conn')
        BY <1>2, <2>2, <3>4 DEF Holds
      <3> QED BY <3>2, <3>5
    <2> QED BY <1>1, <2>1, <2>2
  <1>7. Respects(i, q)
    BY <1>1, <1>2, <1>4, <1>5, <1>6 DEF Respects
  <1> QED BY <1>7, StepOnward

\* A tunnel that is created runs nowhere, and its create starts nothing.
LEMMA CreateProxyOn ==
    ASSUME ExistsInv, IndInv, DeletesApart, NEW i \in Procs, NEW t \in Tunnels,
           CreateProxy(i, t)
    PROVE  Onward
  <1> DEFINE q == [h[i] EXCEPT !.pc = "crAd", !.t = t]
  <1>1. /\ h[i] \in TaskType /\ h[i].pc = "crProxy" /\ h' = [h EXCEPT ![i] = q]
        /\ t \notin born /\ h[i].pc \notin Halfway /\ h[i].then = "none"
        /\ proxy' = [proxy EXCEPT ![t] = [ep |-> h[i].ep, conn |-> h[i].conn]]
        /\ UNCHANGED <<ad, conn, running, key>>
    BY TaskTypes DEF CreateProxy, Goto, At, disk, mem, Halfway, TaskOK, Ensuring
  <1>2. q.pc = "crAd" /\ q.then = "none" BY <1>1 DEF TaskType
  <1> HIDE DEF q
  <1>3. ~Starts(q) BY <1>2 DEF Starts
  <1>4. \A u \in Tunnels \ {t} : Kept(u)
    BY <1>1 DEF Kept, IndInv, TypeOK, DataType
  <1>5. running'[t] = "off" BY <1>1 DEF IndInv, DataOK
  <1>6. \A u \in Tunnels : Kept(u) \/ (Own(i, u) /\ Settled(q, u))
    BY <1>1, <1>4, <1>5 DEF Own, Settled
  <1>7. Respects(i, q)
    BY <1>1, <1>2, <1>3, <1>6, FreeTask DEF Respects, ConnMoves
  <1> QED BY <1>7, StepOnward

\* An advertisement is created where there is none.
LEMMA CreateAdOn ==
    ASSUME ExistsInv, IndInv, DeletesApart, NEW i \in Procs, CreateAd(i)
    PROVE  Onward
  <1>1. /\ h[i] \in TaskType /\ h[i].pc = "crAd" /\ h[i].pc \notin Halfway
        /\ h[i].then = "none" /\ h[i].after = "ret" /\ UNCHANGED <<proxy, conn, running, key>>
    BY TaskTypes DEF CreateAd, At, disk, mem, Halfway, TaskOK, Ensuring
  <1>2. CASE Return(i) /\ UNCHANGED ad BY <1>1, <1>2, JustReturns
  <1>3. CASE /\ ad[h[i].t] = None
             /\ ad' = [ad EXCEPT ![h[i].t] = [ep |-> h[i].ep, conn |-> h[i].conn]]
             /\ Goto(i, [h[i] EXCEPT !.pc = "install"])
    <2> DEFINE q == [h[i] EXCEPT !.pc = "install"]
    <2>1. h' = [h EXCEPT ![i] = q] BY <1>3 DEF Goto
    <2>2. q.pc = "install" /\ q.then = "none" /\ q.after = "ret" BY <1>1 DEF TaskType
    <2> HIDE DEF q
    <2>3. ~Starts(q) BY <2>2 DEF Starts
    <2>4. \A u \in Tunnels : Kept(u)
      BY <1>1, <1>3 DEF Kept, IndInv, TypeOK, DataType
    <2>5. Respects(i, q) BY <1>1, <2>1, <2>2, <2>3, <2>4, FreeTask DEF Respects, ConnMoves
    <2> QED BY <2>5, StepOnward
  <1> QED BY <1>2, <1>3 DEF CreateAd

\* A request that gets no connector returns.
LEMMA OverQuotaOn ==
    ASSUME ExistsInv, IndInv, DeletesApart, NEW i \in Procs, OverQuota(i)
    PROVE  Onward
  BY JustReturns DEF OverQuota, At, Halfway, cloud, disk, mem

-----------------------------------------------------------------------------
(* start_tunnel_internal and stop_tunnel_internal.                         *)

\* A start gets the reservation, or leaves.
LEMMA StartClaimOn ==
    ASSUME ExistsInv, IndInv, DeletesApart, NEW i \in Procs, StartClaim(i)
    PROVE  Onward
  <1>1. /\ h[i] \in TaskType /\ h[i].pc = "claim" /\ h[i].pc \notin Halfway
        /\ h[i].then = "none" /\ UNCHANGED <<proxy, ad, conn, running, key>>
    BY TaskTypes
    DEF StartClaim, At, cloud, disk, mem, Halfway, TaskOK, Ensuring
  <1>2. CASE Return(i) BY <1>1, <1>2, JustReturns
  <1>3. CASE ClaimBusy(i, [h[i] EXCEPT !.pc = "look"])
    <2> DEFINE q == [[h[i] EXCEPT !.pc = "look"] EXCEPT !.lock = TRUE]
    <2>1. h' = [h EXCEPT ![i] = q] BY <1>3 DEF ClaimBusy
    <2>2. q.pc = "look" /\ q.then = "none" /\ q.lock = TRUE BY <1>1 DEF TaskType
    <2> HIDE DEF q
    <2>3. Counts(q, proxy, running) /\ Holds(q, proxy, ad, conn)
      BY <2>2 DEF Counts, Holds, Starts
    <2> QED BY <1>1, <2>1, <2>2, <2>3, ReadsOnward
  <1> QED BY <1>2, <1>3 DEF StartClaim

\* Only what exists and is off is started.
LEMMA StartLookOn ==
    ASSUME ExistsInv, IndInv, DeletesApart, NEW i \in Procs, StartLook(i)
    PROVE  Onward
  <1> DEFINE t == h[i].t
  <1>1. /\ h[i] \in TaskType /\ h[i].pc = "look" /\ h[i].pc \notin Halfway
        /\ h[i].then = "none" /\ h[i].lock /\ UNCHANGED <<proxy, ad, conn, running, key>>
    BY TaskTypes
    DEF StartLook, At, cloud, disk, mem, Halfway, TaskOK, Ensuring, ExistsInv, Counts
  <1>2. CASE Return(i) BY <1>1, <1>2, JustReturns
  <1>3. ASSUME NEW p, Goto(i, [[h[i] EXCEPT !.insp = p, !.ep = p]
                                 EXCEPT !.pc = "moveProxy", !.after = "ret"])
        PROVE  Onward
    <2> DEFINE q == [[h[i] EXCEPT !.insp = p, !.ep = p]
                                 EXCEPT !.pc = "moveProxy", !.after = "ret"]
    <2>1. h' = [h EXCEPT ![i] = q] BY <1>3 DEF Goto
    <2>2. q.pc = "moveProxy" /\ q.then = "none" /\ q.after = "ret" BY <1>1 DEF TaskType
    <2> HIDE DEF q
    <2>3. ~Starts(q) BY <2>2 DEF Starts
    <2> QED BY <1>1, <2>1, <2>2, <2>3, FreeTask, ReadsOnward
  <1>4. ASSUME NEW q, Goto(i, q), q.pc = "key", q.then = "none", q.lock = h[i].lock, q.t = t,
               proxy[t] # None, running[t] = "off"
        PROVE  Onward
    <2>1. Counts(q, proxy, running) /\ Holds(q, proxy, ad, conn)
      BY <1>1, <1>4 DEF Counts, Holds
    <2> QED BY <1>1, <1>4, <2>1, ReadsOnward DEF Goto
  <1>5. ASSUME Goto(i, [h[i] EXCEPT !.pc = "key", !.ep = proxy[t].ep]),
               proxy[t] # None, running[t] = "off"
        PROVE  Onward
    <2> DEFINE q == [h[i] EXCEPT !.pc = "key", !.ep = proxy[t].ep]
    <2>1. Goto(i, q) /\ q.pc = "key" /\ q.then = "none" /\ q.lock = h[i].lock /\ q.t = t
      BY <1>1, <1>5 DEF TaskType
    <2> HIDE DEF q
    <2> QED BY <1>4, <1>5, <2>1
  <1>6. ASSUME NEW p, Goto(i, [[h[i] EXCEPT !.insp = p, !.ep = p]
                                 EXCEPT !.pc = "key", !.after = "enGet"]),
               proxy[t] # None, running[t] = "off"
        PROVE  Onward
    <2> DEFINE q == [[h[i] EXCEPT !.insp = p, !.ep = p] EXCEPT !.pc = "key", !.after = "enGet"]
    <2>1. Goto(i, q) /\ q.pc = "key" /\ q.then = "none" /\ q.lock = h[i].lock /\ q.t = t
      BY <1>1, <1>6 DEF TaskType
    <2> HIDE DEF q
    <2> QED BY <1>4, <1>6, <2>1
  <1> QED BY <1>2, <1>3, <1>5, <1>6 DEF StartLook

\* The key is saved.
LEMMA StartKeyOn ==
    ASSUME ExistsInv, IndInv, DeletesApart, NEW i \in Procs, StartKey(i)
    PROVE  Onward
  <1>1. /\ h[i].pc = "key" /\ h[i].then = "none" /\ UNCHANGED <<proxy, ad, conn, running>>
        /\ key' = [key EXCEPT ![h[i].t] = TRUE]
    BY TaskTypes DEF StartKey, At, cloud, mem, TaskOK, Ensuring
  <1>2. Starts(h[i]) BY <1>1 DEF Starts
  <1>3. /\ h[i] \in TaskType /\ h[i].lock /\ running[h[i].t] = "off" /\ proxy[h[i].t] # None
        /\ h[i].pc \notin Halfway
    BY <1>2, StartHere
  <1>4. \A t \in Tunnels : key[t] => key'[t] BY <1>1 DEF IndInv, TypeOK, DataType
  <1>5. ASSUME NEW q, Goto(i, q), q.t = h[i].t, q.lock = h[i].lock,
               \/ q.pc = "find" /\ q.then = "updProxy"
               \/ q.pc \in {"moveProxy", "enGet"} /\ q.then = "none"
        PROVE  Onward
    <2>1. Counts(q, proxy, running) /\ Holds(q, proxy, ad, conn)
      BY <1>3, <1>5 DEF Counts, Holds
    <2> QED BY <1>1, <1>3, <1>4, <1>5, <2>1, ReadsOnward DEF Goto
  <1>6. CASE Goto(i, [h[i] EXCEPT !.pc = "find", !.then = "updProxy"])
    <2> DEFINE q == [h[i] EXCEPT !.pc = "find", !.then = "updProxy"]
    <2>1. /\ q.t = h[i].t /\ q.lock = h[i].lock /\ q.pc = "find" /\ q.then = "updProxy"
          /\ Goto(i, q)
      BY <1>3, <1>6 DEF TaskType
    <2> HIDE DEF q
    <2> QED BY <1>5, <2>1
  <1>7. CASE Goto(i, [h[i] EXCEPT !.pc = IF h[i].rep # None THEN "moveProxy" ELSE "enGet"])
    <2> DEFINE x == IF h[i].rep # None THEN "moveProxy" ELSE "enGet"
               q == [h[i] EXCEPT !.pc = x]
    <2>1. x \in {"moveProxy", "enGet"} /\ Goto(i, q) BY <1>7
    <2> HIDE DEF x
    <2>2. q.t = h[i].t /\ q.lock = h[i].lock /\ q.pc = x /\ q.then = "none"
      BY <1>1, <1>3 DEF TaskType
    <2> HIDE DEF q
    <2> QED BY <1>5, <2>1, <2>2
  <1> QED BY <1>6, <1>7 DEF StartKey

\* A start that writes its own tunnel, which stays off, goes on.
LEMMA WritesOnward ==
    ASSUME ExistsInv, IndInv, DeletesApart, NEW i \in Procs, Starts(h[i]), NEW q, Goto(i, q),
           q.pc # "patchConn", UNCHANGED <<conn, running, key>>,
           \A t \in Tunnels \ {h[i].t} : proxy'[t] = proxy[t] /\ ad'[t] = ad[t],
           Counts(q, proxy', running), BackedInv => Holds(q, proxy', ad', conn)
    PROVE  Onward
  <1>1. \A t \in Tunnels \ {h[i].t} : Kept(t) BY DEF Kept
  <1>2. Own(i, h[i].t) /\ running[h[i].t] = "off" /\ h[i].pc \notin Halfway BY StartHere
  <1>3. Respects(i, q) BY <1>1, <1>2 DEF Respects, Settled, ConnMoves, Goto
  <1> QED BY <1>3, StepOnward

\* The proxy names the connector of the tunnel's key.
LEMMA UpdateProxyOn ==
    ASSUME ExistsInv, IndInv, DeletesApart, NEW i \in Procs, UpdateProxy(i)
    PROVE  Onward
  <1> DEFINE q == [h[i] EXCEPT !.pc = "updAd"]
  <1>1. /\ h[i].pc = "updProxy" /\ h[i].then = "none" /\ UNCHANGED <<ad, conn, running, key>>
    BY TaskTypes DEF UpdateProxy, At, disk, mem, TaskOK, Ensuring
  <1>2. Starts(h[i]) BY <1>1 DEF Starts
  <1>3. /\ h[i] \in TaskType /\ h[i].lock /\ running[h[i].t] = "off" /\ proxy[h[i].t] # None
        /\ h[i].t \in Tunnels
    BY <1>2, StartHere
  <1>4. /\ proxy' = [proxy EXCEPT ![h[i].t] = [ep |-> h[i].ep, conn |-> h[i].conn]]
        /\ Goto(i, q)
    BY <1>3 DEF UpdateProxy
  <1>5. /\ q.pc = "updAd" /\ q.then = "none" /\ q.t = h[i].t /\ q.lock = h[i].lock
        /\ q.conn = h[i].conn
    BY <1>1, <1>3 DEF TaskType
  <1> HIDE DEF q
  <1>6. /\ proxy'[h[i].t] = [ep |-> h[i].ep, conn |-> h[i].conn] /\ proxy'[h[i].t] # None
        /\ \A u \in Tunnels \ {h[i].t} : proxy'[u] = proxy[u]
    <2>1. proxy \in [Tunnels -> Backend \cup {None}] BY DEF IndInv, TypeOK, DataType
    <2>2. h[i].ep \in Ports /\ h[i].conn \in Conns
      BY <1>1, <1>3, TaskTypes DEF TaskType, TaskOK
    <2> QED BY <1>3, <1>4, <2>1, <2>2, NoBackend
  <1>7. Counts(q, proxy', running) BY <1>3, <1>5, <1>6 DEF Counts
  <1>8. Holds(q, proxy', ad', conn) BY <1>5 DEF Holds
  <1> QED BY <1>1, <1>2, <1>4, <1>5, <1>6, <1>7, <1>8, WritesOnward

\* An advertisement that exists follows.
LEMMA UpdateAdOn ==
    ASSUME ExistsInv, IndInv, DeletesApart, NEW i \in Procs, UpdateAd(i)
    PROVE  Onward
  <1> DEFINE q == [h[i] EXCEPT !.pc = "cleanRefs"]
  <1>1. /\ h[i].pc = "updAd" /\ h[i].then = "none" /\ UNCHANGED <<proxy, conn, running, key>>
        /\ Goto(i, q)
    BY TaskTypes DEF UpdateAd, At, disk, mem, TaskOK, Ensuring
  <1>2. Starts(h[i]) BY <1>1 DEF Starts
  <1>3. /\ h[i] \in TaskType /\ h[i].lock /\ running[h[i].t] = "off" /\ proxy[h[i].t] # None
        /\ proxy[h[i].t].conn = h[i].conn
    BY <1>1, <1>2, StartHere DEF ExistsInv, Counts
  <1>4. /\ q.pc = "cleanRefs" /\ q.then = "none" /\ q.t = h[i].t /\ q.lock = h[i].lock
        /\ q.conn = h[i].conn
    BY <1>1, <1>3 DEF TaskType
  <1> HIDE DEF q
  <1>5. \A u \in Tunnels \ {h[i].t} : ad'[u] = ad[u]
    BY DEF UpdateAd, IndInv, TypeOK, DataType
  <1>6. Counts(q, proxy', running) BY <1>1, <1>3, <1>4 DEF Counts
  <1>7. Holds(q, proxy', ad', conn) BY <1>4 DEF Holds
  <1> QED BY <1>1, <1>2, <1>4, <1>5, <1>6, <1>7, WritesOnward

\* The connector the proxy names is among the ones the cleanup found in use.
LEMMA CleanRefsOn ==
    ASSUME ExistsInv, IndInv, DeletesApart, NEW i \in Procs, CleanRefs(i)
    PROVE  Onward
  <1> DEFINE used == {c \in Conns : Used(c)}
             q == [h[i] EXCEPT !.pc = "cleanList", !.drop = used]
  <1>1. /\ h[i].pc = "cleanRefs" /\ h[i].then = "none" /\ Goto(i, q)
        /\ UNCHANGED <<proxy, ad, conn, running, key>>
    BY TaskTypes DEF CleanRefs, At, cloud, disk, mem, TaskOK, Ensuring
  <1>2. Starts(h[i]) BY <1>1 DEF Starts
  <1>3. /\ h[i] \in TaskType /\ h[i].lock /\ running[h[i].t] = "off" /\ proxy[h[i].t] # None
        /\ proxy[h[i].t].conn = h[i].conn /\ h[i].t \in Tunnels /\ h[i].pc \notin Halfway
        /\ proxy[h[i].t].conn \in Conns
    BY <1>1, <1>2, StartHere DEF ExistsInv, Counts, Backend
  <1>4. h[i].conn \in used BY <1>3 DEF Used
  <1>5. /\ q.pc = "cleanList" /\ q.then = "none" /\ q.t = h[i].t /\ q.lock = h[i].lock
        /\ q.conn = h[i].conn /\ q.drop = used
    BY <1>1, <1>3 DEF TaskType
  <1> HIDE DEF q, used
  <1>6. Counts(q, proxy, running) BY <1>3, <1>4, <1>5 DEF Counts
  <1>7. Holds(q, proxy, ad, conn) BY <1>5 DEF Holds
  <1> QED BY <1>1, <1>3, <1>5, <1>6, <1>7, ReadsOnward DEF Goto

\* So it is not among the ones the cleanup is to delete.
LEMMA CleanListOn ==
    ASSUME ExistsInv, IndInv, DeletesApart, NEW i \in Procs, CleanList(i)
    PROVE  Onward
  <1> DEFINE rest == {c \in Conns : Exists(c) /\ c \notin h[i].drop}
             q == [h[i] EXCEPT !.pc = "cleanDel", !.drop = rest]
  <1>1. /\ h[i].pc = "cleanList" /\ h[i].then = "none" /\ Goto(i, q)
        /\ UNCHANGED <<proxy, ad, conn, running, key>>
    BY TaskTypes DEF CleanList, At, cloud, disk, mem, TaskOK, Ensuring
  <1>2. Starts(h[i]) BY <1>1 DEF Starts
  <1>3. /\ h[i] \in TaskType /\ h[i].lock /\ running[h[i].t] = "off" /\ proxy[h[i].t] # None
        /\ proxy[h[i].t].conn = h[i].conn /\ h[i].pc \notin Halfway /\ h[i].conn \in h[i].drop
    BY <1>1, <1>2, StartHere DEF ExistsInv, Counts
  <1>4. h[i].conn \notin rest BY <1>3
  <1>5. /\ q.pc = "cleanDel" /\ q.then = "none" /\ q.t = h[i].t /\ q.lock = h[i].lock
        /\ q.conn = h[i].conn /\ q.drop = rest
    BY <1>1, <1>3 DEF TaskType
  <1> HIDE DEF q, rest
  <1>6. Counts(q, proxy, running) BY <1>3, <1>4, <1>5 DEF Counts
  <1>7. Holds(q, proxy, ad, conn) BY <1>5 DEF Holds
  <1> QED BY <1>1, <1>3, <1>5, <1>6, <1>7, ReadsOnward DEF Goto

\* An advertisement that goes with its connector leaves its tunnel kept.
LEMMA DropsKept ==
    ASSUME IndInv, NEW cs, ad' = WithoutAds(cs), conn' = WithoutConns(cs),
           UNCHANGED <<proxy, running, key>>
    PROVE  (\A t \in Tunnels : Kept(t)) /\ \A i : ConnMoves(i)
  <1>1. \A t \in Tunnels : ad[t] # None => ad[t].conn \in Conns
    BY DEF IndInv, TypeOK, DataType, Backend
  <1>2. ASSUME NEW t \in Tunnels, ad[t] # None
        PROVE  conn'[ad[t].conn] = None \/ (ad'[t] # None /\ ad'[t].conn = ad[t].conn)
    BY <1>1, <1>2 DEF WithoutAds, WithoutConns
  <1>3. \A c \in Conns : conn'[c] \in {conn[c], None} BY DEF WithoutConns
  <1> QED BY <1>2, <1>3 DEF Kept, ConnMoves

\* Where the cleanup leads.
LEMMA CleanDeleteOn ==
    ASSUME ExistsInv, IndInv, DeletesApart, NEW i \in Procs, CleanDelete(i)
    PROVE  Onward
  <1> DEFINE x == IF h[i].rep # None THEN "install" ELSE "enGet"
             q == [h[i] EXCEPT !.drop = {}, !.pc = x]
  <1>1. /\ h[i].pc = "cleanDel" /\ h[i].then = "none" /\ h' = [h EXCEPT ![i] = q]
        /\ ad' = WithoutAds(h[i].drop) /\ conn' = WithoutConns(h[i].drop)
        /\ UNCHANGED <<proxy, running, key>>
    BY TaskTypes DEF CleanDelete, AfterClean, Goto, At, disk, mem, TaskOK, Ensuring
  <1>2. Starts(h[i]) BY <1>1 DEF Starts
  <1>3. /\ h[i] \in TaskType /\ h[i].lock /\ running[h[i].t] = "off" /\ proxy[h[i].t] # None
        /\ h[i].pc \notin Halfway
    BY <1>2, StartHere
  <1>4. x \in {"install", "enGet"} OBVIOUS
  <1> HIDE DEF x
  <1>5. q.pc = x /\ q.then = "none" /\ q.t = h[i].t /\ q.lock = h[i].lock
    BY <1>1, <1>3 DEF TaskType
  <1> HIDE DEF q
  <1>6. Counts(q, proxy, running) BY <1>3, <1>4, <1>5 DEF Counts
  <1>7. Holds(q, proxy, ad', conn') BY <1>4, <1>5 DEF Holds
  <1>8. (\A t \in Tunnels : Kept(t)) /\ ConnMoves(i) BY <1>1, DropsKept
  <1>9. Respects(i, q) BY <1>1, <1>3, <1>4, <1>5, <1>6, <1>7, <1>8 DEF Respects
  <1> QED BY <1>9, StepOnward

\* A repoint changes endpoints only, of a tunnel that is started or runs already.
LEMMA MovesOnward ==
    ASSUME ExistsInv, IndInv, DeletesApart, NEW i \in Procs, NEW q, h' = [h EXCEPT ![i] = q],
           h[i].pc \in {"moveProxy", "moveAd", "install"}, h[i].then = "none",
           q.pc \in {"moveAd", "install"}, q.then = "none", q.t = h[i].t,
           q.lock = h[i].lock, q.after = h[i].after,
           \A t \in Tunnels : Kept(t), UNCHANGED <<conn, running>>,
           \A t \in Tunnels : proxy'[t] = None <=> proxy[t] = None
    PROVE  Onward
  <1>1. Starts(q) <=> Starts(h[i]) BY DEF Starts
  <1>2. Starts(h[i]) => h[i].t \in Tunnels /\ Counts(h[i], proxy, running)
    BY StartHere DEF ExistsInv
  <1>3. Counts(q, proxy', running) BY <1>1, <1>2 DEF Counts
  <1>4. Holds(q, proxy', ad', conn) BY DEF Holds
  <1>5. h[i].pc \notin Halfway BY DEF Halfway
  <1>6. Respects(i, q) BY <1>3, <1>4, <1>5 DEF Respects, ConnMoves
  <1> QED BY <1>6, StepOnward

\* The proxy's endpoint.
LEMMA MoveProxyOn ==
    ASSUME ExistsInv, IndInv, DeletesApart, NEW i \in Procs, MoveProxy(i)
    PROVE  Onward
  <1>1. /\ h[i] \in TaskType /\ h[i].pc = "moveProxy" /\ h[i].then = "none"
        /\ UNCHANGED <<ad, conn, running, key>> /\ h[i].pc \notin Halfway
    BY TaskTypes DEF MoveProxy, At, disk, mem, TaskOK, Ensuring, Halfway
  <1>2. CASE Return(i) /\ UNCHANGED proxy BY <1>1, <1>2, JustReturns
  <1>3. CASE /\ proxy[h[i].t] # None
             /\ proxy' = [proxy EXCEPT ![h[i].t].ep = h[i].ep]
             /\ Goto(i, [h[i] EXCEPT !.pc = "moveAd"])
    <2> DEFINE q == [h[i] EXCEPT !.pc = "moveAd"]
    <2>1. h' = [h EXCEPT ![i] = q] BY <1>3 DEF Goto
    <2>2. /\ q.pc = "moveAd" /\ q.then = "none" /\ q.t = h[i].t /\ q.lock = h[i].lock
          /\ q.after = h[i].after
      BY <1>1 DEF TaskType
    <2> HIDE DEF q
    <2>3. proxy \in [Tunnels -> Backend \cup {None}] /\ h[i].ep \in Ports
          /\ h[i].t \in Tunnels
      BY <1>1, TaskTypes DEF IndInv, TypeOK, DataType, TaskOK, TaskType, Ensuring
    <2>4. /\ proxy'[h[i].t] = [proxy[h[i].t] EXCEPT !.ep = h[i].ep]
          /\ proxy[h[i].t] \in Backend
          /\ \A t \in Tunnels \ {h[i].t} : proxy'[t] = proxy[t]
      BY <1>3, <2>3
    <2>5. proxy'[h[i].t] \in Backend /\ proxy'[h[i].t].conn = proxy[h[i].t].conn
      BY <2>3, <2>4 DEF Backend
    <2>6. proxy'[h[i].t] # None BY <2>5, NoBackend DEF Backend
    <2>7. \A t \in Tunnels : Kept(t) BY <1>1, <1>3, <2>4, <2>5, <2>6 DEF Kept
    <2>8. \A t \in Tunnels : proxy'[t] = None <=> proxy[t] = None BY <2>7 DEF Kept
    <2> QED BY <1>1, <2>1, <2>2, <2>7, <2>8, MovesOnward
  <1> QED BY <1>2, <1>3 DEF MoveProxy

\* The advertisement's endpoint.
LEMMA MoveAdOn ==
    ASSUME ExistsInv, IndInv, DeletesApart, NEW i \in Procs, MoveAd(i)
    PROVE  Onward
  <1> DEFINE q == [h[i] EXCEPT !.pc = "install"]
  <1>1. /\ h[i] \in TaskType /\ h[i].pc = "moveAd" /\ h[i].then = "none"
        /\ h' = [h EXCEPT ![i] = q]
        /\ UNCHANGED <<proxy, conn, running, key>>
        /\ ad' = IF ad[h[i].t] = None THEN ad ELSE [ad EXCEPT ![h[i].t].ep = h[i].ep]
    BY TaskTypes DEF MoveAd, Goto, At, disk, mem, TaskOK, Ensuring
  <1>2. /\ q.pc = "install" /\ q.then = "none" /\ q.t = h[i].t /\ q.lock = h[i].lock
        /\ q.after = h[i].after
    BY <1>1 DEF TaskType
  <1> HIDE DEF q
  <1>3. ad \in [Tunnels -> Backend \cup {None}] /\ h[i].ep \in Ports /\ h[i].t \in Tunnels
    BY <1>1, TaskTypes DEF IndInv, TypeOK, DataType, TaskOK, TaskType, Ensuring
  <1>4. \A t \in Tunnels : Kept(t)
    <2>1. CASE ad[h[i].t] = None BY <1>1, <2>1 DEF Kept
    <2>2. CASE ad[h[i].t] # None
      <3>1. /\ ad'[h[i].t] = [ad[h[i].t] EXCEPT !.ep = h[i].ep] /\ ad[h[i].t] \in Backend
            /\ \A t \in Tunnels \ {h[i].t} : ad'[t] = ad[t]
        BY <1>1, <1>3, <2>2
      <3>2. ad'[h[i].t] \in Backend /\ ad'[h[i].t].conn = ad[h[i].t].conn
        BY <1>3, <3>1 DEF Backend
      <3>3. ad'[h[i].t] # None BY <3>2, NoBackend DEF Backend
      <3> QED BY <1>1, <3>1, <3>2, <3>3 DEF Kept
    <2> QED BY <2>1, <2>2
  <1> QED BY <1>1, <1>2, <1>4, MovesOnward

\* The inspector is installed, and the function returns or goes on.
LEMMA InstallInspectorOn ==
    ASSUME ExistsInv, IndInv, DeletesApart, NEW i \in Procs, InstallInspector(i)
    PROVE  Onward
  <1>1. /\ h[i] \in TaskType /\ h[i].pc = "install" /\ h[i].then = "none"
        /\ h[i].after \in {"ret", "enGet", "claim"}
        /\ UNCHANGED <<proxy, ad, conn, running, key>> /\ h[i].pc \notin Halfway
    BY TaskTypes DEF InstallInspector, At, cloud, TaskOK, TaskType, Ensuring, Halfway
  <1>2. CASE Return(i) BY <1>1, <1>2, JustReturns
  <1>3. CASE /\ h[i].after # "ret"
             /\ Goto(i, [h[i] EXCEPT !.pc = h[i].after, !.insp = None, !.rep = None])
    <2> DEFINE q == [h[i] EXCEPT !.pc = h[i].after, !.insp = None, !.rep = None]
    <2>1. h' = [h EXCEPT ![i] = q] BY <1>3 DEF Goto
    <2>2. q.pc = h[i].after /\ q.then = "none" /\ q.t = h[i].t /\ q.lock = h[i].lock
      BY <1>1 DEF TaskType
    <2> HIDE DEF q
    <2>3. CASE h[i].after = "claim"
      <3>1. ~Starts(q) BY <2>2, <2>3 DEF Starts
      <3> QED BY <1>1, <2>1, <2>2, <2>3, <3>1, FreeTask, ReadsOnward
    <2>4. CASE h[i].after = "enGet"
      <3>1. Starts(h[i]) BY <1>1, <2>4 DEF Starts
      <3>2. Counts(q, proxy, running) /\ Holds(q, proxy, ad, conn)
        BY <2>2, <2>4, <3>1, StartHere DEF Counts, Holds
      <3> QED BY <1>1, <2>1, <2>2, <2>4, <3>2, ReadsOnward
    <2> QED BY <1>1, <1>3, <2>3, <2>4
  <1> QED BY <1>2, <1>3 DEF InstallInspector

\* What an enable reads of the proxy.
LEMMA EnableGetOn ==
    ASSUME ExistsInv, IndInv, DeletesApart, NEW i \in Procs, EnableGet(i)
    PROVE  Onward
  <1> DEFINE e == proxy[h[i].t].ep
             c == proxy[h[i].t].conn
             q == [h[i] EXCEPT !.pc = "find", !.then = "enPatch", !.ep = e, !.conn = c]
  <1>1. /\ h[i].pc = "enGet" /\ h' = [h EXCEPT ![i] = q]
        /\ UNCHANGED <<proxy, ad, conn, running, key>>
    BY DEF EnableGet, Goto, At, cloud, disk, mem
  <1>2. Starts(h[i]) BY <1>1 DEF Starts
  <1>3. /\ h[i] \in TaskType /\ h[i].lock /\ running[h[i].t] = "off" /\ proxy[h[i].t] # None
        /\ h[i].pc \notin Halfway
    BY <1>2, StartHere
  <1>4. /\ q.pc = "find" /\ q.then = "enPatch" /\ q.t = h[i].t /\ q.lock = h[i].lock
        /\ q.conn = proxy[h[i].t].conn
    BY <1>3 DEF TaskType
  <1> HIDE DEF q
  <1>5. Counts(q, proxy, running) /\ Holds(q, proxy, ad, conn)
    BY <1>3, <1>4 DEF Counts, Holds
  <1> QED BY <1>1, <1>3, <1>4, <1>5, ReadsOnward

\* There is nothing to enable.
LEMMA EnableGoneOn ==
    ASSUME ExistsInv, IndInv, DeletesApart, NEW i \in Procs, EnableGone(i)
    PROVE  Onward
  BY JustReturns DEF EnableGone, At, Halfway, cloud, disk, mem

\* The proxy names the connector, whether it did before or not.
LEMMA EnablePatchOn ==
    ASSUME ExistsInv, IndInv, DeletesApart, NEW i \in Procs, EnablePatch(i)
    PROVE  Onward
  <1> DEFINE q == [h[i] EXCEPT !.pc = "enAd"]
  <1>1. /\ h[i].pc = "enPatch" /\ h[i].then = "none" /\ Goto(i, q)
        /\ UNCHANGED <<ad, conn, running, key>>
    BY TaskTypes DEF EnablePatch, At, disk, mem, TaskOK, Ensuring
  <1>2. Starts(h[i]) BY <1>1 DEF Starts
  <1>3. /\ h[i] \in TaskType /\ h[i].lock /\ running[h[i].t] = "off" /\ proxy[h[i].t] # None
        /\ h[i].t \in Tunnels
    BY <1>2, StartHere
  <1>4. /\ q.pc = "enAd" /\ q.then = "none" /\ q.t = h[i].t /\ q.lock = h[i].lock
        /\ q.conn = h[i].conn
    BY <1>1, <1>3 DEF TaskType
  <1> HIDE DEF q
  <1>5. /\ proxy'[h[i].t] # None
        /\ h[i].dirty => proxy'[h[i].t].conn = h[i].conn
        /\ ~h[i].dirty => proxy' = proxy
        /\ \A u \in Tunnels \ {h[i].t} : proxy'[u] = proxy[u]
    <2>1. proxy \in [Tunnels -> Backend \cup {None}] BY DEF IndInv, TypeOK, DataType
    <2>2. h[i].ep \in Ports /\ h[i].conn \in Conns
      BY <1>1, <1>3, TaskTypes DEF TaskType, TaskOK
    <2>3. CASE ~h[i].dirty /\ UNCHANGED proxy BY <1>3, <2>3
    <2>4. CASE /\ h[i].dirty
               /\ proxy' = [proxy EXCEPT ![h[i].t] = [ep |-> h[i].ep, conn |-> h[i].conn]]
      BY <1>3, <2>1, <2>2, <2>4, NoBackend
    <2> QED BY <2>3, <2>4 DEF EnablePatch
  <1>6. Counts(q, proxy', running) BY <1>3, <1>4, <1>5 DEF Counts
  <1>7. BackedInv => Holds(q, proxy', ad', conn)
    BY <1>1, <1>4, <1>5 DEF BackedInv, Holds
  <1> QED BY <1>1, <1>2, <1>4, <1>5, <1>6, <1>7, WritesOnward

\* So does the advertisement.
LEMMA EnableAdOn ==
    ASSUME ExistsInv, IndInv, DeletesApart, NEW i \in Procs, EnableAd(i)
    PROVE  Onward
  <1> DEFINE q == [h[i] EXCEPT !.pc = "insert"]
  <1>1. /\ h[i].pc = "enAd" /\ h[i].then = "none" /\ Goto(i, q)
        /\ ad' = [ad EXCEPT ![h[i].t] = [ep |-> h[i].ep, conn |-> h[i].conn]]
        /\ UNCHANGED <<proxy, conn, running, key>>
    BY TaskTypes DEF EnableAd, At, disk, mem, TaskOK, Ensuring
  <1>2. Starts(h[i]) BY <1>1 DEF Starts
  <1>3. /\ h[i] \in TaskType /\ h[i].lock /\ running[h[i].t] = "off" /\ proxy[h[i].t] # None
        /\ h[i].t \in Tunnels
    BY <1>2, StartHere
  <1>4. /\ q.pc = "insert" /\ q.then = "none" /\ q.t = h[i].t /\ q.lock = h[i].lock
        /\ q.conn = h[i].conn
    BY <1>1, <1>3 DEF TaskType
  <1> HIDE DEF q
  <1>5. /\ ad'[h[i].t] # None /\ ad'[h[i].t].conn = h[i].conn
        /\ \A u \in Tunnels \ {h[i].t} : ad'[u] = ad[u]
    <2>1. ad \in [Tunnels -> Backend \cup {None}] BY DEF IndInv, TypeOK, DataType
    <2>2. h[i].ep \in Ports /\ h[i].conn \in Conns
      BY <1>1, <1>3, TaskTypes DEF TaskType, TaskOK
    <2> QED BY <1>1, <1>3, <2>1, <2>2, NoBackend
  <1>6. Counts(q, proxy', running) BY <1>1, <1>3, <1>4 DEF Counts
  <1>7. BackedInv => Holds(q, proxy', ad', conn)
    BY <1>1, <1>4, <1>5 DEF BackedInv, Holds
  <1> QED BY <1>1, <1>2, <1>4, <1>5, <1>6, <1>7, WritesOnward

\* What is recorded as running has been written to the end.
LEMMA StartInsertOn ==
    ASSUME ExistsInv, IndInv, DeletesApart, NEW i \in Procs, StartInsert(i)
    PROVE  Onward
  <1>1. /\ h[i].pc = "insert" /\ Return(i) /\ UNCHANGED <<proxy, ad, conn, key>>
        /\ running' = [running EXCEPT ![h[i].t] = "fresh"]
    BY DEF StartInsert, At, cloud, disk
  <1>2. Starts(h[i]) BY <1>1 DEF Starts
  <1>3. /\ h[i].t \in Tunnels /\ proxy[h[i].t] # None /\ h[i].pc \notin Halfway
        /\ Own(i, h[i].t)
    BY <1>2, StartHere
  <1>4. \A u \in Tunnels \ {h[i].t} : running'[u] = running[u]
    BY <1>1 DEF IndInv, TypeOK, DataType
  <1>5. \A u \in Tunnels \ {h[i].t} : Kept(u) BY <1>1, <1>4 DEF Kept
  <1>6. key[h[i].t] BY <1>1, <1>3 DEF IndInv, TasksOK, TaskFits
  <1>7. BackedInv => Backed(h[i].t, key', proxy', ad', conn')
    BY <1>1, <1>3, <1>6 DEF BackedInv, Holds, Backed
  <1>8. Settled(Continue(i), h[i].t) BY <1>1, <1>3, <1>7 DEF Settled
  <1> QED BY <1>1, <1>2, <1>3, <1>4, <1>5, <1>8, ReturnOnward

\* A stop takes the running entry with the reservation.
LEMMA TakeRunningOn ==
    ASSUME ExistsInv, IndInv, DeletesApart, NEW i \in Procs, NEW t \in Tunnels, NEW b,
           TakeRunning(i, t, b), h[i].pc \in {"idle", "next"},
           UNCHANGED <<proxy, ad, conn, key>>
    PROVE  Onward
  <1> DEFINE q == [[Blank EXCEPT !.pc = "disable", !.t = t, !.rm = b] EXCEPT !.lock = TRUE]
  <1>1. h' = [h EXCEPT ![i] = q] /\ running' = [running EXCEPT ![t] = "off"]
    BY DEF TakeRunning, ClaimBusy
  <1>2. q.pc = "disable" /\ q.t = t /\ q.lock = TRUE /\ q.then = "none" BY DEF Blank
  <1> HIDE DEF q
  <1>3. running \in [Tunnels -> {"off", "fresh", "old"}] BY DEF IndInv, TypeOK, DataType
  <1>4. running'[t] = "off" /\ \A u \in Tunnels : running'[u] # "off" => running[u] # "off"
    BY <1>1, <1>3
  <1>5. \A u \in Tunnels : Kept(u) BY <1>4 DEF Kept
  <1>6. Counts(q, proxy', running') BY <1>2, <1>4 DEF Counts, Starts
  <1>7. Holds(q, proxy', ad', conn') BY <1>2 DEF Holds
  <1>8. Respects(i, q)
    BY <1>1, <1>2, <1>4, <1>5, <1>6, <1>7 DEF Respects, ConnMoves, Halfway
  <1> QED BY <1>8, StepOnward

\* What is disabled is off.
LEMMA DisableOn ==
    ASSUME ExistsInv, IndInv, DeletesApart, NEW i \in Procs, Disable(i)
    PROVE  Onward
  <1>1. /\ h[i].pc = "disable" /\ Return(i) /\ UNCHANGED <<proxy, conn, running, key>>
        /\ h[i].pc \notin Halfway
        /\ ad' = IF proxy[h[i].t] = None THEN ad ELSE [ad EXCEPT ![h[i].t] = None]
    BY DEF Disable, At, disk, mem, Halfway
  <1>2. running[h[i].t] = "off" BY <1>1 DEF ExistsInv, Counts
  <1>3. \A u \in Tunnels \ {h[i].t} : Kept(u)
    BY <1>1 DEF Kept, IndInv, TypeOK, DataType
  <1>4. Own(i, h[i].t) /\ Settled(Continue(i), h[i].t)
    BY <1>1, <1>2 DEF Own, Settled
  <1> QED BY <1>1, <1>3, <1>4, ReturnOnward

-----------------------------------------------------------------------------
(* delete_tunnel_internal.                                                 *)

\* A delete changes its own tunnel, which goes off before the delete is through.
LEMMA DeletesOnward ==
    ASSUME ExistsInv, IndInv, DeletesApart, NEW i \in Procs, NEW q, Goto(i, q),
           h[i].pc \in Removing, q.pc \in Removing, q.t = h[i].t, q.then = "none",
           UNCHANGED conn, q.pc \in Halfway \/ running'[h[i].t] = "off",
           \A t \in Tunnels : running'[t] # "off" => running[t] # "off",
           \A t \in Tunnels \ {h[i].t} : Kept(t)
    PROVE  Onward
  <1>1. ~Starts(q) /\ q.pc \notin {"look", "disable", "patchConn"}
    BY DEF Starts, Removing
  <1>2. Own(i, h[i].t) /\ Settled(q, h[i].t) BY DEF Own, Settled
  <1>3. Respects(i, q) BY <1>1, <1>2, FreeTask DEF Respects, ConnMoves, Goto
  <1> QED BY <1>3, StepOnward

\* A delete that has changed nothing.
LEMMA DeleteReads ==
    ASSUME ExistsInv, IndInv, DeletesApart, NEW i \in Procs, NEW q, Goto(i, q),
           q.pc \in Removing, q.t = h[i].t, q.then = "none",
           h[i].pc \in Halfway => q.pc \in Halfway,
           UNCHANGED <<proxy, ad, conn, running, key>>
    PROVE  Onward
  <1>1. ~Starts(q) /\ q.pc \notin {"look", "disable", "patchConn"}
    BY DEF Starts, Removing
  <1> QED BY <1>1, FreeTask, ReadsOnward DEF Goto

\* A task that deletes.
LEMMA Deleter ==
    ASSUME IndInv, NEW i \in Procs, h[i].pc \in Removing
    PROVE  h[i] \in TaskType /\ h[i].t \in Tunnels /\ h[i].then = "none"
  BY TaskTypes DEF TaskOK, Removing, Ensuring

\* Which connector there is to clean up.
LEMMA DeleteLookOn ==
    ASSUME ExistsInv, IndInv, DeletesApart, NEW i \in Procs, DeleteLook(i)
    PROVE  Onward
  <1>1. /\ h[i].pc = "delLook" /\ h[i].pc \in Removing /\ h[i].pc \notin Halfway
        /\ UNCHANGED <<proxy, ad, conn, running, key>>
    BY DEF DeleteLook, At, cloud, disk, mem, Removing, Halfway
  <1>2. h[i] \in TaskType /\ h[i].then = "none" BY <1>1, Deleter
  <1>3. CASE Goto(i, [h[i] EXCEPT !.pc = "delProxy", !.dirty = proxy[h[i].t] # None])
    <2> DEFINE q == [h[i] EXCEPT !.pc = "delProxy", !.dirty = proxy[h[i].t] # None]
    <2>1. Goto(i, q) /\ q.pc = "delProxy" /\ q.t = h[i].t /\ q.then = "none"
      BY <1>2, <1>3 DEF TaskType
    <2> HIDE DEF q
    <2> QED BY <1>1, <2>1, DeleteReads DEF Removing
  <1>4. ASSUME NEW c, Goto(i, [h[i] EXCEPT !.pc = "delProxy", !.dirty = proxy[h[i].t] # None,
                                           !.conn = c])
        PROVE  Onward
    <2> DEFINE q == [h[i] EXCEPT !.pc = "delProxy", !.dirty = proxy[h[i].t] # None,
                                 !.conn = c]
    <2>1. Goto(i, q) /\ q.pc = "delProxy" /\ q.t = h[i].t /\ q.then = "none"
      BY <1>2, <1>4 DEF TaskType
    <2> HIDE DEF q
    <2> QED BY <1>1, <2>1, DeleteReads DEF Removing
  <1> QED BY <1>3, <1>4 DEF DeleteLook

\* The proxy goes, and the tunnel is on its way off.
LEMMA DeleteProxyOn ==
    ASSUME ExistsInv, IndInv, DeletesApart, NEW i \in Procs, DeleteProxy(i)
    PROVE  Onward
  <1>1. /\ h[i].pc = "delProxy" /\ h[i].pc \in Removing /\ h[i].pc \notin Halfway
        /\ UNCHANGED <<ad, conn, running, key>>
        /\ proxy' = IF h[i].dirty THEN [proxy EXCEPT ![h[i].t] = None] ELSE proxy
    BY DEF DeleteProxy, At, disk, mem, Removing, Halfway
  <1>2. h[i] \in TaskType /\ h[i].t \in Tunnels /\ h[i].then = "none" BY <1>1, Deleter
  <1>3. proxy \in [Tunnels -> Backend \cup {None}] BY DEF IndInv, TypeOK, DataType
  <1>4. CASE proxy[h[i].t] = None /\ Return(i)
    <2>1. proxy' = proxy BY <1>1, <1>2, <1>3, <1>4
    <2> QED BY <1>1, <1>4, <2>1, JustReturns
  <1>5. CASE Goto(i, [h[i] EXCEPT !.pc = "delAd"])
    <2> DEFINE q == [h[i] EXCEPT !.pc = "delAd"]
    <2>1. Goto(i, q) /\ q.pc = "delAd" /\ q.t = h[i].t /\ q.then = "none"
      BY <1>1, <1>2, <1>5 DEF TaskType
    <2> HIDE DEF q
    <2>2. \A t \in Tunnels \ {h[i].t} : Kept(t) BY <1>1, <1>3 DEF Kept
    <2> QED BY <1>1, <2>1, <2>2, DeletesOnward DEF Removing, Halfway
  <1> QED BY <1>4, <1>5 DEF DeleteProxy

\* Then the advertisement.
LEMMA DeleteAdOn ==
    ASSUME ExistsInv, IndInv, DeletesApart, NEW i \in Procs, DeleteAd(i)
    PROVE  Onward
  <1> DEFINE q == [h[i] EXCEPT !.pc = "delCheck"]
  <1>1. /\ h[i].pc = "delAd" /\ h[i].pc \in Removing /\ Goto(i, q)
        /\ UNCHANGED <<proxy, conn, running, key>> /\ ad' = [ad EXCEPT ![h[i].t] = None]
    BY DEF DeleteAd, At, disk, mem, Removing
  <1>2. h[i] \in TaskType /\ h[i].then = "none" BY <1>1, Deleter
  <1>3. q.pc = "delCheck" /\ q.t = h[i].t /\ q.then = "none" BY <1>2 DEF TaskType
  <1> HIDE DEF q
  <1>4. \A t \in Tunnels \ {h[i].t} : Kept(t)
    BY <1>1 DEF Kept, IndInv, TypeOK, DataType
  <1> QED BY <1>1, <1>3, <1>4, DeletesOnward DEF Removing, Halfway

\* The other users of the connector.
LEMMA DeleteCheckOn ==
    ASSUME ExistsInv, IndInv, DeletesApart, NEW i \in Procs, DeleteCheck(i)
    PROVE  Onward
  <1> DEFINE x == IF h[i].conn = None \/ Used(h[i].conn) THEN "delLocal" ELSE "delConn"
             q == [h[i] EXCEPT !.pc = x]
  <1>1. /\ h[i].pc = "delCheck" /\ h[i].pc \in Removing /\ Goto(i, q)
        /\ UNCHANGED <<proxy, ad, conn, running, key>> /\ x \in {"delLocal", "delConn"}
    BY DEF DeleteCheck, At, cloud, disk, mem, Removing
  <1>2. h[i] \in TaskType /\ h[i].then = "none" BY <1>1, Deleter
  <1> HIDE DEF x
  <1>3. q.pc = x /\ q.t = h[i].t /\ q.then = "none" BY <1>2 DEF TaskType
  <1> HIDE DEF q
  <1> QED BY <1>1, <1>3, DeleteReads DEF Removing, Halfway

\* A connector goes.
LEMMA DeleteConnOn ==
    ASSUME ExistsInv, IndInv, DeletesApart, NEW i \in Procs, DeleteConn(i)
    PROVE  Onward
  <1> DEFINE q == [h[i] EXCEPT !.pc = "delLocal"]
  <1>1. /\ h[i].pc = "delConn" /\ h[i].pc \in Removing /\ h' = [h EXCEPT ![i] = q]
        /\ UNCHANGED <<proxy, running, key>>
        /\ ad' = WithoutAds({h[i].conn}) /\ conn' = WithoutConns({h[i].conn})
    BY DEF DeleteConn, Goto, At, disk, mem, Removing
  <1>2. h[i] \in TaskType /\ h[i].then = "none" BY <1>1, Deleter
  <1>3. q.pc = "delLocal" /\ q.t = h[i].t /\ q.then = "none" BY <1>2 DEF TaskType
  <1> HIDE DEF q
  <1>4. (\A t \in Tunnels : Kept(t)) /\ ConnMoves(i) BY <1>1, DropsKept
  <1>5. ~Starts(q) /\ q.pc \notin {"look", "disable", "patchConn"} BY <1>3 DEF Starts
  <1>6. Respects(i, q) BY <1>1, <1>3, <1>4, <1>5, FreeTask DEF Respects, Halfway
  <1> QED BY <1>6, StepOnward

\* The key goes with the running entry.
LEMMA DeleteLocalOn ==
    ASSUME ExistsInv, IndInv, DeletesApart, NEW i \in Procs, DeleteLocal(i)
    PROVE  Onward
  <1> DEFINE q == [h[i] EXCEPT !.pc = "delInsp"]
  <1>1. /\ h[i].pc = "delLocal" /\ h[i].pc \in Removing /\ Goto(i, q)
        /\ UNCHANGED <<proxy, ad, conn>> /\ key' = [key EXCEPT ![h[i].t] = FALSE]
        /\ running' = [running EXCEPT ![h[i].t] = "off"]
    BY DEF DeleteLocal, At, cloud, Removing
  <1>2. h[i] \in TaskType /\ h[i].t \in Tunnels /\ h[i].then = "none" BY <1>1, Deleter
  <1>3. q.pc = "delInsp" /\ q.t = h[i].t /\ q.then = "none" BY <1>2 DEF TaskType
  <1> HIDE DEF q
  <1>4. /\ running'[h[i].t] = "off" /\ \A t \in Tunnels : running'[t] # "off" => running[t] # "off"
        /\ \A t \in Tunnels \ {h[i].t} : key'[t] = key[t]
    BY <1>1, <1>2 DEF IndInv, TypeOK, DataType
  <1>5. \A t \in Tunnels \ {h[i].t} : Kept(t) BY <1>1, <1>4 DEF Kept
  <1> QED BY <1>1, <1>3, <1>4, <1>5, DeletesOnward DEF Removing

\* The last of it.
LEMMA DeleteInspectorOn ==
    ASSUME ExistsInv, IndInv, DeletesApart, NEW i \in Procs, DeleteInspector(i)
    PROVE  Onward
  BY JustReturns DEF DeleteInspector, At, Halfway, cloud

-----------------------------------------------------------------------------
(* Requests, reconciliation, the sweep and crashes.                        *)

\* A task that starts and disables nothing next.
LEMMA FreeOnward ==
    ASSUME ExistsInv, IndInv, DeletesApart, NEW i \in Procs, NEW q, Goto(i, q),
           h[i].pc \notin Halfway, q.pc \notin {"look", "disable", "patchConn"}, ~Starts(q),
           UNCHANGED <<proxy, ad, conn, running, key>>
    PROVE  Onward
  BY FreeTask, ReadsOnward DEF Goto

\* A step of no task.
LEMMA QuietOnward ==
    ASSUME ExistsInv, UNCHANGED <<proxy, ad, conn, key, h>>,
           \A t \in Tunnels : running'[t] = "off" <=> running[t] = "off", IndInv
    PROVE  Onward
  <1>1. \A i \in Procs : Starts(h[i]) \/ h[i].pc = "disable" => h[i].t \in Tunnels
    BY TaskTypes DEF ExistsInv, Counts, TaskOK
  <1>2. ASSUME NEW i \in Procs PROVE Counts(h'[i], proxy', running')
    BY <1>1 DEF ExistsInv, Counts
  <1>3. ExistsInv' BY <1>2 DEF ExistsInv, GoesOff
  <1>4. BackedInv => BackedInv' BY DEF BackedInv, NewIsOwn, At, GoesOff
  <1> QED BY <1>3, <1>4 DEF Onward

\* What clients ask for.
LEMMA RequestOn ==
    ASSUME ExistsInv, IndInv, DeletesApart, NEW i \in Clients, Request(i)
    PROVE  Onward
  <1>0. i \in Procs BY DEF Procs
  <1>1. ASSUME NEW w, NEW p, CreateRequest(i, w, p) PROVE Onward
    <2> DEFINE q == [Blank EXCEPT !.pc = "find", !.then = "crProxy", !.rep = w,
                                  !.insp = p, !.ep = p]
    <2>1. /\ Goto(i, q) /\ h[i].pc \notin Halfway
          /\ UNCHANGED <<proxy, ad, conn, running, key>>
      BY <1>1 DEF CreateRequest, At, Halfway, cloud, disk, mem
    <2>2. q.pc = "find" /\ q.then = "crProxy" BY DEF Blank
    <2> HIDE DEF q
    <2>3. ~Starts(q) BY <2>2 DEF Starts
    <2> QED BY <1>0, <2>1, <2>2, <2>3, FreeOnward
  <1>2. ASSUME NEW t, NEW w, StartRequest(i, t, w) PROVE Onward
    <2>1. PICK rep : Goto(i, [Blank EXCEPT !.pc = "claim", !.t = t, !.rep = rep])
      BY <1>2 DEF StartRequest
    <2> DEFINE q == [Blank EXCEPT !.pc = "claim", !.t = t, !.rep = rep]
    <2>2. h[i].pc \notin Halfway /\ UNCHANGED <<proxy, ad, conn, running, key>>
      BY <1>2 DEF StartRequest, At, Halfway, cloud, disk, mem
    <2>3. q.pc = "claim" /\ q.then = "none" /\ Goto(i, q) BY <2>1 DEF Blank
    <2> HIDE DEF q
    <2>4. ~Starts(q) BY <2>3 DEF Starts
    <2> QED BY <1>0, <2>2, <2>3, <2>4, FreeOnward
  <1>3. ASSUME NEW t \in Tunnels, StopRequest(i, t) PROVE Onward
    BY <1>0, <1>3, TakeRunningOn DEF StopRequest, At, cloud, disk
  <1>4. ASSUME NEW t, Goto(i, [Blank EXCEPT !.pc = "delLook", !.t = t]), h[i].pc = "idle",
               UNCHANGED <<proxy, ad, conn, running, key>>
        PROVE  Onward
    <2> DEFINE q == [Blank EXCEPT !.pc = "delLook", !.t = t]
    <2>1. Goto(i, q) /\ q.pc = "delLook" /\ q.then = "none" BY <1>4 DEF Blank
    <2> HIDE DEF q
    <2>2. ~Starts(q) BY <2>1 DEF Starts
    <2> QED BY <1>0, <1>4, <2>1, <2>2, FreeOnward DEF Halfway
  <1>5. ASSUME NEW t, DeleteRequest(i, t) PROVE Onward
    BY <1>4, <1>5 DEF DeleteRequest, At, cloud, disk, mem
  <1>6. ASSUME NEW t \in Tunnels, RemoveRequest(i, t) PROVE Onward
    <2>1. h[i].pc = "idle" /\ UNCHANGED <<proxy, ad, conn, key>>
      BY <1>6 DEF RemoveRequest, At, cloud, disk
    <2>2. CASE Goto(i, [Blank EXCEPT !.pc = "delLook", !.t = t]) /\ UNCHANGED running
      BY <1>4, <2>1, <2>2
    <2>3. CASE TakeRunning(i, t, TRUE) BY <1>0, <2>1, <2>3, TakeRunningOn
    <2> QED BY <1>6, <2>2, <2>3 DEF RemoveRequest
  <1> QED BY <1>1, <1>2, <1>3, <1>5, <1>6 DEF Request

\* A loop that begins, or ends.
LEMMA LoopOnward ==
    ASSUME ExistsInv, IndInv, DeletesApart, NEW i \in Procs, h[i].pc \notin Halfway,
           Goto(i, Blank) \/ Goto(i, [Blank EXCEPT !.pc = "next"]),
           UNCHANGED <<proxy, ad, conn, running, key>>
    PROVE  Onward
  <1> DEFINE n == [Blank EXCEPT !.pc = "next"]
  <1>1. n.pc = "next" /\ n.then = "none" /\ Blank.pc = "idle" /\ Blank.then = "none"
    BY DEF Blank
  <1>2. ~Starts(Blank) /\ ~Starts(n)
    <2> HIDE DEF n
    <2> QED BY <1>1 DEF Starts
  <1>3. CASE Goto(i, Blank) BY <1>1, <1>2, <1>3, FreeOnward
  <1>4. CASE Goto(i, n)
    <2> HIDE DEF n
    <2> QED BY <1>1, <1>2, <1>4, FreeOnward
  <1> QED BY <1>3, <1>4

\* What reconciliation does with the tunnels it has listed.
LEMMA ReconcileOn ==
    ASSUME ExistsInv, IndInv, DeletesApart, Reconcile
    PROVE  Onward
  <1>0. Main \in Procs BY DEF Procs
  <1>1. CASE MainList \/ MainServe
    BY <1>0, <1>1, LoopOnward DEF MainList, MainServe, At, Halfway, cloud, disk, mem
  <1>2. ASSUME NEW r \in recTodo, MainStopOlder(r) PROVE Onward
    <2>1. h[Main].pc = "next" /\ UNCHANGED <<proxy, ad, conn, key>> /\ r.t \in Tunnels
      BY <1>2 DEF MainStopOlder, At, cloud, disk, IndInv, TypeOK, DataType
    <2>2. CASE TakeRunning(Main, r.t, FALSE) BY <1>0, <2>1, <2>2, TakeRunningOn
    <2>3. CASE UNCHANGED <<h, running>> BY <2>1, <2>3, QuietOnward
    <2> QED BY <1>2, <2>2, <2>3 DEF MainStopOlder
  <1>3. ASSUME NEW r \in recTodo, MainReconcile(r) PROVE Onward
    <2>1. h[Main].pc = "next" /\ UNCHANGED <<proxy, ad, conn, running, key>>
      BY <1>3 DEF MainReconcile, At, cloud, disk, mem
    <2>2. CASE UNCHANGED h BY <2>1, <2>2, QuietOnward
    <2>3. ASSUME NEW p,
                 Goto(Main, [Blank EXCEPT !.pc = IF p = r.ep THEN "install" ELSE "moveProxy",
                                          !.t = r.t, !.rep = target[r.t], !.insp = p, !.ep = p,
                                          !.after = IF r.on THEN "claim" ELSE "ret"])
          PROVE  Onward
      <3> DEFINE x == IF p = r.ep THEN "install" ELSE "moveProxy"
                 a == IF r.on THEN "claim" ELSE "ret"
                 q == [Blank EXCEPT !.pc = x, !.t = r.t, !.rep = target[r.t], !.insp = p,
                                    !.ep = p, !.after = a]
      <3>1. x \in {"install", "moveProxy"} /\ a \in {"claim", "ret"} /\ Goto(Main, q)
        BY <2>3
      <3> HIDE DEF x, a
      <3>2. q.pc = x /\ q.then = "none" /\ q.after = a BY DEF Blank
      <3> HIDE DEF q
      <3>3. ~Starts(q) BY <3>1, <3>2 DEF Starts
      <3> QED BY <1>0, <2>1, <3>1, <3>2, <3>3, FreeOnward DEF Halfway
    <2> QED BY <1>3, <2>2, <2>3 DEF MainReconcile
  <1> QED BY <1>1, <1>2, <1>3 DEF Reconcile

\* What the sweep does.
LEMMA SweepOn ==
    ASSUME ExistsInv, IndInv, DeletesApart, SweepTask
    PROVE  Onward
  <1>0. Sweep \in Procs BY DEF Procs
  <1>1. CASE SweepSnapshot \/ SweepDone
    BY <1>0, <1>1, LoopOnward DEF SweepSnapshot, SweepDone, At, Halfway, cloud, disk, mem
  <1>2. ASSUME NEW t \in sweepTodo, SweepStop(t) PROVE Onward
    <2>1. h[Sweep].pc = "next" /\ UNCHANGED <<proxy, ad, conn, key>> /\ t \in Tunnels
      BY <1>2 DEF SweepStop, At, cloud, disk, IndInv, TypeOK, DataType
    <2>2. CASE TakeRunning(Sweep, t, FALSE) BY <1>0, <2>1, <2>2, TakeRunningOn
    <2>3. CASE UNCHANGED <<h, running>> BY <2>1, <2>3, QuietOnward
    <2> QED BY <1>2, <2>2, <2>3 DEF SweepStop
  <1> QED BY <1>1, <1>2 DEF SweepTask

\* Time passes.
LEMMA ExpireOn ==
    ASSUME ExistsInv, IndInv, NEW t \in Tunnels, Expire(t)
    PROVE  Onward
  <1>1. \A u \in Tunnels : running'[u] = "off" <=> running[u] = "off"
    BY DEF Expire, IndInv, TypeOK, DataType
  <1> QED BY <1>1, QuietOnward DEF Expire, cloud, disk

\* Tasks that have not begun count on nothing, and nothing runs.
LEMMA NothingRuns ==
    ASSUME \A i \in Procs : h[i].pc \in {"idle", "list"} /\ h[i].then = "none",
           \A t \in Tunnels : running[t] = "off"
    PROVE  ExistsInv /\ BackedInv
  <1>1. \A i \in Procs : Counts(h[i], proxy, running) /\ Holds(h[i], proxy, ad, conn)
    BY FreeTask DEF Starts, Counts, Holds
  <1> QED BY <1>1 DEF ExistsInv, BackedInv, NewIsOwn, At

\* A crash leaves nothing running and no task under way.
LEMMA CrashOn ==
    ASSUME Crash
    PROVE  Onward
  <1> DEFINE m == [Blank EXCEPT !.pc = "list"]
  <1>1. m.pc = "list" /\ m.then = "none" /\ Blank.pc = "idle" /\ Blank.then = "none"
    BY DEF Blank
  <1>2. h' = [i \in Procs |-> IF i = Main THEN m ELSE Blank] BY DEF Crash
  <1> HIDE DEF m
  <1>3. \A i \in Procs : h'[i].pc \in {"idle", "list"} /\ h'[i].then = "none"
    BY <1>1, <1>2
  <1>4. \A t \in Tunnels : running'[t] = "off" BY DEF Crash
  <1>5. ASSUME NEW i \in Procs
        PROVE  Counts(h'[i], proxy', running') /\ Holds(h'[i], proxy', ad', conn')
    <2>1. ~Starts(h'[i]) BY <1>3 DEF Starts
    <2> QED BY <1>3, <2>1, FreeTask
  <1>6. ExistsInv' BY <1>4, <1>5 DEF ExistsInv
  <1>7. \A i \in Procs : h'[i].pc # "patchConn" BY <1>3
  <1>8. BackedInv' BY <1>4, <1>5, <1>7 DEF BackedInv, NewIsOwn, At
  <1> QED BY <1>6, <1>8 DEF Onward

-----------------------------------------------------------------------------
(* The theorems.                                                           *)

\* Every step.
LEMMA OnwardStep ==
    ASSUME ExistsInv, IndInv, DeletesApart, [Next]_vars, MaxFaults = 0
    PROVE  Onward
  <1>1. CASE UNCHANGED vars BY <1>1, QuietOnward DEF vars
  <1>2. ASSUME NEW i \in Clients, Request(i) PROVE Onward BY <1>2, RequestOn
  <1>3. ASSUME NEW i \in Procs, Task(i) PROVE Onward
    <2>1. CASE Ensure(i)
      BY <2>1, FindConnectorOn, MakeConnectorOn, OverQuotaOn, PatchConnectorOn DEF Ensure
    <2>2. CASE Create(i) BY <2>2, CreateProxyOn, CreateAdOn DEF Create
    <2>3. CASE Start(i)
      BY <2>3, StartClaimOn, StartLookOn, StartKeyOn, UpdateProxyOn, UpdateAdOn, CleanRefsOn,
         CleanListOn, CleanDeleteOn, MoveProxyOn, MoveAdOn, InstallInspectorOn, EnableGetOn,
         EnableGoneOn, EnablePatchOn, EnableAdOn, StartInsertOn
      DEF Start
    <2>4. CASE Disable(i) BY <2>4, DisableOn
    <2>5. CASE Delete(i)
      BY <2>5, DeleteLookOn, DeleteProxyOn, DeleteAdOn, DeleteCheckOn, DeleteConnOn,
         DeleteLocalOn, DeleteInspectorOn
      DEF Delete
    <2> QED BY <1>3, <2>1, <2>2, <2>3, <2>4, <2>5 DEF Task
  <1>4. ASSUME NEW i \in Procs, Fail(i) \/ CleanFails(i) PROVE FALSE
    <2>1. faults \in Nat /\ faults < MaxFaults
      BY <1>4 DEF Fail, CleanFails, IndInv, TypeOK, DataType
    <2> QED BY <2>1
  <1>5. CASE Reconcile BY <1>5, ReconcileOn
  <1>6. CASE SweepTask BY <1>6, SweepOn
  <1>7. CASE Crash BY <1>7, CrashOn
  <1>8. ASSUME NEW t \in Tunnels, Expire(t) PROVE Onward BY <1>8, ExpireOn
  <1> QED BY <1>1, <1>2, <1>3, <1>4, <1>5, <1>6, <1>7, <1>8 DEF Next

\* Both hold at the start.
LEMMA BackedInit == Init => ExistsInv /\ BackedInv
  <1> SUFFICES ASSUME Init PROVE ExistsInv /\ BackedInv OBVIOUS
  <1>1. \A i \in Procs : h[i].pc = "idle" /\ h[i].then = "none" BY DEF Init, Blank
  <1>2. \A t \in Tunnels : running[t] = "off" BY DEF Init
  <1> QED BY <1>1, <1>2, NothingRuns

\* What a tunnel that nothing is in flight for comes to.
LEMMA QuietBacked == (ExistsInv => NoZombie) /\ (BackedInv => RunningBacked)
  <1>1. \A t \in Tunnels : Quiet(t) => ~GoesOff(t) BY DEF Quiet, GoesOff
  <1> QED BY <1>1 DEF ExistsInv, NoZombie, BackedInv, RunningBacked, Backed

\* What runs exists or is being deleted, as long as no delete meets a start.
THEOREM ExistsInvariance == MaxFaults = 0 /\ Spec /\ []DeletesApart => []ExistsInv
  <1> SUFFICES ASSUME MaxFaults = 0 PROVE Spec /\ []DeletesApart => []ExistsInv
    OBVIOUS
  <1>1. Init => ExistsInv BY BackedInit
  <1>2. ExistsInv /\ IndInv /\ DeletesApart /\ [Next]_vars => ExistsInv'
    BY OnwardStep DEF Onward
  <1>3. Spec => []IndInv BY Invariance
  <1> QED BY <1>1, <1>2, <1>3, PTL DEF Spec

\* Nothing is recorded as running for a tunnel that no longer exists: delete_tunnel_internal
\* drops the running entry (main.rs) after the HTTPProxy, and a start reads the proxy before
\* it inserts one.  The one thing in the way is a delete of a tunnel while it is being
\* started, which claim_busy does not exclude.
THEOREM NoneOutlivesProxy == MaxFaults = 0 /\ Spec /\ []DeletesApart => []NoZombie
  BY ExistsInvariance, QuietBacked, PTL

\* What runs is backed or being deleted, as long as nobody's connector goes either.
THEOREM BackedInvariance ==
    MaxFaults = 0 /\ Spec /\ []DeletesApart /\ [][ConnectorsSpared]_vars => []BackedInv
  <1> SUFFICES ASSUME MaxFaults = 0
               PROVE  Spec /\ []DeletesApart /\ [][ConnectorsSpared]_vars => []BackedInv
    OBVIOUS
  <1>1. Init => BackedInv BY BackedInit
  <1>2. BackedInv /\ ExistsInv /\ IndInv /\ DeletesApart /\ [Next]_vars
            /\ [ConnectorsSpared]_vars => BackedInv'
    <2> SUFFICES ASSUME BackedInv, ExistsInv, IndInv, DeletesApart, [Next]_vars,
                        [ConnectorsSpared]_vars
                 PROVE  BackedInv'
      OBVIOUS
    <2>1. CASE ConnectorsSpared BY <2>1, OnwardStep DEF Onward
    <2>2. CASE UNCHANGED vars BY <2>2 DEF vars, BackedInv, NewIsOwn, At, GoesOff
    <2> QED BY <2>1, <2>2
  <1>3. Spec => []IndInv BY Invariance
  <1>4. Spec /\ []DeletesApart => []ExistsInv BY ExistsInvariance
  <1> QED BY <1>1, <1>2, <1>3, <1>4, PTL DEF Spec

\* A tunnel in the running map can be reached: it is enabled, and proxy and advertisement
\* name one connector, of the key on file.  Two things are in the way, and the model
\* reaches both: a delete of the tunnel while it is being started, and a connector that
\* another task's cleanup or delete has found unused before this start wrote it.
THEOREM RunningIsBacked ==
    MaxFaults = 0 /\ Spec /\ []DeletesApart /\ [][ConnectorsSpared]_vars => []RunningBacked
  BY BackedInvariance, QuietBacked, PTL

-----------------------------------------------------------------------------
(* The assumptions hold by themselves where nothing is deleted and there   *)
(* is one tunnel.                                                          *)

\* No client deletes a tunnel: there is no older one for a Remove either.
NeverDeleted == "delete" \notin Ops /\ (OwnTunnel = None \/ "remove" \notin Ops)

OneTunnel == \A t, u \in Tunnels : t = u

\* A task that does not delete, and is not to go on to one.
Spares(r) == r.pc \notin Removing /\ ~r.rm

NoneDeletes == \A i \in Procs : Spares(h[i])

\* A task that does not delete does not begin to.
LEMMA TaskSpares ==
    ASSUME IndInv, NEW i \in Procs, Task(i), Spares(h[i])
    PROVE  Spares(h'[i])
  <1>0. /\ h \in [Procs -> TaskType] /\ h[i] \in TaskType /\ h[i].pc \notin Removing
        /\ ~h[i].rm
    BY TaskTypes DEF Spares
  <1>1. Continue(i).pc \in {"next", "idle"} /\ ~Continue(i).rm
    <2>1. CASE i \in {Main, Sweep}
      <3>1. Continue(i) = [Blank EXCEPT !.pc = "next"] BY <2>1 DEF Continue
      <3> QED BY <3>1 DEF Blank
    <2>2. CASE i \notin {Main, Sweep}
      <3>1. Continue(i) = Blank BY <1>0, <2>2 DEF Continue
      <3> QED BY <3>1 DEF Blank
    <2> QED BY <2>1, <2>2
  <1>2. ASSUME NEW q, h' = [h EXCEPT ![i] = q], q.pc \notin Removing, ~q.rm
        PROVE  Spares(h'[i])
    BY <1>0, <1>2 DEF Spares
  <1>3. CASE Return(i) BY <1>1, <1>2, <1>3 DEF Return, Leave, Removing
  <1>4. ASSUME NEW q, Goto(i, q), q.pc \notin Removing, q.rm = h[i].rm
        PROVE  Spares(h'[i])
    BY <1>0, <1>2, <1>4 DEF Goto
  <1>5. CASE FindConnector(i)
    <2>1. CASE Goto(i, [h[i] EXCEPT !.pc = "mkConn"])
      BY <1>0, <1>4, <2>1 DEF TaskType, Removing
    <2>2. ASSUME NEW c, NEW d, Goto(i, [h[i] EXCEPT !.pc = h[i].then, !.then = "none",
                                                    !.conn = c, !.dirty = d])
          PROVE  Spares(h'[i])
      BY <1>0, <1>4, <2>2 DEF TaskType, Removing
    <2> QED BY <1>5, <2>1, <2>2 DEF FindConnector
  <1>6. ASSUME NEW c, MakeConnector(i, c) PROVE Spares(h'[i])
    BY <1>0, <1>4, <1>6 DEF MakeConnector, TaskType, Removing
  <1>7. CASE OverQuota(i) \/ EnableGone(i) \/ Disable(i) \/ StartInsert(i)
    BY <1>3, <1>7 DEF OverQuota, EnableGone, Disable, StartInsert
  <1>8. CASE PatchConnector(i) BY <1>0, <1>4, <1>8 DEF PatchConnector, TaskType, Removing
  <1>9. ASSUME NEW t, CreateProxy(i, t) PROVE Spares(h'[i])
    BY <1>0, <1>4, <1>9 DEF CreateProxy, TaskType, Removing
  <1>10. CASE CreateAd(i)
    <2>1. CASE Goto(i, [h[i] EXCEPT !.pc = "install"])
      BY <1>0, <1>4, <2>1 DEF TaskType, Removing
    <2> QED BY <1>3, <1>10, <2>1 DEF CreateAd
  <1>11. CASE StartClaim(i)
    <2> DEFINE q == [[h[i] EXCEPT !.pc = "look"] EXCEPT !.lock = TRUE]
    <2>1. q.pc = "look" /\ q.rm = h[i].rm BY <1>0 DEF TaskType
    <2>2. ClaimBusy(i, [h[i] EXCEPT !.pc = "look"]) => h' = [h EXCEPT ![i] = q]
      BY DEF ClaimBusy
    <2> HIDE DEF q
    <2> QED BY <1>0, <1>2, <1>3, <1>11, <2>1, <2>2 DEF StartClaim, Removing
  <1>12. CASE StartLook(i)
    <2>1. ASSUME NEW p, NEW x \in {"key", "moveProxy"}, NEW a,
                 Goto(i, [[h[i] EXCEPT !.insp = p, !.ep = p] EXCEPT !.pc = x, !.after = a])
          PROVE  Spares(h'[i])
      BY <1>0, <1>4, <2>1 DEF TaskType, Removing
    <2>2. ASSUME NEW e, Goto(i, [h[i] EXCEPT !.pc = "key", !.ep = e])
          PROVE  Spares(h'[i])
      BY <1>0, <1>4, <2>2 DEF TaskType, Removing
    <2> QED BY <1>3, <1>12, <2>1, <2>2 DEF StartLook
  <1>13. CASE StartKey(i)
    <2>1. CASE Goto(i, [h[i] EXCEPT !.pc = "find", !.then = "updProxy"])
      BY <1>0, <1>4, <2>1 DEF TaskType, Removing
    <2>2. CASE Goto(i, [h[i] EXCEPT !.pc = IF h[i].rep # None THEN "moveProxy" ELSE "enGet"])
      BY <1>0, <1>4, <2>2 DEF TaskType, Removing
    <2> QED BY <1>13, <2>1, <2>2 DEF StartKey
  <1>14. CASE UpdateProxy(i) \/ UpdateAd(i) \/ MoveProxy(i) \/ MoveAd(i)
    <2>1. ASSUME NEW x \in {"updAd", "cleanRefs", "moveAd", "install"},
                 Goto(i, [h[i] EXCEPT !.pc = x])
          PROVE  Spares(h'[i])
      BY <1>0, <1>4, <2>1 DEF TaskType, Removing
    <2> QED BY <1>3, <1>14, <2>1 DEF UpdateProxy, UpdateAd, MoveProxy, MoveAd
  <1>15. CASE CleanRefs(i) \/ CleanList(i)
    <2>1. ASSUME NEW x \in {"cleanList", "cleanDel"}, NEW d,
                 Goto(i, [h[i] EXCEPT !.pc = x, !.drop = d])
          PROVE  Spares(h'[i])
      BY <1>0, <1>4, <2>1 DEF TaskType, Removing
    <2> QED BY <1>15, <2>1 DEF CleanRefs, CleanList
  <1>16. CASE CleanDelete(i)
    BY <1>0, <1>4, <1>16 DEF CleanDelete, AfterClean, TaskType, Removing
  <1>17. CASE InstallInspector(i)
    <2>1. CASE Goto(i, [h[i] EXCEPT !.pc = h[i].after, !.insp = None, !.rep = None])
      BY <1>0, <1>4, <2>1 DEF TaskType, Removing
    <2> QED BY <1>3, <1>17, <2>1 DEF InstallInspector
  <1>18. CASE EnableGet(i) BY <1>0, <1>4, <1>18 DEF EnableGet, TaskType, Removing
  <1>19. CASE EnablePatch(i) \/ EnableAd(i)
    BY <1>0, <1>4, <1>19 DEF EnablePatch, EnableAd, TaskType, Removing
  <1>20. ~Delete(i)
    BY <1>0 DEF Delete, DeleteLook, DeleteProxy, DeleteAd, DeleteCheck, DeleteConn,
                DeleteLocal, DeleteInspector, At, Removing
  <1> QED
    BY <1>5, <1>6, <1>7, <1>8, <1>9, <1>10, <1>11, <1>12, <1>13, <1>14, <1>15, <1>16,
       <1>17, <1>18, <1>19, <1>20 DEF Task, Ensure, Create, Start

\* So none of them does.
LEMMA TaskKeeps ==
    ASSUME IndInv, NoneDeletes, NEW i \in Procs, Task(i)
    PROVE  NoneDeletes'
  <1>1. Spares(h'[i]) BY TaskSpares DEF NoneDeletes
  <1>2. \A j \in Procs \ {i} : h'[j] = h[j] BY TaskMoves DEF Moves, Alone
  <1> QED BY <1>1, <1>2 DEF NoneDeletes, Spares

\* Nor does any other step.
LEMMA NoneDeletesStep ==
    ASSUME IndInv, IndInv', NoneDeletes, NeverDeleted, MaxFaults = 0, [Next]_vars
    PROVE  NoneDeletes'
  <1>0. /\ h \in [Procs -> TaskType] /\ Main \in Procs /\ Sweep \in Procs
        /\ Clients \subseteq Procs
    BY DEF IndInv, TypeOK, Procs
  <1>1. ASSUME NEW i \in Procs, NEW q, h' = [h EXCEPT ![i] = q], q.pc \notin Removing, ~q.rm
        PROVE  NoneDeletes'
    BY <1>0, <1>1 DEF NoneDeletes, Spares
  <1>2. ASSUME NEW i \in Procs, NEW t, TakeRunning(i, t, FALSE) PROVE NoneDeletes'
    <2> DEFINE q == [[Blank EXCEPT !.pc = "disable", !.t = t, !.rm = FALSE] EXCEPT !.lock = TRUE]
    <2>1. h' = [h EXCEPT ![i] = q] BY <1>2 DEF TakeRunning, ClaimBusy
    <2>2. q.pc = "disable" /\ q.rm = FALSE BY DEF Blank
    <2> HIDE DEF q
    <2> QED BY <1>1, <2>1, <2>2 DEF Removing
  <1>3. ASSUME NEW i \in Clients, Request(i) PROVE NoneDeletes'
    <2>1. ASSUME NEW w, NEW p, CreateRequest(i, w, p) PROVE NoneDeletes'
      <3> DEFINE q == [Blank EXCEPT !.pc = "find", !.then = "crProxy", !.rep = w,
                                    !.insp = p, !.ep = p]
      <3>1. h' = [h EXCEPT ![i] = q] BY <2>1 DEF CreateRequest, Goto
      <3>2. q.pc = "find" /\ q.rm = FALSE BY DEF Blank
      <3> HIDE DEF q
      <3> QED BY <1>0, <1>1, <3>1, <3>2 DEF Removing
    <2>2. ASSUME NEW t, NEW w, StartRequest(i, t, w) PROVE NoneDeletes'
      <3>1. PICK rep : Goto(i, [Blank EXCEPT !.pc = "claim", !.t = t, !.rep = rep])
        BY <2>2 DEF StartRequest
      <3> DEFINE q == [Blank EXCEPT !.pc = "claim", !.t = t, !.rep = rep]
      <3>2. h' = [h EXCEPT ![i] = q] BY <3>1 DEF Goto
      <3>3. q.pc = "claim" /\ q.rm = FALSE BY DEF Blank
      <3> HIDE DEF q
      <3> QED BY <1>0, <1>1, <3>2, <3>3 DEF Removing
    <2>3. ASSUME NEW t, StopRequest(i, t) PROVE NoneDeletes'
      BY <1>0, <1>2, <2>3 DEF StopRequest
    <2>4. ASSUME NEW t PROVE ~DeleteRequest(i, t) /\ ~RemoveRequest(i, t)
      BY DEF DeleteRequest, RemoveRequest, Older, NeverDeleted
    <2> QED BY <1>3, <2>1, <2>2, <2>3, <2>4 DEF Request
  <1>4. ASSUME NEW i \in Procs PROVE ~Fail(i) /\ ~CleanFails(i)
    BY DEF Fail, CleanFails, IndInv, TypeOK, DataType
  <1>5. ASSUME NEW i \in Procs, Goto(i, Blank) \/ Goto(i, [Blank EXCEPT !.pc = "next"])
        PROVE  NoneDeletes'
    <2> DEFINE n == [Blank EXCEPT !.pc = "next"]
    <2>1. n.pc = "next" /\ n.rm = FALSE /\ Blank.pc = "idle" /\ Blank.rm = FALSE BY DEF Blank
    <2> HIDE DEF n
    <2>2. h' = [h EXCEPT ![i] = Blank] \/ h' = [h EXCEPT ![i] = n] BY <1>5 DEF Goto, n
    <2> QED BY <1>1, <2>1, <2>2 DEF Removing
  <1>6. CASE Reconcile
    <2>1. CASE MainList \/ MainServe BY <1>0, <1>5, <2>1 DEF MainList, MainServe
    <2>2. ASSUME NEW r \in recTodo, MainStopOlder(r) PROVE NoneDeletes'
      <3>1. CASE UNCHANGED h BY <3>1 DEF NoneDeletes, Spares
      <3> QED BY <1>0, <1>2, <2>2, <3>1 DEF MainStopOlder
    <2>3. ASSUME NEW r \in recTodo, MainReconcile(r) PROVE NoneDeletes'
      <3>1. CASE UNCHANGED h BY <3>1 DEF NoneDeletes, Spares
      <3>2. ASSUME NEW p, NEW a, NEW x \in {"install", "moveProxy"},
                   Goto(Main, [Blank EXCEPT !.pc = x, !.t = r.t, !.rep = target[r.t],
                                            !.insp = p, !.ep = p, !.after = a])
            PROVE  NoneDeletes'
        <4> DEFINE q == [Blank EXCEPT !.pc = x, !.t = r.t, !.rep = target[r.t],
                                      !.insp = p, !.ep = p, !.after = a]
        <4>1. h' = [h EXCEPT ![Main] = q] BY <3>2 DEF Goto
        <4>2. q.pc = x /\ q.rm = FALSE BY DEF Blank
        <4> HIDE DEF q
        <4> QED BY <1>0, <1>1, <4>1, <4>2 DEF Removing
      <3> QED BY <2>3, <3>1, <3>2 DEF MainReconcile
    <2> QED BY <1>6, <2>1, <2>2, <2>3 DEF Reconcile
  <1>7. CASE SweepTask
    <2>1. CASE SweepSnapshot \/ SweepDone BY <1>0, <1>5, <2>1 DEF SweepSnapshot, SweepDone
    <2>2. ASSUME NEW t, SweepStop(t) PROVE NoneDeletes'
      <3>1. CASE UNCHANGED h BY <3>1 DEF NoneDeletes, Spares
      <3> QED BY <1>0, <1>2, <2>2, <3>1 DEF SweepStop
    <2> QED BY <1>7, <2>1, <2>2 DEF SweepTask
  <1>8. CASE Crash
    <2> DEFINE m == [Blank EXCEPT !.pc = "list"]
    <2>1. m.pc = "list" /\ m.rm = FALSE /\ Blank.pc = "idle" /\ Blank.rm = FALSE BY DEF Blank
    <2>2. h' = [i \in Procs |-> IF i = Main THEN m ELSE Blank] BY <1>8 DEF Crash
    <2> HIDE DEF m
    <2> QED BY <2>1, <2>2 DEF NoneDeletes, Spares, Removing
  <1>9. CASE UNCHANGED h BY <1>9 DEF NoneDeletes, Spares
  <1> QED
    BY <1>3, <1>4, <1>6, <1>7, <1>8, <1>9, TaskKeeps DEF Next, Expire, vars

\* The cleanup of the only tunnel spares the connector that the tunnel's proxy names,
\* and no start is about to write another one.
LEMMA OneSpares ==
    ASSUME ExistsInv, IndInv, NoneDeletes, OneTunnel, NEW i \in Procs, CleanDelete(i)
    PROVE  ConnectorsSpared
  <1>1. Starts(h[i]) /\ h[i].pc = "cleanDel" /\ conn' = WithoutConns(h[i].drop)
    BY DEF CleanDelete, At, Starts
  <1>2. h[i].lock /\ h[i].t \in Tunnels /\ proxy[h[i].t].conn \notin h[i].drop
    BY <1>1, StartHere DEF ExistsInv, Counts
  <1>3. ASSUME NEW c \in Conns, Used(c) PROVE c \notin h[i].drop
    BY <1>2, <1>3 DEF Used, OneTunnel
  <1>4. ASSUME NEW c \in Conns, NEW j \in Procs, InHand(j, c) PROVE FALSE
    <2>1. Starts(h[j]) /\ j # i BY <1>1, <1>4 DEF InHand, Starts
    <2>2. h[j].lock /\ h[j].t \in Tunnels BY <2>1, StartHere
    <2> QED BY <1>2, <2>1, <2>2 DEF OneTunnel, IndInv, BusyExclusion
  <1> QED BY <1>1, <1>3, <1>4 DEF ConnectorsSpared, WithoutConns, Exists

\* No other step takes a connector.
LEMMA SparesStep ==
    ASSUME ExistsInv, IndInv, NoneDeletes, OneTunnel, MaxFaults = 0, Next
    PROVE  ConnectorsSpared
  <1>0. conn \in [Conns -> Identities \cup {None}] BY DEF IndInv, TypeOK, DataType
  <1>1. CASE UNCHANGED conn BY <1>1 DEF ConnectorsSpared, Exists
  <1>2. ASSUME NEW i \in Procs, NEW c, MakeConnector(i, c) PROVE ConnectorsSpared
    BY <1>0, <1>2, IdentitiesDistinct DEF MakeConnector, ConnectorsSpared, Exists
  <1>3. ASSUME NEW i \in Procs, PatchConnector(i) PROVE ConnectorsSpared
    <2>1. Identity(i) # None BY IdentitiesDistinct DEF Identity
    <2> QED BY <1>0, <1>1, <1>3, <2>1 DEF PatchConnector, ConnectorsSpared, Exists
  <1>4. ASSUME NEW i \in Procs PROVE ~DeleteConn(i)
    BY DEF NoneDeletes, Spares, DeleteConn, At, Removing
  <1>5. CASE Crash BY <1>5, IdentitiesDistinct DEF Crash, ConnectorsSpared, Exists
  <1>6. ASSUME NEW i \in Procs, Task(i) PROVE ConnectorsSpared
    BY <1>1, <1>2, <1>3, <1>4, <1>6, OneSpares
    DEF Task, Ensure, FindConnector, OverQuota, Create, CreateProxy, CreateAd, Start,
        StartClaim, StartLook, StartKey, UpdateProxy, UpdateAd, CleanRefs, CleanList,
        MoveProxy, MoveAd, InstallInspector, EnableGet, EnableGone, EnablePatch, EnableAd,
        StartInsert, Disable, Delete, DeleteLook, DeleteProxy, DeleteAd, DeleteCheck,
        DeleteLocal, DeleteInspector, cloud
  <1>7. ASSUME NEW i \in Clients, Request(i) PROVE UNCHANGED conn
    BY <1>7 DEF Request, CreateRequest, StartRequest, StopRequest, DeleteRequest,
                RemoveRequest, cloud
  <1>8. ASSUME NEW i \in Procs PROVE ~Fail(i) /\ ~CleanFails(i)
    BY DEF Fail, CleanFails, IndInv, TypeOK, DataType
  <1>9. Reconcile \/ SweepTask \/ (\E t \in Tunnels : Expire(t)) => UNCHANGED conn
    BY DEF Reconcile, MainList, MainServe, MainStopOlder, MainReconcile, SweepTask,
           SweepSnapshot, SweepDone, SweepStop, Expire, cloud
  <1> QED BY <1>1, <1>5, <1>6, <1>7, <1>8, <1>9 DEF Next

\* Where nothing is deleted no delete meets a start.
THEOREM NoneDeletesInvariance == MaxFaults = 0 /\ NeverDeleted /\ Spec => []NoneDeletes
  <1> SUFFICES ASSUME MaxFaults = 0, NeverDeleted PROVE Spec => []NoneDeletes
    OBVIOUS
  <1>1. Init => NoneDeletes BY DEF Init, NoneDeletes, Spares, Blank, Removing
  <1>2. NoneDeletes /\ IndInv /\ IndInv' /\ [Next]_vars => NoneDeletes'
    BY NoneDeletesStep
  <1>3. Spec => []IndInv BY Invariance
  <1> QED BY <1>1, <1>2, <1>3, PTL DEF Spec

\* The connector of the only tunnel is spared in every step.
LEMMA OneTunnelSpared ==
    MaxFaults = 0 /\ NeverDeleted /\ OneTunnel /\ Spec => [][ConnectorsSpared]_vars
  <1> SUFFICES ASSUME MaxFaults = 0, NeverDeleted, OneTunnel
               PROVE  Spec => [][ConnectorsSpared]_vars
    OBVIOUS
  <1>1. NoneDeletes => DeletesApart BY DEF NoneDeletes, Spares, DeletesApart
  <1>2. NoneDeletes /\ ExistsInv /\ IndInv /\ [Next]_vars => [ConnectorsSpared]_vars
    BY SparesStep
  <1>3. Spec => []NoneDeletes BY NoneDeletesInvariance
  <1>4. Spec => []IndInv BY Invariance
  <1>5. Spec /\ []DeletesApart => []ExistsInv BY ExistsInvariance
  <1> QED BY <1>1, <1>2, <1>3, <1>4, <1>5, PTL DEF Spec

\* The only tunnel, if it is never deleted, can be reached while the running map
\* (AppState) has it: it is enabled, and proxy and advertisement name a connector that
\* is patched with the key on file, through every stop, restart, crash and cleanup.
THEOREM OneTunnelIsBacked ==
    MaxFaults = 0 /\ NeverDeleted /\ OneTunnel /\ Spec => []RunningBacked
  <1> SUFFICES ASSUME MaxFaults = 0, NeverDeleted, OneTunnel PROVE Spec => []RunningBacked
    OBVIOUS
  <1>1. NoneDeletes => DeletesApart BY DEF NoneDeletes, Spares, DeletesApart
  <1>2. Spec => []NoneDeletes BY NoneDeletesInvariance
  <1>3. Spec => [][ConnectorsSpared]_vars BY OneTunnelSpared
  <1>4. Spec /\ []DeletesApart /\ [][ConnectorsSpared]_vars => []RunningBacked
    BY RunningIsBacked
  <1> QED BY <1>1, <1>2, <1>3, <1>4, PTL

\* cleanup_orphaned_connectors (tunnels.rs) deletes no connector that an HTTPProxy names,
\* where there is one tunnel: the start that runs it has written the connector into the
\* proxy before it lists the proxies, and it has the tunnel reserved.
THEOREM OneTunnelCleanup ==
    MaxFaults = 0 /\ NeverDeleted /\ OneTunnel /\ Spec => CleanupKeepsUsed
  <1> SUFFICES ASSUME MaxFaults = 0, NeverDeleted, OneTunnel PROVE Spec => CleanupKeepsUsed
    OBVIOUS
  <1> DEFINE Spared == \A c \in Conns : Exists(c) /\ Used(c) => conn'[c] # None
  <1>1. Spec => [][ConnectorsSpared]_vars BY OneTunnelSpared
  <1>2. [ConnectorsSpared]_vars => [Spared]_vars BY DEF ConnectorsSpared
  <1>3. Spec => [][Spared]_vars BY <1>1, <1>2, PTL
  <1> QED BY <1>3 DEF CleanupKeepsUsed

-----------------------------------------------------------------------------
(* The first assumption holds by itself between a request and what the     *)
(* daemon does on its own account, so only two requests can break it.      *)

\* Neither reconciliation nor the sweep deletes, and the sweep starts nothing.  What the
\* page removes before the API is served is not a tunnel that reconciliation starts.
TurnInv ==
    /\ h[Sweep].pc \in {"idle", "next", "disable"}
    /\ Spares(h[Main])
    /\ ~Up => \A i \in Clients : h[i].pc \in Removing => ~Mine(h[i].t)

\* A request changes the task of its client only.
LEMMA RequestAlone ==
    ASSUME IndInv, NEW i \in Clients, Request(i)
    PROVE  \A j \in Procs \ {i} : h'[j] = h[j]
  <1>0. i \in Procs /\ h \in [Procs -> TaskType] BY DEF IndInv, TypeOK, Procs
  <1>1. \E q : h' = [h EXCEPT ![i] = q]
    BY DEF Request, CreateRequest, StartRequest, StopRequest, DeleteRequest, RemoveRequest,
           TakeRunning, ClaimBusy, Goto
  <1> QED BY <1>0, <1>1

\* A request that is served before the API is one to remove an older tunnel.
LEMMA RequestTurn ==
    ASSUME IndInv, OlderInv, TurnInv, NEW i \in Clients, Request(i)
    PROVE  TurnInv'
  <1>0. Main \in Procs /\ Sweep \in Procs /\ Clients \subseteq Procs /\ i \in Procs
        /\ Main # i /\ Sweep # i /\ h \in [Procs -> TaskType]
    BY TasksDistinct DEF Procs, IndInv, TypeOK
  <1>1. /\ h'[Main] = h[Main] /\ h'[Sweep] = h[Sweep]
        /\ \A j \in Clients \ {i} : h'[j] = h[j]
    BY <1>0, RequestAlone
  <1>2. ASSUME ~Up PROVE ~Mine(h'[i].t)
    <2>1. PICK t \in Tunnels : RemoveRequest(i, t)
      BY <1>2 DEF Request, CreateRequest, StartRequest, StopRequest, DeleteRequest
    <2>2. ~Mine(t) BY <2>1 DEF RemoveRequest, Older, Mine
    <2>3. running[t] = "off" BY <1>2, <2>2 DEF OlderInv, OnlyRemoves
    <2>4. h' = [h EXCEPT ![i] = [Blank EXCEPT !.pc = "delLook", !.t = t]]
      BY <2>1, <2>3 DEF RemoveRequest, Goto
    <2>5. h'[i].t = t BY <1>0, <2>4 DEF Blank
    <2> QED BY <2>2, <2>5
  <1> QED BY <1>1, <1>2 DEF TurnInv, Spares, Up, At, Mine

\* A task goes on with what it is about.
LEMMA TaskTurn ==
    ASSUME IndInv, OlderInv, TurnInv, NEW i \in Procs, Task(i)
    PROVE  TurnInv'
  <1>0. Main \in Procs /\ Sweep \in Procs /\ Clients \subseteq Procs /\ Main # Sweep
        /\ Main \notin Clients /\ Sweep \notin Clients /\ h \in [Procs -> TaskType]
    BY TasksDistinct DEF Procs, IndInv, TypeOK
  <1>1. Moves(i) /\ \A j \in Procs \ {i} : h'[j] = h[j] BY TaskMoves DEF Moves, Alone
  <1>2. CASE i = Sweep
    <2>1. h[i].pc = "disable" BY <1>1, <1>2 DEF Moves, TurnInv
    <2>2. Disable(i)
      BY <2>1 DEF Task, Ensure, FindConnector, MakeConnector, OverQuota, PatchConnector,
         Create, CreateProxy, CreateAd, Start, StartClaim, StartLook, StartKey, UpdateProxy,
         UpdateAd, CleanRefs, CleanList, CleanDelete, MoveProxy, MoveAd, InstallInspector,
         EnableGet, EnableGone, EnablePatch, EnableAd, StartInsert, Delete, DeleteLook,
         DeleteProxy, DeleteAd, DeleteCheck, DeleteConn, DeleteLocal, DeleteInspector, At
    <2>3. h'[Sweep].pc = "next"
      BY <1>0, <1>2, <2>2 DEF Disable, Return, Leave, Continue, Blank
    <2> QED BY <1>0, <1>1, <1>2, <2>3 DEF TurnInv, Spares, Up, At, Mine
  <1>3. CASE i = Main
    <2>1. Spares(h'[Main]) BY <1>3, TaskSpares DEF TurnInv
    <2>2. ~Up BY <1>1, <1>3 DEF Moves, Up, At
    <2> QED BY <1>0, <1>1, <1>3, <2>1, <2>2 DEF TurnInv, Mine
  <1>4. CASE i \in Clients
    <2>1. ASSUME ~Up, h'[i].pc \in Removing PROVE ~Mine(h'[i].t)
      <3>1. h[i].pc \in Removing /\ TaskOK(h[i])
        BY <1>1, <1>4, <2>1, TaskTypes DEF OlderInv, OnlyRemoves, Moves
      <3>2. ~h[i].rm /\ ~Creating(i) BY <3>1 DEF TaskOK, Creating, At, Removing, Ensuring
      <3>3. h'[i] # Continue(i)
        BY <1>0, <1>4, <2>1, <3>2 DEF Continue, Blank, Removing
      <3> QED BY <1>1, <1>4, <2>1, <3>1, <3>2, <3>3 DEF Moves, TurnInv
    <2> QED BY <1>0, <1>1, <1>4, <2>1 DEF TurnInv, Spares, Up, At, Mine
  <1> QED BY <1>2, <1>3, <1>4 DEF Procs

\* Nor does any other step bring a delete to a start.
LEMMA TurnStep ==
    ASSUME IndInv, OlderInv, TurnInv, MaxFaults = 0, [Next]_vars
    PROVE  TurnInv'
  <1>0. Main \in Procs /\ Sweep \in Procs /\ Clients \subseteq Procs /\ Main # Sweep
        /\ Main \notin Clients /\ Sweep \notin Clients /\ h \in [Procs -> TaskType]
    BY TasksDistinct DEF Procs, IndInv, TypeOK
  <1>1. ASSUME NEW i \in Procs PROVE ~Fail(i) /\ ~CleanFails(i)
    BY DEF Fail, CleanFails, IndInv, TypeOK, DataType
  <1>2. CASE UNCHANGED h BY <1>2 DEF TurnInv, Spares, Up, At, Mine
  <1>3. ASSUME NEW q, h' = [h EXCEPT ![Main] = q], Spares(q), ~Up \/ q.pc = "idle"
        PROVE  TurnInv'
    BY <1>0, <1>3 DEF TurnInv, Up, At, Mine
  <1>4. ASSUME NEW q, h' = [h EXCEPT ![Sweep] = q], q.pc \in {"idle", "next", "disable"}
        PROVE  TurnInv'
    BY <1>0, <1>4 DEF TurnInv, Spares, Up, At, Mine
  <1>5. ASSUME NEW t
        PROVE  LET q == [[Blank EXCEPT !.pc = "disable", !.t = t, !.rm = FALSE] EXCEPT !.lock = TRUE]
               IN  Spares(q) /\ q.pc = "disable"
    BY DEF Blank, Spares, Removing
  <1>6. CASE Reconcile
    <2>1. ~Up BY <1>6 DEF Reconcile, MainList, MainServe, MainStopOlder, MainReconcile, Up, At
    <2>2. CASE MainList \/ MainServe
      <3> DEFINE n == [Blank EXCEPT !.pc = "next"]
      <3>1. Spares(n) /\ Spares(Blank) BY DEF Spares, Blank, Removing
      <3>2. h' = [h EXCEPT ![Main] = n] \/ h' = [h EXCEPT ![Main] = Blank]
        BY <2>2 DEF MainList, MainServe, Goto
      <3> HIDE DEF n
      <3> QED BY <1>3, <2>1, <3>1, <3>2
    <2>3. ASSUME NEW r \in recTodo, MainStopOlder(r) PROVE TurnInv'
      <3> DEFINE q == [[Blank EXCEPT !.pc = "disable", !.t = r.t, !.rm = FALSE] EXCEPT !.lock = TRUE]
      <3>1. Spares(q) BY <1>5
      <3>2. UNCHANGED h \/ h' = [h EXCEPT ![Main] = q]
        BY <2>3 DEF MainStopOlder, TakeRunning, ClaimBusy
      <3> HIDE DEF q
      <3> QED BY <1>2, <1>3, <2>1, <3>1, <3>2
    <2>4. ASSUME NEW r \in recTodo, MainReconcile(r) PROVE TurnInv'
      <3>1. ASSUME NEW p, NEW a, NEW x \in {"install", "moveProxy"},
                   Goto(Main, [Blank EXCEPT !.pc = x, !.t = r.t, !.rep = target[r.t],
                                            !.insp = p, !.ep = p, !.after = a])
            PROVE  TurnInv'
        <4> DEFINE q == [Blank EXCEPT !.pc = x, !.t = r.t, !.rep = target[r.t],
                                      !.insp = p, !.ep = p, !.after = a]
        <4>1. h' = [h EXCEPT ![Main] = q] BY <3>1 DEF Goto
        <4>2. Spares(q) BY DEF Blank, Spares, Removing
        <4> HIDE DEF q
        <4> QED BY <1>3, <2>1, <4>1, <4>2
      <3> QED BY <1>2, <2>4, <3>1 DEF MainReconcile
    <2> QED BY <1>6, <2>2, <2>3, <2>4 DEF Reconcile
  <1>7. CASE SweepTask
    <2>1. CASE SweepSnapshot \/ SweepDone
      <3> DEFINE n == [Blank EXCEPT !.pc = "next"]
      <3>1. n.pc = "next" /\ Blank.pc = "idle" BY DEF Blank
      <3>2. h' = [h EXCEPT ![Sweep] = n] \/ h' = [h EXCEPT ![Sweep] = Blank]
        BY <2>1 DEF SweepSnapshot, SweepDone, Goto
      <3> HIDE DEF n
      <3> QED BY <1>4, <3>1, <3>2
    <2>2. ASSUME NEW t, SweepStop(t) PROVE TurnInv'
      <3> DEFINE q == [[Blank EXCEPT !.pc = "disable", !.t = t, !.rm = FALSE] EXCEPT !.lock = TRUE]
      <3>1. q.pc = "disable" BY <1>5
      <3>2. UNCHANGED h \/ h' = [h EXCEPT ![Sweep] = q]
        BY <2>2 DEF SweepStop, TakeRunning, ClaimBusy
      <3> HIDE DEF q
      <3> QED BY <1>2, <1>4, <3>1, <3>2
    <2> QED BY <1>7, <2>1, <2>2 DEF SweepTask
  <1>8. CASE Crash
    <2> DEFINE m == [Blank EXCEPT !.pc = "list"]
    <2>1. Spares(m) /\ Blank.pc = "idle" BY DEF Blank, Spares, Removing
    <2>2. h' = [i \in Procs |-> IF i = Main THEN m ELSE Blank] BY <1>8 DEF Crash
    <2> HIDE DEF m
    <2>3. h'[Main] = m /\ h'[Sweep] = Blank /\ \A i \in Clients : h'[i] = Blank
      BY <1>0, <2>2
    <2> QED BY <2>1, <2>3 DEF TurnInv, Removing
  <1> QED
    BY <1>1, <1>2, <1>6, <1>7, <1>8, RequestTurn, TaskTurn DEF Next, Expire, vars

\* Reconciliation and the sweep never meet a delete of the tunnel they are about.
THEOREM TurnInvariance == MaxFaults = 0 /\ Spec => []TurnInv
  <1> SUFFICES ASSUME MaxFaults = 0 PROVE Spec => []TurnInv OBVIOUS
  <1>1. Init => TurnInv
    BY TasksDistinct DEF Init, TurnInv, Spares, Blank, Removing, Procs, Up, At
  <1>2. TurnInv /\ IndInv /\ OlderInv /\ [Next]_vars => TurnInv' BY TurnStep
  <1>3. Spec => []IndInv BY Invariance
  <1>4. Spec => []OlderInv BY OlderInvariance
  <1> QED BY <1>1, <1>2, <1>3, <1>4, PTL DEF Spec

\* No request of a client deletes a tunnel that another one's request is starting.
ClientsApart ==
    \A i, j \in Clients : h[i].pc \in Removing /\ Starts(h[j]) => h[i].t # h[j].t

\* Which is all there is to the first assumption.
LEMMA OthersApart ==
    ASSUME IndInv, OlderInv, TurnInv, ClientsApart
    PROVE  DeletesApart
  <1> SUFFICES ASSUME NEW i \in Procs, NEW j \in Procs, h[i].pc \in Removing, Starts(h[j])
               PROVE  h[i].t # h[j].t
    BY DEF DeletesApart
  <1>1. TaskOK(h[j]) BY TaskTypes
  <1>2. i \in Clients BY DEF TurnInv, Spares, Removing, Procs
  <1>3. j # Sweep BY <1>1 DEF TurnInv, Starts, TaskOK, Ensuring
  <1>4. CASE j \in Clients BY <1>2, <1>4 DEF ClientsApart
  <1>5. CASE j = Main
    <2>1. ~Up /\ h[Main].pc # "disable" /\ h[Main].t # None
      BY <1>1, <1>5 DEF Starts, TaskOK, Ensuring, Up, At
    <2>2. Mine(h[Main].t) BY <2>1 DEF OlderInv, OnlyRemoves, At
    <2>3. ~Mine(h[i].t) BY <1>2, <2>1 DEF TurnInv
    <2> QED BY <1>5, <2>2, <2>3
  <1> QED BY <1>3, <1>4, <1>5 DEF Procs

\* Nothing is recorded as running for a tunnel that no longer exists unless one client
\* deletes a tunnel that another is starting.  Reconciliation and the expiry sweep are
\* never the ones in the way, though a delete takes no reservation and the page's Remove
\* is served while reconciliation starts tunnels: it starts only those that a Remove
\* leaves alone (exclusive.rs).
THEOREM OnlyRequestsCollide == MaxFaults = 0 /\ Spec /\ []ClientsApart => []NoZombie
  <1> SUFFICES ASSUME MaxFaults = 0 PROVE Spec /\ []ClientsApart => []NoZombie OBVIOUS
  <1>1. IndInv /\ OlderInv /\ TurnInv /\ ClientsApart => DeletesApart BY OthersApart
  <1>2. Spec => []IndInv BY Invariance
  <1>3. Spec => []OlderInv BY OlderInvariance
  <1>4. Spec => []TurnInv BY TurnInvariance
  <1>5. Spec /\ []DeletesApart => []NoZombie BY NoneOutlivesProxy
  <1> QED BY <1>1, <1>2, <1>3, <1>4, <1>5, PTL

OneClient == \A i, j \in Clients : i = j

\* So a single client, who deletes and removes tunnels as it likes but one request at a
\* time, never sees a deleted tunnel as running, whatever the sweep and the restarts do
\* meanwhile.
THEOREM OneClientExists == MaxFaults = 0 /\ OneClient /\ Spec => []NoZombie
  <1> SUFFICES ASSUME MaxFaults = 0, OneClient PROVE Spec => []NoZombie OBVIOUS
  <1>1. IndInv => ClientsApart
    <2> SUFFICES ASSUME IndInv, NEW i \in Clients, h[i].pc \in Removing, Starts(h[i])
                 PROVE  FALSE
      BY DEF ClientsApart, OneClient
    <2>1. TaskOK(h[i]) BY TaskTypes DEF Procs
    <2> QED BY <2>1 DEF Starts, TaskOK, Removing, Ensuring
  <1>2. Spec => []IndInv BY Invariance
  <1>3. Spec /\ []ClientsApart => []NoZombie BY OnlyRequestsCollide
  <1> QED BY <1>1, <1>2, <1>3, PTL
=============================================================================
