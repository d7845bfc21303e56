---------------------------- MODULE ListenProofs ----------------------------
(***************************************************************************)
(* Listen for any number of sessions, devices, tunnels and failed calls: a *)
(* tunnel is announced only for what its session wrote, and changes hands  *)
(* only when somebody names it.                                            *)
(***************************************************************************)
EXTENDS Listen, TLAPS

Owners  == Devices \cup {None}
Proxies == [gen : Nat, dev : Owners]
Writing == {"update", "enable"}
Ready   == {"hostname", "resolve", "probe", "confirm", "watch"}
Active  == Writing \cup {"await", "cleanup"} \cup Ready
Pcs     == Active \cup {"start", "create", "failed", "ended"}

\* The variables the properties are about have their types.
ListenType ==
    /\ proxy \in [Tunnels -> Proxies]
    /\ seen \in [Tunnels -> Nat]
    /\ session \in [Sessions -> [pc : Pcs, tun : Tunnels \cup {None}, wrote : Nat]]
    /\ maker \in [Tunnels -> Owners]

\* A proxy that exists was made by some session, or was there at first.
Made == \A t \in Tunnels : There(t) => maker[t] # None

\* A session that goes on has a tunnel, of a generation no older than what it
\* wrote; one that has just started wrote nothing.
HasTunnel ==
    \A s \in Sessions :
        /\ session[s].pc \in Active =>
              /\ session[s].tun \in Tunnels
              /\ maker[session[s].tun] # None
              /\ There(session[s].tun) => session[s].wrote <= proxy[session[s].tun].gen
        /\ session[s].pc = "start" => session[s].wrote = 0

\* What a session is about to write to was named or is of its own device.
Entitled ==
    \A s \in Sessions :
        session[s].pc \in Writing =>
            session[s].tun \in named \/ maker[session[s].tun] = Device[s]

Inv == ListenType /\ Made /\ HasTunnel /\ Entitled /\ NoTakeover /\ ReadyIsCurrent

----------------------------------------------------------------------------
\* A session's device is a device, and there is nothing called None among them.
LEMMA SomeDevice == \A s \in Sessions : Device[s] \in Devices /\ Device[s] # None
  BY ListenAssumption DEF Devices

\* A step of a session that writes nothing: it goes on only if it had a tunnel,
\* and is ready only if it was, or if the tunnel is.
LEMMA SessionMoves ==
    ASSUME Inv, NEW s \in Sessions, NEW pc \in Pcs,
           session' = [session EXCEPT ![s].pc = pc],
           pc # "start",
           pc \in Active => session[s].pc \in Active,
           pc \in Writing => session[s].pc \in Writing,
           pc \in Ready => session[s].pc \in Ready \/ AllReady(session[s].tun),
           UNCHANGED <<proxy, seen, maker>>, named \subseteq named'
    PROVE  Inv'
  <1>1. ListenType'
    BY DEF Inv, ListenType
  <1>2. Made'
    BY DEF Inv, Made, There
  <1>3. HasTunnel'
    BY DEF Inv, ListenType, HasTunnel, There
  <1>4. Entitled'
    BY DEF Inv, ListenType, Entitled
  <1>5. NoTakeover'
    BY DEF Inv, NoTakeover, There
  <1>6. ReadyIsCurrent'
    <2> SUFFICES ASSUME NEW r \in Sessions, session'[r].pc \in Ready
                 PROVE  seen'[session'[r].tun] >= session'[r].wrote
      BY DEF ReadyIsCurrent, Ready
    <2>1. CASE session[r].pc \in Ready
      BY <2>1 DEF Inv, ListenType, ReadyIsCurrent, Ready
    <2>2. CASE r = s /\ session[s].pc \notin Ready
      <3>1. AllReady(session[s].tun) /\ session[s].pc \in Active
        BY <2>2 DEF Inv, ListenType, Active
      <3>2. session[s].tun \in Tunnels /\ session[s].wrote <= proxy[session[s].tun].gen
        BY <3>1 DEF Inv, HasTunnel, AllReady
      <3>3. seen[session[s].tun] >= proxy[session[s].tun].gen
        BY <3>1 DEF AllReady
      <3>4. seen[session[s].tun] \in Nat /\ proxy[session[s].tun].gen \in Nat /\ session[s].wrote \in Nat
        BY <3>2 DEF Inv, ListenType, Proxies
      <3>5. seen[session[s].tun] >= session[s].wrote
        BY <3>2, <3>3, <3>4
      <3>6. session'[r].tun = session[s].tun /\ session'[r].wrote = session[s].wrote
        BY <2>2 DEF Inv, ListenType
      <3>7. QED
        BY <3>5, <3>6
    <2>3. QED
      BY <2>1, <2>2 DEF Inv, ListenType
  <1>7. QED
    BY <1>1, <1>2, <1>3, <1>4, <1>5, <1>6 DEF Inv

----------------------------------------------------------------------------
\* Controllers only report newer generations.
LEMMA ReconciledStep ==
    ASSUME Inv, NEW t \in Tunnels, Reconciled(t)
    PROVE  Inv'
  <1>1. seen' = [seen EXCEPT ![t] = proxy[t].gen] /\ UNCHANGED <<proxy, session, named, maker>>
    BY DEF Reconciled
  <1>2. seen \in [Tunnels -> Nat] /\ proxy[t].gen \in Nat /\ seen[t] < proxy[t].gen
    BY DEF Inv, ListenType, Proxies, Reconciled
  <1>3. ListenType'
    BY <1>1, <1>2 DEF Inv, ListenType
  <1>4. Made' /\ HasTunnel' /\ Entitled' /\ NoTakeover'
    BY <1>1 DEF Inv, Made, HasTunnel, Entitled, NoTakeover, There
  <1>5. ReadyIsCurrent'
    <2> SUFFICES ASSUME NEW r \in Sessions, session[r].pc \in Ready
                 PROVE  seen'[session[r].tun] >= session[r].wrote
      BY <1>1 DEF ReadyIsCurrent, Ready
    <2>1. session[r].tun \in Tunnels /\ session[r].wrote \in Nat
      BY DEF Inv, ListenType, HasTunnel, Active
    <2>2. seen[session[r].tun] >= session[r].wrote
      BY DEF Inv, ReadyIsCurrent, Ready
    <2>3. seen'[session[r].tun] >= seen[session[r].tun] /\ seen'[session[r].tun] \in Nat
      BY <1>1, <1>2, <2>1
    <2>4. QED
      BY <1>2, <2>1, <2>2, <2>3
  <1>6. QED
    BY <1>3, <1>4, <1>5 DEF Inv

\* A deleted proxy has no generation and no device to be wrong about.
LEMMA ProxyGoes ==
    ASSUME Inv, NEW t \in Tunnels, proxy' = [proxy EXCEPT ![t] = Gone],
           UNCHANGED <<seen, session, named, maker>>
    PROVE  Inv'
  <1>1. Gone \in Proxies
    BY DEF Gone, Proxies, Owners
  <1>2. ListenType'
    BY <1>1 DEF Inv, ListenType
  <1>3. \A u \in Tunnels : There(u)' => There(u) /\ proxy'[u] = proxy[u]
    BY DEF Inv, ListenType, There
  <1>4. Made'
    BY <1>3 DEF Inv, Made
  <1>5. HasTunnel'
    BY <1>3 DEF Inv, HasTunnel
  <1>6. Entitled'
    BY DEF Inv, Entitled
  <1>7. NoTakeover'
    BY <1>3 DEF Inv, NoTakeover
  <1>8. ReadyIsCurrent'
    BY DEF Inv, ReadyIsCurrent
  <1>9. QED
    BY <1>2, <1>4, <1>5, <1>6, <1>7, <1>8 DEF Inv

\* Another generation of a proxy, for a device that is its maker's unless
\* somebody has named it.
LEMMA ProxyWritten ==
    ASSUME Inv, NEW t \in Tunnels, There(t), NEW p \in Proxies,
           proxy' = [proxy EXCEPT ![t] = p], p.gen >= proxy[t].gen,
           t \in named' \/ p.dev = maker[t],
           named \subseteq named', UNCHANGED <<seen, session, maker>>
    PROVE  Inv'
  <1>1. ListenType'
    BY DEF Inv, ListenType
  <1>2. Made'
    BY DEF Inv, ListenType, Made, There
  <1>3. HasTunnel'
    <2>1. \A u \in Tunnels : There(u)' => There(u)
      BY DEF Inv, ListenType, There
    <2>2. \A u \in Tunnels : /\ proxy[u].gen \in Nat /\ proxy'[u].gen \in Nat
                             /\ proxy'[u].gen >= proxy[u].gen
      BY DEF Inv, ListenType, Proxies
    <2>3. \A r \in Sessions : session[r].wrote \in Nat
      BY DEF Inv, ListenType
    <2>4. QED
      BY <2>1, <2>2, <2>3 DEF Inv, HasTunnel
  <1>4. Entitled'
    BY DEF Inv, Entitled
  <1>5. NoTakeover'
    BY DEF Inv, ListenType, NoTakeover, There
  <1>6. ReadyIsCurrent'
    BY DEF Inv, ReadyIsCurrent
  <1>7. QED
    BY <1>1, <1>2, <1>3, <1>4, <1>5, <1>6 DEF Inv

\* The update command names the tunnel it points elsewhere.
LEMMA UpdateCommandStep ==
    ASSUME Inv, NEW d \in Devices, NEW t \in Tunnels, UpdateCommand(d, t)
    PROVE  Inv'
  <1> DEFINE p == [gen |-> proxy[t].gen + 1, dev |-> d]
  <1>1. proxy[t].gen \in Nat
    BY DEF Inv, ListenType, Proxies
  <1>2. p \in Proxies /\ p.gen >= proxy[t].gen
    BY <1>1 DEF Proxies, Owners
  <1>3. /\ There(t) /\ proxy' = [proxy EXCEPT ![t] = p]
        /\ named' = named \cup {t} /\ UNCHANGED <<seen, session, maker>>
    BY DEF UpdateCommand
  <1> HIDE DEF p
  <1>4. QED
    BY <1>2, <1>3, ProxyWritten

----------------------------------------------------------------------------
\* A session takes up a tunnel that exists and is named or of its own device.
LEMMA SessionTakes ==
    ASSUME Inv, NEW s \in Sessions, At(s, "start"), NEW t \in Tunnels, There(t),
           NEW pc \in Writing, Takes(s, t, pc), t \in named' \/ maker[t] = Device[s],
           named \subseteq named', UNCHANGED <<proxy, seen, maker>>
    PROVE  Inv'
  <1>1. session' = [session EXCEPT ![s].pc = pc, ![s].tun = t]
    BY DEF Takes
  <1>2. session[s].wrote = 0 /\ maker[t] # None /\ proxy[t].gen \in Nat
    BY DEF Inv, HasTunnel, Made, At, ListenType, Proxies
  <1>3. ListenType'
    BY <1>1 DEF Inv, ListenType, Pcs, Active
  <1>4. /\ session'[s].pc = pc /\ session'[s].tun = t /\ session'[s].wrote = 0
        /\ \A r \in Sessions \ {s} : session'[r] = session[r]
    BY <1>1, <1>2 DEF Inv, ListenType
  <1>5. Made' /\ NoTakeover'
    BY DEF Inv, Made, NoTakeover, There
  <1>6. HasTunnel'
    BY <1>2, <1>4 DEF Inv, HasTunnel, There, Writing
  <1>7. Entitled'
    BY <1>4 DEF Inv, Entitled
  <1>8. ReadyIsCurrent'
    BY <1>4 DEF Inv, ReadyIsCurrent, Writing
  <1>9. QED
    BY <1>3, <1>5, <1>6, <1>7, <1>8 DEF Inv

\* An entitled session points its tunnel at its device.
LEMMA SessionWrites ==
    ASSUME Inv, NEW s \in Sessions, NEW t \in Tunnels, t = session[s].tun,
           session[s].pc \in Writing, There(t),
           NEW pc \in {"enable", "await", "failed"}, Writes(s, t, pc),
           UNCHANGED <<seen, named, maker>>
    PROVE  Inv'
  <1> DEFINE p == Pointed(s, t)
  <1>1. /\ proxy' = [proxy EXCEPT ![t] = p]
        /\ session' = [session EXCEPT ![s] = [pc |-> pc, tun |-> t, wrote |-> p.gen]]
    BY DEF Writes
  <1>2. proxy[t] \in Proxies /\ proxy[t].gen \in Nat /\ proxy[t].dev \in Owners
    BY DEF Inv, ListenType, Proxies
  <1>3. p \in Proxies /\ p.gen \in Nat /\ p.gen >= proxy[t].gen /\ p.dev = Device[s]
    BY <1>2, SomeDevice DEF Pointed, Proxies, Owners
  <1>4. t \in named \/ maker[t] = Device[s]
    BY DEF Inv, Entitled
  <1>5. maker[t] # None
    BY DEF Inv, Made
  <1> HIDE DEF p
  <1>6. ListenType'
    BY <1>1, <1>3 DEF Inv, ListenType, Pcs, Active, Writing
  <1>7. /\ session'[s] = [pc |-> pc, tun |-> t, wrote |-> p.gen]
        /\ \A r \in Sessions \ {s} : session'[r] = session[r]
        /\ proxy'[t] = p
        /\ \A u \in Tunnels \ {t} : proxy'[u] = proxy[u]
    BY <1>1 DEF Inv, ListenType
  <1>8. \A u \in Tunnels : There(u)' => There(u)
    BY <1>7 DEF There
  <1>9. Made'
    BY <1>8 DEF Inv, Made
  <1>10. HasTunnel'
    <2> SUFFICES ASSUME NEW r \in Sessions
                 PROVE  /\ session'[r].pc \in Active =>
                             /\ session'[r].tun \in Tunnels
                             /\ maker[session'[r].tun] # None
                             /\ proxy'[session'[r].tun] # Gone =>
                                   session'[r].wrote <= proxy'[session'[r].tun].gen
                        /\ session'[r].pc = "start" => session'[r].wrote = 0
      BY DEF HasTunnel, There
    <2>1. CASE r = s
      BY <2>1, <1>3, <1>5, <1>7 DEF There
    <2>2. CASE r # s
      <3>1. session'[r] = session[r] /\ session[r].wrote \in Nat
        BY <2>2, <1>7 DEF Inv, ListenType
      <3>2. \A u \in Tunnels : proxy[u].gen \in Nat /\ proxy'[u].gen \in Nat
                               /\ proxy'[u].gen >= proxy[u].gen
        BY <1>3, <1>7 DEF Inv, ListenType, Proxies
      <3>3. QED
        BY <3>1, <3>2, <1>8 DEF Inv, HasTunnel, There
    <2>3. QED
      BY <2>1, <2>2
  <1>11. Entitled'
    BY <1>4, <1>7 DEF Inv, Entitled
  <1>12. NoTakeover'
    BY <1>3, <1>4, <1>7, <1>8 DEF Inv, NoTakeover
  <1>13. ReadyIsCurrent'
    BY <1>7 DEF Inv, ReadyIsCurrent
  <1>14. QED
    BY <1>6, <1>9, <1>10, <1>11, <1>12, <1>13 DEF Inv

\* A session makes a tunnel of a name that was never given.
LEMMA SessionMakes ==
    ASSUME Inv, NEW s \in Sessions, NEW t \in Tunnels, maker[t] = None,
           proxy' = [proxy EXCEPT ![t] = [gen |-> 1, dev |-> Device[s]]],
           maker' = [maker EXCEPT ![t] = Device[s]],
           NEW q \in [pc : {"enable", "failed"}, tun : Tunnels \cup {None}, wrote : Nat],
           q.pc = "enable" => q.tun = t /\ q.wrote = 1,
           session' = [session EXCEPT ![s] = q], UNCHANGED <<seen, named>>
    PROVE  Inv'
  <1>1. [gen |-> 1, dev |-> Device[s]] \in Proxies /\ Device[s] \in Owners /\ Device[s] # None
    BY SomeDevice DEF Proxies, Owners
  <1>2. ListenType'
    BY <1>1 DEF Inv, ListenType, Pcs, Active, Writing
  <1>3. /\ session'[s] = q
        /\ \A r \in Sessions \ {s} : session'[r] = session[r]
        /\ proxy'[t] = [gen |-> 1, dev |-> Device[s]]
        /\ \A u \in Tunnels \ {t} : proxy'[u] = proxy[u] /\ maker'[u] = maker[u]
        /\ maker'[t] = Device[s]
    BY DEF Inv, ListenType
  <1>4. \A u \in Tunnels \ {t} : There(u)' <=> There(u)
    BY <1>3 DEF There
  <1>5. Made'
    BY <1>1, <1>3, <1>4 DEF Inv, Made
  <1>6. \A r \in Sessions \ {s} : session[r].pc \in Active =>
            session[r].tun \in Tunnels \ {t} /\ maker'[session[r].tun] = maker[session[r].tun]
    BY <1>3 DEF Inv, HasTunnel
  <1>7. HasTunnel'
    <2> SUFFICES ASSUME NEW r \in Sessions
                 PROVE  /\ session'[r].pc \in Active =>
                             /\ session'[r].tun \in Tunnels
                             /\ maker'[session'[r].tun] # None
                             /\ proxy'[session'[r].tun] # Gone =>
                                   session'[r].wrote <= proxy'[session'[r].tun].gen
                        /\ session'[r].pc = "start" => session'[r].wrote = 0
      BY DEF HasTunnel, There
    <2>1. CASE r = s
      BY <2>1, <1>1, <1>3 DEF Active, Writing, Ready
    <2>2. CASE r # s
      BY <2>2, <1>3, <1>4, <1>6 DEF Inv, HasTunnel, There
    <2>3. QED
      BY <2>1, <2>2
  <1>8. Entitled'
    <2>1. \A r \in Sessions \ {s} : session[r].pc \in Writing => session[r].pc \in Active
      BY DEF Active
    <2>2. QED
      BY <2>1, <1>3, <1>6 DEF Inv, Entitled, Writing
  <1>9. NoTakeover'
    BY <1>3, <1>4 DEF Inv, NoTakeover
  <1>10. ReadyIsCurrent'
    BY <1>3 DEF Inv, ReadyIsCurrent
  <1>11. QED
    BY <1>2, <1>5, <1>7, <1>8, <1>9, <1>10 DEF Inv

----------------------------------------------------------------------------
\* An error ends a session wherever it is.
LEMMA SessionFails ==
    ASSUME Inv, NEW s \in Sessions, Fails(s), named \subseteq named',
           UNCHANGED <<proxy, seen, maker>>
    PROVE  Inv'
  <1>1. session' = [session EXCEPT ![s].pc = "failed"]
    BY DEF Fails, Goes
  <1>2. "failed" \in Pcs /\ "failed" \notin Active /\ "failed" \notin Writing /\ "failed" \notin Ready
    BY DEF Pcs, Active, Writing, Ready
  <1>3. QED
    BY <1>1, <1>2, SessionMoves

\* --endpoint takes up a tunnel of the session's own device only.
LEMMA ByEndpointStep ==
    ASSUME Inv, NEW s \in Sessions, ByEndpoint(s)
    PROVE  Inv'
  <1>1. At(s, "start") /\ UNCHANGED <<proxy, seen, named, maker>>
    BY DEF ByEndpoint, cloud
  <1>2. CASE \E t \in Tunnels : Adoptable(s, t) /\ (Takes(s, t, "update") \/ Takes(s, t, "enable"))
    <2>1. PICK t \in Tunnels : Adoptable(s, t) /\ (Takes(s, t, "update") \/ Takes(s, t, "enable"))
      BY <1>2
    <2>2. There(t) /\ (t \in named' \/ maker[t] = Device[s])
      BY <1>1, <2>1 DEF Adoptable, Inv, NoTakeover
    <2>3. \E pc \in Writing : Takes(s, t, pc)
      BY <2>1 DEF Writing
    <2>4. QED
      BY <1>1, <2>2, <2>3, SessionTakes
  <1>3. CASE Goes(s, "create")
    <2>1. session' = [session EXCEPT ![s].pc = "create"]
      BY <1>3 DEF Goes
    <2>2. "create" \in Pcs /\ "create" \notin Active /\ "create" \notin Writing /\ "create" \notin Ready
      BY DEF Pcs, Active, Writing, Ready
    <2>3. QED
      BY <1>1, <2>1, <2>2, SessionMoves
  <1>4. QED
    BY <1>2, <1>3 DEF ByEndpoint

\* --id names the tunnel it takes up.
LEMMA ByIdStep ==
    ASSUME Inv, NEW s \in Sessions, NEW t \in Tunnels, ById(s, t)
    PROVE  Inv'
  <1>1. At(s, "start") /\ UNCHANGED <<proxy, seen, maker>> /\ named \subseteq named' /\ t \in named'
    BY DEF ById, cloud
  <1>2. CASE There(t) /\ (Takes(s, t, "update") \/ Takes(s, t, "enable"))
    <2>1. \E pc \in Writing : Takes(s, t, pc)
      BY <1>2 DEF Writing
    <2>2. QED
      BY <1>1, <1>2, <2>1, SessionTakes
  <1>3. CASE Fails(s)
    BY <1>1, <1>3, SessionFails
  <1>4. QED
    BY <1>2, <1>3 DEF ById

\* Picking names the tunnel too.
LEMMA ByPickingStep ==
    ASSUME Inv, NEW s \in Sessions, ByPicking(s)
    PROVE  Inv'
  <1>1. At(s, "start") /\ UNCHANGED <<proxy, seen, maker>> /\ named \subseteq named'
    BY DEF ByPicking, cloud
  <1>2. CASE Fails(s)
    BY <1>1, <1>2, SessionFails
  <1>3. CASE ~Fails(s)
    <2>1. PICK t \in Tunnels : There(t) /\ t \in named' /\ (Takes(s, t, "update") \/ Takes(s, t, "enable"))
      BY <1>3 DEF ByPicking
    <2>2. \E pc \in Writing : Takes(s, t, pc)
      BY <2>1 DEF Writing
    <2>3. QED
      BY <1>1, <2>1, <2>2, SessionTakes
  <1>4. QED
    BY <1>2, <1>3

\* An update writes, or ends the session.
LEMMA UpdateStep ==
    ASSUME Inv, NEW s \in Sessions, Update(s)
    PROVE  Inv'
  <1> DEFINE t == session[s].tun
  <1>1. At(s, "update") /\ UNCHANGED <<seen, named, maker>>
    BY DEF Update
  <1>2. session[s].pc \in Writing /\ t \in Tunnels
    BY <1>1 DEF At, Inv, HasTunnel, Active, Writing
  <1>3. CASE There(t) /\ (Writes(s, t, "enable") \/ Writes(s, t, "failed"))
    <2>1. \E pc \in {"enable", "await", "failed"} : Writes(s, t, pc)
      BY <1>3
    <2>2. QED
      BY <1>1, <1>2, <1>3, <2>1, SessionWrites
  <1>4. CASE Fails(s) /\ UNCHANGED proxy
    BY <1>1, <1>4, SessionFails
  <1>5. QED
    BY <1>3, <1>4 DEF Update

\* So does the enabling, except that its errors are ignored.
LEMMA EnableStep ==
    ASSUME Inv, NEW s \in Sessions, Enable(s)
    PROVE  Inv'
  <1> DEFINE t == session[s].tun
  <1>1. At(s, "enable") /\ UNCHANGED <<seen, named, maker>>
    BY DEF Enable
  <1>2. session[s].pc \in Writing /\ session[s].pc \in Active /\ t \in Tunnels
    BY <1>1 DEF At, Inv, HasTunnel, Active, Writing
  <1>3. CASE There(t) /\ Writes(s, t, "await")
    BY <1>1, <1>2, <1>3, SessionWrites
  <1>4. CASE Goes(s, "await") /\ UNCHANGED proxy
    <2>1. session' = [session EXCEPT ![s].pc = "await"]
      BY <1>4 DEF Goes
    <2>2. "await" \in Pcs /\ "await" \notin Writing /\ "await" \notin Ready
      BY DEF Pcs, Active, Writing, Ready
    <2>3. QED
      BY <1>1, <1>2, <1>4, <2>1, <2>2, SessionMoves
  <1>5. QED
    BY <1>3, <1>4 DEF Enable

\* A create makes a tunnel and goes on, makes one and fails, or fails.
LEMMA CreateStep ==
    ASSUME Inv, NEW s \in Sessions, Create(s)
    PROVE  Inv'
  <1>1. UNCHANGED <<seen, named>>
    BY DEF Create
  <1>2. ASSUME NEW t \in Tunnels, maker[t] = None,
               proxy' = [proxy EXCEPT ![t] = [gen |-> 1, dev |-> Device[s]]],
               maker' = [maker EXCEPT ![t] = Device[s]],
               \/ session' = [session EXCEPT ![s] = [pc |-> "enable", tun |-> t, wrote |-> 1]]
               \/ Fails(s)
        PROVE  Inv'
    <2>1. CASE session' = [session EXCEPT ![s] = [pc |-> "enable", tun |-> t, wrote |-> 1]]
      <3> DEFINE q == [pc |-> "enable", tun |-> t, wrote |-> 1]
      <3>1. /\ q \in [pc : {"enable", "failed"}, tun : Tunnels \cup {None}, wrote : Nat]
            /\ q.tun = t /\ q.wrote = 1
        OBVIOUS
      <3>2. session' = [session EXCEPT ![s] = q]
        BY <2>1
      <3> HIDE DEF q
      <3>3. QED
        BY <1>1, <1>2, <3>1, <3>2, SessionMakes
    <2>2. CASE Fails(s)
      <3> DEFINE q == [session[s] EXCEPT !.pc = "failed"]
      <3>1. /\ q \in [pc : {"enable", "failed"}, tun : Tunnels \cup {None}, wrote : Nat]
            /\ q.pc = "failed"
        BY DEF Inv, ListenType
      <3>2. session' = [session EXCEPT ![s] = q]
        BY <2>2 DEF Fails, Goes
      <3> HIDE DEF q
      <3>3. QED
        BY <1>1, <1>2, <3>1, <3>2, SessionMakes
    <2>3. QED
      BY <1>2, <2>1, <2>2
  <1>3. CASE Fails(s) /\ UNCHANGED <<proxy, maker>>
    BY <1>1, <1>3, SessionFails
  <1>4. QED
    BY <1>2, <1>3 DEF Create

\* Waiting ends in an error, or in a tunnel that is ready.
LEMMA AwaitStep ==
    ASSUME Inv, NEW s \in Sessions, Await(s)
    PROVE  Inv'
  <1>1. At(s, "await") /\ UNCHANGED <<proxy, seen, named, maker>>
    BY DEF Await, cloud
  <1>2. CASE Fails(s)
    BY <1>1, <1>2, SessionFails
  <1>3. CASE AllReady(session[s].tun) /\ Goes(s, "hostname")
    <2>1. session' = [session EXCEPT ![s].pc = "hostname"] /\ session[s].pc \in Active
      BY <1>1, <1>3 DEF Goes, At, Active
    <2>2. "hostname" \in Pcs /\ "hostname" \notin Writing
      BY DEF Pcs, Active, Writing, Ready
    <2>3. QED
      BY <1>1, <1>3, <2>1, <2>2, SessionMoves
  <1>4. QED
    BY <1>2, <1>3 DEF Await

\* A ready session goes on being ready, comes to its clean-up, or fails.
LEMMA ReadyStep ==
    ASSUME Inv, NEW s \in Sessions,
           Hostname(s) \/ Resolve(s) \/ Probe(s) \/ Confirm(s) \/ Watch(s) \/ CtrlC(s)
    PROVE  Inv'
  <1>1. UNCHANGED <<proxy, seen, named, maker>>
    BY DEF Hostname, Resolve, Probe, Confirm, Watch, CtrlC, cloud
  <1>2. CASE Fails(s)
    BY <1>1, <1>2, SessionFails
  <1>3. CASE ~Fails(s)
    <2>1. session[s].pc \in Ready
      BY <1>3 DEF Hostname, Resolve, Probe, Confirm, Watch, CtrlC, Fails, At, Ready
    <2>2. PICK pc \in {"resolve", "probe", "confirm", "watch", "cleanup"} : Goes(s, pc)
      BY <1>3 DEF Hostname, Resolve, Probe, Confirm, Watch, CtrlC, Fails
    <2>3. session' = [session EXCEPT ![s].pc = pc]
      BY <2>2 DEF Goes
    <2>4. pc \in Pcs /\ pc # "start" /\ pc \notin Writing /\ session[s].pc \in Active
      BY <2>1 DEF Pcs, Active, Writing, Ready
    <2>5. QED
      BY <1>1, <2>1, <2>3, <2>4, SessionMoves
  <1>4. QED
    BY <1>2, <1>3

\* The clean-up deletes the tunnel, or fails to, and the session is over.
LEMMA CleanupStep ==
    ASSUME Inv, NEW s \in Sessions, Cleanup(s)
    PROVE  Inv'
  <1> DEFINE t == session[s].tun
  <1>1. /\ At(s, "cleanup") /\ session' = [session EXCEPT ![s].pc = "ended"]
        /\ UNCHANGED <<seen, named, maker>>
        /\ proxy' = [proxy EXCEPT ![t] = Gone] \/ UNCHANGED proxy
    BY DEF Cleanup, Goes
  <1>2. t \in Tunnels /\ Gone \in Proxies
    BY <1>1 DEF At, Inv, HasTunnel, Active, Gone, Proxies, Owners
  <1>3. ListenType'
    BY <1>1, <1>2 DEF Inv, ListenType, Pcs
  <1>4. \A u \in Tunnels : There(u)' => There(u) /\ proxy'[u] = proxy[u]
    BY <1>1, <1>2 DEF Inv, ListenType, There
  <1>5. \A r \in Sessions : session'[r].pc = "ended" \/ session'[r] = session[r]
    BY <1>1 DEF Inv, ListenType
  <1>6. Made'
    BY <1>1, <1>4 DEF Inv, Made
  <1>7. HasTunnel'
    BY <1>1, <1>4, <1>5 DEF Inv, HasTunnel, Active, Writing, Ready
  <1>8. Entitled'
    BY <1>1, <1>5 DEF Inv, Entitled, Writing
  <1>9. NoTakeover'
    BY <1>1, <1>4 DEF Inv, NoTakeover
  <1>10. ReadyIsCurrent'
    BY <1>1, <1>5 DEF Inv, ReadyIsCurrent
  <1>11. QED
    BY <1>3, <1>6, <1>7, <1>8, <1>9, <1>10 DEF Inv

----------------------------------------------------------------------------
\* At first no session has written, and each tunnel is on the device it was made on.
LEMMA InvInit == Init => Inv
  <1> SUFFICES ASSUME Init PROVE Inv
    OBVIOUS
  <1>1. /\ \A t \in Tunnels : proxy[t] = IF t \in DOMAIN Owned THEN [gen |-> 1, dev |-> Owned[t]] ELSE Gone
        /\ \A t \in Tunnels : maker[t] = IF t \in DOMAIN Owned THEN Owned[t] ELSE None
        /\ \A s \in Sessions : session[s] = [pc |-> "start", tun |-> None, wrote |-> 0]
    BY DEF Init
  <1>2. \A t \in DOMAIN Owned : Owned[t] \in Devices /\ Owned[t] # None
    BY ListenAssumption
  <1>3. ListenType
    <2>1. \A t \in DOMAIN Owned : [gen |-> 1, dev |-> Owned[t]] \in Proxies
      BY <1>2 DEF Proxies, Owners
    <2>2. Gone \in Proxies
      BY DEF Gone, Proxies, Owners
    <2>3. proxy \in [Tunnels -> Proxies]
      BY <2>1, <2>2 DEF Init
    <2>4. seen \in [Tunnels -> Nat]
      BY DEF Init
    <2>5. session \in [Sessions -> [pc : Pcs, tun : Tunnels \cup {None}, wrote : Nat]]
      BY DEF Init, Pcs
    <2>6. maker \in [Tunnels -> Owners]
      BY <1>2 DEF Init, Owners
    <2>7. QED
      BY <2>3, <2>4, <2>5, <2>6 DEF ListenType
  <1>4. Made
    BY <1>1, <1>2 DEF Made, There
  <1>5. HasTunnel /\ Entitled /\ ReadyIsCurrent
    BY <1>1 DEF HasTunnel, Entitled, ReadyIsCurrent, Active, Writing, Ready
  <1>6. NoTakeover
    <2> SUFFICES ASSUME NEW t \in Tunnels, There(t) PROVE proxy[t].dev = maker[t]
      BY DEF NoTakeover
    <2>1. t \in DOMAIN Owned
      BY <1>1 DEF There
    <2>2. proxy[t] = [gen |-> 1, dev |-> Owned[t]] /\ maker[t] = Owned[t]
      BY <1>1, <2>1
    <2>3. QED
      BY <2>2
  <1>7. QED
    BY <1>3, <1>4, <1>5, <1>6 DEF Inv

\* Every step keeps the invariant.
LEMMA InvStep == Inv /\ [Next]_vars => Inv'
  <1> SUFFICES ASSUME Inv, [Next]_vars PROVE Inv'
    OBVIOUS
  <1>1. ASSUME NEW t \in Tunnels, Reconciled(t) PROVE Inv'
    BY <1>1, ReconciledStep
  <1>2. ASSUME NEW t \in Tunnels, DeletedUpstream(t) PROVE Inv'
    BY <1>2, ProxyGoes DEF DeletedUpstream
  <1>3. ASSUME UNCHANGED <<proxy, seen, session, named, maker>> PROVE Inv'
    BY <1>3 DEF Inv, ListenType, Made, HasTunnel, Entitled, NoTakeover, ReadyIsCurrent, There
  <1>4. ASSUME NEW d \in Devices, Published(d) PROVE Inv'
    BY <1>3, <1>4 DEF Published
  <1>5. ASSUME NEW d \in Devices, NEW t \in Tunnels, UpdateCommand(d, t) PROVE Inv'
    BY <1>5, UpdateCommandStep
  <1>6. ASSUME NEW s \in Sessions, Session(s) PROVE Inv'
    BY <1>6, ByEndpointStep, ByIdStep, ByPickingStep, UpdateStep, CreateStep, EnableStep,
       AwaitStep, ReadyStep, CleanupStep DEF Session
  <1>7. CASE UNCHANGED vars
    BY <1>3, <1>7 DEF vars, cloud
  <1>8. QED
    BY <1>1, <1>2, <1>4, <1>5, <1>6, <1>7 DEF Next, Elsewhere

\* The invariant above holds throughout, for any number of sessions and tunnels.
THEOREM Invariance == Spec => []Inv
  BY InvInit, InvStep, PTL DEF Spec

\* from_resources and all_ready: no session goes past its wait on conditions
\* reported for less than it wrote, however many others write to the tunnel.
THEOREM AnnouncedIsCurrent == Spec => []ReadyIsCurrent
  <1>1. Inv => ReadyIsCurrent
    BY DEF Inv
  <1>2. QED
    BY <1>1, Invariance, PTL

\* get_active_by_endpoint's adoption: a tunnel no one has named is on the device
\* it was made on, whatever sessions for the same endpoint run elsewhere.
THEOREM StaysHome == Spec => []NoTakeover
  <1>1. Inv => NoTakeover
    BY DEF Inv
  <1>2. QED
    BY <1>1, Invariance, PTL
=============================================================================
