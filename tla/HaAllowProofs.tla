--------------------------- MODULE HaAllowProofs ----------------------------
(***************************************************************************)
(* HaAllow for any address width, settings, delays, restarts and changes   *)
(* by people: one Allow at a time, which confirms only what it sent and    *)
(* checked, and says so only when Home Assistant accepts forwarded         *)
(* requests for good.                                                      *)
(***************************************************************************)
EXTENDS HaAllow, TLAPS

----------------------------------------------------------------------------
(* The inductive invariant.                                                *)

HaType   == [st : {"up", "stopping", "down"}, boot : Nat, stable : Setting,
             pending : Setting \cup {None}, error : {"none", "failed", "not_promoted"},
             runs : Setting, active : {"stable", "pending"}, revert : Nat]
JobType  == [running : BOOLEAN, last : {"none", "ok", "failed"}, cached : Setups,
             autoTried : BOOLEAN]
TaskType == [pc : Steps, auto : BOOLEAN, conn : Nat, down : BOOLEAN, left : Nat,
             until : Nat, wanted : Setting \cup {None}, checked : Nat]

Typed ==
    /\ ha \in HaType /\ up \in BOOLEAN /\ tunnel \in BOOLEAN /\ poll \in Setups
    /\ job \in JobType /\ task \in TaskType
    /\ watch \in Nat /\ blame \in BOOLEAN /\ edits \in Nat /\ faults \in Nat

\* A Home Assistant that has settings on trial runs with the pending ones.
Sane(h) ==
    /\ h.st = "down" => h.active = "stable"
    /\ h.active = "pending" => h.pending # None
    /\ h.st = "up" /\ h.active = "pending" => h.runs = h.pending

\* The Allow knows what it sends once it has looked.
Sending == {"save", "closing", "trial", "reconnect", "verify", "promote"}

\* What an Allow `t` knows of a Home Assistant `h` that goes on by itself: the
\* starts it has seen are no later than this one, settings it would save were not
\* put there meanwhile, and what it would confirm was checked at this start and
\* is what it sends, unless another start came in between unseen.
Fits(h, t) ==
    /\ t.conn <= h.boot /\ t.checked <= h.boot
    /\ t.pc \in Sending => t.wanted \in Setting /\ accepts_forwarded(t.wanted)
    /\ t.pc = "promote" => t.conn <= t.checked
    /\ t.pc = "promote" /\ t.checked = h.boot => HopAccepted(h.runs)
    /\ t.pc = "save" /\ h.st = "up" /\ h.boot = t.conn => ~live_pending(h)
    /\ ~QuickRestart =>
          /\ t.pc = "reconnect" => t.conn = h.boot
          /\ t.pc \in {"reconnect", "verify", "promote"} /\ h.boot = t.conn
                /\ h.st = "up" /\ h.active = "pending" => h.pending = t.wanted

\* What an Allow that ended well has left: the requests of the tunnel are accepted, and
\* those from the other loopback address too, unless it confirmed another's change.
Left(c) == HopAccepted(c) /\ (~QuickRestart => accepts_forwarded(c))

LeftHolds == job.last = "ok" /\ ~blame => Left(ha.stable)

Inv == Typed /\ OneAllow /\ Sane(ha) /\ Fits(ha, task) /\ LeftHolds

----------------------------------------------------------------------------
(* Networks and settings.                                                  *)

\* TypeOK with its types named.
LEMMA Types == TypeOK <=> Typed
  BY DEF TypeOK, Typed, HaType, JobType, TaskType

\* An address is a multiple of the network's size and a rest below it, so two
\* addresses have the same prefix when they are in the same network of that size.
LEMMA SamePrefix ==
    ASSUME NEW a \in Nat, NEW b \in Nat, NEW s \in Nat \ {0}
    PROVE  a - (a % s) = b - (b % s) <=> a \div s = b \div s
  <1>1. a = s * (a \div s) + (a % s) /\ a \div s \in Nat /\ a % s \in Nat OBVIOUS
  <1>2. b = s * (b \div s) + (b % s) /\ b \div s \in Nat /\ b % s \in Nat OBVIOUS
  <1>3. \A p, q \in Nat : s * p = s * q => p = q OBVIOUS
  <1>4. a - (a % s) = s * (a \div s) BY <1>1
  <1>5. b - (b % s) = s * (b \div s) BY <1>2
  <1> QED BY <1>1, <1>2, <1>3, <1>4, <1>5

\* What network_contains computes with masks is the interval of the network.
LEMMA Contains ==
    ASSUME NEW n \in Networks, NEW ip \in [fam : {4, 6}, addr : 0 .. 2^W - 1]
    PROVE  network_contains(n, ip) <=> InNetwork(n, ip)
  <1> DEFINE s == 2^(W - n.len)
  <1>1. W - n.len \in 0 .. W BY ConstAssumption DEF Networks
  <1>2. s \in Nat \ {0} BY <1>1, PowerAssumption
  <1>3. 2^W \in Nat BY ConstAssumption, PowerAssumption
  <1>4. n.addr \in Nat /\ ip.addr \in Nat BY <1>3 DEF Networks
  <1> HIDE DEF s
  <1>5. n.addr - (n.addr % s) = ip.addr - (ip.addr % s) <=> n.addr \div s = ip.addr \div s
    BY <1>2, <1>4, SamePrefix
  <1> QED BY <1>5 DEF network_contains, Prefix, InNetwork, s

\* The loopback addresses are addresses, and as networks of one address hold
\* themselves only.
LEMMA LoopbackNetworks ==
    \A ip \in Loopback :
        /\ ip \in [fam : {4, 6}, addr : 0 .. 2^W - 1]
        /\ [fam |-> ip.fam, addr |-> ip.addr, len |-> W] \in Networks
        /\ \A i \in [fam : {4, 6}, addr : 0 .. 2^W - 1] :
              network_contains([fam |-> ip.fam, addr |-> ip.addr, len |-> W], i) <=> i = ip
  <1> SUFFICES ASSUME NEW ip \in Loopback
               PROVE  /\ ip \in [fam : {4, 6}, addr : 0 .. 2^W - 1]
                      /\ [fam |-> ip.fam, addr |-> ip.addr, len |-> W] \in Networks
                      /\ \A i \in [fam : {4, 6}, addr : 0 .. 2^W - 1] :
                          network_contains([fam |-> ip.fam, addr |-> ip.addr, len |-> W], i)
                              <=> i = ip
    OBVIOUS
  <1>1. 2^W \in Nat /\ 2^W > 1 BY ConstAssumption, PowerAssumption
  <1>2. ip \in [fam : {4, 6}, addr : 0 .. 2^W - 1] BY <1>1 DEF Loopback
  <1>3. [fam |-> ip.fam, addr |-> ip.addr, len |-> W] \in Networks
    BY <1>2, ConstAssumption DEF Networks
  <1>4. ASSUME NEW i \in [fam : {4, 6}, addr : 0 .. 2^W - 1]
        PROVE  network_contains([fam |-> ip.fam, addr |-> ip.addr, len |-> W], i) <=> i = ip
    <2>1. W - W = 0 BY ConstAssumption
    <2>2. 2^(W - W) = 1
      <3>1. 2^0 = 1 OBVIOUS
      <3> QED BY <2>1, <3>1
    <2>3. i.addr \in Nat /\ ip.addr \in Nat BY <1>1, <1>2
    <2>4. i.addr % 1 = 0 /\ ip.addr % 1 = 0 BY <2>3
    <2>5. Prefix(i.addr, W) = i.addr /\ Prefix(ip.addr, W) = ip.addr
      BY <2>2, <2>3, <2>4 DEF Prefix
    <2>6. i = ip <=> i.fam = ip.fam /\ i.addr = ip.addr BY <1>2
    <2> QED BY <2>5, <2>6 DEF network_contains
  <1> QED BY <1>2, <1>3, <1>4

\* What merged adds to the trusted proxies.
Added(c) == {[fam |-> ip.fam, addr |-> ip.addr, len |-> W] :
                ip \in {i \in Loopback : ~covers(c.proxies, i)}}

\* merged in terms of its fields.
LEMMA MergedFields ==
    ASSUME NEW c \in Setting
    PROVE  /\ merged(c) \in Setting
           /\ merged(c).fwd = TRUE /\ merged(c).rest = c.rest
           /\ merged(c).proxies = c.proxies \cup Added(c)
  <1>1. Added(c) \subseteq Networks BY LoopbackNetworks DEF Added
  <1>2. merged(c) = [c EXCEPT !.fwd = TRUE, !.proxies = c.proxies \cup Added(c)]
    BY DEF merged, Added, Setting
  <1>3. c.proxies \cup Added(c) \in SUBSET Networks BY <1>1 DEF Setting
  <1> QED BY <1>2, <1>3 DEF Setting

\* What Allow sends is accepted from both loopback addresses.
LEMMA MergedAccepts ==
    ASSUME NEW c \in Setting
    PROVE  accepts_forwarded(merged(c))
  <1>1. merged(c).fwd = TRUE /\ merged(c).proxies = c.proxies \cup Added(c) BY MergedFields
  <1>2. ASSUME NEW ip \in Loopback PROVE covers(c.proxies \cup Added(c), ip)
    <2>1. CASE covers(c.proxies, ip) BY <2>1 DEF covers
    <2>2. CASE ~covers(c.proxies, ip)
      <3> DEFINE n == [fam |-> ip.fam, addr |-> ip.addr, len |-> W]
      <3>1. n \in Added(c) BY <2>2 DEF Added
      <3>2. network_contains(n, ip) BY LoopbackNetworks
      <3>3. n.fam # 0 BY DEF Loopback
      <3> QED BY <3>1, <3>2, <3>3 DEF covers
    <2> QED BY <2>1, <2>2
  <1> QED BY <1>1, <1>2 DEF accepts_forwarded

\* The hop is one of them.
LEMMA Accepting == \A c : accepts_forwarded(c) => HopAccepted(c) /\ Left(c)
  BY ConstAssumption DEF accepts_forwarded, HopAccepted, Left

\* What Allow sends, for every setting it may find.
LEMMA MergedRight ==
    ASSUME NEW c \in Setting, Valid(c)
    PROVE  /\ Valid(merged(c)) /\ accepts_forwarded(merged(c)) /\ merged(merged(c)) = merged(c)
           /\ merged(c).rest = c.rest /\ c.proxies \subseteq merged(c).proxies
           /\ \A ip \in [fam : {4, 6}, addr : 0 .. 2^W - 1] :
                 covers(merged(c).proxies, ip) <=>
                     ip \in Loopback \/ \E n \in c.proxies : InNetwork(n, ip)
  <1> DEFINE m == merged(c)
  <1>1. /\ m \in Setting /\ m.fwd = TRUE /\ m.rest = c.rest
        /\ m.proxies = c.proxies \cup Added(c)
    BY MergedFields
  <1> HIDE DEF m
  <1>2. c.proxies \subseteq Networks /\ \A n \in c.proxies : n.fam # 0
    BY DEF Setting, Valid
  <1>3. \A n \in Added(c) : n.fam # 0
    BY DEF Added, Loopback
  <1>4. ASSUME NEW ip \in [fam : {4, 6}, addr : 0 .. 2^W - 1]
        PROVE  covers(m.proxies, ip) <=>
                   ip \in Loopback \/ \E n \in c.proxies : InNetwork(n, ip)
    <2>1. covers(c.proxies, ip) <=> \E n \in c.proxies : InNetwork(n, ip)
      BY <1>2, Contains DEF covers
    <2>2. (\E n \in Added(c) : network_contains(n, ip))
             <=> ip \in Loopback /\ ~covers(c.proxies, ip)
      <3>1. ASSUME NEW n \in Added(c), network_contains(n, ip)
            PROVE  ip \in Loopback /\ ~covers(c.proxies, ip)
        <4>1. PICK i \in Loopback : /\ ~covers(c.proxies, i)
                                     /\ n = [fam |-> i.fam, addr |-> i.addr, len |-> W]
          BY DEF Added
        <4>2. i = ip BY <3>1, <4>1, LoopbackNetworks
        <4> QED BY <4>1, <4>2
      <3>2. ASSUME ip \in Loopback, ~covers(c.proxies, ip)
            PROVE  \E n \in Added(c) : network_contains(n, ip)
        <4>1. [fam |-> ip.fam, addr |-> ip.addr, len |-> W] \in Added(c) BY <3>2 DEF Added
        <4>2. network_contains([fam |-> ip.fam, addr |-> ip.addr, len |-> W], ip)
          BY <3>2, LoopbackNetworks
        <4> QED BY <4>1, <4>2
      <3> QED BY <3>1, <3>2
    <2>3. covers(m.proxies, ip) <=>
             covers(c.proxies, ip) \/ \E n \in Added(c) : network_contains(n, ip)
      BY <1>1, <1>3 DEF covers
    <2> QED BY <2>1, <2>2, <2>3
  <1>5. \A ip \in Loopback : covers(m.proxies, ip)
    BY <1>4, LoopbackNetworks
  <1>6. Valid(m) BY <1>1, <1>2, <1>3 DEF Valid
  <1>7. accepts_forwarded(m) BY <1>1, <1>5 DEF accepts_forwarded
  <1>8. merged(m) = m
    <2>1. Added(m) = {} BY <1>5 DEF Added
    <2>2. /\ merged(m) \in Setting /\ merged(m).fwd = m.fwd /\ merged(m).rest = m.rest
          /\ merged(m).proxies = m.proxies
      BY <1>1, <2>1, MergedFields
    <2> QED BY <1>1, <2>2 DEF Setting
  <1> QED BY <1>1, <1>4, <1>6, <1>7, <1>8 DEF m

----------------------------------------------------------------------------
(* What assess says, and what an Allow knows.                              *)

\* Each answer of assess says what was found.
LEMMA Assessed ==
    ASSUME NEW h
    PROVE  /\ assess(h) \in {"Ready", "Pending", "OnTrial", "Ours", "Needed", "Error"}
           /\ assess(h) = "Ready" => accepts_forwarded(h.stable)
           /\ assess(h) = "Needed" => ~live_pending(h)
           /\ assess(h) = "OnTrial" => on_trial_with(h, merged(h.stable))
  <1> DEFINE w == merged(h.stable)
             ours == Valid(w) /\ pending_is(h, w)
  <1>1. assess(h) = IF accepts_forwarded(h.stable) THEN "Ready"
                    ELSE IF live_pending(h)
                         THEN IF ~ours THEN "Pending"
                              ELSE IF on_trial_with(h, w) THEN "OnTrial" ELSE "Ours"
                    ELSE IF Valid(w) THEN "Needed" ELSE "Error"
    BY DEF assess
  <1> HIDE DEF ours
  <1> QED BY <1>1

\* No Allow knows nothing.
LEMMA NoTaskFits == NoTask \in TaskType /\ \A h \in HaType : Fits(h, NoTask)
  BY DEF NoTask, TaskType, HaType, Fits, Sending, Steps

\* The page's memory of the last Allow, before there is one.
LEMMA NoJobType == NoJob \in JobType
  BY DEF NoJob, JobType, Setups

\* A fault counts.
LEMMA FaultNat == Inv /\ Fault => faults' \in Nat
  BY DEF Inv, Typed, Fault

\* What an Allow knows stays true of a Home Assistant that keeps what it runs with
\* until its next start, and takes up a change only by stopping.
LEMMA HaGoesOn ==
    ASSUME NEW h \in HaType, NEW g \in HaType, NEW t \in TaskType, Fits(h, t),
           g.boot >= h.boot, g.boot = h.boot => g.runs = h.runs,
           ~QuickRestart /\ t.pc = "reconnect" => g.boot = h.boot,
           g.boot = h.boot /\ g.st = "up" /\ live_pending(g) => h.st = "up" /\ live_pending(h),
           g.boot = h.boot /\ g.st = "up" /\ g.active = "pending"
               => h.st = "up" /\ h.active = "pending" /\ g.pending = h.pending
    PROVE  Fits(g, t)
  <1>1. h.boot \in Nat /\ g.boot \in Nat /\ t.conn \in Nat /\ t.checked \in Nat
    BY DEF HaType, TaskType
  <1>2. t.conn <= g.boot /\ t.checked <= g.boot BY <1>1 DEF Fits
  <1>3. t.pc = "promote" /\ t.checked = g.boot => HopAccepted(g.runs)
    BY <1>1 DEF Fits
  <1>4. t.pc = "save" /\ g.st = "up" /\ g.boot = t.conn => ~live_pending(g)
    BY <1>1 DEF Fits
  <1>5. ~QuickRestart =>
          /\ t.pc = "reconnect" => t.conn = g.boot
          /\ t.pc \in {"reconnect", "verify", "promote"} /\ g.boot = t.conn
                /\ g.st = "up" /\ g.active = "pending" => g.pending = t.wanted
    BY <1>1 DEF Fits
  <1> QED BY <1>2, <1>3, <1>4, <1>5 DEF Fits

\* The Allow is over, and the page says how it went.
LEMMA EndInv ==
    ASSUME Inv, NEW o, EndWith(o), ha' \in HaType, Sane(ha'), faults' \in Nat,
           EndsWell(o) => Left(ha'.stable)
    PROVE  Inv'
  <1>1. task' = NoTask /\ blame' = FALSE /\ UNCHANGED <<daemon, watch, edits>>
    BY DEF EndWith, Task
  <1>2. /\ job' \in JobType /\ job'.running = FALSE
        /\ job'.last = IF EndsWell(o) THEN "ok" ELSE "failed"
    <2> DEFINE l == IF EndsWell(o) THEN "ok" ELSE "failed"
    <2>1. job' = [job EXCEPT !.running = FALSE, !.cached = "none", !.last = l]
      BY DEF EndWith
    <2>2. l \in {"none", "ok", "failed"} OBVIOUS
    <2> HIDE DEF l
    <2>3. job' \in JobType /\ job'.running = FALSE /\ job'.last = l
      BY <2>1, <2>2 DEF Inv, Typed, JobType, Setups
    <2> QED BY <2>3 DEF l
  <1>3. Typed' BY <1>1, <1>2, NoTaskFits DEF Inv, Typed, daemon
  <1>4. OneAllow' BY <1>1, <1>2 DEF OneAllow, NoTask
  <1>5. (Sane(ha))' /\ (Fits(ha, task))' BY <1>1, NoTaskFits DEF Sane, Fits, live_pending
  <1>6. LeftHolds' BY <1>2 DEF LeftHolds
  <1> QED BY <1>3, <1>4, <1>5, <1>6 DEF Inv

----------------------------------------------------------------------------
(* Home Assistant.                                                         *)

\* A step of Home Assistant or of people, which no Allow takes part in.
LEMMA HaInv ==
    ASSUME Inv, UNCHANGED <<daemon, job, task, watch>>, ha' \in HaType, Sane(ha'),
           Fits(ha', task), blame' \in BOOLEAN, edits' \in Nat, faults' \in Nat,
           ~blame' => ~blame /\ ha'.stable = ha.stable
    PROVE  Inv'
  <1>1. Typed' BY DEF Inv, Typed, daemon
  <1>2. OneAllow' BY DEF Inv, OneAllow
  <1>3. (Sane(ha))' /\ (Fits(ha, task))' BY DEF Sane, Fits, live_pending
  <1>4. LeftHolds' BY DEF Inv, LeftHolds
  <1> QED BY <1>1, <1>2, <1>3, <1>4 DEF Inv

\* Home Assistant stops: what was on trial is no longer in use.
LEMMA StopInv == ASSUME Inv, Stop PROVE Inv'
  <1>1. ha' = [ha EXCEPT !.st = "down", !.active = "stable", !.revert = 0] BY DEF Stop
  <1>2. /\ ha' \in HaType /\ ha'.st = "down" /\ ha'.active = "stable" /\ ha'.boot = ha.boot
        /\ ha'.runs = ha.runs /\ ha'.stable = ha.stable
    BY <1>1 DEF Inv, Typed, HaType
  <1>3. Sane(ha') BY <1>2 DEF Sane
  <1>4. Fits(ha', task)
    <2>1. ha \in HaType /\ task \in TaskType /\ Fits(ha, task) BY DEF Inv, Typed
    <2> QED BY <1>2, <2>1, HaGoesOn DEF HaType
  <1> QED BY <1>2, <1>3, <1>4, HaInv DEF Stop, Inv, Typed

\* A trial that ran out keeps its settings in the slot, and marks them.
LEMMA RevertInv == ASSUME Inv, Revert PROVE Inv'
  <1>1. ha' = [ha EXCEPT !.error = "not_promoted", !.st = "stopping"] BY DEF Revert
  <1>2. /\ ha' \in HaType /\ ha'.st = "stopping" /\ ha'.active = ha.active /\ ha'.boot = ha.boot
        /\ ha'.runs = ha.runs /\ ha'.stable = ha.stable /\ ha'.pending = ha.pending
    BY <1>1 DEF Inv, Typed, HaType
  <1>3. Sane(ha') BY <1>2 DEF Sane, Inv
  <1>4. Fits(ha', task)
    <2>1. ha \in HaType /\ task \in TaskType /\ Fits(ha, task) BY DEF Inv, Typed
    <2> QED BY <1>2, <2>1, HaGoesOn DEF HaType
  <1> QED BY <1>2, <1>3, <1>4, HaInv DEF Revert, Inv, Typed

\* A start is later than any the Allow has seen, so what it knows of an earlier one
\* is void.
LEMMA BootInv == ASSUME Inv, Boot PROVE Inv'
  <1>1. ha \in HaType /\ task \in TaskType /\ Fits(ha, task) /\ Sane(ha) /\ ha.boot \in Nat
    BY DEF Inv, Typed, HaType
  <1>2. ha.st = "down" /\ ha.active = "stable" BY <1>1 DEF Boot, Sane
  <1>3. faults' \in Nat BY FaultNat DEF Boot, Inv, Typed
  <1>4. \/ /\ live_pending(ha)
           /\ ha' = [ha EXCEPT !.st = "up", !.boot = ha.boot + 1, !.active = "pending",
                               !.runs = ha.pending, !.revert = RevertAfter]
        \/ ha' = [ha EXCEPT !.st = "up", !.boot = ha.boot + 1, !.runs = ha.stable]
        \/ ha' = [ha EXCEPT !.st = "up", !.boot = ha.boot + 1, !.runs = ha.stable,
                            !.error = "failed"]
    BY DEF Boot
  <1>5. /\ ha' \in HaType /\ ha'.st = "up" /\ ha'.boot = ha.boot + 1 /\ ha'.stable = ha.stable
        /\ ha'.active = "pending" => ha'.pending # None /\ ha'.runs = ha'.pending
    <2>1. /\ ha.boot + 1 \in Nat /\ RevertAfter \in Nat /\ ha.stable \in Setting
          /\ live_pending(ha) => ha.pending \in Setting /\ ha.pending # None
      BY <1>1, ConstAssumption DEF live_pending, HaType
    <2>2. CASE /\ live_pending(ha)
               /\ ha' = [ha EXCEPT !.st = "up", !.boot = ha.boot + 1, !.active = "pending",
                                   !.runs = ha.pending, !.revert = RevertAfter]
      BY <1>1, <2>1, <2>2 DEF HaType
    <2>3. CASE ha' = [ha EXCEPT !.st = "up", !.boot = ha.boot + 1, !.runs = ha.stable]
      BY <1>1, <1>2, <2>1, <2>3 DEF HaType
    <2>4. CASE ha' = [ha EXCEPT !.st = "up", !.boot = ha.boot + 1, !.runs = ha.stable,
                                !.error = "failed"]
      BY <1>1, <1>2, <2>1, <2>4 DEF HaType
    <2> QED BY <1>4, <2>2, <2>3, <2>4
  <1>6. Sane(ha') BY <1>5 DEF Sane
  <1>7. Fits(ha', task)
    <2>1. ~QuickRestart => task.pc # "reconnect" BY DEF Boot
    <2> QED BY <1>1, <1>5, <2>1, HaGoesOn
  <1> QED BY <1>3, <1>5, <1>6, <1>7, HaInv DEF Boot, Inv, Typed

\* What configure and promote leave.
LEMMA ConfiguredType ==
    ASSUME NEW h \in HaType, Sane(h), NEW c \in Setting
    PROVE  /\ Configured(h, c) \in HaType /\ Sane(Configured(h, c))
           /\ Configured(h, c).st = "stopping" /\ Configured(h, c).boot = h.boot
           /\ Configured(h, c).runs = h.runs /\ Configured(h, c).stable = h.stable
  <1>1. c # None BY ConstAssumption
  <1> QED BY <1>1 DEF Configured, HaType, Sane

\* Confirmed settings are the stable ones, and nothing waits any more.
LEMMA PromotedType ==
    ASSUME NEW h \in HaType, Sane(h), h.active = "pending"
    PROVE  /\ Promoted(h) \in HaType /\ Sane(Promoted(h))
           /\ Promoted(h).pending = None /\ Promoted(h).active = "stable"
           /\ Promoted(h).st = h.st /\ Promoted(h).boot = h.boot
           /\ Promoted(h).runs = h.runs /\ Promoted(h).stable = h.pending
  <1>1. h.pending \in Setting BY DEF HaType, Sane
  <1> QED BY <1>1 DEF Promoted, HaType, Sane

\* People do what they like with the settings; the Allow's promise is off then.
LEMMA EditInv == ASSUME Inv, Edit PROVE Inv'
  <1>1. ha \in HaType /\ task \in TaskType /\ Fits(ha, task) /\ Sane(ha) /\ ha.boot \in Nat
    BY DEF Inv, Typed, HaType
  <1>2. ha' \in HaType /\ Sane(ha') /\ Fits(ha', task)
    <2>1. ASSUME NEW c \in Configs, ha' = Configured(ha, c)
          PROVE  ha' \in HaType /\ Sane(ha') /\ Fits(ha', task)
      <3>1. c \in Setting BY ConstAssumption
      <3>2. /\ ha' \in HaType /\ Sane(ha') /\ ha'.st = "stopping" /\ ha'.boot = ha.boot
            /\ ha'.runs = ha.runs
        BY <1>1, <2>1, <3>1, ConfiguredType
      <3> QED BY <1>1, <3>2, HaGoesOn
    <2>2. CASE ha.active = "pending" /\ ha' = Promoted(ha)
      <3>1. /\ ha' \in HaType /\ Sane(ha') /\ ha'.active = "stable" /\ ha'.boot = ha.boot
            /\ ha'.runs = ha.runs /\ ha'.pending = None
        BY <1>1, <2>2, PromotedType
      <3> QED BY <1>1, <3>1, HaGoesOn DEF live_pending
    <2>3. CASE /\ ha.pending # None
               /\ ha' = [ha EXCEPT !.pending = None, !.error = "none", !.active = "stable",
                                   !.revert = 0,
                                   !.st = IF ha.active = "pending" THEN "stopping" ELSE @]
      <3>1. /\ ha' \in HaType /\ ha'.active = "stable" /\ ha'.boot = ha.boot
            /\ ha'.runs = ha.runs /\ ha'.pending = None
        BY <1>1, <2>3 DEF HaType
      <3>2. Sane(ha') BY <3>1 DEF Sane
      <3> QED BY <1>1, <3>1, <3>2, HaGoesOn DEF live_pending
    <2>4. CASE ha' = [ha EXCEPT !.st = "stopping"]
      <3>1. /\ ha' \in HaType /\ ha'.st = "stopping" /\ ha'.boot = ha.boot
            /\ ha'.active = ha.active /\ ha'.pending = ha.pending /\ ha'.runs = ha.runs
        BY <1>1, <2>4 DEF HaType
      <3>2. Sane(ha') BY <1>1, <3>1 DEF Sane
      <3> QED BY <1>1, <3>1, <3>2, HaGoesOn
    <2> QED BY <2>1, <2>2, <2>3, <2>4 DEF Edit
  <1> QED BY <1>2, HaInv DEF Edit, Inv, Typed

----------------------------------------------------------------------------
(* The Allow.                                                              *)

\* A step that moves the Allow on.
LEMMA MovesInv ==
    ASSUME Inv, task.pc # "none", NEW t \in TaskType, t.pc # "none", Moves(t),
           ha' \in HaType, Sane(ha'), Fits(ha', t), ha'.stable = ha.stable, faults' \in Nat
    PROVE  Inv'
  <1>1. task' = t /\ UNCHANGED <<daemon, job, watch, blame, edits>> BY DEF Moves, Task
  <1>2. Typed' BY <1>1 DEF Inv, Typed, daemon
  <1>3. OneAllow' BY <1>1 DEF Inv, OneAllow
  <1>4. (Sane(ha))' /\ (Fits(ha, task))' BY <1>1 DEF Sane, Fits, live_pending
  <1>5. LeftHolds' BY <1>1 DEF Inv, LeftHolds
  <1> QED BY <1>2, <1>3, <1>4, <1>5 DEF Inv

\* The page's job or the Allow changes, and Home Assistant does not.
LEMMA PageInv ==
    ASSUME Inv, UNCHANGED <<ha, blame, edits>>, up' \in BOOLEAN, tunnel' \in BOOLEAN,
           poll' \in Setups, watch' \in Nat, faults' \in Nat, job' \in JobType, task' \in TaskType,
           OneAllow', Fits(ha, task'), job'.last = "ok" => job.last = "ok"
    PROVE  Inv'
  <1>1. Typed' BY DEF Inv, Typed
  <1>2. (Sane(ha))' /\ (Fits(ha, task))' BY DEF Inv, Sane, Fits, live_pending
  <1>3. LeftHolds' BY DEF Inv, LeftHolds
  <1> QED BY <1>1, <1>2, <1>3 DEF Inv

\* An Allow that starts by itself goes on, or ends without a word.
LEMMA AutoLookInv == ASSUME Inv, AutoLook PROVE Inv'
  <1>1. /\ task.pc = "auto" /\ ha \in HaType /\ task \in TaskType /\ job \in JobType /\ Sane(ha)
        /\ Fits(ha, task) /\ UNCHANGED <<ha, faults>> /\ faults' \in Nat
    BY DEF AutoLook, At, Inv, Typed
  <1>2. CASE Moves([task EXCEPT !.pc = "again"])
    <2> DEFINE t == [task EXCEPT !.pc = "again"]
    <2>1. /\ t \in TaskType /\ t.pc = "again" /\ t.conn = task.conn /\ t.checked = task.checked
      BY <1>1 DEF TaskType, Steps
    <2>2. Moves(t) BY <1>2
    <2> HIDE DEF t
    <2>3. Fits(ha, t) BY <1>1, <2>1 DEF Fits, Sending
    <2> QED BY <1>1, <2>1, <2>2, <2>3, MovesInv
  <1>3. CASE /\ Task(NoTask)
             /\ job' = [job EXCEPT !.running = FALSE, !.cached = "none"]
             /\ UNCHANGED <<daemon, watch, blame, edits>>
    <2>1. job' \in JobType /\ job'.running = FALSE /\ job'.last = job.last
      BY <1>1, <1>3 DEF JobType, Setups
    <2>2. OneAllow' BY <1>3, <2>1 DEF OneAllow, Task, NoTask
    <2> QED BY <1>1, <1>3, <2>1, <2>2, NoTaskFits, PageInv DEF Task, daemon, Inv, Typed
  <1> QED BY <1>2, <1>3 DEF AutoLook

\* What the Allow decides on is what Home Assistant says at this start.
LEMMA LookInv == ASSUME Inv, Look PROVE Inv'
  <1>1. /\ task.pc \in {"read", "again"} /\ ha \in HaType /\ task \in TaskType /\ Sane(ha)
        /\ Fits(ha, task) /\ UNCHANGED <<ha, faults>> /\ faults' \in Nat
    BY DEF Look, At, Inv, Typed
  <1> DEFINE s == assess(ha)
             t == [task EXCEPT !.wanted = merged(ha.stable), !.left = RestartEnds,
                               !.conn = ha.boot]
  <1>2. merged(ha.stable) \in Setting /\ accepts_forwarded(merged(ha.stable))
    BY <1>1, MergedFields, MergedAccepts DEF HaType
  <1>3. /\ t \in TaskType /\ t.conn = ha.boot /\ t.wanted = merged(ha.stable)
        /\ t.checked = task.checked
    BY <1>1, <1>2, ConstAssumption DEF TaskType, HaType
  <1>4. \/ EndWith("Failed") \/ EndWith("PendingByOther")
        \/ s = "Ready" /\ EndWith("AlreadyAllowed")
        \/ s = "Needed"  /\ Moves([t EXCEPT !.pc = "save"])
        \/ s = "Ours"    /\ Moves([t EXCEPT !.pc = "trial"])
        \/ s = "OnTrial" /\ Moves([t EXCEPT !.pc = "reconnect", !.until = ha.revert])
    BY DEF Look
  <1> HIDE DEF s, t
  <1>5. task.checked <= ha.boot /\ ha.boot \in Nat /\ ha.revert \in Nat
    BY <1>1 DEF Fits, HaType
  <1>6. CASE EndWith("Failed") \/ EndWith("PendingByOther")
    BY <1>1, <1>6, EndInv DEF EndsWell
  <1>7. CASE s = "Ready" /\ EndWith("AlreadyAllowed")
    <2>1. Left(ha.stable) BY <1>7, Assessed, Accepting DEF s
    <2> QED BY <1>1, <1>7, <2>1, EndInv
  <1>8. CASE s = "Needed" /\ Moves([t EXCEPT !.pc = "save"])
    <2> DEFINE u == [t EXCEPT !.pc = "save"]
    <2>1. /\ u \in TaskType /\ u.pc = "save" /\ u.conn = t.conn /\ u.wanted = t.wanted
          /\ u.checked = t.checked
      BY <1>3 DEF TaskType, Steps
    <2>2. Moves(u) BY <1>8
    <2>3. ~live_pending(ha) BY <1>8, Assessed DEF s
    <2> HIDE DEF u
    <2>4. Fits(ha, u) BY <1>2, <1>3, <1>5, <2>1, <2>3 DEF Fits
    <2> QED BY <1>1, <2>1, <2>2, <2>4, MovesInv
  <1>9. CASE s = "Ours" /\ Moves([t EXCEPT !.pc = "trial"])
    <2> DEFINE u == [t EXCEPT !.pc = "trial"]
    <2>1. /\ u \in TaskType /\ u.pc = "trial" /\ u.conn = t.conn /\ u.wanted = t.wanted
          /\ u.checked = t.checked
      BY <1>3 DEF TaskType, Steps
    <2>2. Moves(u) BY <1>9
    <2> HIDE DEF u
    <2>3. Fits(ha, u) BY <1>2, <1>3, <1>5, <2>1 DEF Fits
    <2> QED BY <1>1, <2>1, <2>2, <2>3, MovesInv
  <1>10. CASE s = "OnTrial" /\ Moves([t EXCEPT !.pc = "reconnect", !.until = ha.revert])
    <2> DEFINE u == [t EXCEPT !.pc = "reconnect", !.until = ha.revert]
    <2>1. /\ u \in TaskType /\ u.pc = "reconnect" /\ u.conn = t.conn /\ u.wanted = t.wanted
          /\ u.checked = t.checked
      BY <1>3, <1>5 DEF TaskType, Steps
    <2>2. Moves(u) BY <1>10
    <2>3. ha.pending = merged(ha.stable)
      BY <1>10, Assessed DEF s, on_trial_with, pending_is
    <2> HIDE DEF u
    <2>4. Fits(ha, u) BY <1>2, <1>3, <1>5, <2>1, <2>3 DEF Fits
    <2> QED BY <1>1, <2>1, <2>2, <2>4, MovesInv
  <1> QED BY <1>4, <1>6, <1>7, <1>8, <1>9, <1>10

\* The settings go to the start that was read, where none waited.
LEMMA SaveInv == ASSUME Inv, Save PROVE Inv'
  <1>1. /\ task.pc = "save" /\ ha \in HaType /\ task \in TaskType /\ Sane(ha)
        /\ Fits(ha, task) /\ task.wanted \in Setting /\ faults \in Nat
    BY DEF Save, At, Inv, Typed, Fits, Sending
  <1>2. CASE ha' = Configured(ha, task.wanted)
    <2>1. /\ ha' \in HaType /\ Sane(ha') /\ ha'.st = "stopping" /\ ha'.boot = ha.boot
          /\ ha'.runs = ha.runs /\ ha'.stable = ha.stable
      BY <1>1, <1>2, ConfiguredType
    <2>2. CASE Moves([task EXCEPT !.pc = "closing"]) /\ UNCHANGED faults
      <3> DEFINE t == [task EXCEPT !.pc = "closing"]
      <3>1. /\ t \in TaskType /\ t.pc = "closing" /\ t.conn = task.conn
            /\ t.checked = task.checked /\ t.wanted = task.wanted
        BY <1>1 DEF TaskType, Steps
      <3>2. Moves(t) BY <2>2
      <3> HIDE DEF t
      <3>3. Fits(ha', t) BY <1>1, <2>1, <3>1 DEF Fits, Sending
      <3> QED BY <1>1, <2>1, <2>2, <3>1, <3>2, <3>3, MovesInv
    <2>3. CASE EndWith("Failed") /\ faults' \in Nat
      BY <2>1, <2>3, EndInv DEF EndsWell
    <2> QED BY <1>1, <1>2, <2>2, <2>3, FaultNat DEF Save
  <1>3. CASE EndWith("Failed") /\ UNCHANGED <<ha, faults>>
    BY <1>1, <1>3, EndInv DEF EndsWell
  <1> QED BY <1>2, <1>3 DEF Save

\* The restart that a save brings is waited for.
LEMMA ClosingInv == ASSUME Inv, Closing PROVE Inv'
  <1>1. /\ task.pc = "closing" /\ ha \in HaType /\ task \in TaskType /\ Sane(ha)
        /\ Fits(ha, task) /\ UNCHANGED <<ha, faults>> /\ faults' \in Nat
    BY DEF Closing, At, Inv, Typed
  <1>2. PICK b \in BOOLEAN : Moves([task EXCEPT !.pc = "trial", !.down = b]) BY DEF Closing
  <1> DEFINE t == [task EXCEPT !.pc = "trial", !.down = b]
  <1>3. /\ t \in TaskType /\ t.pc = "trial" /\ t.conn = task.conn
        /\ t.checked = task.checked /\ t.wanted = task.wanted
    BY <1>1 DEF TaskType, Steps
  <1>4. Moves(t) BY <1>2
  <1> HIDE DEF t
  <1>5. Fits(ha, t) BY <1>1, <1>3 DEF Fits, Sending
  <1> QED BY <1>1, <1>3, <1>4, <1>5, MovesInv

\* Back on trial at this start: the Allow goes on to the check, or gives up.
LEMMA BackInv ==
    ASSUME Inv, task.pc \in Sending, UNCHANGED ha, faults' \in Nat, NEW u \in Nat,
           Back([task EXCEPT !.conn = ha.boot], u),
           ~QuickRestart /\ ha.st = "up" /\ ha.active = "pending" => ha.pending = task.wanted
    PROVE  Inv'
  <1>1. /\ ha \in HaType /\ task \in TaskType /\ Sane(ha) /\ ha.boot \in Nat
        /\ Fits(ha, task) /\ task.wanted \in Setting
    BY DEF Inv, Typed, HaType, Fits
  <1> DEFINE t == [[task EXCEPT !.conn = ha.boot] EXCEPT !.pc = "verify", !.until = u]
  <1>2. CASE Moves(t)
    <2>1. /\ t \in TaskType /\ t.pc = "verify" /\ t.conn = ha.boot
          /\ t.checked = task.checked /\ t.wanted = task.wanted
      BY <1>1 DEF TaskType, Steps
    <2> HIDE DEF t
    <2>2. Fits(ha, t) BY <1>1, <2>1 DEF Fits
    <2>3. task.pc # "none" BY DEF Sending
    <2> QED BY <1>1, <1>2, <2>1, <2>2, <2>3, MovesInv
  <1>3. CASE EndWith("Failed") BY <1>1, <1>3, EndInv DEF EndsWell
  <1> QED BY <1>2, <1>3 DEF Back

\* Only its own settings on trial make the Allow go on.
LEMMA TrialInv == ASSUME Inv, Trial PROVE Inv'
  <1>1. /\ task.pc = "trial" /\ ha \in HaType /\ task \in TaskType /\ Sane(ha)
        /\ Fits(ha, task) /\ UNCHANGED ha /\ ha.revert \in Nat /\ RevertAfter \in Nat
    BY ConstAssumption DEF Trial, At, Inv, Typed, HaType
  <1>2. faults' \in Nat BY FaultNat DEF Trial, Inv, Typed
  <1>3. CASE EndWith("Failed") BY <1>1, <1>2, <1>3, EndInv DEF EndsWell
  <1>4. CASE Moves([task EXCEPT !.down = TRUE])
    <2> DEFINE t == [task EXCEPT !.down = TRUE]
    <2>1. /\ t \in TaskType /\ t.pc = task.pc /\ t.conn = task.conn
          /\ t.checked = task.checked /\ t.wanted = task.wanted
      BY <1>1 DEF TaskType
    <2> HIDE DEF t
    <2>2. Fits(ha, t) BY <1>1, <2>1 DEF Fits
    <2>3. Moves(t) BY <1>4 DEF t
    <2> QED BY <1>1, <1>2, <2>1, <2>2, <2>3, MovesInv
  <1>5. CASE on_trial_with(ha, task.wanted)
             /\ \E u \in Nat : Back([task EXCEPT !.conn = ha.boot], u)
    <2>1. ha.pending = task.wanted BY <1>5 DEF on_trial_with, pending_is
    <2> QED BY <1>1, <1>2, <1>5, <2>1, BackInv DEF Sending
  <1> QED BY <1>1, <1>3, <1>4, <1>5 DEF Trial, Moves

\* A trial that was found running is carried on.
LEMMA ReconnectInv == ASSUME Inv, Reconnect PROVE Inv'
  <1>1. /\ task.pc = "reconnect" /\ ha \in HaType /\ task \in TaskType /\ Sane(ha)
        /\ Fits(ha, task) /\ UNCHANGED <<ha, faults>> /\ faults' \in Nat /\ task.until \in Nat
    BY DEF Reconnect, At, Inv, Typed, TaskType
  <1>2. CASE EndWith("Failed") BY <1>1, <1>2, EndInv DEF EndsWell
  <1>3. CASE Back([task EXCEPT !.conn = ha.boot], task.until)
    <2>1. ~QuickRestart /\ ha.st = "up" /\ ha.active = "pending" => ha.pending = task.wanted
      BY <1>1 DEF Fits
    <2> QED BY <1>1, <1>3, <2>1, BackInv DEF Sending
  <1> QED BY <1>2, <1>3 DEF Reconnect

\* The check is of the start that runs now.
LEMMA VerifyInv == ASSUME Inv, Verify PROVE Inv'
  <1>1. /\ task.pc = "verify" /\ ha \in HaType /\ task \in TaskType /\ Sane(ha)
        /\ Fits(ha, task) /\ UNCHANGED ha /\ ha.boot \in Nat
    BY DEF Verify, At, Inv, Typed, HaType
  <1>2. faults' \in Nat BY FaultNat DEF Verify, Inv, Typed
  <1>3. CASE EndWith("Failed") BY <1>1, <1>2, <1>3, EndInv DEF EndsWell
  <1>4. CASE /\ HopAccepted(ha.runs)
             /\ Moves([task EXCEPT !.pc = "promote", !.checked = ha.boot])
    <2> DEFINE t == [task EXCEPT !.pc = "promote", !.checked = ha.boot]
    <2>1. /\ t \in TaskType /\ t.pc = "promote" /\ t.conn = task.conn
          /\ t.checked = ha.boot /\ t.wanted = task.wanted
      BY <1>1 DEF TaskType, Steps
    <2> HIDE DEF t
    <2>2. Fits(ha, t) BY <1>1, <1>4, <2>1 DEF Fits, Sending
    <2>3. Moves(t) BY <1>4 DEF t
    <2> QED BY <1>1, <1>2, <2>1, <2>2, <2>3, MovesInv
  <1> QED BY <1>3, <1>4 DEF Verify

\* Settings on trial at the start the Allow has checked were accepted there.
LEMMA Confirmed ==
    ASSUME Inv, task.pc = "promote", ha.st = "up", ha.boot = task.conn, ha.active = "pending"
    PROVE  task.checked = ha.boot /\ Left(ha.pending)
  <1>1. ha.boot \in Nat /\ task.checked \in Nat /\ Fits(ha, task) /\ Sane(ha)
    BY DEF Inv, Typed, HaType, TaskType
  <1>2. task.checked = ha.boot BY <1>1 DEF Fits
  <1>3. HopAccepted(ha.pending) BY <1>1, <1>2 DEF Fits, Sane
  <1>4. ~QuickRestart => accepts_forwarded(ha.pending) BY <1>1 DEF Fits, Sending
  <1> QED BY <1>2, <1>3, <1>4 DEF Left

\* Allow says it worked only when what it confirmed was checked.
LEMMA PromoteInv == ASSUME Inv, Promote PROVE Inv'
  <1>1. /\ task.pc = "promote" /\ ha \in HaType /\ Sane(ha) /\ faults \in Nat
    BY DEF Promote, At, Inv, Typed
  <1>2. CASE /\ ha.st = "up" /\ ha.boot = task.conn /\ ha.active = "pending"
             /\ ha' = Promoted(ha)
             /\ faults' \in Nat
             /\ EndWith("Allowed") \/ EndWith("Failed")
    <2>1. ha' \in HaType /\ Sane(ha') /\ ha'.stable = ha.pending
      BY <1>1, <1>2, PromotedType
    <2>2. Left(ha'.stable) BY <1>1, <1>2, <2>1, Confirmed
    <2> QED BY <1>2, <2>1, <2>2, EndInv
  <1>3. CASE EndWith("Failed") /\ UNCHANGED <<ha, faults>>
    BY <1>1, <1>3, EndInv DEF EndsWell
  <1> QED BY <1>1, <1>2, <1>3, FaultNat DEF Promote

----------------------------------------------------------------------------
(* The page and the daemon.                                                *)

\* An Allow begins only when none runs.
LEMMA BeginInv ==
    ASSUME Inv, NEW auto \in BOOLEAN, Begin(auto), job' = Begun(job, auto), watch' \in Nat,
           UNCHANGED <<ha, daemon, blame, edits, faults>>
    PROVE  Inv'
  <1>1. job \in JobType /\ ha \in HaType /\ ha.boot \in Nat BY DEF Inv, Typed, HaType
  <1>2. job' \in JobType /\ job'.running = TRUE /\ (job'.last = "ok" => job.last = "ok")
    <2> DEFINE l == IF auto THEN job.last ELSE "none"
               b == job.autoTried \/ auto
    <2>1. /\ l \in {"none", "ok", "failed"} /\ (l = "ok" => job.last = "ok") /\ b \in BOOLEAN
      BY <1>1 DEF JobType
    <2>2. job' = [job EXCEPT !.running = TRUE, !.autoTried = b, !.last = l]
      BY <1>1 DEF Begun, JobType
    <2> HIDE DEF l, b
    <2> QED BY <1>1, <2>1, <2>2 DEF JobType
  <1>3. /\ task' \in TaskType /\ task'.pc \in {"auto", "read"} /\ task'.conn = 0
        /\ task'.checked = 0
    <2> DEFINE q == IF auto THEN "auto" ELSE "read"
    <2>1. task' = [NoTask EXCEPT !.auto = auto, !.pc = q] BY DEF Begin, Task
    <2>2. q \in {"auto", "read"} OBVIOUS
    <2> HIDE DEF q
    <2> QED BY <2>1, <2>2 DEF NoTask, TaskType, Steps
  <1>4. OneAllow' BY <1>2, <1>3 DEF OneAllow
  <1>5. Fits(ha, task') BY <1>1, <1>3 DEF Fits, Sending
  <1> QED BY <1>2, <1>3, <1>4, <1>5, PageInv DEF daemon, Inv, Typed

\* The page begins an Allow, forgets how one ended, or asks Home Assistant.
LEMMA PageStepInv == ASSUME Inv, Page PROVE Inv'
  <1>1. CASE AllowClick
    BY <1>1, BeginInv DEF AllowClick, Inv, Typed
  <1>2. CASE StatusTakesUp
    BY <1>2, BeginInv DEF StatusTakesUp, Inv, Typed
  <1>3. CASE SkipClick \/ StatusAsk \/ StatusRead \/ Expire
    <2>1. /\ job \in JobType /\ poll \in Setups
          /\ UNCHANGED <<ha, up, tunnel, task, watch, blame, edits, faults>>
      BY <1>3 DEF Inv, Typed, SkipClick, StatusAsk, StatusRead, Expire, daemon
    <2>2. poll' \in Setups
      <3>1. assess(ha) \in {"Ready", "Pending", "OnTrial", "Ours", "Needed", "Error"}
        BY Assessed
      <3> QED BY <1>3, <2>1, <3>1 DEF SkipClick, StatusAsk, StatusRead, Expire, Setups, daemon
    <2>3. \/ job' = job \/ job' = [job EXCEPT !.last = "none"]
          \/ \E c \in Setups : job' = [job EXCEPT !.cached = c]
      BY <1>3, <2>1 DEF SkipClick, StatusAsk, StatusRead, Expire, Setups
    <2>4. /\ job' \in JobType /\ job'.running = job.running
          /\ job'.last = "ok" => job.last = "ok"
      BY <2>1, <2>3 DEF JobType
    <2>5. OneAllow' BY <2>1, <2>4 DEF Inv, OneAllow
    <2> QED BY <2>1, <2>2, <2>4, <2>5, PageInv DEF Inv, Typed
  <1> QED BY <1>1, <1>2, <1>3 DEF Page

\* The daemon starts, ends with all it has in memory, or takes a trial up.
LEMMA DaemonInv == ASSUME Inv, Daemon PROVE Inv'
  <1>1. CASE ConfirmOurs
    <2>1. CASE watch' = 0 /\ UNCHANGED <<job, task>> /\ UNCHANGED <<ha, daemon, blame, edits, faults>>
      <3>1. OneAllow' BY <2>1 DEF Inv, OneAllow
      <3> QED BY <2>1, <3>1, PageInv DEF daemon, Inv, Typed
    <2>2. CASE /\ Begin(TRUE) /\ watch' = 0 /\ job' = Begun(job, TRUE)
               /\ UNCHANGED <<ha, daemon, blame, edits, faults>>
      BY <2>2, BeginInv
    <2> QED BY <1>1, <2>1, <2>2 DEF ConfirmOurs
  <1>2. CASE DaemonEnds
    <2>1. job' = NoJob /\ task' = NoTask BY <1>2 DEF DaemonEnds
    <2>2. OneAllow' BY <2>1 DEF OneAllow, NoJob, NoTask
    <2>3. job'.last # "ok" BY <2>1 DEF NoJob
    <2>4. Fits(ha, task') BY <2>1, NoTaskFits DEF Inv, Typed
    <2>5. poll' \in Setups BY <1>2 DEF DaemonEnds, Setups
    <2> QED BY <1>2, <2>1, <2>2, <2>3, <2>4, <2>5, NoTaskFits, NoJobType, FaultNat, PageInv
            DEF DaemonEnds
  <1>3. CASE DaemonStarts \/ TunnelStarts
    <2>1. /\ UNCHANGED <<ha, poll, job, task, blame, edits, faults>> /\ up' \in BOOLEAN
          /\ tunnel' \in BOOLEAN /\ watch' \in Nat
      BY <1>3, ConstAssumption DEF DaemonStarts, TunnelStarts, Inv, Typed
    <2>2. OneAllow' BY <2>1 DEF Inv, OneAllow
    <2> QED BY <2>1, <2>2, PageInv DEF Inv, Typed
  <1> QED BY <1>1, <1>2, <1>3 DEF Daemon

\* Time passes: what is left of it never goes below zero.
LEMMA TickInv == ASSUME Inv, Tick PROVE Inv'
  <1>1. \A n \in Nat : Less(n) \in Nat BY DEF Less
  <1>2. ha \in HaType /\ task \in TaskType /\ watch \in Nat /\ Sane(ha) /\ Fits(ha, task)
    BY DEF Inv, Typed
  <1>3. /\ ha' \in HaType /\ ha'.st = ha.st /\ ha'.boot = ha.boot /\ ha'.stable = ha.stable
        /\ ha'.pending = ha.pending /\ ha'.error = ha.error /\ ha'.runs = ha.runs
        /\ ha'.active = ha.active
    <2>1. ha' = [ha EXCEPT !.revert = Less(ha.revert)] BY DEF Tick
    <2>2. Less(ha.revert) \in Nat BY <1>1, <1>2 DEF HaType
    <2> QED BY <1>2, <2>1, <2>2 DEF HaType
  <1>4. /\ task' \in TaskType /\ task'.pc = task.pc /\ task'.conn = task.conn
        /\ task'.wanted = task.wanted /\ task'.checked = task.checked
    <2>1. task' = [task EXCEPT !.left = Less(task.left), !.until = Less(task.until)] BY DEF Tick
    <2>2. Less(task.left) \in Nat /\ Less(task.until) \in Nat BY <1>1, <1>2 DEF TaskType
    <2> QED BY <1>2, <2>1, <2>2 DEF TaskType
  <1>5. Typed' BY <1>1, <1>2, <1>3, <1>4 DEF Tick, Inv, Typed, daemon
  <1>6. OneAllow' BY <1>4 DEF Tick, Inv, OneAllow
  <1>7. (Sane(ha))' BY <1>2, <1>3 DEF Sane
  <1>8. (Fits(ha, task))' BY <1>2, <1>3, <1>4 DEF Fits, live_pending
  <1>9. LeftHolds' BY <1>3 DEF Tick, Inv, LeftHolds
  <1> QED BY <1>5, <1>6, <1>7, <1>8, <1>9 DEF Inv

\* A Home Assistant with its settings in force, and no daemon yet.
LEMMA InitInv == Init => Inv
  <1> SUFFICES ASSUME Init PROVE Inv OBVIOUS
  <1>1. PICK c \in Configs :
          ha = [st |-> "up", boot |-> 1, stable |-> c, pending |-> None, error |-> "none",
                runs |-> c, active |-> "stable", revert |-> 0]
    BY DEF Init
  <1>2. c \in Setting BY ConstAssumption
  <1>3. ha \in HaType /\ ha.st = "up" /\ ha.active = "stable" BY <1>1, <1>2 DEF HaType
  <1>4. Typed BY <1>3, NoTaskFits, NoJobType DEF Init, Typed, Setups
  <1>5. OneAllow BY DEF Init, OneAllow, NoJob, NoTask
  <1>6. Sane(ha) BY <1>3 DEF Sane
  <1>7. Fits(ha, task) BY <1>3, NoTaskFits DEF Init
  <1>8. LeftHolds BY DEF Init, LeftHolds, NoJob
  <1> QED BY <1>4, <1>5, <1>6, <1>7, <1>8 DEF Inv

\* Every step of Home Assistant, of the Allow, of the page and of the daemon keeps
\* the invariant.
LEMMA NextInv == Inv /\ [Next]_vars => Inv'
  <1> SUFFICES ASSUME Inv, [Next]_vars PROVE Inv' OBVIOUS
  <1>1. CASE HomeAssistant
    BY <1>1, StopInv, BootInv, RevertInv, EditInv DEF HomeAssistant
  <1>2. CASE AllowTask
    BY <1>2, AutoLookInv, LookInv, SaveInv, ClosingInv, TrialInv, ReconnectInv, VerifyInv,
       PromoteInv DEF AllowTask
  <1>3. CASE Page BY <1>3, PageStepInv
  <1>4. CASE Daemon BY <1>4, DaemonInv
  <1>5. CASE Tick BY <1>5, TickInv
  <1>6. CASE UNCHANGED vars
    <2>1. UNCHANGED <<ha, daemon, job, task, watch, blame, edits, faults>>
      BY <1>6 DEF vars
    <2>2. OneAllow' BY <2>1 DEF Inv, OneAllow
    <2> QED BY <2>1, <2>2, PageInv DEF daemon, Inv, Typed
  <1> QED BY <1>1, <1>2, <1>3, <1>4, <1>5, <1>6 DEF Next

\* The invariant holds of every behaviour.
THEOREM Invariant == Spec => []Inv
  BY InitInv, NextInv, PTL DEF Spec

----------------------------------------------------------------------------
(* The properties of the run.                                              *)

\* Home Assistant's slots, the ProxyJob and the Allow stay within their types, and
\* no time left falls below zero.
THEOREM TypeCorrect == Spec => []TypeOK
  <1>1. Inv => TypeOK BY Types DEF Inv
  <1> QED BY <1>1, Invariant, PTL

\* The page says an Allow runs exactly while one does.
THEOREM OneAtATime == Spec => []OneAllow
  <1>1. Inv => OneAllow BY DEF Inv
  <1> QED BY <1>1, Invariant, PTL

\* What Allow sends is accepted, settled, and trusts loopback and what was trusted
\* before and nothing else, for any address width and any settings.
THEOREM SendsLittle == Spec => []MergedMinimal
  <1>1. Inv => MergedMinimal
    <2> SUFFICES ASSUME Inv, Valid(ha.stable) PROVE MergedMinimal BY DEF MergedMinimal
    <2>1. ha.stable \in Setting BY DEF Inv, Typed, HaType
    <2> QED BY <2>1, MergedRight DEF MergedMinimal
  <1> QED BY <1>1, Invariant, PTL

\* What Allow said worked is still so, until people change the settings: Home Assistant
\* accepts what comes through the tunnel, and from both loopback addresses as long as it
\* does not restart between two calls in a row.
THEOREM AllowedStays ==
    /\ Spec => [](job.last = "ok" /\ ~blame => HopAccepted(ha.stable))
    /\ ~QuickRestart /\ Spec => []AllowedHolds
  <1>1. Inv => (job.last = "ok" /\ ~blame => HopAccepted(ha.stable))
    BY DEF Inv, LeftHolds, Left
  <1>2. ASSUME ~QuickRestart PROVE Spec => []AllowedHolds
    <2>1. Inv => AllowedHolds BY <1>2 DEF Inv, LeftHolds, Left, AllowedHolds
    <2> QED BY <2>1, Invariant, PTL
  <1>3. Spec => [](job.last = "ok" /\ ~blame => HopAccepted(ha.stable))
    BY <1>1, Invariant, PTL
  <1> QED BY <1>2, <1>3

\* Without people, Home Assistant's two slots are written only by the Allow: when it
\* saves on the connection it read on, and when it confirms what is on trial.
LEMMA OnlyAllowWrites ==
    ASSUME Inv, [Next]_vars, edits' = edits
    PROVE  \/ ha'.stable = ha.stable /\ ha'.pending = ha.pending
           \/ /\ task.pc = "save" /\ ha.st = "up" /\ ha.boot = task.conn
              /\ ha' = Configured(ha, task.wanted) /\ ha'.stable = ha.stable
           \/ /\ task.pc = "promote" /\ ha.st = "up" /\ ha.boot = task.conn
              /\ ha.active = "pending" /\ ha' = Promoted(ha)
              /\ ha'.stable = ha.pending
  <1>0. ha \in HaType /\ Sane(ha) BY DEF Inv, Typed
  <1>1. CASE Stop BY <1>0, <1>1 DEF Stop, HaType
  <1>2. CASE Boot
    <2>1. CASE ha' = [ha EXCEPT !.st = "up", !.boot = @ + 1, !.active = "pending",
                                !.runs = ha.pending, !.revert = RevertAfter]
      BY <1>0, <2>1 DEF HaType
    <2>2. CASE ha' = [ha EXCEPT !.st = "up", !.boot = @ + 1, !.runs = ha.stable]
      BY <1>0, <2>2 DEF HaType
    <2>3. CASE ha' = [ha EXCEPT !.st = "up", !.boot = @ + 1, !.runs = ha.stable,
                                !.error = "failed"]
      BY <1>0, <2>3 DEF HaType
    <2> QED BY <1>2, <2>1, <2>2, <2>3 DEF Boot
  <1>3. CASE Revert BY <1>0, <1>3 DEF Revert, HaType
  <1>4. CASE Edit
    <2>1. edits \in Nat /\ edits' = edits + 1 BY <1>4 DEF Edit, Inv, Typed
    <2> QED BY <2>1
  <1>5. CASE Save
    <2>1. CASE /\ task.pc = "save" /\ ha.st = "up" /\ ha.boot = task.conn
               /\ ha' = Configured(ha, task.wanted)
      BY <1>0, <2>1 DEF Configured, HaType
    <2> QED BY <1>5, <2>1 DEF Save, At
  <1>6. CASE Promote
    <2>1. CASE /\ task.pc = "promote" /\ ha.st = "up" /\ ha.boot = task.conn
               /\ ha.active = "pending" /\ ha' = Promoted(ha)
      BY <1>0, <2>1, PromotedType
    <2> QED BY <1>6, <2>1 DEF Promote, At
  <1>7. CASE AutoLook \/ Look \/ Closing \/ Trial \/ Reconnect \/ Verify
    BY <1>7 DEF AutoLook, Look, Closing, Trial, Reconnect, Verify
  <1>8. CASE Page
    BY <1>8 DEF Page, AllowClick, SkipClick, StatusAsk, StatusRead, StatusTakesUp, Expire
  <1>9. CASE Daemon
    BY <1>9 DEF Daemon, ConfirmOurs, DaemonEnds, DaemonStarts, TunnelStarts
  <1>10. CASE Tick
    BY <1>0, <1>10 DEF Tick, HaType
  <1>11. CASE UNCHANGED vars BY <1>11 DEF vars
  <1> QED BY <1>1, <1>2, <1>3, <1>4, <1>5, <1>6, <1>7, <1>8, <1>9, <1>10, <1>11
          DEF Next, HomeAssistant, AllowTask

\* Allow confirms only settings that answered a request at the very start of Home
\* Assistant that has them on trial.
THEOREM ConfirmsChecked == Spec => OnlyChecked
  <1>1. ASSUME Inv, [Next]_vars, ha'.stable # ha.stable, edits' = edits
        PROVE  task.checked = ha.boot /\ HopAccepted(ha'.stable)
    <2>1. /\ task.pc = "promote" /\ ha.st = "up" /\ ha.boot = task.conn
          /\ ha.active = "pending" /\ ha'.stable = ha.pending
      BY <1>1, OnlyAllowWrites
    <2>2. task.checked = ha.boot /\ HopAccepted(ha.pending)
      BY <1>1, <2>1, Confirmed DEF Left
    <2> QED BY <2>1, <2>2
  <1>2. Inv /\ [Next]_vars =>
            [ha'.stable # ha.stable /\ edits' = edits
               => task.checked = ha.boot /\ HopAccepted(ha'.stable)]_vars
    BY <1>1
  <1> QED BY <1>2, Invariant, PTL DEF Spec, OnlyChecked

\* A change that is not what the running Allow sends is left to people, as long as
\* Home Assistant does not restart between two calls in a row.
THEOREM OthersLeftAlone == ~QuickRestart /\ Spec => OthersKept
  <1> SUFFICES ASSUME ~QuickRestart PROVE Spec => OthersKept OBVIOUS
  <1>1. ASSUME Inv, [Next]_vars, live_pending(ha), ha.pending # task.wanted, edits' = edits
        PROVE  ha'.pending = ha.pending
    <2>1. Fits(ha, task) BY <1>1 DEF Inv
    <2>2. ~(task.pc = "save" /\ ha.st = "up" /\ ha.boot = task.conn)
      BY <1>1, <2>1 DEF Fits
    <2>3. ~(/\ task.pc = "promote" /\ ha.st = "up" /\ ha.boot = task.conn
            /\ ha.active = "pending")
      BY <1>1, <2>1 DEF Fits
    <2> QED BY <1>1, <2>2, <2>3, OnlyAllowWrites
  <1>2. Inv /\ [Next]_vars =>
            [live_pending(ha) /\ ha.pending # task.wanted /\ edits' = edits
               => ha'.pending = ha.pending]_vars
    BY <1>1
  <1> QED BY <1>2, Invariant, PTL DEF Spec, OthersKept
=============================================================================
