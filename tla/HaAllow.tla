------------------------------ MODULE HaAllow ------------------------------
(***************************************************************************)
(* The last step of setting the add-on up: letting Home Assistant accept   *)
(* requests that come through Datum (ha_core.rs), run from the add-on's    *)
(* page by the daemon (addon_page.rs).  Home Assistant takes a new setting *)
(* on trial and reverts it unless it is confirmed in time; it restarts,    *)
(* the daemon restarts, and people change the same settings meanwhile.     *)
(***************************************************************************)
EXTENDS Integers, FiniteSets

CONSTANTS
    W,              \* bits of an address
    Configs,        \* settings Home Assistant may start with or be given
    None,
    Hop,            \* the address the tunnel's local hop connects from
    RevertAfter,    \* AUTO_REVERT_DELAY
    Margin,         \* confirm_margin
    RestartBegins,  \* restart_begins
    RestartEnds,    \* restart_ends
    Watch,          \* LEFTOVER_TRIAL_WATCH
    QuickRestart,   \* Home Assistant may restart between two calls in a row
    MaxBoots, MaxEdits, MaxFaults

\* parse_network: an address family, an address and a prefix length.  Family 0
\* stands for text that is no network.
Networks == [fam : {0, 4, 6}, addr : 0 .. 2^W - 1, len : 0 .. W]
Setting  == [fwd : BOOLEAN, proxies : SUBSET Networks, rest : STRING]

Loopback == {[fam |-> 4, addr |-> 1], [fam |-> 6, addr |-> 1]}

ASSUME ConstAssumption ==
    /\ W \in Nat \ {0}
    /\ Configs \subseteq Setting /\ None \notin Setting
    /\ Hop \in Loopback
    /\ {RevertAfter, Margin, RestartBegins, RestartEnds, Watch} \subseteq Nat
    /\ QuickRestart \in BOOLEAN
    /\ {MaxBoots, MaxEdits, MaxFaults} \subseteq Nat

\* Arithmetic that the provers do not know of powers of two.
ASSUME PowerAssumption == 2^W > 1 /\ \A k \in 0 .. W : 2^k \in Nat \ {0}

VARIABLES
    ha,         \* Home Assistant: its process and its two slots of settings
    up,         \* the daemon runs
    tunnel,     \* the add-on's tunnel runs, so there is a target to check
    job,        \* ProxyJob
    task,       \* the Allow that runs
    poll,       \* what a status request read from Home Assistant, not yet in the job
    watch,      \* confirm_ours: ticks it goes on looking
    blame,      \* people changed the settings since an Allow last said how it ended
    edits, faults

daemon == <<up, tunnel, poll>>
vars   == <<ha, daemon, job, task, watch, blame, edits, faults>>

NoTask == [pc |-> "none", auto |-> FALSE, conn |-> 0, down |-> FALSE, left |-> 0,
           until |-> 0, wanted |-> None, checked |-> 0]

NoJob == [running |-> FALSE, last |-> "none", cached |-> "none", autoTried |-> FALSE]

\* Mutant: plain subtraction where the code saturates.
LessPlain(n) == n - 1

Less(n) == IF n = 0 THEN 0 ELSE n - 1

Fault == faults < MaxFaults /\ faults' = faults + 1

----------------------------------------------------------------------------
(* What the settings say.                                                  *)

\* Mutant: the prefix is one bit too short.
PrefixShort(a, len) == a - (a % 2^(W - len + 1))

\* The bits of an address that the mask of a prefix length keeps.
Prefix(a, len) == a - (a % 2^(W - len))

network_contains(n, ip) ==
    n.fam = ip.fam /\ Prefix(n.addr, n.len) = Prefix(ip.addr, n.len)

covers(proxies, ip) == \E n \in proxies : n.fam # 0 /\ network_contains(n, ip)

accepts_forwarded(c) == c.fwd /\ \A ip \in Loopback : covers(c.proxies, ip)

\* Home Assistant's own check of a request with X-Forwarded-For, which it answers
\* 400 unless it trusts the address the request comes from.
HopAccepted(c) == c.fwd /\ covers(c.proxies, Hop)

\* validate: every trusted proxy has to be a network.
Valid(c) == \A n \in c.proxies : n.fam # 0

\* merged: forwarding on, the loopback addresses added unless they are covered.
merged(c) ==
    LET added == {[fam |-> ip.fam, addr |-> ip.addr, len |-> W] :
                    ip \in {i \in Loopback : ~covers(c.proxies, i)}}
    IN  [c EXCEPT !.fwd = TRUE, !.proxies = @ \cup added]

live_pending(h) == h.pending # None /\ h.error = "none"

\* What Allow would send has to be sendable to be recognised.
pending_is(h, w) == h.pending = w

on_trial_with(h, w) == h.active = "pending" /\ live_pending(h) /\ pending_is(h, w)

\* assess, as one of ProxySetup's cases or an error.
assess(h) ==
    LET w    == merged(h.stable)
        ours == Valid(w) /\ pending_is(h, w)
    IN  IF accepts_forwarded(h.stable) THEN "Ready"
        ELSE IF live_pending(h)
             THEN IF ~ours THEN "Pending"
                  ELSE IF on_trial_with(h, w) THEN "OnTrial" ELSE "Ours"
        ELSE IF Valid(w) THEN "Needed" ELSE "Error"

----------------------------------------------------------------------------
(* Home Assistant.                                                         *)

Answers == ha.st \in {"up", "stopping"}

\* http/config/configure: kept as pending, and Home Assistant restarts.
Configured(h, c) ==
    [h EXCEPT !.pending = c, !.error = "none", !.st = "stopping"]

\* http/config/promote.
Promoted(h) == [h EXCEPT !.stable = h.pending, !.pending = None, !.active = "stable",
                          !.revert = 0]

Stop ==
    /\ ha.st = "stopping"
    /\ ha' = [ha EXCEPT !.st = "down", !.active = "stable", !.revert = 0]
    /\ UNCHANGED <<daemon, job, task, watch, blame, edits, faults>>

\* A start tries the pending settings, which may turn out not to work.
Boot ==
    /\ ha.st = "down" /\ ha.boot < MaxBoots
    /\ QuickRestart \/ task.pc \notin {"reconnect", "again"}
    /\ \/ /\ live_pending(ha)
          /\ ha' = [ha EXCEPT !.st = "up", !.boot = @ + 1, !.active = "pending",
                              !.runs = ha.pending, !.revert = RevertAfter]
          /\ UNCHANGED faults
       \/ /\ ~live_pending(ha)
          /\ ha' = [ha EXCEPT !.st = "up", !.boot = @ + 1, !.runs = ha.stable]
          /\ UNCHANGED faults
       \/ /\ live_pending(ha) /\ Fault
          /\ ha' = [ha EXCEPT !.st = "up", !.boot = @ + 1, !.runs = ha.stable,
                              !.error = "failed"]
    /\ UNCHANGED <<daemon, job, task, watch, blame, edits>>

\* The settings on trial were not confirmed in time.
Revert ==
    /\ ha.st = "up" /\ ha.active = "pending" /\ ha.revert = 0
    /\ ha' = [ha EXCEPT !.error = "not_promoted", !.st = "stopping"]
    /\ UNCHANGED <<daemon, job, task, watch, blame, edits, faults>>

\* Settings, System, Network: someone saves, confirms or discards a change, or
\* restarts Home Assistant.
Edit ==
    /\ ha.st = "up" /\ edits < MaxEdits /\ edits' = edits + 1
    /\ \/ \E c \in Configs : ha' = Configured(ha, c)
       \/ ha.active = "pending" /\ ha' = Promoted(ha)
       \/ /\ ha.pending # None
          /\ ha' = [ha EXCEPT !.pending = None, !.error = "none", !.active = "stable",
                              !.revert = 0,
                              !.st = IF ha.active = "pending" THEN "stopping" ELSE @]
       \/ ha' = [ha EXCEPT !.st = "stopping"]
    /\ blame' = TRUE
    /\ UNCHANGED <<daemon, job, task, watch, faults>>

----------------------------------------------------------------------------
(* allow_forwarded_requests.                                               *)

Task(t) == task' = t

At(pc) == up /\ task.pc = pc

\* Mutant: nothing done counts as done.
EndsWellUndone(o) == o # "Failed"

\* outcome_message: whether Allow ended well.
EndsWell(o) == o \in {"Allowed", "AlreadyAllowed"}

\* The end of the task: what the page says of it.
EndWith(o) ==
    /\ Task(NoTask)
    /\ job' = [job EXCEPT !.running = FALSE, !.cached = "none",
                          !.last = IF EndsWell(o) THEN "ok" ELSE "failed"]
    /\ blame' = FALSE
    /\ UNCHANGED <<daemon, watch, edits>>

\* A step that only moves the task on.
Moves(t) == Task(t) /\ UNCHANGED <<daemon, job, watch, blame, edits>>

\* Mutant: nothing to do, and the job is not ended.
AutoLookStays ==
    /\ At("auto")
    /\ \/ Answers /\ assess(ha) = "OnTrial" /\ Moves([task EXCEPT !.pc = "again"])
       \/ (Answers => assess(ha) # "OnTrial") /\ Moves(NoTask)
    /\ UNCHANGED <<ha, faults>>

\* confirm_ours_on_trial looks before it lets Allow go on.
AutoLook ==
    /\ At("auto")
    /\ \/ Answers /\ assess(ha) = "OnTrial" /\ Moves([task EXCEPT !.pc = "again"])
       \/ /\ Answers => assess(ha) # "OnTrial"
          /\ Task(NoTask)
          /\ job' = [job EXCEPT !.running = FALSE, !.cached = "none"]
          /\ UNCHANGED <<daemon, watch, blame, edits>>
    /\ UNCHANGED <<ha, faults>>

\* Connect, read http/config and decide.
Look ==
    /\ At("read") \/ At("again")
    /\ LET s == assess(ha)
           t == [task EXCEPT !.wanted = merged(ha.stable), !.left = RestartEnds,
                             !.conn = ha.boot]
       IN  \/ ~Answers /\ EndWith("Failed")
           \/ Answers /\ s = "Ready"   /\ EndWith("AlreadyAllowed")
           \/ Answers /\ s = "Error"   /\ EndWith("Failed")
           \/ Answers /\ s = "Pending" /\ EndWith("PendingByOther")
           \/ Answers /\ s = "Needed"  /\ Moves([t EXCEPT !.pc = "save"])
           \/ Answers /\ s = "Ours"    /\ Moves([t EXCEPT !.pc = "trial"])
           \/ Answers /\ s = "OnTrial"
              /\ Moves([t EXCEPT !.pc = "reconnect", !.until = ha.revert])
    /\ UNCHANGED <<ha, faults>>

\* Mutant: the settings are sent on a new connection.
SaveAnew ==
    /\ At("save")
    /\ ha.st = "up"
    /\ ha' = Configured(ha, task.wanted)
    /\ Moves([task EXCEPT !.pc = "closing"]) /\ UNCHANGED faults

\* http/config/configure, on the connection that read the settings.  It is taken
\* only while Home Assistant runs, and the answer may be lost.
Save ==
    /\ At("save")
    /\ \/ /\ ha.st = "up" /\ ha.boot = task.conn
          /\ ha' = Configured(ha, task.wanted)
          /\ \/ Moves([task EXCEPT !.pc = "closing"]) /\ UNCHANGED faults
             \/ EndWith("Failed") /\ Fault
       \/ /\ ha.st # "up" \/ ha.boot # task.conn
          /\ EndWith("Failed") /\ UNCHANGED <<ha, faults>>

\* Ticks since the setting was saved.
Waited == RestartEnds - task.left

\* wait_closed: Home Assistant closes the connection, or that takes too long.
Closing ==
    /\ At("closing")
    /\ LET closed == ha.st = "down" \/ ha.boot # task.conn
       IN  /\ closed \/ Waited >= RestartBegins
           /\ Moves([task EXCEPT !.pc = "trial", !.down = closed])
    /\ UNCHANGED <<ha, faults>>

\* Back on trial, with `u` ticks before the revert: enough to check, or not.
Back(t, u) ==
    \/ u >= Margin /\ Moves([t EXCEPT !.pc = "verify", !.until = u])
    \/ u < Margin  /\ EndWith("Failed")

\* Mutant: the wait has no end.
TrialForever ==
    /\ At("trial")
    /\ \/ /\ ha.st = "down" /\ ~task.down
          /\ Task([task EXCEPT !.down = TRUE])
          /\ UNCHANGED <<daemon, job, watch, blame, edits>>
       \/ Answers /\ on_trial_with(ha, task.wanted) /\ Back([task EXCEPT !.conn = ha.boot], ha.revert)
    /\ UNCHANGED <<ha, faults>>

\* wait_for_trial, one poll.  A missing revert_at counts from now.
Trial ==
    /\ At("trial")
    /\ \/ task.left = 0 /\ EndWith("Failed") /\ UNCHANGED faults
       \/ /\ task.left > 0 /\ ~task.down
          /\ (ha.st = "down" /\ UNCHANGED faults) \/ Fault
          /\ Task([task EXCEPT !.down = TRUE])
          /\ UNCHANGED <<daemon, job, watch, blame, edits>>
       \/ /\ task.left > 0 /\ Answers /\ on_trial_with(ha, task.wanted)
          /\ \/ Back([task EXCEPT !.conn = ha.boot], ha.revert) /\ UNCHANGED faults
             \/ Back([task EXCEPT !.conn = ha.boot], RevertAfter) /\ Fault
       \/ /\ task.left > 0 /\ Answers /\ ~on_trial_with(ha, task.wanted)
          /\ \/ ~pending_is(ha, task.wanted)
             \/ ha.error # "none"
             \/ ~task.down /\ Waited >= 2 * RestartBegins
          /\ EndWith("Failed") /\ UNCHANGED faults
    /\ UNCHANGED ha

\* Mutant: a change found on trial is confirmed without a check.
ReconnectUnchecked ==
    /\ At("reconnect") /\ Answers
    /\ Moves([task EXCEPT !.pc = "promote", !.conn = ha.boot])
    /\ UNCHANGED <<ha, faults>>

\* Carried on from an earlier Allow: a new connection, on which nothing is read.
Reconnect ==
    /\ At("reconnect")
    /\ \/ ~Answers /\ EndWith("Failed")
       \/ Answers /\ Back([task EXCEPT !.conn = ha.boot], task.until)
    /\ UNCHANGED <<ha, faults>>

\* verify_forwarded: one request as the tunnel makes them, and any answer but 400
\* will do; given up half a margin before the revert.
Verify ==
    /\ At("verify")
    /\ \/ /\ task.until > Margin \div 2 /\ Answers /\ HopAccepted(ha.runs)
          /\ Moves([task EXCEPT !.pc = "promote", !.checked = ha.boot])
          /\ UNCHANGED faults
       \/ /\ task.until <= Margin \div 2 \/ ~Answers \/ ~HopAccepted(ha.runs)
          /\ EndWith("Failed") /\ UNCHANGED faults
       \/ Fault /\ EndWith("Failed")
    /\ UNCHANGED ha

\* http/config/promote on the connection the trial was seen on; the answer may
\* be lost.
Promote ==
    /\ At("promote")
    /\ LET takes == ha.st = "up" /\ ha.boot = task.conn /\ ha.active = "pending"
       IN  \/ /\ takes /\ task.until > 0
              /\ ha' = Promoted(ha)
              /\ \/ EndWith("Allowed") /\ UNCHANGED faults
                 \/ EndWith("Failed") /\ Fault
           \/ /\ ~takes \/ task.until = 0
              /\ EndWith("Failed") /\ UNCHANGED <<ha, faults>>

----------------------------------------------------------------------------
(* The page and the daemon.                                                *)

\* allow_inner: one Allow at a time, and only with a tunnel to check through.
Begin(auto) ==
    /\ up /\ tunnel /\ ~job.running
    /\ Task([NoTask EXCEPT !.auto = auto, !.pc = IF auto THEN "auto" ELSE "read"])

Begun(j, auto) ==
    [j EXCEPT !.running = TRUE, !.autoTried = @ \/ auto, !.last = IF auto THEN @ ELSE "none"]

AllowClick ==
    /\ Begin(FALSE)
    /\ job' = Begun(job, FALSE)
    /\ UNCHANGED <<ha, daemon, watch, blame, edits, faults>>

SkipClick ==
    /\ up /\ ~job.running
    /\ job' = [job EXCEPT !.last = "none"]
    /\ UNCHANGED <<ha, daemon, task, watch, blame, edits, faults>>

auto_confirm_due(s) == s = "OnTrial" /\ ~job.running /\ ~job.autoTried

\* confirm_ours, one look: until the first clear answer.
ConfirmOurs ==
    /\ up /\ watch > 0 /\ Answers /\ assess(ha) # "Error"
    /\ \/ /\ ~auto_confirm_due(assess(ha)) /\ watch' = 0
          /\ UNCHANGED <<job, task>>
       \/ /\ auto_confirm_due(assess(ha)) /\ Begin(TRUE) /\ watch' = 0
          /\ job' = Begun(job, TRUE)
    /\ UNCHANGED <<ha, daemon, blame, edits, faults>>

\* proxy_step: Home Assistant is asked, unless the last answer is fresh.
StatusAsk ==
    /\ up /\ ~job.running /\ job.cached = "none" /\ poll = "none"
    /\ poll' = IF Answers /\ assess(ha) # "Error" THEN assess(ha) ELSE "unknown"
    /\ UNCHANGED <<ha, up, tunnel, job, task, watch, blame, edits, faults>>

\* The answer is kept, whatever has happened since it was read.
StatusRead ==
    /\ poll # "none" /\ poll' = "none"
    /\ job' = [job EXCEPT !.cached = poll]
    /\ UNCHANGED <<ha, up, tunnel, task, watch, blame, edits, faults>>

\* Allow's own change, as last seen on trial, is taken up.
StatusTakesUp ==
    /\ auto_confirm_due(job.cached) /\ Begin(TRUE)
    /\ job' = Begun(job, TRUE)
    /\ UNCHANGED <<ha, daemon, watch, blame, edits, faults>>

\* PROXY_TTL.
Expire ==
    /\ job.cached # "none" /\ job' = [job EXCEPT !.cached = "none"]
    /\ UNCHANGED <<ha, daemon, task, watch, blame, edits, faults>>

\* The daemon is killed or restarted, and loses all it has in memory.
DaemonEnds ==
    /\ up /\ Fault
    /\ up' = FALSE /\ tunnel' = FALSE /\ poll' = "none"
    /\ job' = NoJob /\ task' = NoTask /\ watch' = 0
    /\ UNCHANGED <<ha, blame, edits>>

DaemonStarts ==
    /\ ~up /\ up' = TRUE /\ watch' = Watch
    /\ UNCHANGED <<ha, tunnel, poll, job, task, blame, edits, faults>>

TunnelStarts ==
    /\ up /\ ~tunnel /\ tunnel' = TRUE
    /\ UNCHANGED <<ha, up, poll, job, task, watch, blame, edits, faults>>

Tick ==
    /\ ha' = [ha EXCEPT !.revert = Less(@)]
    /\ task' = [task EXCEPT !.left = Less(@), !.until = Less(@)]
    /\ watch' = Less(watch)
    /\ UNCHANGED <<daemon, job, blame, edits, faults>>

----------------------------------------------------------------------------

Init ==
    /\ \E c \in Configs :
         ha = [st |-> "up", boot |-> 1, stable |-> c, pending |-> None, error |-> "none",
               runs |-> c, active |-> "stable", revert |-> 0]
    /\ up = FALSE /\ tunnel = FALSE /\ poll = "none"
    /\ job = NoJob /\ task = NoTask /\ watch = 0
    /\ blame = FALSE /\ edits = 0 /\ faults = 0

HomeAssistant == Stop \/ Boot \/ Revert \/ Edit

AllowTask ==
    \/ AutoLook \/ Look \/ Save \/ Closing \/ Trial \/ Reconnect \/ Verify \/ Promote

Page == AllowClick \/ SkipClick \/ StatusAsk \/ StatusRead \/ StatusTakesUp \/ Expire

Daemon == ConfirmOurs \/ DaemonEnds \/ DaemonStarts \/ TunnelStarts

Next == HomeAssistant \/ AllowTask \/ Page \/ Daemon \/ Tick

Spec == Init /\ [][Next]_vars

\* The runtime goes on with a task that can go on, and time passes.
FairSpec == Spec /\ WF_vars(AllowTask) /\ WF_vars(Tick)

----------------------------------------------------------------------------
(* Properties.                                                             *)

Steps == {"none", "auto", "again", "read", "save", "closing", "trial", "reconnect", "verify",
          "promote"}
Setups == {"none", "Ready", "Needed", "Pending", "Ours", "OnTrial", "unknown"}

\* Home Assistant's slots, the ProxyJob and the Allow stay within their types; no
\* time left is ever below zero (saturating_duration_since).
TypeOK ==
    /\ ha \in [st : {"up", "stopping", "down"}, boot : Nat, stable : Setting,
               pending : Setting \cup {None}, error : {"none", "failed", "not_promoted"},
               runs : Setting, active : {"stable", "pending"}, revert : Nat]
    /\ up \in BOOLEAN /\ tunnel \in BOOLEAN /\ poll \in Setups
    /\ job \in [running : BOOLEAN, last : {"none", "ok", "failed"},
                cached : Setups, autoTried : BOOLEAN]
    /\ task \in [pc : Steps, auto : BOOLEAN, conn : Nat, down : BOOLEAN, left : Nat,
                 until : Nat, wanted : Setting \cup {None}, checked : Nat]
    /\ watch \in Nat
    /\ blame \in BOOLEAN /\ edits \in Nat /\ faults \in Nat

\* The page says an Allow runs exactly while one does, so a second one is refused
\* and a Skip waits, whatever crashes, fails or is taken up by itself.
OneAllow == job.running <=> task.pc # "none"

\* An address is in a network when it lies between its first and its last one.
InNetwork(n, ip) ==
    LET size == 2^(W - n.len) IN n.fam = ip.fam /\ n.addr \div size = ip.addr \div size

\* What Allow sends is accepted by Home Assistant, changes nothing when sent
\* again, keeps every other setting and trusts no address but loopback that was
\* not trusted before (merged, covers).
MergedMinimal ==
    LET c == ha.stable
        m == merged(c)
    IN  Valid(c) =>
        /\ Valid(m) /\ accepts_forwarded(m) /\ merged(m) = m
        /\ m.rest = c.rest /\ c.proxies \subseteq m.proxies
        /\ \A ip \in [fam : {4, 6}, addr : 0 .. 2^W - 1] :
             covers(m.proxies, ip) <=>
                 ip \in Loopback \/ \E n \in c.proxies : InNetwork(n, ip)

\* Allow says it worked only if Home Assistant accepts forwarded requests for
\* good: until someone changes the settings, no revert takes that back.
AllowedHolds == job.last = "ok" /\ ~blame => accepts_forwarded(ha.stable)

\* Only people touch a change that is not Allow's own: while one waits that is
\* not what the running Allow sends, Allow neither replaces nor confirms it.
OthersKept ==
    [][live_pending(ha) /\ ha.pending # task.wanted /\ edits' = edits
         => ha'.pending = ha.pending]_vars

\* Settings are confirmed by Allow only after a request was accepted by the very
\* start of Home Assistant that has them on trial.
OnlyChecked ==
    [][ha'.stable # ha.stable /\ edits' = edits
         => task.checked = ha.boot /\ HopAccepted(ha'.stable)]_vars

\* Every Allow ends, whatever Home Assistant does.
AllowEnds == job.running ~> ~job.running
=============================================================================
