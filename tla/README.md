# Verification of the Datum Connect daemon

TLA+ models of the daemon in `connect/connect-lib`, TLC runs on small
instances, and TLAPS proofs for every instance. This file is the map of the
project; `PROJECT.json` has the line-by-line correspondence with the source.

Paths below are relative to `src/connect/connect-lib/` unless they say
otherwise.

## The system

A daemon on a user's machine publishes local HTTP services through Datum
Cloud. It keeps little state of its own; most of it is in a project control
plane, a Kubernetes-style API.

| Component | State | Operations | Hard part |
|---|---|---|---|
| Tunnel lifecycle, `daemon/src/main.rs` | `AppState`: `running`, `busy`, `inspectors`; on disk the listen keys and `daemon_inspector_targets/` | create, start (plain or with a target), stop, delete, startup reconciliation, auto-expiry sweep | requests, the sweep and reconciliation interleave at every await; a crash between any two steps |
| `TunnelService`, `lib/src/tunnels.rs` | none; HTTPProxy, ConnectorAdvertisement and Connector objects on the server | create, update, retarget, enable, disable, delete, two connector clean-ups | several calls per operation, each of which can fail or take effect and lose its reply; check-then-delete |
| Traffic inspector, `daemon/src/inspector.rs` | one loopback listener per tunnel and a ring of exchanges | start on a preferred port, forward, replay | the port the public route points at must be the installed inspector's |
| One-tunnel mode, `daemon/src/exclusive.rs` | none | split tunnels into the add-on's own and older ones | must win over auto-resume |
| Add-on page, `daemon/src/addon_page.rs`, `ingress.rs` | a status cache, the Allow job | status, Allow, Skip, Remove, Forget | answers while the daemon is still reconciling |
| Peer tunnels, `daemon/src/peer.rs` with `lib/src/state.rs`, `repo.rs`, `node.rs` | `state.yml`, a copy of it in every `ListenNode`, `advertised.json` | advertise, revoke, connect, disconnect | many copies of one file |
| Heartbeat agent, `lib/src/heartbeat.rs` | known projects, one task per project | register, deregister, refresh, renew the lease | back-off, re-authentication, stale connector references |
| Pairing, `lib/src/datum_cloud/pairing.rs`, `pairing_setup.rs` | pending file, session file, key file; the setup status | device login, choose project, service account, grant, key | crashes between a create and the save of its result; restarts of the flow |
| Token sources, `external_token_source.rs`, `service_account.rs` | current token, forced-refresh count | refresh loop, forced refresh | expiry against a refresh that does not help |
| Home Assistant clients, `ha_core.rs`, `ha_supervisor.rs` | none | read and change `http:` settings on trial, confirm, revert | the trial's timer against restarts |
| Edge policies, `lib/src/edge_policies.rs` | policy objects on the server | ensure, delete | runs in the background of create and enable |
| Local API auth, `daemon/src/auth.rs` | token files, audit log | mint, revoke, gate | token files deleted with a tunnel |
| datumctl plugin (Go), `src/connect/connect-plugin` | PID and state files | start, stop, supervise, install | PID file races |
| Add-on script, `src/addon/datum-connect/rootfs/usr/bin/run.sh` | options, chosen tunnel id | pair or run, find or create the tunnel | order of pairing, adoption and start |

What makes each component correct:

- *Lifecycle*: one start or stop per tunnel at a time; a tunnel that is
  running is reachable by its own key; the public route, the inspector and the
  persisted target agree whenever nothing is in flight; nothing local is lost
  while the tunnel exists; what was enabled comes back after a restart; older
  tunnels do not.
- *Peer tunnels*: a revoked advertisement stays revoked; the list on disk is
  the list in memory; no node works from a half-written file.
- *Heartbeat*: a registered connector's lease is renewed until it is
  deregistered. *Pairing*: at most one service account and one key, resumed
  after any crash. *Tokens*: never expired while a refresh is possible.
  *Home Assistant*: a change is kept only when it was confirmed. *Plugin*: one
  supervisor per tunnel, and stop hits that one.

## Modules

| Module | What it is | Instance for TLC | Theorems |
|---|---|---|---|
| `TunnelDaemon` | the lifecycle tasks over `AppState`, the disk and the control plane | `MCTunnelDaemon` | `TunnelDaemonProofs`, `RouteProofs` |
| `SharedState` | `state.yml`, its copies, advertise and revoke | `MCSharedState` | `SharedStateProofs` |
| `Enrollment` | what pairing promises, as a specification of its own | | |
| `Pairing` | a pairing run, its files, the setup page, the process around it; implements `Enrollment` | `MCPairing` | `PairingProofs` |
| `HaAllow` | Allow: a change of Home Assistant's settings on trial | `MCHaAllow` | `HaAllowProofs` |
| `Tokens` | the token and its refresh loop | | |
| `Heartbeat` | the heartbeat rounds; extends `Tokens`, whose token its calls carry | `MCHeartbeat` | `HeartbeatProofs` |
| `Listen` | the command line's sessions and the controllers they wait for | `MCListen` | `ListenProofs` |
| `EdgePolicies` | the passes that ensure a tunnel's policies, and their removal | `MCEdgePolicies` | `EdgePoliciesProofs` |

### TunnelDaemon

The control plane is `proxy` (per tunnel the endpoint and the connector its
HTTPProxy names), `ad` (the ConnectorAdvertisement; `list_project` calls a
tunnel enabled when it exists), `conn` (per connector name the identity in its
connectionDetails) and `born` (ids handed out). The disk is `key` and
`target`; `running`, `busy` and `inspectors` are the fields of `AppState`. A
handler, the reconciliation pass and the sweep are tasks: a record in `h`
whose `pc` says which call the task waits on and whose other fields are the
handler's locals. An action is the code from one await to the next:

| Code | Actions |
|---|---|
| `create_tunnel`, `create_project` | `CreateRequest`, ensure steps, `CreateProxy`, `CreateAd`, `InstallInspector` |
| `start_tunnel_internal` | `StartRequest`, `StartClaim`, `StartLook`, `StartKey`, then `UpdateProxy`, `UpdateAd`, `CleanRefs`, `CleanList`, `CleanDelete` (first start) or `MoveProxy`, `MoveAd` (new target), `InstallInspector`, `EnableGet`, ensure steps, `EnablePatch`, `EnableAd`, `StartInsert` |
| `ensure_connector` | `FindConnector`, `MakeConnector` or `OverQuota`, `PatchConnector` |
| `stop_tunnel_internal` | `StopRequest`, `Disable` |
| `delete_tunnel_internal`, `delete_project` | `DeleteRequest` to `DeleteInspector` |
| Remove on the add-on page | `RemoveRequest`, then the stop and the delete |
| reconciliation in `run()` | `MainList`, `MainStopOlder`, `MainReconcile`, `MainServe` |
| auto-expiry sweep | `Expire`, `SweepSnapshot`, `SweepStop`, `SweepDone` |
| failed calls, lost replies, dropped requests | `Fail`, `CleanFails`, and the failing branch of `PatchConnector` and `InstallInspector` |
| kill and restart | `Crash` |

`BusyGuard` is the field `lock` of the task: `Leave` removes the id from
`busy`, as `Drop` does on every exit. A failed call and one that took effect
but lost its reply are the same `Fail`, before and after the step.

Abstractions. Labels, hostnames and conditions do not matter to any property.
The read and the patch of `update_project` and `retarget_project` are one step
each (a writer of the same proxy in between can only be another start, which
`busy` excludes, or a delete, after which the patch fails as the step does).
The deletes of one clean-up are one step; the lists before it are steps of
their own, since that is where it races. Edge policies are a module of
their own; the notes and operate tokens that delete removes with the tunnel are
left out. `Expire` stands for `max_tunnel_runtime`
passing. A name bound on connectors is also the project's quota: `OverQuota`
is the create being refused. A connector of an earlier process's control
identity and one whose details were never set are both `Nobody`: nothing can
find them by identity.

### SharedState

`file` is `state.yml` (or `Torn`), `mem` the `StateWrapper` of every node,
`adv` and `advFile` the advertised set and its file, `lock` the
`advertised_lock`. A request is a task as above:

| Code | Actions |
|---|---|
| `advertise`, `revoke` | `Advertise`, `Revoke`, then the update and the mark |
| the lifecycle's writes of `state.yml` | `CreateTunnel`, `StartTunnel`, `RepointTunnel`, `StopTunnel`, `DeleteTunnel`, then the update (for a repoint after `LookForAd`), then `DropNode` when a stop or delete drops the running entry |
| `ListenNode::new` on first use | `BuildNode` |
| `StateWrapper::update` | `Load`, `Store`, `OpenFile`, `FillFile`, `WriteFails` |
| `mark_advertised`, `unmark_advertised`, `save_advertised` | `TakeLock`, `ReadAdvertised`, `SaveAdvertised`, `SaveFails` |
| a failed control-plane call, a handler dropped because its client left | `Abandon` |
| kill and restart | `Crash`, `Boot`, `BootFails` |

Load and store have no lock around them and the runtime is multi-threaded;
`fs::write` truncates, then fills. `Abandon` is possible at every await, so not
between load and store. A file operation a dropped handler had started runs to
its end on the blocking pool; the model lets it end before the next step. The
several writes a start makes of its own entry are one update. A repoint of a
running tunnel stores the entry as enabled if it found the advertisement, so
beside a delete it may store it as disabled; the delete drops the running entry,
but the node lives on in the repoint's service, so `DropNode` waits for the
repoint. Two writers that
overlap leave the text of the later one, with a tail of the earlier one if that
was longer. `dropped` is a history variable for `AdvertisedSaved`: the ids whose
mark or unmark was cut off since the last save. What the control plane does with
a tunnel is only `tun`; `TunnelDaemon` has the rest.

### Pairing and Enrollment

Three files outlive the process: `keyFile`, `pendingFile` (the account that was
made and not yet keyed) and `sessionFile` (the login). `acct` and `bound` are
the accounts and grants in Datum. `run`, `status`, `page` and `cache` are the
setup controller's; `task` is the current run, one action per await, and `olds`
are aborted runs that have not noticed yet and may still report.

| Code | Actions |
|---|---|
| the login, by saved session or device code | `Begin`, `Load`, `GetCode`, `NoCode`, `Approved`, `CodeExpired`, `Denied`, `ListProjects`, `NoProjects` |
| the wait for a project, on the page or in the options | `PollPage`, `PollOptions`, `OptionsRead`, `OptionsFail`, `NotChosen` |
| `provision` | `Reuse`, `Create`, `NamesTaken`, `Record`, `NoEmail`, `Grant`, `Forbidden`, `BindingReady`, `CreateKey`, `KeyRefused`, `WriteKey`, `DropPending` |
| any call that fails or is answered 401 | `CallFails`, `Refused` |
| the end of a run | `Finish` |
| `SetupController` | `Start`, `Restart`, `Choose`, `OldReports`, `OldGone` |
| `run.sh` and a stop anywhere | `Down`, `StartDaemon`, `StartPage`, `StartLog`, `Repair`, `Handover` |
| Forget on the add-on page | `ForgetKey` |
| people, Datum and time | `SaveOptions`, `Settles`, `Tick` |

`SaveSession` may always leave the file as it was, since a write that fails is
only logged. A `remove_session` that fails, which is logged too, is not modelled:
`SessionGone` is about a disk that deletes what it is told to. Time is a number
of ticks left; `Forever` is a token whose lifetime is not
known. `lost` holds the accounts no file knows of any more, for the two reasons
the code accepts: a stop between the create and the record, and an owner who
pairs again or chooses another project. `Enrollment` has only what was made,
what is on record and whose key is on disk; `Enrolls` is the refinement, with
`made`, `held` and `key` read off `acct`, `pendingFile` and `keyFile`.

### HaAllow

`ha` is Home Assistant (external): up, stopping or down, its stable and its
pending settings, which of the two the current start runs on, and the revert
timer. `job` is `ProxyJob`, `task` the Allow that runs:

| Code | Actions |
|---|---|
| `allow_forwarded`: look, save on trial, wait out the restart | `AutoLook`, `Look`, `Save`, `Closing`, `Trial` |
| checking and confirming | `Reconnect`, `Verify`, `Promote` |
| the page | `AllowClick`, `SkipClick`, `StatusAsk`, `StatusRead`, `StatusTakesUp`, `Expire` |
| the daemon | `ConfirmOurs`, `DaemonEnds`, `DaemonStarts`, `TunnelStarts` |
| Home Assistant and people | `Stop`, `Boot`, `Revert`, `Edit` |

`verify_forwarded` makes one request, from the loopback address the tunnel's hop
connects from (`Hop`), and takes any answer but 400: `HopAccepted` is Home
Assistant's check of it, weaker than the `accepts_forwarded` of all loopback
addresses by which Allow judges settings it reads. The page's status poll asks
(`StatusAsk`) and writes its cache (`StatusRead`) in two steps, with anything in
between; `poll` is the answer on its way.

`merged`, `covers` and `Prefix` are translated on addresses of `W` bits and
checked against `InNetwork`, which says by arithmetic what a network is.

### Tokens and Heartbeat

A token is a number with an age (young, in its last minute, over); `stale` is
`ineffective_forced`, `loop` the refresh loop and what its timer waits for. The
credentials helper gives the same token while it has life left, a service
account key gives a new one each time. `hb` has for each identity the call its
round makes next, the token its client was built with and the `ConnectorCache`;
`cloud`, `leases` and `fresh` are the control plane's side. `Begin` to `Renew`
are the calls of `run_project`, `Unauthorized` and `Broken` its two kinds of
error. A lease that does not say how long it lasts (duration 0) is renewed by the
default and asked again every round. The token a round carries is the one of the round's beginning, so a
refresh in the middle of a round leaves it with a stale one: that is the
composition the module is about.

### Listen

A session is a record with where it is, its tunnel and the generation it wrote
last. `proxy` has each proxy's generation and the device it points at, `seen`
the generation its controllers reported on last.

| Code | Actions |
|---|---|
| finding the tunnel: `--endpoint`, `--id`, neither | `ByEndpoint`, `ById`, `ByPicking` |
| writing it | `Update`, `Create`, `Enable` |
| `await_tunnel_progress`, the hostname, DNS and probe waits, `tunnel_ready` | `Await`, `Hostname`, `Resolve`, `Probe`, `Confirm` |
| the watch loop, Ctrl-C and the clean-up | `Watch`, `CtrlC`, `Cleanup` |
| the update and delete commands, and the controllers | `UpdateCommand`, `DeletedUpstream`, `Reconciled`, `Published` |

Devices are the names the code compares (`friendly_device_name`): two machines of
one name are one device to it, and to the model.

### EdgePolicies

`waf` is the tunnel's traffic protection policy (what it says and whether it
carries the daemon's mark), `timeout` its timeout policy. A pass
(`ensure_edge_policies`) is `Enable` to `ReplaceWaf`, and remembers the policy
it read; the removal is `Remove` to `RemoveProxy`. `Portal` is somebody else's
change. `late` remembers which policies a pass wrote after the removal had dealt
with them, `kept` what the server refused to delete. There is one removal at a
time, and a create that was in flight when the daemon was killed and that the
server carries out later is not modelled.

## Runs

| Run | Instance | Shows |
|---|---|---|
| `lifecycle` | 1 tunnel, 2 clients, 2 targets, 3 ports, 3 connectors, 1 crash, fair scheduling | `TypeOK`, `BusyExclusion`, `RouteIntact`, `RunningBacked`, `BusyReleased`, `EnabledResumes` |
| `failures` | 1 tunnel, 2 clients, 2 connectors, 1 crash, 2 failures, delete included | `IndInv`, `KeyBeforeConnector`, `LocalStateOutlivesTunnel` |
| `exclusive` | 2 tunnels, one the add-on's own, 2 crashes, Remove | `OlderOff`, `RouteIntact` |
| `shared` | 1 advertisement, 1 tunnel, 2 requests, 2 crashes, 1 failed write or dropped request | `IndInv`, `RunningServed`, `AdvertisedSaved`, `RevokedForgotten` |
| `pairing` | 2 accounts, 2 projects, 2 device codes, 2 runs, 1 stop, failure or deletion, 1 saved option | `TypeOK`, `OneAccount`, `KeyBacked`, `CodeOnPage`, `SessionGone`, `PickedByPerson`, `DoneAgrees`, the refinement `Enrolls`, `RunsEnd` |
| `ha` | 2-bit addresses, 4 settings, 3 starts of Home Assistant, 1 change by people, 1 fault | `TypeOK`, `OneAllow`, `MergedMinimal`, `AllowedHolds`, `OthersKept`, `OnlyChecked`, `AllowEnds` |
| `heartbeat` | 1 identity, 2 connectors, 2 tokens, limit 2, 1 fault, helper and key | `TypeOK`, `RenewalInTime`, `TokenRecovers`, `PresenceRecovers` |
| `listen` | 2 sessions on 2 devices, 2 tunnels of which 1 exists, 3 generations, 2 faults | `ReadyIsCurrent`, `NoTakeover`, `FailureNoticed` |
| `edge` | 2 passes at a time of 3, 2 changes, 2 failures | `CleanRemoval`, `EditsStand` |
| `v_zombie` | delete against start | refutes `NoZombie` |
| `v_cleanup` | two first starts | refutes `CleanupKeepsUsed` |
| `v_revoked` | revoke, a tunnel's stop, restart | refutes `RevokedUnreachable` |

Why the bounds are enough.

- *Lifecycle runs.* The reservation, the route and the keys are per tunnel, so
  one tunnel shows every interleaving on it; a race needs two clients, and the
  sweep and reconciliation come on top. Three ports are one installed, one in
  hand and one free. Three connectors are the control node's, the tunnel's own
  and one for the restart. Two failures let a retry fail as well. `failures`
  has two connectors, so that the quota is met; `exclusive` has two tunnels
  because one of them has to be older, and two crashes to put a restart on top
  of a reconciliation that was itself cut off. `lifecycle` and `exclusive` have
  `MaxFaults = 0`: `RouteIntact`, `RunningBacked` and `EnabledResumes` are
  claims about calls that succeed (see the limits below). `lifecycle` leaves
  delete out for the same reason: `v_zombie` is what it does to
  `RunningBacked`. It has one tunnel for a like reason: with two, the cleanup of
  one start deletes the connector another has just made (`v_cleanup`), and
  `RunningBacked` is false. `OneTunnelIsBacked` proves it for exactly these
  constants but any number of everything else, and `RunningIsBacked` says under
  which assumptions more tunnels and deletes may be added. `AwaitCreate` keeps
  clients from addressing a tunnel before its create has replied; `failures` and
  all proofs but `RouteIntact`'s do without.
- `shared` needs two requests because a race of a mark with an unmark, or of
  two updates, is between two tasks.
- `pairing`: two accounts and two projects are the fewest with which a second
  account could be made or the wrong project used; two runs of the controller,
  the second of which throws the first away; one stop or failure, at every
  step, followed by an undisturbed retry. A token lives two ticks with a margin
  of one, so that it can run out in every wait. Ids the person may not use
  (`Unlisted`) are empty here.
- `ha`: the times keep the order the code's constants have (the margin 45 s,
  `restart_begins` 90 s, the revert five minutes, `restart_ends` fifteen),
  which is what decides who wins; the watch for a change left on trial is one
  tick, a look before the revert. Three starts are the first, the one that tries
  the change, and one more that interferes. Two bits tell a prefix from its
  neighbours, and the four settings hold networks that cover one loopback
  address, both, none, and text that is no network.
- `heartbeat`: a long lease followed by a short one and a refused token
  followed by a good one are what a stale cache or counter could get wrong. The
run has been repeated with a first lease that does not say its duration.
  Identities share nothing but the token, so one is enough. The limit is two
  instead of three.
- `listen`: two devices are needed for a takeover, and three generations for a
  session that writes, is overwritten and is answered late.
- `edge`: two passes at once are what an enable during a pass gives; two
  changes let an edit be taken back, two failures let a retry fail.

Symmetry is used where no liveness is checked and the sets are interchangeable
(the passes in `edge`; clients, ports, connectors and targets in the other
lifecycle runs; ids and tasks in `shared`). `CHECK_DEADLOCK FALSE` is said where everything may end: all sessions
over, a removed tunnel, the counters used up.

Fairness, and why the code justifies it. Nothing is assumed of requests,
failures, crashes or of what people do, with the one exception named below.

- `TunnelDaemon`: weak fairness for every task's next step, reconciliation and
  the sweep: the runtime polls every ready task, HTTP calls end in a reply or
  an error, and reconciliation takes the tunnels one by one.
- `Pairing`: weak fairness for the steps of a run, and strong fairness for
  `Tick`, since time in the model stands still during a read of the options
  (bounded by `HTTP_TIMEOUT`) but does pass.
- `HaAllow`: weak fairness for the task and for time. Home Assistant need not
  ever come back: the waits are bounded.
- `Heartbeat`: weak fairness for the loop and for each round, for time
  (tokens age) and for the collection of leases. The exception: an operator
  whose login was lost logs in again, without which no token can be had.
- `Listen`: weak fairness for the two polls, `Await` and `Watch`.

## Findings

The violation runs are disagreements between a comment or document and what
the code does; `PROJECT.json` quotes each. Delete does not take part in the
reservation that is documented to keep a start out of a teardown; orphan
clean-up acts on two lists taken at different times; and a tunnel node's older
copy of `state.yml` brings a revoked peer target back after a restart.

Limits of the code that the passing runs are stated around:

- A repoint that fails after the HTTPProxy was patched leaves the route on a
  closed port while the old inspector stays installed, until the next start
  with that target. `RouteIntact` is therefore checked without failures.
- A restart that dies between the two patches of a repoint leaves the
  advertisement on the old port. Only the resume writes it again; if that is
  refused a connector for want of quota, the advertisement stays behind
  (`ResumeHasQuota`, see Proofs).
- `create_tunnel` installs its inspector without a reservation. A start with
  another target that comes before create has replied loses its inspector to
  the create's. `RouteIntact` is therefore checked with `AwaitCreate`.
- The sweep stops the ids of a snapshot one after the other and does not look
  at `started_at` again: a tunnel stopped and started in between is stopped.
- `create_project` makes the advertisement too, which is what "enabled" means
  to reconciliation: a tunnel that was only created runs after a restart.
- A connector whose status patch failed carries no identity, and the next ensure
  makes another one; the first stays until a clean-up finds it unreferenced.
- `write_to_file` truncates `state.yml` before it fills it. A crash in between
  leaves a file the next start cannot parse (`BootFails`).
- Allow reads the settings and confirms them in two calls in a row. Should Home
  Assistant restart, revert and come up with another change in between, that
  change would be confirmed; `OthersKept` is checked with `QuickRestart =
  FALSE`, that is, a restart takes longer than the pause between the calls.
- A lease of one or two seconds may be renewed late: the interval is at least a
  second and the jitter may add one. `RenewalInTime` is about longer leases.
- `delete_edge_policies` reads a policy and deletes it without a version
  precondition, so a policy somebody puts in its place in between goes too; and
  a pass that runs beside a removal leaves behind what it writes after the
  removal has dealt with that policy. `CleanRemoval` says so with `late`, policy
  by policy, and is about marked policies only; what such a pass writes earlier
  is removed.
- `listen` ignores the errors of `set_enabled_active`. A session whose tunnel
  was just pointed at another device can then announce it: `ReadyIsCurrent` is
  about the generation, not the device. The probe takes any answer below 500,
  also that of an edge that knows no such tunnel; `Confirm` catches that.
- A comment near the end of `listen` (`bin/src/main.rs`, at the watch loop) has
  every exit path disable the tunnel. The code deletes it, and errors and
  Ctrl-C before the announcement skip the clean-up; the model does what the
  code does.
- `--endpoint` builds its connector from the default key while the key in
  memory is the one saved; the enable of the next `--id` session repairs it.
  The model has one device per session either way.
- A 401 that was answered for a token replaced meanwhile still counts as an
  ineffective refresh when the fetch returns the current token. The proactive
  timer is honoured past the limit, which is what `TokenRecovers` needs. A
  helper that hands out a token in its last minute makes the timer fire at once
  and again, until it hands out another.
- The sender of `auth_update_watch` is dropped as soon as it is made, so the
  client's watch for new tokens ends at once; a round sees a new token because
  it builds its client anew (`ClientToken`).

## Proofs

Eight modules, each for any sets and any bounds that satisfy the named ASSUMEs
of the module they extend.

`TunnelDaemonProofs` proves, for any sets of tunnels, clients, targets, ports
and connectors and any bounds:

| Theorem | Statement |
|---|---|
| `Invariance` | `Spec => []IndInv` |
| `TypeCorrect` | `Spec => []TypeOK` |
| `BusyExcludes` | `Spec => []BusyExclusion` |
| `KeySaved` | `Spec => []KeyBeforeConnector` |
| `FilesOutliveTunnel` | `Spec => LocalStateOutlivesTunnel` |
| `OlderTunnelsOff` | `MaxFaults = 0 /\ Spec => []OlderOff` |
| `EnabledComeBack` | `MaxFaults = 0 /\ Spec /\ []ResumeHasQuota => []EnabledBack` |

The assumptions are the named ASSUMEs of `TunnelDaemon`: the task names are
distinct, `None` is no tunnel, target, port, connector or backend, the two identities
that are not tunnels are distinct from them and each other, the bounds are
naturals.

None of the properties is inductive alone. `BusyExclusion` needs to know at
which points a task can hold a guard at all and for which tunnel (`TaskOK`).
`KeyBeforeConnector` needs that a task past `resolve_listen_key` still finds
its key on file, unless the tunnel was deleted under it, and that a delete
that has reached the local files has really removed the HTTPProxy
(`TaskFits`); that fact survives only because the API server never hands out
an id twice (`DataOK`, with `born`). `IndInv` is their conjunction; run
`failures` checks it with TLC. The proof has one lemma per
action, each split by conjunct, a lemma for steps that change one task's record
(`Goto`), one for returns (`Leave`), and `Inductive` combines them.

`OlderOff` has an invariant of its own (`OlderInv`) about the time before the
API is served: the only requests are Removes, reconciliation resumes no older
tunnel, and an older tunnel that is still enabled is on the list to be stopped,
or a task is about it. It follows that nothing is reserved when reconciliation
takes its next tunnel, so that the stop of an older one is never refused. The
hypothesis is needed: a stop that fails is only logged, and the tunnel stays on.
Nothing is assumed of quota or of clients.

`EnabledBack` is the other half of that pass, and the safety half of
`EnabledResumes`: by the time the API is served, every tunnel that the control
plane shows enabled and whose target is on file is running. That reconciliation
gets there at all is liveness and stays with TLC. Its invariant (`ResumeInv`) says
that such a tunnel is on the list, in hand or running (`ToResume`), that the list
has one entry per tunnel and none for the one in hand, and that reconciliation
only moves, without starting it, a tunnel that is not enabled, and never moves one
it is starting (`ResumeOK`); a start that is refused would be let go of otherwise.
`ResumeHasQuota` says that the resume of a tunnel at startup is not refused a
connector for want of quota; the refusal is only logged. TLC checks `ResumeInv` and
`EnabledBack` on the instances of `lifecycle`, where `ResumeHasQuota` is itself
invariant, and of `exclusive` as far as it holds.

`SharedStateProofs` proves, for any sets of advertisements, tunnels and
concurrent requests and any bounds:

| Theorem | Statement |
|---|---|
| `Invariance` | `Spec => []IndInv` |
| `TypeCorrect` | `Spec => []TypeOK` |
| `SavedSet` | `Spec => []AdvertisedSaved` |
| `StaysForgotten` | `Spec => []RevokedForgotten` |
| `Served` | `Spec => []RunningServed` |
| `RevokedStaysOff` | `MaxCrashes = 0 /\ Spec /\ []PeerUpdatesApart => []RevokedUnreachable` |
| `RevokedStaysOffRestarted` | `Spec /\ []PeerUpdatesApart /\ []CopiesForget => []RevokedUnreachable` |
| `RevokedStaysOffAlone` | `Tunnels = {} /\ Spec /\ []PeerUpdatesApart => []RevokedUnreachable` |
| `RevokedStaysOffInTurn` | `OneRequest /\ (MaxCrashes = 0 \/ Tunnels = {}) /\ Spec => []RevokedUnreachable` |

Its assumptions: advertisement ids and tunnel ids differ, the two other nodes
are no tunnels, and the markers `None` and `Torn` are no lists and no tasks.
`IndInv` has two halves. `NodesOK` says that a tunnel's node is written only by
the one start, repoint or stop that has the tunnel reserved, and stays built while
that request uses it, and that a repoint finds and leaves the entry enabled unless
the tunnel was deleted beside it (`MovesOK`); `RunningServed` follows. `PeersOK` says that the lock holder is
the only task between the change and the save, by how much the set and the file
differ at that moment, and that an advertise's id is in no list and has not been
revoked before it gets there; without that a failed save could take back, or a
late save bring back, somebody else's id. The proof has a lemma for steps that
move one task and leave the nodes alone (`NodeStep`), one for the advertised set
(`PeerStep`), one per action on top of them, and `Inductive` combines them.

`RevokedUnreachable` is the property `v_revoked` refutes, and the last four
theorems say what it takes. The peer node's list keeps a revoked target off if no
two updates of that list overlap (`PeerUpdatesApart`): `StateWrapper::update` loads,
changes and stores without a lock, so a second update can store the copy it made
before the revoke. `PeerInv` says what an update of the peer node is about to store
and that a revoke past its store has turned its target off; `BuiltFirst`, that
nothing is revoked before the node is built. Over a restart the list comes from
`state.yml`, which every node overwrites with its own copy: what is needed then is
that no other node is about to write a copy in which a revoked target is enabled
(`CopiesForget`), and `FileFollows` is the invariant that the file has none. With
no tunnels there is no such node, and with one request at a time no overlap, so
that neither assumption is left in `RevokedStaysOffInTurn`. TLC checks the
invariants on an instance of two advertisements, a tunnel, two requests and one
fault, with and without a crash.

`EdgePoliciesProofs` proves, for any number of passes, edits and failures:

| Theorem | Statement |
|---|---|
| `Invariance` | `Spec => []Inv` |
| `RemovalIsClean` | `Spec => []CleanRemoval` |
| `NothingOverwritten` | `Spec => EditsStand` |

`CleanRemoval` speaks of the moment the proxy goes; `Inv` adds what was true on
the way there: what the removal has dealt with stays gone unless a pass wrote it
since (`WafDone`, `TimeoutDone`).
`EditsStand` needs that a pass replaces only what it read as a legacy policy
(`ReadLegacy`); the server's version check does the rest.

`ListenProofs` proves, for any sessions, devices and tunnels:

| Theorem | Statement |
|---|---|
| `Invariance` | `Spec => []Inv` |
| `AnnouncedIsCurrent` | `Spec => []ReadyIsCurrent` |
| `StaysHome` | `Spec => []NoTakeover` |

`ReadyIsCurrent` needs that a session's tunnel, while it exists, has at least
the generation the session wrote (`HasTunnel`), which holds because a name is
never given twice and generations only grow. `NoTakeover` needs that a session
about to write was told the tunnel's id or is on the device the tunnel was made
on (`Entitled`), and keeps that through whatever others do between its look and
its write. The assumptions: existing tunnels are on devices, and `None` is none.

`RouteProofs` extends `TunnelDaemonProofs` and proves, for any number of tunnels,
clients, ports, connectors and crashes:

| Theorem | Statement |
|---|---|
| `RouteInvariance` | `MaxFaults = 0 /\ AwaitCreate /\ Spec /\ []ResumeHasQuota => []RouteInv` |
| `RouteStaysIntact` | the same with `[]RouteIntact` |
| `ExistsInvariance` | `MaxFaults = 0 /\ Spec /\ []DeletesApart => []ExistsInv` |
| `NoneOutlivesProxy` | the same with `[]NoZombie` |
| `BackedInvariance` | `MaxFaults = 0 /\ Spec /\ []DeletesApart /\ [][ConnectorsSpared]_vars => []BackedInv` |
| `RunningIsBacked` | the same with `[]RunningBacked` |
| `OnlyRequestsCollide` | `MaxFaults = 0 /\ Spec /\ []ClientsApart => []NoZombie` |
| `OneClientExists` | `MaxFaults = 0 /\ OneClient /\ Spec => []NoZombie` |
| `OneTunnelIsBacked` | `MaxFaults = 0 /\ NeverDeleted /\ OneTunnel /\ Spec => []RunningBacked` |
| `OneTunnelCleanup` | the same with `CleanupKeepsUsed` |

The hypotheses are those of the runs that check `RouteIntact`: no call fails
(a repoint whose second patch fails does leave the proxy ahead of the
advertisement, see the hazards) and clients address a tunnel once its create has
replied. `ResumeHasQuota` is the hypothesis of `EnabledComeBack`; it is invariant in
`lifecycle`, whose connectors suffice. The attempt to do without it found a
behaviour: a restart finds the
old port taken, repoints the proxy and dies before it patches the advertisement;
the next restart gets the port the proxy now names, installs the inspector without
a repoint, and the resume, which would have written the advertisement, is refused
its connector. Then the daemon is up and the advertisement names a dead port. TLC
finds it with two crashes and two connectors.

`RouteInv` has no history. It says which task writes the route of a tunnel
(`Writes`), that there is at most one (`OneWriter`), how far it has come at every
point of its code (`Progress`: what proxy, advertisement, inspector and file
already agree on), and that a route nobody writes is whole (`Rest`). That there is
one writer needs the reservation for starts, `born` and `AwaitCreate` for creates
(`SoleMaker`), and for reconciliation, which reserves nothing while it repoints,
that nobody is served before it is over and that what it has listed is off and
unreserved (`TodoOK`, `MainOK`). Only the advertisement of a tunnel that is being
resumed may be out of step. `StepOK` says what is asked of the step of one task, so
that an action's lemma is about its own task only; deletes take from a route and
never write one (`Calm`).

`NoZombie` and `CleanupKeepsUsed` are properties the runs `v_zombie` and `v_cleanup`
refute, and `RunningBacked` holds only on instances without those two races. The
theorems name the races and show that there is no third cause, as long as no call
fails. `DeletesApart` says that no delete is under way for a tunnel that is being
started; under it what runs exists (`ExistsInv`): a start has the reservation and
has seen the proxy, and the steps between the end of the proxy and the end of the
running entry (`Halfway`) are a delete's. `ConnectorsSpared` says that no step
deletes a connector that a proxy names or that a start is about to write into one;
it is broken by the two clean-ups, which list and then delete. Under both, what
runs is backed (`BackedInv`): `Holds` follows the connector a start has found or
made from `ensure_connector` to the advertisement, and `NewIsOwn` keeps one that
has not been patched yet out of anybody else's hands.

`DeletesApart` asks more than is needed: it speaks of every task, and
`OnlyRequestsCollide` leaves only `ClientsApart`, that no client's request deletes
a tunnel that another client's is starting. The daemon's own tasks never collide
with a delete, though it takes no reservation and the page's Remove is served
while reconciliation starts tunnels: `TurnInv` says that reconciliation and the
sweep delete nothing, and that until the API is served every tunnel being removed
is an older one, which reconciliation does not start (`Spares`). So with one
client (`OneClient`), which may create, start, stop, delete and remove any number
of tunnels but one request at a time, `OneClientExists` has no assumption on
timing left; `v_zombie` needs the second client. TLC checks `TurnInv` and
`DeletesApart` with one client, two tunnels, all requests and a crash.

Where no client can delete (`NeverDeleted`) and there is one tunnel
(`OneTunnel`), both assumptions of `RunningIsBacked` hold by themselves: the start
writes its connector before its clean-up lists what is referenced. Then `OneTunnelIsBacked` is `RunningBacked` as
`lifecycle` checks it, for any number of clients, ports, connectors and crashes.
TLC checks `ExistsInv` and `BackedInv` on the instance of `lifecycle`, and on
instances with deletes and with two tunnels under the assumptions.

`PairingProofs` proves, for any number of accounts, projects, codes, runs,
failures and saves:

| Theorem | Statement |
|---|---|
| `TypeCorrect` | `Spec => []TypeOK` |
| `AccountKept` | `Spec => []OneAccount` |
| `KeyGranted` | `Spec => []KeyBacked` |
| `CodeIsCurrent` | `Spec => []CodeOnPage` |
| `LoginRemoved` | `Spec => []SessionGone` |
| `ProjectPicked` | `Spec => []PickedByPerson` |
| `ConnectedIsTrue` | `Spec => []DoneAgrees` |
| `PairingEnrolls` | `Spec => Enrolls` |

`Inv` has to know at each point of a run what every file says. `TaskFits` ties the
run to the project it chose, the account it has and the files it has written by
then (no key before the last steps, the account on record from `grant` on, a
refused grant only for somebody who was told); `FilesFit` says that what a record
names was made for the project it names, so that a run that starts from the files
alone is where the cut-off one was. `PageFits` lists what the page can show at
each point and that runs thrown away have smaller numbers, which is why their late
reports are dropped. `Picked` and `SessionDropped` are what `PickedByPerson` and
`SessionGone` need of the page's choice and the login. The refinement is proved
action by action: `Create` makes, `Record` holds, `WriteKey` publishes,
`DropPending` settles, `Repair` and `ForgetKey` forget, and all others stutter.

`HaAllowProofs` proves, for any address width, settings, delays, starts and
changes by people:

| Theorem | Statement |
|---|---|
| `Invariant` | `Spec => []Inv` |
| `TypeCorrect` | `Spec => []TypeOK` |
| `OneAtATime` | `Spec => []OneAllow` |
| `SendsLittle` | `Spec => []MergedMinimal` |
| `AllowedStays` | `Spec` keeps what is reported as allowed accepted at the hop; `~QuickRestart /\ Spec => []AllowedHolds` |
| `ConfirmsChecked` | `Spec => OnlyChecked` |
| `OthersLeftAlone` | `~QuickRestart /\ Spec => OthersKept` |

`Sane` is Home Assistant by itself: on trial it runs with what is pending. `Fits`
is what an Allow may conclude from what it saw: the starts it counted are no
later than the present one, what it is about to confirm was checked at this start,
and, if Home Assistant cannot restart unseen between two requests, what is pending
is what it sent. The last is the hypothesis of `OthersLeftAlone` and of the second
half of `AllowedStays`; the code cannot tell such a restart (see the limits), and
what it would then confirm has been checked at the tunnel's hop only. `SendsLittle` is about `merged` and
`network_contains` for every address width: the masks and the arithmetic
definition agree (`Contains`). Beside the assumptions on the constants,
`PowerAssumption` states two facts about powers of two for the width `W`, which
the provers do not know.

`HeartbeatProofs` proves, for any identities, tokens, leases and durations:

| Theorem | Statement |
|---|---|
| `TypeCorrect` | `Spec => []TypeOK` |
| `SleepsInTime` | `Spec => []RenewalInTime` |

`TypeOK` needs that the loop runs a forced refresh only below the limit
(`ForcedBelowLimit`), or the count would pass it. `RenewalInTime` needs that the
duration a heartbeat keeps is the one of the lease it keeps, and that it sleeps
only after renewing that lease (`Fits`).

What the proofs changed. `AllowedHolds` was false with three changes by people:
`blame` was forgotten when the next Allow began and is now kept until an Allow
ends; `OthersKept` now speaks of a pending change that is not what the running
Allow sends. The type of a thrown-away run in `Pairing` lists the points
where one can be. `Tokens` calls its action `force_refresh`, as the code does.

Only model-checked:

- the liveness properties, `RunsEnd`, `AllowEnds`, `TokenRecovers`,
  `PresenceRecovers`, `FailureNoticed`, `BusyReleased` and `EnabledResumes`:
  fairness is out of the prover's reach (`EnabledBack` is what is left of
  `EnabledResumes` without it);
- `RouteIntact` on instances where the resume may run out of quota (`exclusive`):
  it holds there, though not everywhere.

The hypotheses of the theorems are needed: without `AwaitCreate`, failed calls
excluded and quota `RouteIntact` is false, not unproved, and so is `RunningBacked`
with two tunnels (by the race of `v_cleanup`) or under delete (by that of
`v_zombie`), and `EnabledBack` where the quota runs out.

## Not modelled

- *datumctl plugin* (Go): a PID file, a detached supervisor and a stop by PID
  around the command line's session, which is `Listen`'s.
- *Local API auth and audit log, log tail sources, notes, metrics, info and
  progress endpoints*: single reads or single appends, nothing to interleave.
- *Inspector forwarding and its ring of exchanges, replay*: the contents of HTTP
  traffic. Which inspector is bound where is in `TunnelDaemon`.
- *Outbound peer connections and the key files of `Repo`.*
- *The add-on page's status cache and drawing, the Supervisor's notices*:
  presentation of state that is modelled.
- *Auto-enrolment in the heartbeat's `start`*: in this build `is_plugin_mode` is
  always true and the project cache it reads always empty, so it does nothing.
- *Traffic protection at create* is environment-gated and part of what may fail
  at the end of `CreateAd`.
- *Generated API types, formatting and progress display, packaging, dashboard,
  demos.*

## Next

`EdgePolicies` composed with the lifecycle's delete; a module for the plugin's
supervision.
