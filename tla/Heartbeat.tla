----------------------------- MODULE Heartbeat ------------------------------
(***************************************************************************)
(* The heartbeats (heartbeat.rs): one per identity, each finding its       *)
(* connector, publishing where its endpoint can be reached and renewing    *)
(* the connector's lease, with the token of the moment the round began.    *)
(***************************************************************************)
EXTENDS Tokens

CONSTANTS
    Agents,      \* the identities that have a heartbeat
    Duration,    \* of the lease of each connector an identity ever has, in
                 \* seconds, 0 where the lease does not say
    MaxMoves     \* changes of the endpoint's addresses

None       == 0
Connectors == DOMAIN Duration
Somewhere  == {None} \cup Connectors
MaxConns   == Cardinality(Connectors)

ASSUME HeartbeatAssumption ==
    /\ MaxMoves \in Nat /\ MaxConns \in Nat
    /\ Duration \in [1 .. MaxConns -> Nat]

VARIABLES
    addr,     \* which addresses each endpoint has now, numbered from 1
    cloud,    \* of each identity: its connector, the lease that names, what it
              \* publishes, and how many there ever were
    leases,   \* the leases that exist, by the connector they were made for
    fresh,    \* the connector's lease has not lapsed since it was renewed
    hb        \* run_project: where it is, its client's token and ConnectorCache

heartVars == <<addr, cloud, leases, fresh, hb>>
vars      == <<tokenVars, heartVars>>

NoCache == [conn |-> None, lease |-> None, dur |-> None, sent |-> None]
Off     == [pc |-> "off", tok |-> None, nap |-> 0, cache |-> NoCache]

----------------------------------------------------------------------------
(* The control plane and the endpoint.                                     *)

\* Whoever creates the connector writes its connection details with it.
Created(a) ==
    /\ cloud[a].conn = None /\ cloud[a].made < MaxConns
    /\ cloud' = [cloud EXCEPT ![a].made = @ + 1, ![a].conn = cloud[a].made + 1,
                              ![a].says = addr[a]]
    /\ UNCHANGED <<addr, leases, fresh, hb, tokenVars>>

\* The controller gives the connector a lease.
Assigned(a) ==
    /\ cloud[a].conn # None /\ cloud[a].lease = None
    /\ cloud' = [cloud EXCEPT ![a].lease = cloud[a].conn]
    /\ leases' = [leases EXCEPT ![a] = @ \cup {cloud[a].conn}]
    /\ UNCHANGED <<addr, fresh, hb, tokenVars>>

Deleted(a) ==
    /\ cloud[a].conn # None /\ cloud[a].made < MaxConns
    /\ cloud' = [cloud EXCEPT ![a].conn = None, ![a].lease = None, ![a].says = None]
    /\ fresh' = [fresh EXCEPT ![a] = FALSE]
    /\ UNCHANGED <<addr, leases, hb, tokenVars>>

\* A lease no connector names is collected, some time after.
Collected(a) ==
    /\ leases[a] \ {cloud[a].lease} # {}
    /\ leases' = [leases EXCEPT ![a] = @ \cap {cloud[a].lease}]
    /\ UNCHANGED <<addr, cloud, fresh, hb, tokenVars>>

Lapses(a) ==
    /\ fresh[a]
    /\ fresh' = [fresh EXCEPT ![a] = FALSE]
    /\ UNCHANGED <<addr, cloud, leases, hb, tokenVars>>

\* The endpoint's addresses change; only what a connector says is at stake.
Moves(a) ==
    /\ addr[a] <= MaxMoves /\ cloud[a].conn # None
    /\ addr' = [addr EXCEPT ![a] = @ + 1]
    /\ UNCHANGED <<cloud, leases, fresh, hb, tokenVars>>

----------------------------------------------------------------------------
(* HeartbeatAgent.                                                         *)

Register(a) ==
    /\ hb[a].pc = "off"
    /\ hb' = [hb EXCEPT ![a].pc = "rest"]
    /\ UNCHANGED <<addr, cloud, leases, fresh, tokenVars>>

\* The task is aborted wherever it is.
Deregister(a) ==
    /\ hb[a].pc # "off"
    /\ hb' = [hb EXCEPT ![a] = Off]
    /\ UNCHANGED <<addr, cloud, leases, fresh, tokenVars>>

----------------------------------------------------------------------------
(* run_project: a round, one call on the control plane at a time.          *)

Cached(a) == hb[a].cache

\* connection_details: what the endpoint would tell of itself now. A connector
\* found by its public key has a home relay to fall back on.
Details(a) == addr[a]

\* The call a round makes next.
Finding(a)   == hb[a].pc = "call" /\ Cached(a).conn = None
Getting(a)   == hb[a].pc = "call" /\ Cached(a).conn # None /\ Cached(a).lease = None
Named(a)     == hb[a].pc = "call" /\ Cached(a).conn # None /\ Cached(a).lease # None
Patching(a)  == Named(a) /\ Cached(a).sent # Details(a)
AtLease(a)   == hb[a].pc = "lease" \/ (Named(a) /\ Cached(a).sent = Details(a))
Measuring(a) == AtLease(a) /\ Cached(a).dur = None
Renewing(a)  == hb[a].pc = "renew" \/ (AtLease(a) /\ Cached(a).dur # None)

Calling(a) == hb[a].pc \in {"call", "lease", "renew"}
Heard(a)   == Calling(a) /\ ~Refused(hb[a].tok)

\* What the round leaves in the cache, and where it goes on.
Goes(a, pc, cache) == hb' = [hb EXCEPT ![a].pc = pc, ![a].cache = cache]
Rests(a, cache)    == hb' = [hb EXCEPT ![a] = [Off EXCEPT !.pc = "rest", !.cache = cache]]

\* Mutant: the jitter may be as long as the interval.
RenewalWithLongJitter(d) ==
    LET base == IF d \div 2 > 1 THEN d \div 2 ELSE 1
    IN base .. base + base

\* renewal_interval: about half the lease, and some jitter.
RenewalInterval(d) ==
    LET base == IF d \div 2 > 1 THEN d \div 2 ELSE 1
        most == IF base \div 5 > 1 THEN base \div 5 ELSE 1
    IN base .. base + most

DefaultDuration == 30

\* What a renewal reckons with where the lease does not say how long it lasts.
Lasts(d) == IF d = 0 THEN DefaultDuration ELSE d

\* project_control_plane_client: built anew each round from the token of now.
ClientToken == token

\* A round begins with a client that carries the token of now.
Begin(a) ==
    /\ hb[a].pc = "rest"
    /\ hb' = [hb EXCEPT ![a].pc = "call", ![a].tok = ClientToken, ![a].nap = 0]
    /\ UNCHANGED <<addr, cloud, leases, fresh, tokenVars>>

\* find_connector by the identity's public key.
Find(a) ==
    /\ Finding(a) /\ Heard(a)
    /\ IF cloud[a].conn = None THEN Rests(a, NoCache)
       ELSE Goes(a, "call", [NoCache EXCEPT !.conn = cloud[a].conn, !.lease = cloud[a].lease])
    /\ UNCHANGED <<addr, cloud, leases, fresh, tokenVars>>

\* The lease was not named yet: look the connector up again.
Get(a) ==
    /\ Getting(a) /\ Heard(a)
    /\ \/ /\ Cached(a).conn = cloud[a].conn /\ cloud[a].lease # None
          /\ Goes(a, "call", [Cached(a) EXCEPT !.lease = cloud[a].lease])
       \/ /\ Cached(a).conn = cloud[a].conn /\ cloud[a].lease = None
          /\ Rests(a, Cached(a))
       \/ Cached(a).conn # cloud[a].conn /\ Rests(a, NoCache)
    /\ UNCHANGED <<addr, cloud, leases, fresh, tokenVars>>

\* The connection details, sent when they are not what was sent last.
PatchDetails(a) ==
    /\ Patching(a) /\ Heard(a)
    /\ \/ /\ Cached(a).conn = cloud[a].conn
          /\ cloud' = [cloud EXCEPT ![a].says = Details(a)]
          /\ Goes(a, "lease", [Cached(a) EXCEPT !.sent = Details(a)])
       \/ Cached(a).conn # cloud[a].conn /\ UNCHANGED cloud /\ Goes(a, "lease", Cached(a))
    /\ UNCHANGED <<addr, leases, fresh, tokenVars>>

\* Mutant: the error is retried like any other.
Retained(a) == Cached(a)

\* classify_lease_error: a lease that is gone drops the whole cache.
Reset(a) == NoCache

\* How long the lease lasts, asked once, or every round as long as it does not say.
MeasureLease(a) ==
    /\ Measuring(a) /\ Heard(a)
    /\ IF Cached(a).lease \in leases[a]
       THEN Goes(a, "renew", [Cached(a) EXCEPT !.dur = Duration[Cached(a).lease]])
       ELSE Rests(a, Reset(a))
    /\ UNCHANGED <<addr, cloud, leases, fresh, tokenVars>>

Renew(a) ==
    /\ Renewing(a) /\ Heard(a)
    /\ \/ /\ Cached(a).lease \in leases[a]
          /\ \E nap \in RenewalInterval(Lasts(Cached(a).dur)) :
                hb' = [hb EXCEPT ![a].pc = "rest", ![a].tok = None, ![a].nap = nap]
          /\ fresh' = [fresh EXCEPT ![a] = @ \/ Cached(a).lease = cloud[a].lease]
       \/ Cached(a).lease \notin leases[a] /\ Rests(a, Reset(a)) /\ UNCHANGED fresh
    /\ UNCHANGED <<addr, cloud, leases, tokenVars>>

\* A 401 forces a token refresh; only a lookup by name drops the cache with it.
Unauthorized(a) ==
    /\ Calling(a) /\ Refused(hb[a].tok)
    /\ force_refresh
    /\ Rests(a, IF Getting(a) THEN NoCache ELSE Cached(a))
    /\ UNCHANGED <<addr, cloud, leases, fresh, faults>>

\* Any other error: the details are left for the next round, the rest is
\* tried again after a pause.
Broken(a) ==
    /\ Calling(a) /\ Fault
    /\ \/ Patching(a) /\ Goes(a, "lease", Cached(a))
       \/ Getting(a) /\ Rests(a, NoCache)
       \/ ~Patching(a) /\ ~Getting(a) /\ Rests(a, Cached(a))
    /\ UNCHANGED <<addr, cloud, leases, fresh, provider, source>>

----------------------------------------------------------------------------
Round(a) == \/ Begin(a) \/ Find(a) \/ Get(a) \/ PatchDetails(a) \/ MeasureLease(a)
            \/ Renew(a) \/ Unauthorized(a) \/ Broken(a)

Surroundings(a) == \/ Created(a) \/ Assigned(a) \/ Deleted(a) \/ Collected(a)
                   \/ Lapses(a) \/ Moves(a)

Init ==
    /\ TokenInit
    /\ addr = [a \in Agents |-> 1]
    /\ cloud = [a \in Agents |->
                    [conn |-> None, lease |-> None, says |-> None, made |-> 0]]
    /\ leases = [a \in Agents |-> {}]
    /\ fresh = [a \in Agents |-> FALSE]
    /\ hb = [a \in Agents |-> Off]

Next ==
    \/ (RefreshLoop \/ Outside) /\ UNCHANGED heartVars
    \/ \E a \in Agents : Round(a) \/ Surroundings(a) \/ Register(a) \/ Deregister(a)

Spec == Init /\ [][Next]_vars

\* The runtime runs the refresh loop and every round; time passes, a logged-out
\* operator logs in again, and the controller assigns and collects leases.
Fairness ==
    /\ WF_vars(TimerWakes /\ UNCHANGED heartVars)
    /\ WF_vars(ForceWakes /\ UNCHANGED heartVars)
    /\ WF_vars((Fetched \/ FetchFails) /\ UNCHANGED heartVars)
    /\ WF_vars(LogIn /\ UNCHANGED heartVars)
    /\ \A k \in TokenIds : WF_vars(Grow(k) /\ UNCHANGED heartVars)
    /\ \A a \in Agents : WF_vars(Round(a)) /\ WF_vars(Collected(a))

FairSpec == Spec /\ Fairness

----------------------------------------------------------------------------
CacheType == [conn : Somewhere, lease : Somewhere, dur : Nat,
              sent : 0 .. MaxMoves + 1]

\* The refresh loop's and the heartbeats' state stay within their types; in
\* particular ineffective_forced never passes INEFFECTIVE_FORCED_LIMIT.
TypeOK ==
    /\ TokenType
    /\ addr \in [Agents -> 1 .. MaxMoves + 1]
    /\ cloud \in [Agents -> [conn : Somewhere, lease : Somewhere,
                             says : 0 .. MaxMoves + 1, made : Somewhere]]
    /\ leases \in [Agents -> SUBSET Connectors]
    /\ fresh \in [Agents -> BOOLEAN]
    /\ hb \in [Agents -> [pc : {"off", "rest", "call", "lease", "renew"}, tok : {None} \cup TokenIds,
                          nap : Nat, cache : CacheType]]

\* After a renewal (run_project, renewal_interval) the heartbeat sleeps for less
\* than the lease it renewed lasts, whichever lease the connector has by now.
\* Leases of one or two seconds are the exception: the interval is at least one
\* second and the jitter may add another.
RenewalInTime ==
    \A a \in Agents :
        LET lease == Cached(a).lease
        IN hb[a].nap > 0 /\ Duration[lease] > 2 => hb[a].nap < Duration[lease]

\* A token the control plane refuses is replaced by one it accepts, however
\* often forced refreshes were ignored (run_refresh_loop): the proactive timer
\* is honoured past the limit.
TokenRecovers == Refused(token) ~> ~Refused(token)

\* A heartbeat that stays registered with a connector that stays, keeps its
\* lease renewed and its connection details the endpoint's own, whatever the
\* connector, its lease and the token were before (run_project).
PresenceRecovers ==
    \A a \in Agents :
        <>[](hb[a].pc # "off" /\ cloud[a].lease \in leases[a])
            => []<>(fresh[a] /\ cloud[a].says = addr[a])
=============================================================================
