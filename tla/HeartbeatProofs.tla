-------------------------- MODULE HeartbeatProofs ---------------------------
(***************************************************************************)
(* Heartbeat for any identities, tokens, leases and durations: a renewal   *)
(* is never slept past the lease it renewed, whatever replaced connectors, *)
(* leases and tokens meanwhile, and forced refreshes that change nothing   *)
(* are counted up to the limit and no further.                             *)
(***************************************************************************)
EXTENDS Heartbeat, TLAPS

----------------------------------------------------------------------------
(* The inductive invariant.                                                *)

HbType    == [pc : {"off", "rest", "call", "lease", "renew"}, tok : {None} \cup TokenIds,
              nap : Nat, cache : CacheType]
CloudType == [conn : Somewhere, lease : Somewhere, says : 0 .. MaxMoves + 1,
              made : Somewhere]

\* The loop runs the helper for a caller's 401 only below the limit.
ForcedBelowLimit == loop.pc = "fetch" /\ loop.forced => stale < Limit

\* What is kept of a lease is how long it lasts, or nothing where it does not say.
Measured(c) == c.lease \in Connectors /\ c.dur = Duration[c.lease]

\* What a heartbeat knows: a duration it keeps is the one of the lease it keeps, it
\* sleeps only after it renewed that lease, and no longer than the interval says,
\* and a round that is under way has slept out.
Fits(h) ==
    /\ h.cache.dur # None => Measured(h.cache)
    /\ h.pc = "renew" => Measured(h.cache)
    /\ h.nap > 0 => Measured(h.cache) /\ h.nap \in RenewalInterval(Lasts(h.cache.dur))
    /\ h.pc \in {"call", "lease", "renew"} => h.nap = 0

Beats == \A a \in Agents : Fits(hb[a])

Inv == TypeOK /\ ForcedBelowLimit /\ Beats

----------------------------------------------------------------------------
(* Types.                                                                  *)

\* A connector's number is counted from one.
LEMMA Numbers ==
    /\ MaxConns \in Nat /\ Connectors = 1 .. MaxConns /\ Somewhere = 0 .. MaxConns
    /\ MaxMoves \in Nat /\ Duration \in [Connectors -> Nat]
  <1>1. MaxConns \in Nat /\ Duration \in [1 .. MaxConns -> Nat] /\ MaxMoves \in Nat
    BY HeartbeatAssumption
  <1>2. Connectors = 1 .. MaxConns BY <1>1 DEF Connectors
  <1> QED BY <1>1, <1>2 DEF Somewhere, None

\* A heartbeat that is off or rests with an empty cache, and an emptied cache.
LEMMA Empty ==
    /\ NoCache \in CacheType /\ NoCache.dur = None /\ NoCache.lease = None
    /\ Off \in HbType /\ Off.nap = 0 /\ Off.pc = "off" /\ Off.cache = NoCache
    /\ Fits(Off)
  <1>1. NoCache \in CacheType /\ NoCache.dur = None /\ NoCache.lease = None
    BY Numbers DEF NoCache, CacheType, Somewhere, None
  <1>2. Off \in HbType /\ Off.nap = 0 /\ Off.pc = "off" /\ Off.cache = NoCache
    BY <1>1 DEF Off, HbType, None
  <1> QED BY <1>1, <1>2 DEF Fits

\* A heartbeat that rests after a round keeps a cache that fits, and sleeps no time
\* that is at stake.
LEMMA RestFits ==
    ASSUME NEW c \in CacheType,
           c.dur # None => Measured(c)
    PROVE  LET h == [Off EXCEPT !.pc = "rest", !.cache = c] IN h \in HbType /\ Fits(h)
  <1> DEFINE h == [Off EXCEPT !.pc = "rest", !.cache = c]
  <1>1. h \in HbType /\ h.nap = 0 /\ h.pc = "rest" /\ h.cache = c BY Empty DEF HbType
  <1>2. Fits(h) BY <1>1 DEF Fits
  <1> QED BY <1>1, <1>2

----------------------------------------------------------------------------
(* The refresh loop and the tokens.                                        *)

\* A step of the loop, the provider or the operator keeps the tokens' types, and the
\* count of refreshes that changed nothing at or below the limit.
LEMMA TokensInv ==
    ASSUME TokenType, ForcedBelowLimit, RefreshLoop \/ Outside
    PROVE  TokenType' /\ ForcedBelowLimit'
  <1>0. /\ MaxTokens \in Nat \ {0} /\ Limit \in Nat \ {0} /\ MaxFaults \in Nat
        /\ issued \in 1 .. MaxTokens /\ stale \in 0 .. Limit /\ faults \in 0 .. MaxFaults
        /\ loop \in [pc : {"wait", "fetch"}, forced : BOOLEAN, next : {"due", "later"}]
    BY TokenAssumption DEF TokenType, TokenIds
  <1>1. CASE TimerWakes
    <2>1. /\ loop' \in [pc : {"wait", "fetch"}, forced : BOOLEAN, next : {"due", "later"}]
          /\ loop'.forced = FALSE
      BY <1>0, <1>1 DEF TimerWakes
    <2> QED BY <1>1, <2>1 DEF TimerWakes, provider, TokenType, ForcedBelowLimit
  <1>2. CASE ForceWakes
    <2>1. loop' \in [pc : {"wait", "fetch"}, forced : BOOLEAN, next : {"due", "later"}]
      BY <1>0, <1>2 DEF ForceWakes
    <2>2. ForcedBelowLimit' BY <1>0, <1>2 DEF ForceWakes, ForcedBelowLimit
    <2> QED BY <1>2, <2>1, <2>2 DEF ForceWakes, provider, TokenType
  <1>3. CASE Fetched
    <2>1. PICK k \in TokenIds :
            /\ Gives(k) /\ token' = k
            /\ stale' = IF k # token THEN 0 ELSE IF loop.forced THEN stale + 1 ELSE stale
            /\ loop' = [pc |-> "wait", forced |-> FALSE, next |-> NextRefresh(k)]
      BY <1>3 DEF Fetched
    <2>2. issued' \in TokenIds /\ cached' \in TokenIds
      BY <2>1 DEF Gives, MintGives, HelperGives, TokenType
    <2>3. stale' \in 0 .. Limit
      BY <1>0, <1>3, <2>1 DEF Fetched, ForcedBelowLimit
    <2>4. /\ loop' \in [pc : {"wait", "fetch"}, forced : BOOLEAN, next : {"due", "later"}]
          /\ loop'.pc = "wait"
      BY <2>1 DEF NextRefresh
    <2> QED BY <1>3, <2>1, <2>2, <2>3, <2>4 DEF Fetched, TokenType, ForcedBelowLimit
  <1>4. CASE FetchFails
    <2>1. faults' \in 0 .. MaxFaults BY <1>0, <1>4 DEF FetchFails, Fault
    <2>2. /\ loop' \in [pc : {"wait", "fetch"}, forced : BOOLEAN, next : {"due", "later"}]
          /\ loop'.pc = "wait"
      BY <1>4 DEF FetchFails
    <2> QED BY <1>4, <2>1, <2>2 DEF FetchFails, provider, TokenType, ForcedBelowLimit
  <1>5. CASE \E k \in TokenIds : Grow(k)
    <2>1. PICK k \in TokenIds : Grow(k) BY <1>5
    <2>2. age' \in [TokenIds -> {"young", "due", "over"}] BY <2>1 DEF Grow, TokenType
    <2> QED BY <2>1, <2>2 DEF Grow, source, TokenType, ForcedBelowLimit
  <1>6. CASE Revoke
    <2>1. login' \in BOOLEAN BY <1>6 DEF Revoke, TokenType
    <2>2. revoked' \subseteq TokenIds BY <1>6 DEF Revoke, TokenType
    <2> QED BY <1>6, <2>1, <2>2 DEF Revoke, source, TokenType, ForcedBelowLimit
  <1>7. CASE LogIn
    <2>1. issued' \in TokenIds /\ cached' \in TokenIds
      BY <1>0, <1>7 DEF LogIn, More, TokenIds
    <2> QED BY <1>7, <2>1 DEF LogIn, source, TokenType, ForcedBelowLimit
  <1> QED BY <1>1, <1>2, <1>3, <1>4, <1>5, <1>6, <1>7 DEF RefreshLoop, Outside

----------------------------------------------------------------------------
(* The control plane and the endpoint.                                     *)

\* What a step may change besides the heartbeats.
WorldType ==
    /\ addr \in [Agents -> 1 .. MaxMoves + 1]
    /\ cloud \in [Agents -> CloudType]
    /\ leases \in [Agents -> SUBSET Connectors]
    /\ fresh \in [Agents -> BOOLEAN]

\* TypeOK in its parts.
LEMMA Types == TypeOK <=> TokenType /\ WorldType /\ hb \in [Agents -> HbType]
  BY DEF TypeOK, WorldType, HbType, CloudType

\* The tokens stay as they are.
LEMMA SameTokens ==
    ASSUME TokenType, ForcedBelowLimit, UNCHANGED tokenVars
    PROVE  TokenType' /\ ForcedBelowLimit'
  BY DEF tokenVars, provider, source, TokenType, ForcedBelowLimit

\* The control plane moves, and no heartbeat does.
LEMMA WorldInv ==
    ASSUME Inv, UNCHANGED <<hb, tokenVars>>, WorldType'
    PROVE  Inv'
  <1>1. TokenType' /\ ForcedBelowLimit' BY SameTokens, Types DEF Inv
  <1>2. Beats' BY DEF Inv, Beats, Fits
  <1>3. hb' \in [Agents -> HbType] BY Types DEF Inv
  <1>4. TypeOK' = (TokenType' /\ WorldType' /\ hb' \in [Agents -> HbType])
    BY DEF TypeOK, WorldType, HbType, CloudType
  <1> QED BY <1>1, <1>2, <1>3, <1>4 DEF Inv

\* Connectors come and go, leases are assigned, collected and lapse, and endpoints
\* move, whatever the heartbeats are about.
LEMMA SurroundingsInv ==
    ASSUME Inv, NEW a \in Agents, Surroundings(a)
    PROVE  Inv'
  <1>0. WorldType /\ cloud[a] \in CloudType BY Types DEF Inv, WorldType
  <1>1. CASE Created(a)
    <2>1. cloud[a].made + 1 \in Connectors /\ addr[a] \in 0 .. MaxMoves + 1
      BY <1>0, <1>1, Numbers DEF Created, CloudType, WorldType
    <2>2. cloud' \in [Agents -> CloudType]
      BY <1>0, <1>1, <2>1 DEF Created, CloudType, WorldType, Somewhere
    <2> QED BY <1>0, <1>1, <2>2, WorldInv DEF Created, WorldType
  <1>2. CASE Assigned(a)
    <2>1. cloud[a].conn \in Connectors
      BY <1>0, <1>2 DEF Assigned, CloudType, Somewhere
    <2>2. cloud' \in [Agents -> CloudType] /\ leases' \in [Agents -> SUBSET Connectors]
      BY <1>0, <1>2, <2>1 DEF Assigned, CloudType, WorldType, Somewhere
    <2> QED BY <1>0, <1>2, <2>2, WorldInv DEF Assigned, WorldType
  <1>3. CASE Deleted(a)
    <2>1. None \in Somewhere /\ None \in 0 .. MaxMoves + 1 BY Numbers DEF Somewhere, None
    <2>2. cloud' \in [Agents -> CloudType] /\ fresh' \in [Agents -> BOOLEAN]
      BY <1>0, <1>3, <2>1 DEF Deleted, CloudType, WorldType
    <2> QED BY <1>0, <1>3, <2>2, WorldInv DEF Deleted, WorldType
  <1>4. CASE Collected(a)
    <2>1. leases' \in [Agents -> SUBSET Connectors] BY <1>0, <1>4 DEF Collected, WorldType
    <2> QED BY <1>0, <1>4, <2>1, WorldInv DEF Collected, WorldType
  <1>5. CASE Lapses(a)
    <2>1. fresh' \in [Agents -> BOOLEAN] BY <1>0, <1>5 DEF Lapses, WorldType
    <2> QED BY <1>0, <1>5, <2>1, WorldInv DEF Lapses, WorldType
  <1>6. CASE Moves(a)
    <2>1. addr[a] + 1 \in 1 .. MaxMoves + 1 BY <1>0, <1>6, Numbers DEF Moves, WorldType
    <2>2. addr' \in [Agents -> 1 .. MaxMoves + 1] BY <1>0, <1>6, <2>1 DEF Moves, WorldType
    <2> QED BY <1>0, <1>6, <2>2, WorldInv DEF Moves, WorldType
  <1> QED BY <1>1, <1>2, <1>3, <1>4, <1>5, <1>6 DEF Surroundings

----------------------------------------------------------------------------
(* The heartbeats.                                                         *)

\* One heartbeat moves to a state that fits.
LEMMA BeatInv ==
    ASSUME Inv, NEW a \in Agents, NEW h \in HbType, Fits(h), hb' = [hb EXCEPT ![a] = h],
           WorldType', TokenType', ForcedBelowLimit'
    PROVE  Inv'
  <1>1. hb \in [Agents -> HbType] BY Types DEF Inv
  <1>2. hb' \in [Agents -> HbType] BY <1>1
  <1>3. \A b \in Agents : Fits(hb'[b])
    <2> TAKE b \in Agents
    <2>1. CASE b = a
      <3>1. hb'[b] = h BY <1>1, <2>1
      <3> QED BY <3>1
    <2>2. CASE b # a
      <3>1. hb'[b] = hb[b] BY <1>1, <2>2
      <3> QED BY <3>1 DEF Inv, Beats
    <2> QED BY <2>1, <2>2
  <1>4. Beats' BY <1>3 DEF Beats, Fits
  <1>5. TypeOK' = (TokenType' /\ WorldType' /\ hb' \in [Agents -> HbType])
    BY DEF TypeOK, WorldType, HbType, CloudType
  <1> QED BY <1>2, <1>4, <1>5 DEF Inv

\* A round goes on with another cache.
LEMMA GoesInv ==
    ASSUME Inv, NEW a \in Agents, Calling(a), NEW c \in CacheType,
           NEW pc \in {"call", "lease", "renew"},
           c.dur # None \/ pc = "renew" => Measured(c),
           Goes(a, pc, c), WorldType', TokenType', ForcedBelowLimit'
    PROVE  Inv'
  <1>1. hb \in [Agents -> HbType] /\ hb[a] \in HbType /\ Fits(hb[a])
    BY Types DEF Inv, Beats
  <1>2. hb[a].nap = 0 BY <1>1 DEF Calling, Fits
  <1> DEFINE h == [hb[a] EXCEPT !.pc = pc, !.cache = c]
  <1>3. h \in HbType /\ h.pc = pc /\ h.cache = c /\ h.nap = 0 BY <1>1, <1>2 DEF HbType
  <1>4. hb' = [hb EXCEPT ![a] = h] BY <1>1 DEF Goes, HbType
  <1> HIDE DEF h
  <1>5. Fits(h) BY <1>3 DEF Fits
  <1> QED BY <1>3, <1>4, <1>5, BeatInv

\* A round ends without a renewal.
LEMMA RestsInv ==
    ASSUME Inv, NEW a \in Agents, NEW c \in CacheType,
           c.dur # None => Measured(c),
           Rests(a, c), WorldType', TokenType', ForcedBelowLimit'
    PROVE  Inv'
  <1> DEFINE h == [Off EXCEPT !.pc = "rest", !.cache = c]
  <1>1. h \in HbType /\ Fits(h) BY RestFits
  <1>2. hb' = [hb EXCEPT ![a] = h] BY DEF Rests
  <1> HIDE DEF h
  <1> QED BY <1>1, <1>2, BeatInv

\* What a heartbeat keeps fits.
LEMMA Kept ==
    ASSUME Inv, NEW a \in Agents
    PROVE  /\ hb \in [Agents -> HbType] /\ hb[a] \in HbType /\ Fits(hb[a])
           /\ Cached(a) \in CacheType
           /\ Cached(a).dur # None => Measured(Cached(a))
           /\ WorldType /\ TokenType /\ ForcedBelowLimit
           /\ cloud[a] \in CloudType /\ addr[a] \in 1 .. MaxMoves + 1
           /\ leases[a] \subseteq Connectors
  <1>1. hb \in [Agents -> HbType] /\ hb[a] \in HbType /\ Fits(hb[a])
    BY Types DEF Inv, Beats
  <1>2. WorldType /\ TokenType /\ ForcedBelowLimit BY Types DEF Inv
  <1> QED BY <1>1, <1>2 DEF Cached, HbType, Fits, WorldType

\* Registering and deregistering: the task begins at rest, and is aborted wherever it is.
LEMMA AgentInv ==
    ASSUME Inv, NEW a \in Agents, Register(a) \/ Deregister(a)
    PROVE  Inv'
  <1>1. WorldType' BY Kept DEF Register, Deregister, WorldType
  <1>2. TokenType' /\ ForcedBelowLimit' BY Kept, SameTokens DEF Register, Deregister
  <1>3. hb \in [Agents -> HbType] /\ hb[a] \in HbType /\ Fits(hb[a]) BY Kept
  <1>4. CASE Register(a)
    <2> DEFINE h == [hb[a] EXCEPT !.pc = "rest"]
    <2>1. h \in HbType /\ h.pc = "rest" /\ h.nap = hb[a].nap /\ h.cache = hb[a].cache
      BY <1>3 DEF HbType
    <2>2. hb' = [hb EXCEPT ![a] = h] BY <1>3, <1>4 DEF Register, HbType
    <2> HIDE DEF h
    <2>3. Fits(h) BY <1>3, <2>1 DEF Fits
    <2> QED BY <1>1, <1>2, <2>1, <2>2, <2>3, BeatInv
  <1>5. CASE Deregister(a)
    <2>1. hb' = [hb EXCEPT ![a] = Off] BY <1>5 DEF Deregister
    <2> QED BY <1>1, <1>2, <2>1, Empty, BeatInv
  <1> QED BY <1>4, <1>5

\* A round begins: the sleep is over.
LEMMA BeginInv ==
    ASSUME Inv, NEW a \in Agents, Begin(a)
    PROVE  Inv'
  <1>1. WorldType' BY Kept DEF Begin, WorldType
  <1>2. TokenType' /\ ForcedBelowLimit' BY Kept, SameTokens DEF Begin
  <1>3. hb \in [Agents -> HbType] /\ hb[a] \in HbType /\ Fits(hb[a]) /\ token \in TokenIds
    BY Kept DEF TokenType
  <1> DEFINE h == [hb[a] EXCEPT !.pc = "call", !.tok = ClientToken, !.nap = 0]
  <1>4. h \in HbType /\ h.pc = "call" /\ h.nap = 0 /\ h.cache = hb[a].cache
    BY <1>3 DEF HbType, ClientToken
  <1>5. hb' = [hb EXCEPT ![a] = h] BY <1>3 DEF Begin, HbType
  <1> HIDE DEF h
  <1>6. Fits(h) BY <1>3, <1>4 DEF Fits
  <1> QED BY <1>1, <1>2, <1>4, <1>5, <1>6, BeatInv

\* The connector that was found and its lease replace what was kept, and no duration
\* is kept with them.
LEMMA FindInv ==
    ASSUME Inv, NEW a \in Agents, Find(a)
    PROVE  Inv'
  <1>1. WorldType' BY Kept DEF Find, WorldType
  <1>2. TokenType' /\ ForcedBelowLimit' BY Kept, SameTokens DEF Find
  <1>3. CASE Rests(a, NoCache) BY <1>1, <1>2, <1>3, Empty, RestsInv
  <1>4. CASE Goes(a, "call", [NoCache EXCEPT !.conn = cloud[a].conn, !.lease = cloud[a].lease])
    <2> DEFINE c == [NoCache EXCEPT !.conn = cloud[a].conn, !.lease = cloud[a].lease]
    <2>1. cloud[a].conn \in Somewhere /\ cloud[a].lease \in Somewhere
      BY Kept DEF CloudType
    <2>2. c \in CacheType /\ c.dur = None BY <2>1, Empty DEF CacheType
    <2>3. Goes(a, "call", c) BY <1>4
    <2> HIDE DEF c
    <2> QED BY <1>1, <1>2, <2>2, <2>3, GoesInv DEF Find, Heard
  <1> QED BY <1>3, <1>4 DEF Find

\* A lease is looked up only where none is kept, and so no duration either.
LEMMA GetInv ==
    ASSUME Inv, NEW a \in Agents, Get(a)
    PROVE  Inv'
  <1>1. WorldType' BY Kept DEF Get, WorldType
  <1>2. TokenType' /\ ForcedBelowLimit' BY Kept, SameTokens DEF Get
  <1>3. Cached(a).dur = None
    BY Kept, Numbers DEF Get, Getting, None, Measured
  <1>4. CASE Goes(a, "call", [Cached(a) EXCEPT !.lease = cloud[a].lease])
    <2> DEFINE c == [Cached(a) EXCEPT !.lease = cloud[a].lease]
    <2>1. cloud[a].lease \in Somewhere BY Kept DEF CloudType
    <2>2. c \in CacheType /\ c.dur = None BY <1>3, <2>1, Kept DEF CacheType
    <2>3. Goes(a, "call", c) BY <1>4
    <2> HIDE DEF c
    <2> QED BY <1>1, <1>2, <2>2, <2>3, GoesInv DEF Get, Heard
  <1>5. CASE Rests(a, Cached(a)) BY <1>1, <1>2, <1>5, Kept, RestsInv
  <1>6. CASE Rests(a, NoCache) BY <1>1, <1>2, <1>6, Empty, RestsInv
  <1> QED BY <1>4, <1>5, <1>6 DEF Get

\* Publishing the connection details leaves the lease and its duration alone.
LEMMA PatchDetailsInv ==
    ASSUME Inv, NEW a \in Agents, PatchDetails(a)
    PROVE  Inv'
  <1>1. TokenType' /\ ForcedBelowLimit' BY Kept, SameTokens DEF PatchDetails
  <1>2. addr[a] \in 0 .. MaxMoves + 1 BY Kept, Numbers
  <1>3. CASE /\ cloud' = [cloud EXCEPT ![a].says = Details(a)]
             /\ Goes(a, "lease", [Cached(a) EXCEPT !.sent = Details(a)])
    <2>1. cloud' \in [Agents -> CloudType]
      BY <1>2, <1>3, Kept DEF Details, WorldType, CloudType
    <2>2. WorldType' BY <2>1, Kept DEF PatchDetails, WorldType
    <2> DEFINE c == [Cached(a) EXCEPT !.sent = Details(a)]
    <2>3. c \in CacheType /\ c.dur = Cached(a).dur /\ c.lease = Cached(a).lease
      BY <1>2, Kept DEF CacheType, Details
    <2>4. Goes(a, "lease", c) BY <1>3
    <2> HIDE DEF c
    <2> QED BY <1>1, <2>2, <2>3, <2>4, Kept, GoesInv DEF PatchDetails, Heard, Measured
  <1>4. CASE UNCHANGED cloud /\ Goes(a, "lease", Cached(a))
    <2>1. WorldType' BY <1>4, Kept DEF PatchDetails, WorldType
    <2> QED BY <1>1, <1>4, <2>1, Kept, GoesInv DEF PatchDetails, Heard
  <1> QED BY <1>3, <1>4 DEF PatchDetails

\* The duration that is kept is the one of the lease that is kept.
LEMMA MeasureLeaseInv ==
    ASSUME Inv, NEW a \in Agents, MeasureLease(a)
    PROVE  Inv'
  <1>1. WorldType' BY Kept DEF MeasureLease, WorldType
  <1>2. TokenType' /\ ForcedBelowLimit' BY Kept, SameTokens DEF MeasureLease
  <1>3. CASE Rests(a, Reset(a)) BY <1>1, <1>2, <1>3, Empty, RestsInv DEF Reset
  <1>4. CASE /\ Cached(a).lease \in leases[a]
             /\ Goes(a, "renew", [Cached(a) EXCEPT !.dur = Duration[Cached(a).lease]])
    <2> DEFINE c == [Cached(a) EXCEPT !.dur = Duration[Cached(a).lease]]
    <2>1. Cached(a).lease \in Connectors BY <1>4, Kept
    <2>2. Duration[Cached(a).lease] \in Nat BY <2>1, Numbers
    <2>3. c \in CacheType /\ Measured(c) BY <2>1, <2>2, Kept DEF CacheType, Measured
    <2>4. Goes(a, "renew", c) BY <1>4
    <2> HIDE DEF c
    <2> QED BY <1>1, <1>2, <2>1, <2>3, <2>4, GoesInv DEF MeasureLease, Heard
  <1> QED BY <1>3, <1>4 DEF MeasureLease

\* A renewal sleeps for an interval of the lease's duration.
LEMMA IntervalNat == \A d \in Nat : Lasts(d) \in Nat /\ RenewalInterval(Lasts(d)) \subseteq Nat
  <1>1. \A d \in Nat : Lasts(d) \in Nat BY DEF Lasts, DefaultDuration
  <1>2. \A d \in Nat : RenewalInterval(d) \subseteq Nat BY DEF RenewalInterval
  <1> QED BY <1>1, <1>2

\* A lease is renewed, and then slept on; one that is gone is forgotten.
LEMMA RenewInv ==
    ASSUME Inv, NEW a \in Agents, Renew(a)
    PROVE  Inv'
  <1>1. TokenType' /\ ForcedBelowLimit' BY Kept, SameTokens DEF Renew
  <1>2. fresh' \in [Agents -> BOOLEAN] BY Kept DEF Renew, WorldType
  <1>3. WorldType' BY <1>2, Kept DEF Renew, WorldType
  <1>4. CASE Rests(a, Reset(a)) BY <1>1, <1>3, <1>4, Empty, RestsInv DEF Reset
  <1>5. CASE \E nap \in RenewalInterval(Lasts(Cached(a).dur)) :
               hb' = [hb EXCEPT ![a].pc = "rest", ![a].tok = None, ![a].nap = nap]
    <2>1. PICK nap \in RenewalInterval(Lasts(Cached(a).dur)) :
            hb' = [hb EXCEPT ![a].pc = "rest", ![a].tok = None, ![a].nap = nap]
      BY <1>5
    <2>2. nap \in Nat /\ Measured(Cached(a))
      BY Kept, IntervalNat DEF CacheType, Renew, Renewing, Fits, Cached
    <2>3. hb \in [Agents -> HbType] /\ hb[a] \in HbType /\ Fits(hb[a]) /\ Cached(a) = hb[a].cache
      BY Kept DEF Cached
    <2> DEFINE h == [hb[a] EXCEPT !.pc = "rest", !.tok = None, !.nap = nap]
    <2>4. h \in HbType /\ h.pc = "rest" /\ h.nap = nap /\ h.cache = hb[a].cache
      BY <2>2, <2>3 DEF HbType
    <2>5. hb' = [hb EXCEPT ![a] = h] BY <2>1, <2>3 DEF HbType
    <2> HIDE DEF h
    <2>6. Fits(h) BY <2>1, <2>2, <2>3, <2>4 DEF Fits
    <2> QED BY <1>1, <1>3, <2>4, <2>5, <2>6, BeatInv
  <1> QED BY <1>4, <1>5 DEF Renew

\* A refused token asks for a new one, and the round ends.
LEMMA UnauthorizedInv ==
    ASSUME Inv, NEW a \in Agents, Unauthorized(a)
    PROVE  Inv'
  <1>1. WorldType' BY Kept DEF Unauthorized, WorldType
  <1>2. TokenType' /\ ForcedBelowLimit'
    <2>1. force_refresh /\ UNCHANGED faults BY DEF Unauthorized
    <2>2. UNCHANGED <<provider, fetcher, token, stale, loop>> BY <2>1 DEF force_refresh
    <2>3. trigger' \in BOOLEAN BY <2>1 DEF force_refresh
    <2>4. TokenType /\ ForcedBelowLimit BY Kept
    <2> QED BY <2>1, <2>2, <2>3, <2>4 DEF provider, TokenType, ForcedBelowLimit
  <1>3. CASE Rests(a, NoCache) BY <1>1, <1>2, <1>3, Empty, RestsInv
  <1>4. CASE Rests(a, Cached(a)) BY <1>1, <1>2, <1>4, Kept, RestsInv
  <1> QED BY <1>3, <1>4 DEF Unauthorized

\* Any other error leaves what is kept, or nothing.
LEMMA BrokenInv ==
    ASSUME Inv, NEW a \in Agents, Broken(a)
    PROVE  Inv'
  <1>1. WorldType' BY Kept DEF Broken, WorldType
  <1>2. faults' \in 0 .. MaxFaults
    BY Kept, TokenAssumption DEF Broken, Fault, TokenType
  <1>3. TokenType' /\ ForcedBelowLimit'
    <2>1. UNCHANGED <<provider, source>> BY DEF Broken
    <2>2. TokenType /\ ForcedBelowLimit BY Kept
    <2> QED BY <1>2, <2>1, <2>2 DEF provider, source, TokenType, ForcedBelowLimit
  <1>4. CASE Rests(a, NoCache) BY <1>1, <1>3, <1>4, Empty, RestsInv
  <1>5. CASE Rests(a, Cached(a)) BY <1>1, <1>3, <1>5, Kept, RestsInv
  <1>6. CASE Goes(a, "lease", Cached(a)) BY <1>1, <1>3, <1>6, Kept, GoesInv DEF Broken
  <1> QED BY <1>4, <1>5, <1>6 DEF Broken

----------------------------------------------------------------------------
(* The specification.                                                      *)

\* No connector, no lease and no heartbeat, and a first token.
LEMMA InitInv == Init => Inv
  <1> SUFFICES ASSUME Init PROVE Inv OBVIOUS
  <1>1. TokenType
    <2>1. 1 \in TokenIds /\ 0 \in 0 .. Limit /\ 0 \in 0 .. MaxFaults
      BY TokenAssumption DEF TokenIds
    <2>2. age \in [TokenIds -> {"young", "due", "over"}] BY DEF Init, TokenInit
    <2>3. loop \in [pc : {"wait", "fetch"}, forced : BOOLEAN, next : {"due", "later"}]
      BY DEF Init, TokenInit, NextRefresh
    <2> QED BY <2>1, <2>2, <2>3 DEF Init, TokenInit, TokenType
  <1>2. ForcedBelowLimit BY DEF Init, TokenInit, ForcedBelowLimit
  <1>3. WorldType
    BY Numbers DEF Init, WorldType, CloudType, Somewhere, None
  <1>4. hb \in [Agents -> HbType] BY Empty DEF Init
  <1>5. Beats
    <2> SUFFICES ASSUME NEW a \in Agents PROVE Fits(hb[a]) BY DEF Beats
    <2>1. hb[a] = Off BY DEF Init
    <2> QED BY <2>1, Empty
  <1> QED BY <1>1, <1>2, <1>3, <1>4, <1>5, Types DEF Inv

\* Every step of the tokens, the control plane and the heartbeats keeps the invariant.
LEMMA NextInv == Inv /\ [Next]_vars => Inv'
  <1> SUFFICES ASSUME Inv, [Next]_vars PROVE Inv' OBVIOUS
  <1>1. CASE (RefreshLoop \/ Outside) /\ UNCHANGED heartVars
    <2>1. TokenType' /\ ForcedBelowLimit' BY <1>1, TokensInv, Types DEF Inv
    <2>2. WorldType' /\ hb' \in [Agents -> HbType]
      BY <1>1, Types DEF Inv, heartVars, WorldType
    <2>3. Beats' BY <1>1 DEF heartVars, Inv, Beats, Fits
    <2>4. TypeOK' = (TokenType' /\ WorldType' /\ hb' \in [Agents -> HbType])
      BY DEF TypeOK, WorldType, HbType, CloudType
    <2> QED BY <2>1, <2>2, <2>3, <2>4 DEF Inv
  <1>2. ASSUME NEW a \in Agents, Round(a) \/ Surroundings(a) \/ Register(a) \/ Deregister(a)
        PROVE  Inv'
    <2>1. CASE Round(a)
      BY <2>1, BeginInv, FindInv, GetInv, PatchDetailsInv, MeasureLeaseInv, RenewInv,
         UnauthorizedInv, BrokenInv DEF Round
    <2>2. CASE Surroundings(a) BY <2>2, SurroundingsInv
    <2>3. CASE Register(a) \/ Deregister(a) BY <2>3, AgentInv
    <2> QED BY <1>2, <2>1, <2>2, <2>3
  <1>3. CASE UNCHANGED vars
    <2>1. UNCHANGED <<hb, tokenVars>> /\ UNCHANGED <<addr, cloud, leases, fresh>>
      BY <1>3 DEF vars, heartVars
    <2>2. WorldType' BY <2>1, Types DEF Inv, WorldType
    <2> QED BY <2>1, <2>2, WorldInv
  <1> QED BY <1>1, <1>2, <1>3 DEF Next

\* The invariant holds of every behaviour.
LEMMA Invariant == Spec => []Inv
  BY InitInv, NextInv, PTL DEF Spec

----------------------------------------------------------------------------
(* The properties of the run.                                              *)

\* The state stays within its types; in particular ineffective_forced never passes
\* INEFFECTIVE_FORCED_LIMIT, whatever is forced while the helper runs.
THEOREM TypeCorrect == Spec => []TypeOK
  <1>1. Inv => TypeOK BY DEF Inv
  <1> QED BY <1>1, Invariant, PTL

\* renewal_interval leaves time to renew every lease of more than two seconds.
LEMMA IntervalShorter ==
    \A d \in Nat : d > 2 => \A nap \in RenewalInterval(d) : nap < d
  BY DEF RenewalInterval

\* A renewal is slept on for less than the lease lasts, for any durations and however
\* often the connector and its lease were replaced.
THEOREM SleepsInTime == Spec => []RenewalInTime
  <1>1. Inv => RenewalInTime
    <2> SUFFICES ASSUME Inv, NEW a \in Agents, hb[a].nap > 0, Duration[Cached(a).lease] > 2
                 PROVE  hb[a].nap < Duration[Cached(a).lease]
      BY DEF RenewalInTime
    <2>1. /\ hb[a].nap \in RenewalInterval(Lasts(Cached(a).dur)) /\ Cached(a).lease \in Connectors
          /\ Cached(a).dur = Duration[Cached(a).lease]
      BY Kept DEF Fits, Cached, Measured
    <2>2. Duration[Cached(a).lease] \in Nat BY <2>1, Numbers
    <2>3. Lasts(Cached(a).dur) = Duration[Cached(a).lease] BY <2>1, <2>2 DEF Lasts
    <2> QED BY <2>1, <2>2, <2>3, IntervalShorter
  <1> QED BY <1>1, Invariant, PTL
=============================================================================
