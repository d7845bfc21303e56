------------------------------- MODULE Tokens -------------------------------
(***************************************************************************)
(* The bearer token every call on the control plane carries                *)
(* (external_token_source.rs): fetched from the credentials helper, or     *)
(* minted from a service account key (service_account.rs), renewed by a    *)
(* loop before it expires and at once when a caller was answered 401.      *)
(***************************************************************************)
EXTENDS Naturals, FiniteSets

CONSTANTS
    MaxTokens,   \* tokens the identity provider hands out, numbered from 1
    Limit,       \* INEFFECTIVE_FORCED_LIMIT
    Fetchers,    \* where this installation may get its tokens: "helper", "key"
    Opaque,      \* the tokens that carry no expiry the loop can read
    MaxFaults

ASSUME TokenAssumption ==
    /\ MaxTokens \in Nat \ {0} /\ Limit \in Nat \ {0} /\ MaxFaults \in Nat
    /\ Fetchers \subseteq {"helper", "key"} /\ Opaque \subseteq 1 .. MaxTokens

VARIABLES
    \* the identity provider and the operator's login
    issued,      \* how many tokens have been handed out
    age,         \* of each: "young", "due" in its last minute, "over"
    revoked,     \* tokens the control plane refuses although they have life left
    login,       \* the helper can get a new token
    cached,      \* the token the helper keeps
    \* ExternalTokenSource
    fetcher,     \* TokenFetcher: a credentials helper or a service account key
    token,
    trigger,     \* refresh_trigger has a change the loop has not seen
    stale,       \* ineffective_forced
    loop,        \* the refresh loop: where it is, and what its timer waits for
    faults

provider  == <<issued, age, revoked, login, cached>>
source    == <<fetcher, token, trigger, stale, loop>>
tokenVars == <<provider, source, faults>>

TokenIds == 1 .. MaxTokens

Refused(k) == k \in revoked \/ age[k] = "over"

Fault == faults < MaxFaults /\ faults' = faults + 1

\* The last token that can be handed out neither ages nor is revoked.
More == issued < MaxTokens

----------------------------------------------------------------------------
(* The identity provider, the helper and the operator.                     *)

\* A token still in use grows old.
Grow(k) ==
    /\ k \in {token, cached} /\ k < MaxTokens
    /\ age[k] # "over"
    /\ age' = [age EXCEPT ![k] = IF @ = "young" THEN "due" ELSE "over"]
    /\ UNCHANGED <<issued, revoked, login, cached, source, faults>>

\* A token is revoked, and with it perhaps the login it was got with.
Revoke ==
    /\ token < MaxTokens /\ token \notin revoked
    /\ revoked' = revoked \cup {token}
    /\ login' \in {login, login /\ fetcher = "key"}
    /\ UNCHANGED <<issued, age, cached, source, faults>>

\* The operator logs in again.
LogIn ==
    /\ ~login /\ More
    /\ login' = TRUE
    /\ issued' = issued + 1 /\ cached' = issued + 1
    /\ UNCHANGED <<age, revoked, source, faults>>

\* exec_helper: the cached token as long as it has life left, then a new one.
HelperGives(k) ==
    \/ age[cached] # "over" /\ k = cached /\ UNCHANGED <<issued, cached>>
    \/ /\ age[cached] # "young" /\ login /\ More
       /\ k = issued + 1 /\ issued' = k /\ cached' = k

\* mint: every exchange is a new token.
MintGives(k) ==
    /\ More /\ k = issued + 1
    /\ issued' = k /\ UNCHANGED cached

\* fetch.
Gives(k) == IF fetcher = "key" THEN MintGives(k) ELSE HelperGives(k)

\* The helper has nothing to give without a login.
CannotFetch == IF fetcher = "key" THEN ~More ELSE age[cached] = "over" /\ ~login

----------------------------------------------------------------------------
(* The refresh loop.                                                       *)

\* By whoever saw a 401.
force_refresh == trigger' = TRUE /\ UNCHANGED <<provider, fetcher, token, stale, loop>>

\* When the timer is set: a minute before the expiry, or an hour from now.
NextRefresh(k) == IF k \in Opaque THEN "later" ELSE "due"

TimerFires == loop.next = "later" \/ age[token] # "young"

\* Mutant: at the limit the timer is ignored too.
TimerWakesBelowLimit ==
    /\ loop.pc = "wait" /\ TimerFires /\ stale < Limit
    /\ loop' = [loop EXCEPT !.pc = "fetch", !.forced = FALSE]
    /\ UNCHANGED <<provider, fetcher, token, trigger, stale, faults>>

TimerWakes ==
    /\ loop.pc = "wait" /\ TimerFires
    /\ loop' = [loop EXCEPT !.pc = "fetch", !.forced = FALSE]
    /\ UNCHANGED <<provider, fetcher, token, trigger, stale, faults>>

\* Mutant: every forced refresh runs the helper.
ForceAlwaysWakes ==
    /\ loop.pc = "wait" /\ trigger
    /\ trigger' = FALSE
    /\ loop' = [loop EXCEPT !.pc = "fetch", !.forced = TRUE]
    /\ UNCHANGED <<provider, fetcher, token, stale, faults>>

\* A forced refresh is dropped once asking again has proved futile.
ForceWakes ==
    /\ loop.pc = "wait" /\ trigger
    /\ trigger' = FALSE
    /\ loop' = IF stale >= Limit THEN loop ELSE [loop EXCEPT !.pc = "fetch", !.forced = TRUE]
    /\ UNCHANGED <<provider, fetcher, token, stale, faults>>

\* swap_token, and the count of forced refreshes that changed nothing.
Fetched ==
    /\ loop.pc = "fetch"
    /\ \E k \in TokenIds :
        /\ Gives(k)
        /\ token' = k
        /\ stale' = IF k # token THEN 0 ELSE IF loop.forced THEN stale + 1 ELSE stale
        /\ loop' = [pc |-> "wait", forced |-> FALSE, next |-> NextRefresh(k)]
    /\ UNCHANGED <<fetcher, age, revoked, login, trigger, faults>>

\* Tried again after a while.
FetchFails ==
    /\ loop.pc = "fetch"
    /\ \/ CannotFetch /\ UNCHANGED faults
       \/ Fault
    /\ loop' = [pc |-> "wait", forced |-> FALSE, next |-> "later"]
    /\ UNCHANGED <<provider, fetcher, token, trigger, stale>>

RefreshLoop == TimerWakes \/ ForceWakes \/ Fetched \/ FetchFails

Outside == (\E k \in TokenIds : Grow(k)) \/ Revoke \/ LogIn

TokenInit ==
    /\ fetcher \in Fetchers
    /\ issued = 1 /\ cached = 1 /\ token = 1
    /\ age = [k \in TokenIds |-> "young"] /\ revoked = {} /\ login = TRUE
    /\ trigger = FALSE /\ stale = 0
    /\ loop = [pc |-> "wait", forced |-> FALSE, next |-> NextRefresh(1)]
    /\ faults = 0

TokenType ==
    /\ fetcher \in Fetchers
    /\ issued \in TokenIds /\ cached \in TokenIds /\ token \in TokenIds
    /\ age \in [TokenIds -> {"young", "due", "over"}]
    /\ revoked \subseteq TokenIds /\ login \in BOOLEAN
    /\ trigger \in BOOLEAN /\ stale \in 0 .. Limit
    /\ loop \in [pc : {"wait", "fetch"}, forced : BOOLEAN, next : {"due", "later"}]
    /\ faults \in 0 .. MaxFaults

=============================================================================
