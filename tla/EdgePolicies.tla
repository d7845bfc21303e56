---------------------------- MODULE EdgePolicies ----------------------------
(***************************************************************************)
(* The edge policies of one tunnel (edge_policies.rs): every enable starts *)
(* a background pass that ensures the request timeout and the WAF policy,  *)
(* removing the tunnel deletes them before its HTTPProxy, and people       *)
(* change them in the portal at any time.                                  *)
(***************************************************************************)
EXTENDS Naturals

CONSTANTS
    Passes,      \* passes that can be under way at once
    MaxEdits,    \* changes made in the portal
    MaxFails,    \* calls that fail
    MaxPasses    \* passes ever started

ASSUME EdgeAssumption ==
    MaxEdits \in Nat /\ MaxFails \in Nat /\ MaxPasses \in Nat

VARIABLES
    waf,        \* the WAF policy: what it says, and the managed-by annotation
    timeout,    \* the request timeout policy exists
    proxy,      \* the HTTPProxy exists
    pass,       \* each ensure_edge_policies task, and the WAF policy it read
    removal,    \* delete_project as far as the policies and the proxy go
    kept,       \* policies the removal was refused or found to be foreign
    late,       \* policies a pass wrote when the removal had dealt with them
    edits, fails, passes

world   == <<waf, timeout, proxy>>
history == <<kept, late>>
bounds  == <<edits, fails, passes>>
vars    == <<world, pass, removal, history, bounds>>

Missing == [says |-> "nothing", marked |-> FALSE]
Ours    == [says |-> "ours", marked |-> TRUE]       \* new_waf_policy
Legacy  == [says |-> "legacy", marked |-> FALSE]    \* of add-on 0.1.5 and 0.1.6
Tuned   == [says : {"tuned"}, marked : BOOLEAN]

Idle == [pc |-> "idle", read |-> Missing]

\* classify_existing_waf.
IsLegacy(policy) == policy = Legacy

\* has_managed_by.
Managed(policy) == policy.marked

Fail == fails < MaxFails /\ fails' = fails + 1 /\ UNCHANGED <<edits, passes>>
Fine == UNCHANGED bounds

\* The removal has dealt with the policy, or has ended with the proxy gone.
Past(policy) ==
    \/ ~proxy
    \/ removal \in CASE policy = "waf"     -> {"timeout", "deletetimeout", "proxy"}
                     [] policy = "timeout" -> {"proxy"}

----------------------------------------------------------------------------
(* The portal.                                                             *)

\* Somebody makes a WAF policy, changes it, perhaps dropping the annotation, or
\* deletes one of the policies.
Portal ==
    /\ edits < MaxEdits /\ edits' = edits + 1
    /\ \/ waf' \in {policy \in Tuned : Managed(policy) => Managed(waf)} /\ UNCHANGED timeout
       \/ waf # Missing /\ waf' = Missing /\ UNCHANGED timeout
       \/ timeout /\ timeout' = FALSE /\ UNCHANGED waf
    /\ UNCHANGED <<proxy, pass, removal, history, fails, passes>>

----------------------------------------------------------------------------
(* A pass.                                                                 *)

Goes(p, pc) == pass' = [pass EXCEPT ![p].pc = pc]
Ends(p)     == pass' = [pass EXCEPT ![p] = Idle]

Writes(policy) == late' = IF Past(policy) THEN late \cup {policy} ELSE late

\* set_enabled_project and create_project saw or wrote the proxy.
Enable(p) ==
    /\ pass[p].pc = "idle" /\ proxy
    /\ passes < MaxPasses /\ passes' = passes + 1
    /\ Goes(p, "spawn")
    /\ UNCHANGED <<world, removal, history, edits, fails>>

\* spawn_edge_policies, and the check for the timeout policy.
CheckTimeout(p) ==
    /\ pass[p].pc = "spawn"
    /\ \/ timeout /\ Goes(p, "waf") /\ Fine
       \/ ~timeout /\ Goes(p, "timeout") /\ Fine
       \/ Goes(p, "waf") /\ Fail
    /\ UNCHANGED <<world, removal, history>>

\* A create that fails may have been carried out all the same.
CreateTimeout(p) ==
    /\ pass[p].pc = "timeout" /\ Goes(p, "waf")
    /\ \/ timeout' = TRUE /\ Writes("timeout") /\ Fine
       \/ timeout' = TRUE /\ Writes("timeout") /\ Fail
       \/ UNCHANGED <<timeout, late>> /\ Fail
    /\ UNCHANGED <<waf, proxy, removal, kept>>

CheckWaf(p) ==
    /\ pass[p].pc = "waf"
    /\ \/ waf = Missing /\ Goes(p, "create") /\ Fine
       \/ IsLegacy(waf) /\ pass' = [pass EXCEPT ![p] = [pc |-> "replace", read |-> waf]] /\ Fine
       \/ waf # Missing /\ ~IsLegacy(waf) /\ Ends(p) /\ Fine
       \/ Ends(p) /\ Fail
    /\ UNCHANGED <<world, removal, history>>

\* Mutant: created whether or not somebody else did in between.
CreateWafOver(p) ==
    /\ pass[p].pc = "create" /\ Ends(p)
    /\ \/ waf' = Ours /\ Writes("waf") /\ Fine
       \/ UNCHANGED <<waf, late>> /\ Fail
    /\ UNCHANGED <<timeout, proxy, removal, kept>>

CreateWaf(p) ==
    /\ pass[p].pc = "create" /\ Ends(p)
    /\ \/ waf = Missing /\ waf' = Ours /\ Writes("waf") /\ (Fine \/ Fail)
       \/ waf # Missing /\ UNCHANGED <<waf, late>> /\ Fine
       \/ UNCHANGED <<waf, late>> /\ Fail
    /\ UNCHANGED <<timeout, proxy, removal, kept>>

\* Mutant: replaced whatever the policy is by now.
ReplaceWafOver(p) ==
    /\ pass[p].pc = "replace" /\ Ends(p)
    /\ waf # Missing /\ waf' = Ours /\ Writes("waf") /\ Fine
    /\ UNCHANGED <<timeout, proxy, removal, kept>>

\* The replace carries the version that was read. A legacy policy never comes
\* back, so the version is the same as long as the policy is.
ReplaceWaf(p) ==
    /\ pass[p].pc = "replace" /\ Ends(p)
    /\ \/ waf = pass[p].read /\ waf' = Ours /\ Writes("waf") /\ (Fine \/ Fail)
       \/ waf # pass[p].read /\ UNCHANGED <<waf, late>> /\ Fine
       \/ UNCHANGED <<waf, late>> /\ Fail
    /\ UNCHANGED <<timeout, proxy, removal, kept>>

Pass(p) == Enable(p) \/ CheckTimeout(p) \/ CreateTimeout(p) \/ CheckWaf(p)
           \/ CreateWaf(p) \/ ReplaceWaf(p)

----------------------------------------------------------------------------
(* delete_project: a failure leaves the tunnel listed, for another try.    *)

Remove ==
    /\ removal = "none" /\ proxy
    /\ removal' = "waf"
    /\ kept' = {} /\ late' = {}
    /\ UNCHANGED <<world, pass, bounds>>

Stays   == removal' = "none" /\ UNCHANGED <<world, kept>>
On(pc)  == removal' = pc
Refused(policy) == kept' = kept \cup {policy}

\* Only a policy this code made is deleted; a refusal to look keeps it.
RemoveCheckWaf ==
    /\ removal = "waf"
    /\ \/ Managed(waf) /\ On("deletewaf") /\ Fine /\ UNCHANGED <<world, kept>>
       \/ ~Managed(waf) /\ On("timeout") /\ Fine /\ UNCHANGED <<world, kept>>
       \/ On("timeout") /\ Fail /\ Refused("waf") /\ UNCHANGED world
       \/ Stays /\ Fail
    /\ UNCHANGED <<pass, late>>

\* delete_policy, by name: what is there by now.
RemoveWaf ==
    /\ removal = "deletewaf"
    /\ \/ waf' = Missing /\ On("timeout") /\ Fine /\ UNCHANGED kept
       \/ On("timeout") /\ Fail /\ Refused("waf") /\ UNCHANGED waf
       \/ waf' \in {waf, Missing} /\ On("none") /\ Fail /\ UNCHANGED kept
    /\ UNCHANGED <<timeout, proxy, pass, late>>

RemoveCheckTimeout ==
    /\ removal = "timeout"
    /\ \/ timeout /\ On("deletetimeout") /\ Fine /\ UNCHANGED <<world, kept>>
       \/ ~timeout /\ On("proxy") /\ Fine /\ UNCHANGED <<world, kept>>
       \/ On("proxy") /\ Fail /\ Refused("timeout") /\ UNCHANGED world
       \/ Stays /\ Fail
    /\ UNCHANGED <<pass, late>>

\* Mutant: a failed delete is passed over like a refused one.
RemoveTimeoutAnyway ==
    /\ removal = "deletetimeout" /\ On("proxy")
    /\ \/ timeout' = FALSE /\ Fine
       \/ UNCHANGED timeout /\ Fail
    /\ UNCHANGED <<waf, proxy, kept, pass, late>>

RemoveTimeout ==
    /\ removal = "deletetimeout"
    /\ \/ timeout' = FALSE /\ On("proxy") /\ Fine /\ UNCHANGED kept
       \/ On("proxy") /\ Fail /\ Refused("timeout") /\ UNCHANGED timeout
       \/ timeout' \in {timeout, FALSE} /\ On("none") /\ Fail /\ UNCHANGED kept
    /\ UNCHANGED <<waf, proxy, pass, late>>

RemoveProxy ==
    /\ removal = "proxy"
    /\ \/ proxy' = FALSE /\ On("done") /\ Fine
       \/ proxy' \in {proxy, FALSE} /\ On("none") /\ Fail
    /\ UNCHANGED <<waf, timeout, pass, kept, late>>

Removal == Remove \/ RemoveCheckWaf \/ RemoveWaf \/ RemoveCheckTimeout \/ RemoveTimeout
           \/ RemoveProxy

\* The daemon ends, and with it every pass and the removal.
Restart ==
    /\ removal # "none" \/ \E p \in Passes : pass[p].pc # "idle"
    /\ pass' = [p \in Passes |-> Idle]
    /\ removal' = IF removal = "done" THEN "done" ELSE "none"
    /\ UNCHANGED <<world, history, bounds>>

----------------------------------------------------------------------------
Init ==
    /\ waf \in {Missing, Legacy} \cup {policy \in Tuned : ~policy.marked}
    /\ timeout = FALSE /\ proxy = TRUE
    /\ pass = [p \in Passes |-> Idle]
    /\ removal = "none"
    /\ kept = {} /\ late = {}
    /\ edits = 0 /\ fails = 0 /\ passes = 0

Next == Portal \/ (\E p \in Passes : Pass(p)) \/ Removal \/ Restart

Spec == Init /\ [][Next]_vars

----------------------------------------------------------------------------
\* What somebody set in the portal is never overwritten, neither by a pass that
\* upgrades a legacy policy nor by one that found none (upgraded_waf_policy,
\* ensure_waf): it stays until it is changed there or removed with its tunnel.
EditsStand == [][waf.says = "tuned" => waf'.says \in {"tuned", "nothing"}]_vars

\* When a tunnel's proxy is gone, so are the policies made for it, also those a
\* pass beside the removal wrote before the removal came to them: all but what the
\* removal was refused, what other people made, and what a pass wrote behind the
\* removal's back (delete_edge_policies, run before the HTTPProxy is deleted so that
\* a failure can be retried).
CleanRemoval ==
    ~proxy => /\ "waf" \notin kept \cup late => ~Managed(waf)
              /\ "timeout" \notin kept \cup late => ~timeout
=============================================================================
