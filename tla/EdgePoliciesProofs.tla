------------------------- MODULE EdgePoliciesProofs -------------------------
(***************************************************************************)
(* EdgePolicies for any number of passes, edits and failed calls: nothing  *)
(* set in the portal is overwritten, and a removed tunnel leaves no policy *)
(* made for it.                                                            *)
(***************************************************************************)
EXTENDS EdgePolicies, TLAPS

Policy   == [says : {"nothing", "ours", "legacy", "tuned"}, marked : BOOLEAN]
PassPcs  == {"idle", "spawn", "timeout", "waf", "create", "replace"}
PassType == [pc : PassPcs, read : Policy]

\* Every variable has its type.
EdgeType ==
    /\ waf \in Policy
    /\ timeout \in BOOLEAN /\ proxy \in BOOLEAN
    /\ pass \in [Passes -> PassType]
    /\ removal \in {"none", "waf", "deletewaf", "timeout", "deletetimeout", "proxy", "done"}
    /\ kept \subseteq {"waf", "timeout"} /\ late \subseteq {"waf", "timeout"}
    /\ edits \in Nat /\ fails \in Nat /\ passes \in Nat

\* What a pass is about to replace is a legacy policy.
ReadLegacy == \A p \in Passes : pass[p].pc = "replace" => pass[p].read = Legacy

\* What the removal has dealt with stays gone, unless a pass wrote it since.
WafDone == Past("waf") /\ "waf" \notin kept \cup late => ~Managed(waf)

TimeoutDone == Past("timeout") /\ "timeout" \notin kept \cup late => ~timeout

Inv == EdgeType /\ ReadLegacy /\ WafDone /\ TimeoutDone


----------------------------------------------------------------------------
\* The policies the model names are policies.
LEMMA Policies == /\ Missing \in Policy /\ Ours \in Policy /\ Legacy \in Policy
                  /\ Tuned \subseteq Policy /\ Idle \in PassType
                  /\ ~Missing.marked
  BY DEF Policy, Missing, Ours, Legacy, Tuned, Idle, PassType, PassPcs

\* A change in the portal.
LEMMA PortalStep == ASSUME Inv, Portal PROVE Inv'
  <1>1. EdgeType'
    <2>1. waf' \in Policy
      BY Policies DEF Inv, EdgeType, Portal, history, Tuned, Missing, Managed, Policy
    <2>2. timeout' \in BOOLEAN
      BY Policies DEF Inv, EdgeType, Portal, history, Tuned, Missing, Managed, Policy
    <2>3. proxy' \in BOOLEAN
      BY Policies DEF Inv, EdgeType, Portal, history, Tuned, Missing, Managed, Policy
    <2>4. pass' \in [Passes -> PassType]
      BY Policies DEF Inv, EdgeType, PassType, PassPcs, Portal, history, Tuned, Missing, Managed, Policy
    <2>5. removal' \in {"none", "waf", "deletewaf", "timeout", "deletetimeout", "proxy", "done"}
      BY Policies DEF Inv, EdgeType, Portal, history, Tuned, Missing, Managed, Policy
    <2>6. kept' \subseteq {"waf", "timeout"} /\ late' \subseteq {"waf", "timeout"}
      BY Policies DEF Inv, EdgeType, Portal, history, Tuned, Missing, Managed, Policy
    <2>7. edits' \in Nat /\ fails' \in Nat /\ passes' \in Nat
      BY Policies DEF Inv, EdgeType, Portal, history, Tuned, Missing, Managed, Policy
    <2>8. QED
      BY <2>1, <2>2, <2>3, <2>4, <2>5, <2>6, <2>7 DEF EdgeType
  <1>2. ReadLegacy'
    BY Policies DEF Inv, EdgeType, ReadLegacy, PassType, Idle, Portal, history, Tuned, Missing, Managed, Policy
  <1>3. WafDone'
    BY Policies DEF Inv, EdgeType, WafDone, Past, Managed, Portal, history, Tuned, Missing, Managed, Policy
  <1>4. TimeoutDone'
    BY Policies DEF Inv, EdgeType, TimeoutDone, Past, Portal, history, Tuned, Missing, Managed, Policy
  <1>5. QED
    BY <1>1, <1>2, <1>3, <1>4 DEF Inv

\* A pass is started.
LEMMA EnableStep == ASSUME NEW p \in Passes, Inv, Enable(p) PROVE Inv'
  <1>1. EdgeType'
    BY Policies DEF Inv, EdgeType, PassType, PassPcs, Enable, Goes, world, history
  <1>2. ReadLegacy'
    BY Policies DEF Inv, EdgeType, ReadLegacy, PassType, Idle, Enable, Goes, world, history
  <1>3. WafDone'
    BY Policies DEF Inv, EdgeType, WafDone, Past, Managed, Enable, Goes, world, history
  <1>4. TimeoutDone'
    BY Policies DEF Inv, EdgeType, TimeoutDone, Past, Enable, Goes, world, history
  <1>5. QED
    BY <1>1, <1>2, <1>3, <1>4 DEF Inv

\* It looks for the timeout policy.
LEMMA CheckTimeoutStep == ASSUME NEW p \in Passes, Inv, CheckTimeout(p) PROVE Inv'
  <1>1. EdgeType'
    BY Policies DEF Inv, EdgeType, PassType, PassPcs, CheckTimeout, Goes, Ends, Fine, Fail, world, history, bounds
  <1>2. ReadLegacy'
    BY Policies DEF Inv, EdgeType, ReadLegacy, PassType, Idle, CheckTimeout, Goes, Ends, Fine, Fail, world, history, bounds
  <1>3. WafDone'
    BY Policies DEF Inv, EdgeType, WafDone, Past, Managed, CheckTimeout, Goes, Ends, Fine, Fail, world, history, bounds
  <1>4. TimeoutDone'
    BY Policies DEF Inv, EdgeType, TimeoutDone, Past, CheckTimeout, Goes, Ends, Fine, Fail, world, history, bounds
  <1>5. QED
    BY <1>1, <1>2, <1>3, <1>4 DEF Inv

\* It creates the timeout policy.
LEMMA CreateTimeoutStep == ASSUME NEW p \in Passes, Inv, CreateTimeout(p) PROVE Inv'
  <1>1. EdgeType'
    <2>1. waf' \in Policy
      BY Policies DEF Inv, EdgeType, CreateTimeout, Writes, Past, Goes, Ends, Fine, Fail, history, bounds
    <2>2. timeout' \in BOOLEAN
      BY Policies DEF Inv, EdgeType, CreateTimeout, Writes, Past, Goes, Ends, Fine, Fail, history, bounds
    <2>3. proxy' \in BOOLEAN
      BY Policies DEF Inv, EdgeType, CreateTimeout, Writes, Past, Goes, Ends, Fine, Fail, history, bounds
    <2>4. pass' \in [Passes -> PassType]
      BY Policies DEF Inv, EdgeType, PassType, PassPcs, CreateTimeout, Writes, Past, Goes, Ends, Fine, Fail, history, bounds
    <2>5. removal' \in {"none", "waf", "deletewaf", "timeout", "deletetimeout", "proxy", "done"}
      BY Policies DEF Inv, EdgeType, CreateTimeout, Writes, Past, Goes, Ends, Fine, Fail, history, bounds
    <2>6. kept' \subseteq {"waf", "timeout"} /\ late' \subseteq {"waf", "timeout"}
      BY Policies DEF Inv, EdgeType, CreateTimeout, Writes, Past, Goes, Ends, Fine, Fail, history, bounds
    <2>7. edits' \in Nat /\ fails' \in Nat /\ passes' \in Nat
      <3>1. Fine \/ Fail
        BY DEF CreateTimeout
      <3>2. QED
        BY <3>1 DEF Inv, EdgeType, Fine, Fail, bounds
    <2>8. QED
      BY <2>1, <2>2, <2>3, <2>4, <2>5, <2>6, <2>7 DEF EdgeType
  <1>2. ReadLegacy'
    BY Policies DEF Inv, EdgeType, ReadLegacy, PassType, Idle, CreateTimeout, Writes, Past, Goes, Ends, Fine, Fail, history, bounds
  <1>3. WafDone'
    BY Policies DEF Inv, EdgeType, WafDone, Past, Managed, CreateTimeout, Writes, Past, Goes, Ends, Fine, Fail, history, bounds
  <1>4. TimeoutDone'
    BY Policies DEF Inv, EdgeType, TimeoutDone, Past, CreateTimeout, Writes, Past, Goes, Ends, Fine, Fail, history, bounds
  <1>5. QED
    BY <1>1, <1>2, <1>3, <1>4 DEF Inv

\* It looks at the WAF policy, and remembers a legacy one.
LEMMA CheckWafStep == ASSUME NEW p \in Passes, Inv, CheckWaf(p) PROVE Inv'
  <1>1. EdgeType'
    BY Policies DEF Inv, EdgeType, PassType, PassPcs, CheckWaf, IsLegacy, Goes, Ends, Fine, Fail, world, history, bounds
  <1>2. ReadLegacy'
    BY Policies DEF Inv, EdgeType, ReadLegacy, PassType, Idle, CheckWaf, IsLegacy, Goes, Ends, Fine, Fail, world, history, bounds
  <1>3. WafDone'
    BY Policies DEF Inv, EdgeType, WafDone, Past, Managed, CheckWaf, IsLegacy, Goes, Ends, Fine, Fail, world, history, bounds
  <1>4. TimeoutDone'
    BY Policies DEF Inv, EdgeType, TimeoutDone, Past, CheckWaf, IsLegacy, Goes, Ends, Fine, Fail, world, history, bounds
  <1>5. QED
    BY <1>1, <1>2, <1>3, <1>4 DEF Inv

\* It creates the WAF policy, or finds that there is one.
LEMMA CreateWafStep == ASSUME NEW p \in Passes, Inv, CreateWaf(p) PROVE Inv'
  <1>1. EdgeType'
    BY Policies DEF Inv, EdgeType, PassType, PassPcs, CreateWaf, Writes, Past, Goes, Ends, Fine, Fail, history, bounds
  <1>2. ReadLegacy'
    BY Policies DEF Inv, EdgeType, ReadLegacy, PassType, Idle, CreateWaf, Writes, Past, Goes, Ends, Fine, Fail, history, bounds
  <1>3. WafDone'
    BY Policies DEF Inv, EdgeType, WafDone, Past, Managed, CreateWaf, Writes, Past, Goes, Ends, Fine, Fail, history, bounds
  <1>4. TimeoutDone'
    BY Policies DEF Inv, EdgeType, TimeoutDone, Past, CreateWaf, Writes, Past, Goes, Ends, Fine, Fail, history, bounds
  <1>5. QED
    BY <1>1, <1>2, <1>3, <1>4 DEF Inv

\* It replaces the policy it read.
LEMMA ReplaceWafStep == ASSUME NEW p \in Passes, Inv, ReplaceWaf(p) PROVE Inv'
  <1>1. EdgeType'
    BY Policies DEF Inv, EdgeType, PassType, PassPcs, ReplaceWaf, Writes, Past, Goes, Ends, Fine, Fail, history, bounds
  <1>2. ReadLegacy'
    BY Policies DEF Inv, EdgeType, ReadLegacy, PassType, Idle, ReplaceWaf, Writes, Past, Goes, Ends, Fine, Fail, history, bounds
  <1>3. WafDone'
    BY Policies DEF Inv, EdgeType, WafDone, Past, Managed, ReplaceWaf, Writes, Past, Goes, Ends, Fine, Fail, history, bounds
  <1>4. TimeoutDone'
    BY Policies DEF Inv, EdgeType, TimeoutDone, Past, ReplaceWaf, Writes, Past, Goes, Ends, Fine, Fail, history, bounds
  <1>5. QED
    BY <1>1, <1>2, <1>3, <1>4 DEF Inv

\* A removal begins.
LEMMA RemoveStep == ASSUME Inv, Remove PROVE Inv'
  <1>1. EdgeType'
    BY Policies DEF Inv, EdgeType, PassType, PassPcs, Remove, world, bounds
  <1>2. ReadLegacy'
    BY Policies DEF Inv, EdgeType, ReadLegacy, PassType, Idle, Remove, world, bounds
  <1>3. WafDone'
    BY Policies DEF Inv, EdgeType, WafDone, Past, Managed, Remove, world, bounds
  <1>4. TimeoutDone'
    BY Policies DEF Inv, EdgeType, TimeoutDone, Past, Remove, world, bounds
  <1>5. QED
    BY <1>1, <1>2, <1>3, <1>4 DEF Inv

\* It looks at the WAF policy.
LEMMA RemoveCheckWafStep == ASSUME Inv, RemoveCheckWaf PROVE Inv'
  <1>1. EdgeType'
    <2>1. waf' \in Policy
      BY Policies DEF Inv, EdgeType, RemoveCheckWaf, Managed, On, Stays, Refused, Fine, Fail, world, bounds
    <2>2. timeout' \in BOOLEAN
      BY Policies DEF Inv, EdgeType, RemoveCheckWaf, Managed, On, Stays, Refused, Fine, Fail, world, bounds
    <2>3. proxy' \in BOOLEAN
      BY Policies DEF Inv, EdgeType, RemoveCheckWaf, Managed, On, Stays, Refused, Fine, Fail, world, bounds
    <2>4. pass' \in [Passes -> PassType]
      BY Policies DEF Inv, EdgeType, PassType, PassPcs, RemoveCheckWaf, Managed, On, Stays, Refused, Fine, Fail, world, bounds
    <2>5. removal' \in {"none", "waf", "deletewaf", "timeout", "deletetimeout", "proxy", "done"}
      BY Policies DEF Inv, EdgeType, RemoveCheckWaf, Managed, On, Stays, Refused, Fine, Fail, world, bounds
    <2>6. kept' \subseteq {"waf", "timeout"} /\ late' \subseteq {"waf", "timeout"}
      BY Policies DEF Inv, EdgeType, RemoveCheckWaf, Managed, On, Stays, Refused, Fine, Fail, world, bounds
    <2>7. edits' \in Nat /\ fails' \in Nat /\ passes' \in Nat
      <3>1. Fine \/ Fail
        BY DEF RemoveCheckWaf
      <3>2. QED
        BY <3>1 DEF Inv, EdgeType, Fine, Fail, bounds
    <2>8. QED
      BY <2>1, <2>2, <2>3, <2>4, <2>5, <2>6, <2>7 DEF EdgeType
  <1>2. ReadLegacy'
    BY Policies DEF Inv, EdgeType, ReadLegacy, PassType, Idle, RemoveCheckWaf, Managed, On, Stays, Refused, Fine, Fail, world, bounds
  <1>3. WafDone'
    BY Policies DEF Inv, EdgeType, WafDone, Past, Managed, RemoveCheckWaf, Managed, On, Stays, Refused, Fine, Fail, world, bounds
  <1>4. TimeoutDone'
    BY Policies DEF Inv, EdgeType, TimeoutDone, Past, RemoveCheckWaf, Managed, On, Stays, Refused, Fine, Fail, world, bounds
  <1>5. QED
    BY <1>1, <1>2, <1>3, <1>4 DEF Inv

\* It deletes the WAF policy.
LEMMA RemoveWafStep == ASSUME Inv, RemoveWaf PROVE Inv'
  <1>1. EdgeType'
    <2>1. waf' \in Policy
      BY Policies DEF Inv, EdgeType, RemoveWaf, On, Stays, Refused, Fine, Fail, world, bounds
    <2>2. timeout' \in BOOLEAN
      BY Policies DEF Inv, EdgeType, RemoveWaf, On, Stays, Refused, Fine, Fail, world, bounds
    <2>3. proxy' \in BOOLEAN
      BY Policies DEF Inv, EdgeType, RemoveWaf, On, Stays, Refused, Fine, Fail, world, bounds
    <2>4. pass' \in [Passes -> PassType]
      BY Policies DEF Inv, EdgeType, PassType, PassPcs, RemoveWaf, On, Stays, Refused, Fine, Fail, world, bounds
    <2>5. removal' \in {"none", "waf", "deletewaf", "timeout", "deletetimeout", "proxy", "done"}
      BY Policies DEF Inv, EdgeType, RemoveWaf, On, Stays, Refused, Fine, Fail, world, bounds
    <2>6. kept' \subseteq {"waf", "timeout"} /\ late' \subseteq {"waf", "timeout"}
      BY Policies DEF Inv, EdgeType, RemoveWaf, On, Stays, Refused, Fine, Fail, world, bounds
    <2>7. edits' \in Nat /\ fails' \in Nat /\ passes' \in Nat
      <3>1. Fine \/ Fail
        BY DEF RemoveWaf
      <3>2. QED
        BY <3>1 DEF Inv, EdgeType, Fine, Fail, bounds
    <2>8. QED
      BY <2>1, <2>2, <2>3, <2>4, <2>5, <2>6, <2>7 DEF EdgeType
  <1>2. ReadLegacy'
    BY Policies DEF Inv, EdgeType, ReadLegacy, PassType, Idle, RemoveWaf, On, Stays, Refused, Fine, Fail, world, bounds
  <1>3. WafDone'
    BY Policies DEF Inv, EdgeType, WafDone, Past, Managed, RemoveWaf, On, Stays, Refused, Fine, Fail, world, bounds
  <1>4. TimeoutDone'
    BY Policies DEF Inv, EdgeType, TimeoutDone, Past, RemoveWaf, On, Stays, Refused, Fine, Fail, world, bounds
  <1>5. QED
    BY <1>1, <1>2, <1>3, <1>4 DEF Inv

\* It looks for the timeout policy.
LEMMA RemoveCheckTimeoutStep == ASSUME Inv, RemoveCheckTimeout PROVE Inv'
  <1>1. EdgeType'
    <2>1. waf' \in Policy
      BY Policies DEF Inv, EdgeType, RemoveCheckTimeout, On, Stays, Refused, Fine, Fail, world, bounds
    <2>2. timeout' \in BOOLEAN
      BY Policies DEF Inv, EdgeType, RemoveCheckTimeout, On, Stays, Refused, Fine, Fail, world, bounds
    <2>3. proxy' \in BOOLEAN
      BY Policies DEF Inv, EdgeType, RemoveCheckTimeout, On, Stays, Refused, Fine, Fail, world, bounds
    <2>4. pass' \in [Passes -> PassType]
      BY Policies DEF Inv, EdgeType, PassType, PassPcs, RemoveCheckTimeout, On, Stays, Refused, Fine, Fail, world, bounds
    <2>5. removal' \in {"none", "waf", "deletewaf", "timeout", "deletetimeout", "proxy", "done"}
      BY Policies DEF Inv, EdgeType, RemoveCheckTimeout, On, Stays, Refused, Fine, Fail, world, bounds
    <2>6. kept' \subseteq {"waf", "timeout"} /\ late' \subseteq {"waf", "timeout"}
      BY Policies DEF Inv, EdgeType, RemoveCheckTimeout, On, Stays, Refused, Fine, Fail, world, bounds
    <2>7. edits' \in Nat /\ fails' \in Nat /\ passes' \in Nat
      <3>1. Fine \/ Fail
        BY DEF RemoveCheckTimeout
      <3>2. QED
        BY <3>1 DEF Inv, EdgeType, Fine, Fail, bounds
    <2>8. QED
      BY <2>1, <2>2, <2>3, <2>4, <2>5, <2>6, <2>7 DEF EdgeType
  <1>2. ReadLegacy'
    BY Policies DEF Inv, EdgeType, ReadLegacy, PassType, Idle, RemoveCheckTimeout, On, Stays, Refused, Fine, Fail, world, bounds
  <1>3. WafDone'
    BY Policies DEF Inv, EdgeType, WafDone, Past, Managed, RemoveCheckTimeout, On, Stays, Refused, Fine, Fail, world, bounds
  <1>4. TimeoutDone'
    BY Policies DEF Inv, EdgeType, TimeoutDone, Past, RemoveCheckTimeout, On, Stays, Refused, Fine, Fail, world, bounds
  <1>5. QED
    BY <1>1, <1>2, <1>3, <1>4 DEF Inv

\* It deletes the timeout policy.
LEMMA RemoveTimeoutStep == ASSUME Inv, RemoveTimeout PROVE Inv'
  <1>1. EdgeType'
    <2>1. waf' \in Policy
      BY Policies DEF Inv, EdgeType, RemoveTimeout, On, Stays, Refused, Fine, Fail, world, bounds
    <2>2. timeout' \in BOOLEAN
      BY Policies DEF Inv, EdgeType, RemoveTimeout, On, Stays, Refused, Fine, Fail, world, bounds
    <2>3. proxy' \in BOOLEAN
      BY Policies DEF Inv, EdgeType, RemoveTimeout, On, Stays, Refused, Fine, Fail, world, bounds
    <2>4. pass' \in [Passes -> PassType]
      BY Policies DEF Inv, EdgeType, PassType, PassPcs, RemoveTimeout, On, Stays, Refused, Fine, Fail, world, bounds
    <2>5. removal' \in {"none", "waf", "deletewaf", "timeout", "deletetimeout", "proxy", "done"}
      BY Policies DEF Inv, EdgeType, RemoveTimeout, On, Stays, Refused, Fine, Fail, world, bounds
    <2>6. kept' \subseteq {"waf", "timeout"} /\ late' \subseteq {"waf", "timeout"}
      BY Policies DEF Inv, EdgeType, RemoveTimeout, On, Stays, Refused, Fine, Fail, world, bounds
    <2>7. edits' \in Nat /\ fails' \in Nat /\ passes' \in Nat
      <3>1. Fine \/ Fail
        BY DEF RemoveTimeout
      <3>2. QED
        BY <3>1 DEF Inv, EdgeType, Fine, Fail, bounds
    <2>8. QED
      BY <2>1, <2>2, <2>3, <2>4, <2>5, <2>6, <2>7 DEF EdgeType
  <1>2. ReadLegacy'
    BY Policies DEF Inv, EdgeType, ReadLegacy, PassType, Idle, RemoveTimeout, On, Stays, Refused, Fine, Fail, world, bounds
  <1>3. WafDone'
    BY Policies DEF Inv, EdgeType, WafDone, Past, Managed, RemoveTimeout, On, Stays, Refused, Fine, Fail, world, bounds
  <1>4. TimeoutDone'
    BY Policies DEF Inv, EdgeType, TimeoutDone, Past, RemoveTimeout, On, Stays, Refused, Fine, Fail, world, bounds
  <1>5. QED
    BY <1>1, <1>2, <1>3, <1>4 DEF Inv

\* It deletes the HTTPProxy.
LEMMA RemoveProxyStep == ASSUME Inv, RemoveProxy PROVE Inv'
  <1>1. EdgeType'
    <2>1. waf' \in Policy
      BY Policies DEF Inv, EdgeType, RemoveProxy, On, Stays, Refused, Fine, Fail, world, bounds
    <2>2. timeout' \in BOOLEAN
      BY Policies DEF Inv, EdgeType, RemoveProxy, On, Stays, Refused, Fine, Fail, world, bounds
    <2>3. proxy' \in BOOLEAN
      BY Policies DEF Inv, EdgeType, RemoveProxy, On, Stays, Refused, Fine, Fail, world, bounds
    <2>4. pass' \in [Passes -> PassType]
      BY Policies DEF Inv, EdgeType, PassType, PassPcs, RemoveProxy, On, Stays, Refused, Fine, Fail, world, bounds
    <2>5. removal' \in {"none", "waf", "deletewaf", "timeout", "deletetimeout", "proxy", "done"}
      BY Policies DEF Inv, EdgeType, RemoveProxy, On, Stays, Refused, Fine, Fail, world, bounds
    <2>6. kept' \subseteq {"waf", "timeout"} /\ late' \subseteq {"waf", "timeout"}
      BY Policies DEF Inv, EdgeType, RemoveProxy, On, Stays, Refused, Fine, Fail, world, bounds
    <2>7. edits' \in Nat /\ fails' \in Nat /\ passes' \in Nat
      <3>1. Fine \/ Fail
        BY DEF RemoveProxy
      <3>2. QED
        BY <3>1 DEF Inv, EdgeType, Fine, Fail, bounds
    <2>8. QED
      BY <2>1, <2>2, <2>3, <2>4, <2>5, <2>6, <2>7 DEF EdgeType
  <1>2. ReadLegacy'
    BY Policies DEF Inv, EdgeType, ReadLegacy, PassType, Idle, RemoveProxy, On, Stays, Refused, Fine, Fail, world, bounds
  <1>3. WafDone'
    BY Policies DEF Inv, EdgeType, WafDone, Past, Managed, RemoveProxy, On, Stays, Refused, Fine, Fail, world, bounds
  <1>4. TimeoutDone'
    BY Policies DEF Inv, EdgeType, TimeoutDone, Past, RemoveProxy, On, Stays, Refused, Fine, Fail, world, bounds
  <1>5. QED
    BY <1>1, <1>2, <1>3, <1>4 DEF Inv

\* The daemon is restarted.
LEMMA RestartStep == ASSUME Inv, Restart PROVE Inv'
  <1>1. EdgeType'
    BY Policies DEF Inv, EdgeType, PassType, PassPcs, Restart, Idle, world, history, bounds
  <1>2. ReadLegacy'
    BY Policies DEF Inv, EdgeType, ReadLegacy, PassType, Idle, Restart, Idle, world, history, bounds
  <1>3. WafDone'
    BY Policies DEF Inv, EdgeType, WafDone, Past, Managed, Restart, Idle, world, history, bounds
  <1>4. TimeoutDone'
    BY Policies DEF Inv, EdgeType, TimeoutDone, Past, Restart, Idle, world, history, bounds
  <1>5. QED
    BY <1>1, <1>2, <1>3, <1>4 DEF Inv

\* The inductive step, one action at a time.
LEMMA InvStep == Inv /\ [Next]_vars => Inv'
  <1> SUFFICES ASSUME Inv, [Next]_vars PROVE Inv'
    OBVIOUS
  <1>1. CASE Portal
    BY <1>1, PortalStep
  <1>2. ASSUME NEW p \in Passes, Pass(p) PROVE Inv'
    BY <1>2, EnableStep, CheckTimeoutStep, CreateTimeoutStep, CheckWafStep, CreateWafStep,
       ReplaceWafStep DEF Pass
  <1>3. CASE Removal
    BY <1>3, RemoveStep, RemoveCheckWafStep, RemoveWafStep, RemoveCheckTimeoutStep,
       RemoveTimeoutStep, RemoveProxyStep DEF Removal
  <1>4. CASE Restart
    BY <1>4, RestartStep
  <1>5. CASE UNCHANGED vars
    BY <1>5 DEF Inv, EdgeType, ReadLegacy, WafDone, TimeoutDone, Past, Managed,
       vars, world, history, bounds
  <1>6. QED
    BY <1>1, <1>2, <1>3, <1>4, <1>5 DEF Next

\* Initially there are no passes, no removal, and nothing this code made.
LEMMA InvInit == Init => Inv
  <1> SUFFICES ASSUME Init PROVE Inv
    OBVIOUS
  <1>1. waf \in Policy
    BY Policies DEF Init
  <1>2. pass \in [Passes -> PassType]
    BY Policies DEF Init
  <1>3. EdgeType
    BY <1>1, <1>2 DEF Init, EdgeType
  <1>4. ReadLegacy
    BY DEF Init, ReadLegacy, Idle
  <1>5. WafDone /\ TimeoutDone
    BY DEF Init, WafDone, TimeoutDone, Past
  <1>6. QED
    BY <1>3, <1>4, <1>5 DEF Inv

\* The invariant holds throughout (edge_policies.rs, any number of passes).
THEOREM Invariance == Spec => []Inv
  <1>1. QED
    BY InvInit, InvStep, PTL DEF Spec

\* When a tunnel's proxy is gone, so are the policies made for it, but for what
\* was refused or foreign and what a pass wrote behind the removal's back
\* (delete_edge_policies before the HTTPProxy's delete).
THEOREM RemovalIsClean == Spec => []CleanRemoval
  <1>1. Inv => CleanRemoval
    BY DEF Inv, WafDone, TimeoutDone, Past, CleanRemoval
  <1>2. QED
    BY <1>1, Invariance, PTL

\* No step of a pass or a removal overwrites what somebody set in the portal
\* (upgraded_waf_policy, ensure_waf).
THEOREM NothingOverwritten == Spec => EditsStand
  <1>1. Inv /\ [Next]_vars => [waf.says = "tuned" => waf'.says \in {"tuned", "nothing"}]_vars
    <2> SUFFICES ASSUME Inv, Next, waf.says = "tuned"
                 PROVE  waf'.says \in {"tuned", "nothing"}
      OBVIOUS
    <2>1. CASE Portal
      BY <2>1 DEF Portal, Tuned, Missing
    <2>2. ASSUME NEW p \in Passes, Pass(p) PROVE waf'.says \in {"tuned", "nothing"}
      <3>1. CASE CreateWaf(p)
        BY <3>1 DEF CreateWaf, Missing
      <3>2. CASE ReplaceWaf(p)
        BY <3>2 DEF ReplaceWaf, Inv, ReadLegacy, Legacy
      <3>3. QED
        BY <2>2, <3>1, <3>2 DEF Pass, Enable, CheckTimeout, CreateTimeout, CheckWaf, world
    <2>3. CASE Removal
      <3>1. CASE RemoveWaf
        BY <3>1 DEF RemoveWaf, Missing
      <3>2. CASE RemoveCheckWaf \/ RemoveCheckTimeout
        BY <3>2 DEF RemoveCheckWaf, RemoveCheckTimeout, Stays, world
      <3>3. CASE Remove \/ RemoveTimeout \/ RemoveProxy
        BY <3>3 DEF Remove, RemoveTimeout, RemoveProxy, world
      <3>4. QED
        BY <2>3, <3>1, <3>2, <3>3 DEF Removal
    <2>4. CASE Restart
      BY <2>4 DEF Restart, world
    <2>5. QED
      BY <2>1, <2>2, <2>3, <2>4 DEF Next
  <1>2. QED
    BY <1>1, Invariance, PTL DEF Spec, EditsStand
=============================================================================
