----------------------------- MODULE MCHaAllow -----------------------------
(* HaAllow on small instances.                                             *)
EXTENDS HaAllow

Net(f, a, l) == [fam |-> f, addr |-> a, len |-> l]

\* Nothing trusted; a network that holds one of the loopback addresses, with
\* forwarding on; both of them trusted; text that is no network.
MCConfigs == {
    [fwd |-> FALSE, proxies |-> {}, rest |-> "a"],
    [fwd |-> TRUE,  proxies |-> {Net(4, 0, 1), Net(6, 3, 2)}, rest |-> "a"],
    [fwd |-> TRUE,  proxies |-> {Net(4, 3, 0), Net(6, 1, 2)}, rest |-> "b"],
    [fwd |-> TRUE,  proxies |-> {Net(0, 0, 0)}, rest |-> "a"]}

\* The target is an IPv4 address.
MCHop == [fam |-> 4, addr |-> 1]
=============================================================================
