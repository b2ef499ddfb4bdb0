------------------------------- MODULE MCChannels -------------------------------
(***************************************************************************)
(* A small instance of Channels for TLC: two principals, two authorities   *)
(* and every leaf of one of them; one channel setting in every way, the    *)
(* other in the ways that let the process get further.                     *)
(***************************************************************************)
EXTENDS Channels, Integers

MCUris        == {"maker", "checker"}
MCAuthorities == {"agentCA", "approverCA"}

Setting(bind, tls, ca, allowlist) ==
    [bind |-> bind, tls |-> tls, client_ca |-> ca, allowlist |-> allowlist]

Unset == Setting("none", "none", {}, {})

\* Channels that would start alone, and those same with a key that does not load.
Fit == {Setting("remote", tls, ca, allowed) :
            tls \in {"whole", "garbage"},
            ca \in SUBSET MCAuthorities \ {{}}, allowed \in SUBSET MCUris \ {{}}}

Any == {s \in Settings : Cardinality(s.allowlist) <= 1 /\ Cardinality(s.client_ca) <= 1}

MCEnvironments ==
    [unknown: {FALSE}, rail: BOOLEAN, agent: Fit \cup {Unset}, approver: Fit \cup {Unset}]
    \cup [unknown: {FALSE}, rail: {TRUE}, agent: Any,
          approver: {Unset, Setting("remote", "whole", {"approverCA"}, {"checker"})}]
    \cup [unknown: BOOLEAN, rail: {TRUE}, approver: Any,
          agent: {Unset, Setting("remote", "whole", {"agentCA"}, {"maker"})}]

MCCertificates == Leaf
=============================================================================
