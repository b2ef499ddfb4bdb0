--------------------------- MODULE MCOnchainCosigner ---------------------------
(***************************************************************************)
(* Small instances of OnchainCosigner for TLC.  The cap is 3 and the       *)
(* review band starts above 1.                                             *)
(***************************************************************************)
EXTENDS OnchainCosigner, TLC

MCAddresses == {"safe", "token", "vouched", "stranger"}
MCPinned    == {"token"}
MCSpenders  == {"vouched"}

Call(to, selector, party, amount) ==
    [to |-> to, value |-> 0, operation |-> "call", selector |-> selector,
     args |-> TRUE, counterparty |-> party, amount |-> amount]

Small  == Call("token", "approve", "vouched", 1)
Band   == Call("token", "transfer", "stranger", 2)

\* A call the policy denies, whose calldata alone it would not.
Delegated == [Small EXCEPT !.operation = "delegatecall"]

\* A transaction in the review band, one that advances the nonce, and one that
\* is denied.
ReviewCalls == {Small, Band, Delegated}

\* The chain as attested, and one that leaves it by the Safe or by the token.
EitherDrifts == {<<FALSE, FALSE>>, <<TRUE, FALSE>>, <<FALSE, TRUE>>}

Symmetry == Permutations(Workers) \cup Permutations(Principals)
=============================================================================
