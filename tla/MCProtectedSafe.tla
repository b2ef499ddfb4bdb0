---------------------------- MODULE MCProtectedSafe ----------------------------
(***************************************************************************)
(* Small instances of ProtectedSafe for TLC.  The policy's token and       *)
(* spender are there for the co-signer to judge by.                        *)
(***************************************************************************)
EXTENDS ProtectedSafe

MCAddresses == {"safe", "controller", "token", "vouched"}
MCPinned    == {"token"}
MCSpenders  == {"vouched"}
MCKeys      == {"agent", "cosigner", "spare"}
=============================================================================
