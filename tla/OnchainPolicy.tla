---------------------------- MODULE OnchainPolicy ----------------------------
(***************************************************************************)
(* What the on-chain path decides about one proposed Safe transaction:     *)
(* SafeAdapter.decode and policy.evaluate.  Calldata is abstracted to the  *)
(* fields a static decode can read: its selector, whether both argument    *)
(* words are there, and the two arguments.                                 *)
(***************************************************************************)
EXTENDS Integers

CONSTANTS
    Addresses,      \* Ethereum addresses, compared without case
    Safe,           \* the account the co-signer signs for
    Pinned,         \* the token allowlist: the one attested token
    Spenders,       \* approve_spender_allowlist
    ApprovalCap,
    ReviewAbove     \* review_above; equal to ApprovalCap when absent

ASSUME OnchainPolicyAssumption ==
    /\ Safe \in Addresses
    /\ Pinned \subseteq Addresses
    /\ Spenders \subseteq Addresses
    /\ ApprovalCap \in Nat
    /\ ReviewAbove \in Nat

SafeCall == [to: Addresses, value: Nat, operation: {"call", "delegatecall"},
             selector: {"approve", "transfer", "other", "none"},
             args: BOOLEAN, counterparty: Addresses, amount: Nat]

TokenKinds == {"erc20_approval", "erc20_transfer"}

\* SafeAdapter.decode: the operation and a self-call outrank the calldata.
WrongKind(call) ==
    IF call.to = Safe                                 THEN "self_administration"
    ELSE IF call.selector = "approve"                 THEN "erc20_approval"
    ELSE IF call.selector = "transfer"                THEN "erc20_transfer"
    ELSE "unrecognised"

Kind(call) ==
    IF call.operation = "delegatecall"                THEN "delegatecall"
    ELSE IF call.to = Safe                            THEN "self_administration"
    ELSE IF call.selector = "approve" /\ call.args    THEN "erc20_approval"
    ELSE IF call.selector = "transfer" /\ call.args   THEN "erc20_transfer"
    ELSE "unrecognised"

\* OnchainVerdict, by strictness; ABSTAIN is the only verdict that signs.
ABSTAIN == 0
REVIEW  == 1
DENY    == 2
Verdicts == {ABSTAIN, REVIEW, DENY}

\* policy.evaluate.  A decoded token operation always has an amount, so the
\* branches for an undetermined one cannot be reached.
Judge(call) ==
    IF \/ call.value > 0
       \/ Kind(call) \notin TokenKinds
       \/ call.to \notin Pinned
       \/ call.amount > ApprovalCap
       \/ Kind(call) = "erc20_approval" /\ call.counterparty \notin Spenders
    THEN DENY
    ELSE IF call.amount > ReviewAbove THEN REVIEW
    ELSE ABSTAIN
=============================================================================
