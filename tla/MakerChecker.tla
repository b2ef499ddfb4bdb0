----------------------------- MODULE MakerChecker -----------------------------
(***************************************************************************)
(* MakerChecker.consume: what a checker's answer to a held review amounts  *)
(* to.  The set of consumed approvals belongs to the component that holds  *)
(* the reviews: AuthorizationService for payments, OnchainCosigner for     *)
(* Safe transactions.                                                      *)
(***************************************************************************)
EXTENDS Integers

\* A Wrong... operator is a plausible mistake in the definition after it.
WrongConsumeUnbound(approval, shown, self, approved, burnt, now) ==
    IF burnt                         THEN "already_consumed"
    ELSE IF now >= approval.expires  THEN "expired"
    ELSE IF self                     THEN "self_approval"
    ELSE IF ~approved                THEN "not_approved"
    ELSE "granted"

WrongConsumeLate(approval, shown, self, approved, burnt, now) ==
    IF burnt                         THEN "already_consumed"
    ELSE IF shown # approval.proposal THEN "digest_mismatch"
    ELSE IF self                     THEN "self_approval"
    ELSE IF ~approved                THEN "not_approved"
    ELSE "granted"

\* The first matching check wins.  `shown` is the proposal the checker was
\* shown, `self` says that the checker is the maker, `burnt` that the one-shot
\* is spent.  A payment's answer is resolved under its own approval id, and a
\* Safe transaction's id is its digest, so wrong_approval and digest_mismatch
\* are one case.
ConsumeResult(approval, shown, self, approved, burnt, now) ==
    IF burnt                         THEN "already_consumed"
    ELSE IF now >= approval.expires  THEN "expired"
    ELSE IF shown # approval.proposal THEN "digest_mismatch"
    ELSE IF self                     THEN "self_approval"
    ELSE IF ~approved                THEN "not_approved"
    ELSE "granted"

\* A decline and an expiry settle the review; any other rejection means that
\* the answer was wrong, not the review.
TerminalRejections == {"not_approved", "expired"}
=============================================================================
