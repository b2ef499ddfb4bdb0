---------------------------- MODULE OneCosignature ----------------------------
(***************************************************************************)
(* What the co-signer promises about a transaction, with no threads, no    *)
(* chain and no stores: a transaction of no concern may be co-signed by    *)
(* the machine; one that needs a human is co-signed at most once, on one   *)
(* approval of one open review, and an approval that was spent is spent    *)
(* even if its signature never left.  Nothing else is ever co-signed.      *)
(***************************************************************************)
CONSTANTS
    Transactions,
    ByMachine,   \* the transactions the machine may co-sign
    ByHuman      \* the transactions that need an approval

VARIABLES
    review,   \* transaction -> its review
    signed    \* the transactions whose co-signature was returned

vars == <<review, signed>>

Init ==
    /\ review = [tx \in Transactions |-> "none"]
    /\ signed = {}

Moves(tx, from, to) ==
    /\ tx \in ByHuman
    /\ review[tx] = from
    /\ review' = [review EXCEPT ![tx] = to]

Returned(tx) == signed' = signed \cup {tx}

Sign(tx) ==
    /\ tx \in ByMachine
    /\ Returned(tx)
    /\ UNCHANGED review

Hold(tx) == Moves(tx, "none", "open") /\ UNCHANGED signed

\* A decline or an expiry: the transaction may be proposed again.
Close(tx) == Moves(tx, "open", "none") /\ UNCHANGED signed

\* The one approval, and the signature it stands for, unless it is withheld.
Approve(tx) == Moves(tx, "open", "spent") /\ (Returned(tx) \/ UNCHANGED signed)

Next == \E tx \in Transactions : Sign(tx) \/ Hold(tx) \/ Close(tx) \/ Approve(tx)

Spec == Init /\ [][Next]_vars
=============================================================================
