--------------------------- MODULE OnchainCosigner ---------------------------
(***************************************************************************)
(* The co-signer of a 2-of-2 Safe: OnchainCosigner.cosign and .resolve,    *)
(* called by the handler threads, against a chain that moves under them.   *)
(*                                                                         *)
(* Both calls first read the Safe and then the pinned token from the       *)
(* chain.  `cosign` does so without a lock, so two proposals interleave    *)
(* with each other, with an answer and with the chain; `resolve` holds the *)
(* lock from its look-up to its end, the chain reads included.  A request  *)
(* is therefore two steps: one that reads the Safe, and one that reads the *)
(* token and does the rest.  The managed agent, the account's other owner, *)
(* signs whatever it likes, so a released co-signature is a transaction    *)
(* the Safe will execute while its nonce is current.                       *)
(*                                                                         *)
(* A chain read may raise at any time.  A receipt write may raise when     *)
(* AuditMayFail and sign_hash when SignerMayFail: the exception leaves     *)
(* what was done before it, and no signature is returned.                  *)
(***************************************************************************)
EXTENDS OnchainPolicy, MakerChecker

CONSTANTS
    Workers,         \* handler threads
    Calls,           \* Safe transactions the agents may propose
    Principals,      \* makers and checkers
    Drifts,          \* how far the Safe and the token may drift: <<safe, token>>
    ReviewTTL,
    AuditMayFail,
    SignerMayFail,
    MaxClock,        \* bound on time
    MaxNonce,        \* bound on the Safe's nonce: no proposal is made at it
    Idle, Free       \* a thread with no request; the lock with no holder

\* safe_transaction_hash: the transaction hash covers the call and the nonce.
Transactions == [call: Calls, nonce: 0..(MaxNonce - 1)]

CosignCall  == [verb: {"cosign"}, call: Calls, proposer: Principals,
                now: 0..MaxClock, nonce: 0..(MaxNonce - 1), drift: BOOLEAN]
ResolveCall == [verb: {"resolve"}, tx: Transactions, shown: Transactions,
                checker: Principals, approved: BOOLEAN, now: 0..MaxClock]
ReadCall    == [verb: {"recheck"}, tx: Transactions, shown: Transactions,
                checker: Principals, approved: BOOLEAN, now: 0..MaxClock,
                nonce: 0..MaxNonce, drift: BOOLEAN]

ASSUME OnchainCosignerAssumption ==
    /\ Calls \subseteq SafeCall
    /\ Drifts \subseteq BOOLEAN \X BOOLEAN
    /\ ReviewTTL \in Nat \ {0}
    /\ AuditMayFail \in BOOLEAN
    /\ SignerMayFail \in BOOLEAN
    /\ MaxClock \in Nat
    /\ MaxNonce \in Nat \ {0}
    /\ Idle \notin CosignCall \cup ResolveCall \cup ReadCall
    /\ Free \notin Workers

VARIABLES
    clock,          \* the wall clock callers stamp `now` from
    nonce,          \* the Safe's nonce, on chain
    safeDrift,      \* whether the Safe's configuration left the attested one
    tokenDrift,     \* whether the pinned token's code left the attested one
    handler,        \* worker -> the request it handles, or Idle
    lock,           \* _lock
    pending,        \* _pending: transaction -> the held review
    settled,        \* _settled
    consumed,       \* MakerChecker._consumed
    receipts,       \* the receipts in the audit sink
    signed,         \* history: transactions whose co-signature was returned
    withheld        \* history: transactions whose signer, or receipt, raised

chain  == <<nonce, safeDrift, tokenDrift>>
stores == <<pending, settled, consumed, receipts>>
vars   == <<clock, chain, handler, lock, stores, signed, withheld>>

\* _HeldReview and its PendingApproval; the held nonce is the transaction's.
Review  == [proposal: Transactions, maker: Principals, expires: Nat]
Receipt == [tx: Transactions, verdict: Verdicts]

-----------------------------------------------------------------------------
Init ==
    /\ clock = 0
    /\ nonce = 0
    /\ safeDrift = FALSE
    /\ tokenDrift = FALSE
    /\ handler = [w \in Workers |-> Idle]
    /\ lock = Free
    /\ pending = << >>
    /\ settled = {}
    /\ consumed = {}
    /\ receipts = {}
    /\ signed = {}
    /\ withheld = {}

Ends(w) == handler' = [handler EXCEPT ![w] = Idle]

\* _record: the receipt is written, or its write raises.
Records(tx, verdict) ==
    \/ receipts' = receipts \cup {[tx |-> tx, verdict |-> verdict]}
    \/ AuditMayFail /\ UNCHANGED receipts

\* _sign and then _record: an exception of either withholds the signature.
\* As in MakerChecker, a Wrong... operator is a plausible mistake.
WrongSigns(tx) ==
    /\ signed' = signed \cup {tx}
    /\ Records(tx, ABSTAIN)
    /\ UNCHANGED withheld

Signs(tx) ==
    \/ /\ signed' = signed \cup {tx}
       /\ receipts' = receipts \cup {[tx |-> tx, verdict |-> ABSTAIN]}
       /\ UNCHANGED withheld
    \/ /\ AuditMayFail \/ SignerMayFail
       /\ withheld' = withheld \cup {tx}
       /\ UNCHANGED <<signed, receipts>>

Remove(tx) == pending' = [x \in DOMAIN pending \ {tx} |-> pending[x]]

-----------------------------------------------------------------------------
\* cosign.

\* The caller stamps `now`; the Safe's live nonce and configuration are read.
Proposes(w, call, proposer) ==
    /\ handler[w] = Idle
    /\ nonce < MaxNonce
    /\ handler' = [handler EXCEPT ![w] =
           [verb |-> "cosign", call |-> call, proposer |-> proposer,
            now |-> clock, nonce |-> nonce, drift |-> safeDrift]]
    /\ UNCHANGED <<clock, chain, lock, stores, signed, withheld>>

\* The hash is built over the nonce that was read, whatever it is by now.
Proposed(w) == [call |-> handler[w].call, nonce |-> handler[w].nonce]

\* A cosign that judges: the token was read and nothing has drifted.
Judged(w, verdict) ==
    /\ handler[w] # Idle
    /\ handler[w].verb = "cosign"
    /\ ~handler[w].drift
    /\ ~tokenDrift
    /\ Judge(handler[w].call) = verdict
    /\ Ends(w)

CosignDrifted(w) ==
    /\ handler[w] # Idle
    /\ handler[w].verb = "cosign"
    /\ handler[w].drift \/ tokenDrift
    /\ Ends(w)
    /\ Records(Proposed(w), DENY)
    /\ UNCHANGED <<clock, chain, lock, pending, settled, consumed, signed, withheld>>

CosignDenied(w) ==
    /\ Judged(w, DENY)
    /\ Records(Proposed(w), DENY)
    /\ UNCHANGED <<clock, chain, lock, pending, settled, consumed, signed, withheld>>

CosignSigned(w) ==
    /\ Judged(w, ABSTAIN)
    /\ Signs(Proposed(w))
    /\ UNCHANGED <<clock, chain, lock, pending, settled, consumed>>

\* _hold, atomic under the lock.  Already signed: its one-shot is burnt.
WrongAlreadySettled(tx) == FALSE
AlreadySettled(tx) == tx \in settled

HoldRefused(w) ==
    /\ lock = Free
    /\ Judged(w, REVIEW)
    /\ AlreadySettled(Proposed(w))
    /\ UNCHANGED <<clock, chain, lock, stores, signed, withheld>>

\* Already held: the live review is returned, its expiry and maker unchanged.
HoldExisting(w) ==
    /\ lock = Free
    /\ Judged(w, REVIEW)
    /\ ~AlreadySettled(Proposed(w))
    /\ Proposed(w) \in DOMAIN pending
    /\ UNCHANGED <<clock, chain, lock, stores, signed, withheld>>

NewReview(w) == [proposal |-> Proposed(w), maker |-> handler[w].proposer,
                 expires |-> handler[w].now + ReviewTTL]

\* A new review is parked before its receipt is written.
HoldNew(w) ==
    LET tx == Proposed(w)
    IN  /\ lock = Free
        /\ Judged(w, REVIEW)
        /\ ~AlreadySettled(tx)
        /\ tx \notin DOMAIN pending
        /\ pending' = [x \in DOMAIN pending \cup {tx} |->
                          IF x = tx THEN NewReview(w) ELSE pending[x]]
        /\ Records(tx, REVIEW)
        /\ UNCHANGED <<clock, chain, lock, settled, consumed, signed, withheld>>

-----------------------------------------------------------------------------
\* resolve.

\* A checker answers a review it was shown open; by the time the answer has the
\* lock the review may be gone, and the answer may be about another one.
Answers(w, tx, shown, checker, approved) ==
    /\ handler[w] = Idle
    /\ handler' = [handler EXCEPT ![w] =
           [verb |-> "resolve", tx |-> tx, shown |-> shown, checker |-> checker,
            approved |-> approved, now |-> clock]]
    /\ UNCHANGED <<clock, chain, lock, stores, signed, withheld>>

ResolveUnknown(w) ==
    /\ handler[w] # Idle
    /\ handler[w].verb = "resolve"
    /\ lock = Free
    /\ handler[w].tx \notin DOMAIN pending
    /\ Ends(w)
    /\ UNCHANGED <<clock, chain, lock, stores, signed, withheld>>

\* The review is held: take the lock and read the Safe.
ResolveReads(w) ==
    LET r == handler[w]
    IN  /\ r # Idle
        /\ r.verb = "resolve"
        /\ lock = Free
        /\ r.tx \in DOMAIN pending
        /\ lock' = w
        /\ handler' = [handler EXCEPT ![w] =
               [verb |-> "recheck", tx |-> r.tx, shown |-> r.shown,
                checker |-> r.checker, approved |-> r.approved, now |-> r.now,
                nonce |-> nonce, drift |-> safeDrift]]
        /\ UNCHANGED <<clock, chain, stores, signed, withheld>>

\* The token is read too: the chain still matches, or it moved.
WrongFits(w) == ~(handler[w].drift \/ tokenDrift)
Fits(w) == /\ ~handler[w].drift
           /\ ~tokenDrift
           /\ handler[w].nonce = handler[w].tx.nonce

Consumes(w) ==
    LET r == handler[w]
    IN  ConsumeResult(pending[r.tx], r.shown, r.checker = pending[r.tx].maker,
                      r.approved, r.tx \in consumed, r.now)

\* The section that took the lock in ResolveReads ends and releases it.
Rechecks(w) ==
    /\ lock = w
    /\ Ends(w)
    /\ lock' = Free

\* A mistake: the answer is consumed before the chain is checked.
WrongResolveStale(w) ==
    /\ Rechecks(w)
    /\ ~Fits(w)
    /\ Records(handler[w].tx, DENY)
    /\ consumed' = IF Consumes(w) = "granted" THEN consumed \cup {handler[w].tx}
                   ELSE consumed
    /\ UNCHANGED <<clock, chain, pending, settled, signed, withheld>>

\* The chain moved: recorded, and the human's answer is not consumed.
ResolveStale(w) ==
    /\ Rechecks(w)
    /\ ~Fits(w)
    /\ Records(handler[w].tx, DENY)
    /\ UNCHANGED <<clock, chain, pending, settled, consumed, signed, withheld>>

ResolveMisdirected(w) ==
    /\ Rechecks(w)
    /\ Fits(w)
    /\ Consumes(w) \notin TerminalRejections \cup {"granted"}
    /\ UNCHANGED <<clock, chain, stores, signed, withheld>>

\* A decline or an expiry leaves the queue before its receipt is written.
ResolveEnded(w) ==
    /\ Rechecks(w)
    /\ Fits(w)
    /\ Consumes(w) \in TerminalRejections
    /\ Remove(handler[w].tx)
    /\ Records(handler[w].tx, DENY)
    /\ UNCHANGED <<clock, chain, settled, consumed, signed, withheld>>

\* The one-shot is spent and the review settled before the signature.
ResolveSigned(w) ==
    /\ Rechecks(w)
    /\ Fits(w)
    /\ Consumes(w) = "granted"
    /\ consumed' = consumed \cup {handler[w].tx}
    /\ Remove(handler[w].tx)
    /\ settled' = settled \cup {handler[w].tx}
    /\ Signs(handler[w].tx)
    /\ UNCHANGED <<clock, chain>>

-----------------------------------------------------------------------------
\* A chain read raises: the request ends, and gives the lock back if it has it.
ReaderRaises(w) ==
    /\ handler[w] # Idle
    /\ \/ handler[w].verb = "cosign" /\ UNCHANGED lock
       \/ lock = w /\ lock' = Free
    /\ Ends(w)
    /\ UNCHANGED <<clock, chain, stores, signed, withheld>>

\* The Safe executes a transaction both owners signed, at its current nonce.
SafeExecutes ==
    /\ \E tx \in signed : tx.nonce = nonce
    /\ nonce' = nonce + 1
    /\ UNCHANGED <<clock, safeDrift, tokenDrift, handler, lock, stores, signed, withheld>>

\* Owners, guards or the token's implementation change, or change back.
ChainDrifts ==
    /\ \E d \in Drifts : safeDrift' = d[1] /\ tokenDrift' = d[2]
    /\ UNCHANGED <<clock, nonce, handler, lock, stores, signed, withheld>>

Tick ==
    /\ clock < MaxClock
    /\ clock' = clock + 1
    /\ UNCHANGED <<chain, handler, lock, stores, signed, withheld>>

Arrives(w) ==
    \/ \E call \in Calls, p \in Principals : Proposes(w, call, p)
    \/ \E tx, shown \in DOMAIN pending, p \in Principals, approved \in BOOLEAN :
          Answers(w, tx, shown, p, approved)

Cosigns(w) ==
    \/ CosignDrifted(w) \/ CosignDenied(w) \/ CosignSigned(w)
    \/ HoldRefused(w) \/ HoldExisting(w) \/ HoldNew(w)

Resolves(w) ==
    \/ ResolveUnknown(w) \/ ResolveReads(w) \/ ResolveStale(w)
    \/ ResolveMisdirected(w) \/ ResolveEnded(w) \/ ResolveSigned(w)

Next ==
    \/ Tick
    \/ SafeExecutes
    \/ ChainDrifts
    \/ \E w \in Workers : Arrives(w) \/ Cosigns(w) \/ Resolves(w) \/ ReaderRaises(w)

Spec == Init /\ [][Next]_vars

-----------------------------------------------------------------------------
\* Invariants.

\* Every variable holds what the code's types allow.
TypeOK ==
    /\ clock \in 0..MaxClock
    /\ nonce \in 0..MaxNonce
    /\ safeDrift \in BOOLEAN
    /\ tokenDrift \in BOOLEAN
    /\ handler \in [Workers -> {Idle} \cup CosignCall \cup ResolveCall \cup ReadCall]
    /\ lock \in {Free} \cup Workers
    /\ DOMAIN pending \subseteq Transactions
    /\ \A tx \in DOMAIN pending : pending[tx] \in Review
    /\ settled \subseteq Transactions
    /\ consumed \subseteq Transactions
    /\ receipts \subseteq Receipt
    /\ signed \subseteq Transactions
    /\ withheld \subseteq Transactions

\* No co-signature exists for anything but a plain call that moves or allows at
\* most the cap of the pinned token, to an allowed spender if it is an approval,
\* and above the review threshold a checker's one-shot was spent on that very
\* transaction.
SignedIsBounded ==
    \A tx \in signed :
        /\ tx.call.operation = "call" /\ tx.call.value = 0
        /\ tx.call.to \in Pinned \ {Safe}
        /\ tx.call.amount <= ApprovalCap
        /\ \/ tx.call.selector = "transfer"
           \/ tx.call.selector = "approve" /\ tx.call.counterparty \in Spenders
        /\ tx.call.amount > ReviewAbove => tx \in consumed

\* "a co-signature that moved value is never trailless": whatever the sink does,
\* a signature the agent holds has its receipt.
SignedIsRecorded ==
    \A tx \in signed : [tx |-> tx, verdict |-> ABSTAIN] \in receipts

\* No review is open that "no checker could ever answer": the one-shot of a held
\* review is never burnt, although proposals race with the answer to an earlier
\* hold of the same transaction.
ReviewsAreAnswerable == DOMAIN pending \cap (consumed \cup settled) = {}

\* "without burning the human's answer": a one-shot is spent only on a signature
\* that was returned, or withheld because signer or sink raised; a chain that
\* moved, an answer that does not fit or a race with a proposal spends none.
BurntMeansSigned == consumed \subseteq signed \cup withheld

-----------------------------------------------------------------------------
\* Action properties.

\* A transaction in the review band is signed only in a section that holds the
\* lock, for a principal other than the maker, who approved this very
\* transaction in time under an unspent one-shot, with the Safe as attested and
\* at the transaction's nonce when it was read.
SignatureIsApproved ==
    [][\A tx \in Transactions :
         Judge(tx.call) = REVIEW /\ tx \in signed' \ signed =>
            \E w \in Workers :
                /\ lock = w
                /\ handler[w].tx = tx /\ handler[w].shown = tx
                /\ handler[w].approved
                /\ tx \in DOMAIN pending /\ tx \notin consumed
                /\ handler[w].checker # pending[tx].maker
                /\ handler[w].now < pending[tx].expires
                /\ handler[w].nonce = tx.nonce
                /\ ~handler[w].drift /\ ~tokenDrift]_vars

\* A held review keeps its maker and its expiry however often it is proposed
\* again, and it leaves the queue only through an answer about it that was
\* taken while the chain was still the one it was held for.
HeldReviewIsKept ==
    [][\A tx \in DOMAIN pending :
         \/ tx \in DOMAIN pending' /\ pending'[tx] = pending[tx]
         \/ /\ tx \notin DOMAIN pending'
            /\ \E w \in Workers :
                  /\ lock = w
                  /\ handler[w].tx = tx
                  /\ handler[w].nonce = tx.nonce
                  /\ ~handler[w].drift /\ ~tokenDrift
                  /\ \/ handler[w].now >= pending[tx].expires
                     \/ /\ handler[w].shown = tx
                        /\ handler[w].checker # pending[tx].maker]_vars

-----------------------------------------------------------------------------
\* Refinement: threads that race with each other, with the checkers and with the
\* chain implement the one co-signature that is promised.

ReviewOf(tx) == IF tx \in DOMAIN pending THEN "open"
                ELSE IF tx \in settled THEN "spent"
                ELSE "none"

Promise == INSTANCE OneCosignature WITH
    ByMachine <- {tx \in Transactions : Judge(tx.call) = ABSTAIN},
    ByHuman   <- {tx \in Transactions : Judge(tx.call) = REVIEW},
    review    <- [tx \in Transactions |-> ReviewOf(tx)]

\* Every behaviour of the co-signer is a behaviour of OneCosignature: above the
\* threshold one approval is spent once, on one signature at most, and a settled
\* transaction is never held again, although proposals do not take the lock.
ImplementsOneCosignature == Promise!Spec
=============================================================================
