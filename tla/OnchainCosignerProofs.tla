------------------------ MODULE OnchainCosignerProofs ------------------------
(***************************************************************************)
(* What TLAPS proves of OnchainCosigner for every set of threads, callers  *)
(* and calls, every cap and threshold, and every way the chain, the audit  *)
(* sink and the signer may fail.                                           *)
(***************************************************************************)
EXTENDS OnchainCosigner, TLAPS

USE OnchainPolicyAssumption, OnchainCosignerAssumption

-----------------------------------------------------------------------------
\* The inductive invariant.

\* A held review is about the transaction it is held under, in the review band.
ReviewsMatch ==
    \A tx \in DOMAIN pending :
        pending[tx].proposal = tx /\ Judge(tx.call) = REVIEW

\* A request that re-reads the chain holds the lock, and its review is held.
RechecksHoldLock ==
    \A w \in Workers :
        handler[w] # Idle /\ handler[w].verb = "recheck" =>
            lock = w /\ handler[w].tx \in DOMAIN pending

\* The lock is held by nothing but such a request.
LockHolder ==
    lock # Free => handler[lock] # Idle /\ handler[lock].verb = "recheck"

\* A one-shot is burnt exactly when the review is settled.
BurntIsSettled == consumed = settled

\* A signature is for a call without concern, or for an approved one.
SignedIsJudged ==
    \A tx \in signed :
        \/ Judge(tx.call) = ABSTAIN
        \/ Judge(tx.call) = REVIEW /\ tx \in consumed

CosignerInv ==
    /\ TypeOK
    /\ ReviewsMatch
    /\ RechecksHoldLock
    /\ LockHolder
    /\ BurntIsSettled
    /\ SignedIsJudged
    /\ SignedIsRecorded
    /\ ReviewsAreAnswerable

-----------------------------------------------------------------------------
\* The data.

\* What policy.evaluate lets through: the bounds of SignedIsBounded.
LEMMA JudgeBounds ==
    ASSUME NEW call \in SafeCall, Judge(call) # DENY
    PROVE  /\ call.operation = "call" /\ call.value = 0
           /\ call.to \in Pinned \ {Safe}
           /\ call.amount <= ApprovalCap
           /\ \/ call.selector = "transfer"
              \/ call.selector = "approve" /\ call.counterparty \in Spenders
           /\ call.amount > ReviewAbove => Judge(call) = REVIEW
  <1>1. /\ ~(call.value > 0) /\ Kind(call) \in TokenKinds /\ call.to \in Pinned
        /\ ~(call.amount > ApprovalCap)
        /\ ~(Kind(call) = "erc20_approval" /\ call.counterparty \notin Spenders)
        /\ call.amount > ReviewAbove => Judge(call) = REVIEW
    BY DEF Judge
  <1>2. call.value \in Nat /\ call.amount \in Nat /\ call.operation \in {"call", "delegatecall"}
    BY DEF SafeCall
  <1>3. /\ call.operation = "call" /\ call.to # Safe
        /\ \/ Kind(call) = "erc20_approval" /\ call.selector = "approve"
           \/ call.selector = "transfer"
    BY <1>1, <1>2 DEF Kind, TokenKinds
  <1> QED BY <1>1, <1>2, <1>3

\* The policy's answer is a verdict, and the three are distinct.
LEMMA JudgeType ==
    ASSUME NEW call
    PROVE  Judge(call) \in Verdicts
  BY DEF Judge, Verdicts

\* A request is told by its verb.
LEMMA CallByVerb ==
    ASSUME TypeOK, NEW w \in Workers, handler[w] # Idle
    PROVE  /\ handler[w].verb = "cosign" => handler[w] \in CosignCall
           /\ handler[w].verb = "resolve" => handler[w] \in ResolveCall
           /\ handler[w].verb = "recheck" => handler[w] \in ReadCall
           /\ handler[w].verb \in {"cosign", "resolve", "recheck"}
  BY DEF TypeOK, CosignCall, ResolveCall, ReadCall

\* The hash of what a thread is asked to co-sign is that of a transaction.
LEMMA ProposedType ==
    ASSUME TypeOK, NEW w \in Workers, handler[w] # Idle, handler[w].verb = "cosign"
    PROVE  Proposed(w) \in Transactions
  BY CallByVerb DEF CosignCall, Proposed, Transactions

-----------------------------------------------------------------------------
\* The invariant, one lemma per part of Next.

\* Nothing a request does as it arrives disturbs the invariant.
LEMMA ArrivalKeeps ==
    ASSUME CosignerInv, NEW w \in Workers, Arrives(w)
    PROVE  CosignerInv'
  <1> USE DEF CosignerInv
  <1>1. /\ UNCHANGED <<clock, chain, lock, stores, signed, withheld>>
        /\ \E r \in CosignCall \cup ResolveCall : handler' = [handler EXCEPT ![w] = r]
        /\ handler[w] = Idle
    <2>1. ASSUME NEW call \in Calls, NEW p \in Principals, Proposes(w, call, p)
          PROVE  \E r \in CosignCall : handler' = [handler EXCEPT ![w] = r]
      <3>1. nonce \in 0..(MaxNonce - 1) /\ clock \in 0..MaxClock /\ safeDrift \in BOOLEAN
        BY <2>1 DEF Proposes, TypeOK
      <3>2. [verb |-> "cosign", call |-> call, proposer |-> p, now |-> clock,
             nonce |-> nonce, drift |-> safeDrift] \in CosignCall
        BY <3>1 DEF CosignCall
      <3> QED BY <2>1, <3>2 DEF Proposes
    <2>2. ASSUME NEW tx \in DOMAIN pending, NEW shown \in DOMAIN pending,
                 NEW p \in Principals, NEW approved \in BOOLEAN,
                 Answers(w, tx, shown, p, approved)
          PROVE  \E r \in ResolveCall : handler' = [handler EXCEPT ![w] = r]
      <3>1. [verb |-> "resolve", tx |-> tx, shown |-> shown, checker |-> p,
             approved |-> approved, now |-> clock] \in ResolveCall
        BY DEF ResolveCall, TypeOK
      <3> QED BY <2>2, <3>1 DEF Answers
    <2> QED BY <2>1, <2>2 DEF Arrives, Proposes, Answers
  <1>2. PICK r \in CosignCall \cup ResolveCall : handler' = [handler EXCEPT ![w] = r]
    BY <1>1
  <1>3. TypeOK'
    BY <1>1, <1>2 DEF TypeOK, chain, stores
  <1>4. r.verb # "recheck"
    BY DEF CosignCall, ResolveCall
  <1>5. RechecksHoldLock' /\ LockHolder'
    <2>1. lock # Free => lock \in Workers /\ lock # w
      BY <1>1 DEF LockHolder, TypeOK
    <2> QED BY <1>1, <1>2, <1>4, <2>1
            DEF RechecksHoldLock, LockHolder, TypeOK, stores
  <1>6. /\ ReviewsMatch' /\ BurntIsSettled' /\ SignedIsJudged'
        /\ SignedIsRecorded' /\ ReviewsAreAnswerable'
    BY <1>1 DEF ReviewsMatch, BurntIsSettled, SignedIsJudged, SignedIsRecorded,
                ReviewsAreAnswerable, stores
  <1> QED BY <1>3, <1>5, <1>6

\* A thread that ends a proposal leaves the lock as it is; the lock's part of
\* the invariant holds on, and so do the types of the handlers.
LEMMA ProposalEnds ==
    ASSUME CosignerInv, NEW w \in Workers, Ends(w), UNCHANGED lock,
           handler[w] # Idle, handler[w].verb = "cosign",
           DOMAIN pending \subseteq DOMAIN pending'
    PROVE  /\ RechecksHoldLock' /\ LockHolder'
           /\ handler' \in [Workers -> {Idle} \cup CosignCall \cup ResolveCall \cup ReadCall]
  <1> USE DEF CosignerInv
  <1>1. lock # Free => lock \in Workers /\ lock # w
    BY DEF LockHolder, TypeOK
  <1> QED BY <1>1 DEF Ends, RechecksHoldLock, LockHolder, TypeOK

\* Whatever becomes of its write, a receipt of a verdict is well typed and
\* takes none away.
LEMMA RecordTypes ==
    ASSUME TypeOK, NEW tx \in Transactions, NEW verdict \in Verdicts,
           Records(tx, verdict)
    PROVE  receipts' \subseteq Receipt /\ receipts \subseteq receipts'
  <1>1. [tx |-> tx, verdict |-> verdict] \in Receipt
    BY DEF Receipt
  <1> QED BY <1>1 DEF Records, TypeOK

\* Signing keeps the types and never leaves a signature without its receipt.
LEMMA SignKeeps ==
    ASSUME TypeOK, SignedIsRecorded, NEW tx \in Transactions, Signs(tx)
    PROVE  /\ receipts' \subseteq Receipt
           /\ signed' \subseteq Transactions
           /\ signed' \subseteq signed \cup {tx}
           /\ withheld' \subseteq Transactions
           /\ SignedIsRecorded'
  <1>1. [tx |-> tx, verdict |-> ABSTAIN] \in Receipt
    BY DEF Receipt, Verdicts
  <1> QED BY <1>1 DEF Signs, TypeOK, SignedIsRecorded

\* Every path through cosign keeps the invariant.
LEMMA CosignKeeps ==
    ASSUME CosignerInv, NEW w \in Workers, Cosigns(w)
    PROVE  CosignerInv'
  <1> USE DEF CosignerInv
  <1> DEFINE tx == Proposed(w)
  <1>1. /\ handler[w] # Idle /\ handler[w].verb = "cosign" /\ Ends(w)
        /\ UNCHANGED <<clock, chain, lock, consumed, settled>>
    BY DEF Cosigns, CosignDrifted, CosignDenied, CosignSigned, HoldRefused,
           HoldExisting, HoldNew, Judged, stores
  <1>2. tx \in Transactions /\ tx.call = handler[w].call
    BY <1>1, ProposedType DEF Proposed
  <1> HIDE DEF tx
  <1>3. CASE CosignDrifted(w) \/ CosignDenied(w)
    <2>1. Records(tx, DENY) /\ UNCHANGED <<pending, signed, withheld>>
      BY <1>3 DEF CosignDrifted, CosignDenied, tx
    <2>2. receipts' \subseteq Receipt /\ receipts \subseteq receipts'
      BY <1>2, <2>1, RecordTypes DEF Verdicts
    <2>3. RechecksHoldLock' /\ LockHolder' /\ TypeOK'
      BY <1>1, <2>1, <2>2, ProposalEnds DEF TypeOK, chain
    <2> QED BY <1>1, <2>1, <2>2, <2>3
            DEF ReviewsMatch, BurntIsSettled, SignedIsJudged, SignedIsRecorded,
                ReviewsAreAnswerable
  <1>4. CASE CosignSigned(w)
    <2>1. Signs(tx) /\ UNCHANGED pending /\ Judge(tx.call) = ABSTAIN
      BY <1>2, <1>4 DEF CosignSigned, Judged, tx
    <2>2. /\ receipts' \subseteq Receipt /\ signed' \subseteq Transactions
          /\ signed' \subseteq signed \cup {tx} /\ SignedIsRecorded'
          /\ withheld' \subseteq Transactions
      BY <1>2, <2>1, SignKeeps
    <2>3. RechecksHoldLock' /\ LockHolder' /\ TypeOK'
      BY <1>1, <2>1, <2>2, ProposalEnds DEF TypeOK, chain
    <2>4. SignedIsJudged'
      BY <1>1, <2>1, <2>2 DEF SignedIsJudged
    <2> QED BY <1>1, <2>1, <2>2, <2>3, <2>4
            DEF ReviewsMatch, BurntIsSettled, ReviewsAreAnswerable
  <1>5. CASE HoldRefused(w) \/ HoldExisting(w)
    <2>1. UNCHANGED <<stores, signed, withheld>>
      BY <1>5 DEF HoldRefused, HoldExisting
    <2>2. RechecksHoldLock' /\ LockHolder' /\ TypeOK'
      BY <1>1, <2>1, ProposalEnds DEF TypeOK, chain, stores
    <2> QED BY <1>1, <2>1, <2>2
            DEF ReviewsMatch, BurntIsSettled, SignedIsJudged, SignedIsRecorded,
                ReviewsAreAnswerable, stores
  <1>6. CASE HoldNew(w)
    <2>1. /\ tx \notin settled
          /\ pending' = [x \in DOMAIN pending \cup {tx} |->
                            IF x = tx THEN NewReview(w) ELSE pending[x]]
          /\ Records(tx, REVIEW)
          /\ UNCHANGED <<signed, withheld>>
          /\ Judge(tx.call) = REVIEW
      BY <1>2, <1>6 DEF HoldNew, Judged, AlreadySettled, tx
    <2>2. receipts' \subseteq Receipt /\ receipts \subseteq receipts'
      BY <1>2, <2>1, RecordTypes DEF Verdicts
    <2>3. NewReview(w) \in Review /\ NewReview(w).proposal = tx
      <3>1. handler[w].proposer \in Principals /\ handler[w].now \in Nat
        BY <1>1, CallByVerb DEF CosignCall
      <3> QED BY <1>2, <3>1 DEF NewReview, Review, tx
    <2>4. /\ DOMAIN pending' = DOMAIN pending \cup {tx}
          /\ \A x \in DOMAIN pending' :
                pending'[x] = IF x = tx THEN NewReview(w) ELSE pending[x]
      BY <2>1
    <2>5. RechecksHoldLock' /\ LockHolder'
          /\ handler' \in [Workers -> {Idle} \cup CosignCall \cup ResolveCall \cup ReadCall]
      BY <1>1, <2>4, ProposalEnds
    <2>6. TypeOK'
      BY <1>1, <1>2, <2>1, <2>2, <2>3, <2>4, <2>5 DEF TypeOK, chain
    <2>7. ReviewsMatch'
      BY <2>1, <2>3, <2>4 DEF ReviewsMatch
    <2>8. ReviewsAreAnswerable'
      BY <1>1, <2>1, <2>4 DEF ReviewsAreAnswerable, BurntIsSettled
    <2> QED BY <1>1, <2>1, <2>2, <2>5, <2>6, <2>7, <2>8
            DEF BurntIsSettled, SignedIsJudged, SignedIsRecorded
  <1> QED BY <1>3, <1>4, <1>5, <1>6 DEF Cosigns

\* The section that holds the lock releases it as its request ends.
LEMMA RecheckEnds ==
    ASSUME CosignerInv, NEW w \in Workers, lock = w, Ends(w), lock' = Free
    PROVE  /\ RechecksHoldLock' /\ LockHolder'
           /\ handler[w] # Idle /\ handler[w] \in ReadCall
           /\ handler[w].tx \in DOMAIN pending
           /\ handler[w].tx \in Transactions
           /\ handler' \in [Workers -> {Idle} \cup CosignCall \cup ResolveCall \cup ReadCall]
  <1> USE DEF CosignerInv
  <1>1. lock # Free
    OBVIOUS
  <1>2. handler[w] # Idle /\ handler[w].verb = "recheck"
    BY <1>1 DEF LockHolder
  <1>3. handler[w] \in ReadCall /\ handler[w].tx \in DOMAIN pending
    BY <1>2, CallByVerb DEF RechecksHoldLock
  <1>4. RechecksHoldLock' /\ LockHolder'
    BY DEF Ends, RechecksHoldLock, LockHolder, TypeOK
  <1> QED BY <1>2, <1>3, <1>4 DEF Ends, TypeOK, ReadCall

\* What MakerChecker.consume has established when it grants, declines or expires.
LEMMA ConsumeMeaning ==
    ASSUME NEW w \in Workers, NEW tx, handler[w].tx = tx
    PROVE  /\ Consumes(w) = "granted" =>
                 /\ tx \notin consumed /\ ~(handler[w].now >= pending[tx].expires)
                 /\ handler[w].approved
           /\ Consumes(w) = "expired" => handler[w].now >= pending[tx].expires
           /\ Consumes(w) \in {"granted", "not_approved"} =>
                 /\ handler[w].shown = pending[tx].proposal
                 /\ handler[w].checker # pending[tx].maker
  BY DEF Consumes, ConsumeResult

\* A held review that leaves the queue leaves it well typed.
LEMMA RemoveTypes ==
    ASSUME TypeOK, NEW tx, Remove(tx)
    PROVE  /\ DOMAIN pending' = DOMAIN pending \ {tx}
           /\ \A x \in DOMAIN pending' : pending'[x] = pending[x]
           /\ DOMAIN pending' \subseteq Transactions
           /\ \A x \in DOMAIN pending' : pending'[x] \in Review
  BY DEF Remove, TypeOK

\* Every path through resolve keeps the invariant.
LEMMA ResolveKeeps ==
    ASSUME CosignerInv, NEW w \in Workers, Resolves(w)
    PROVE  CosignerInv'
  <1> USE DEF CosignerInv
  <1> DEFINE tx == handler[w].tx
  <1>1. CASE ResolveUnknown(w)
    <2>1. TypeOK'
      BY <1>1 DEF ResolveUnknown, Ends, TypeOK, chain, stores
    <2>2. RechecksHoldLock' /\ LockHolder'
      BY <1>1 DEF ResolveUnknown, Ends, RechecksHoldLock, LockHolder, TypeOK, stores
    <2> QED BY <1>1, <2>1, <2>2
            DEF ResolveUnknown, ReviewsMatch, BurntIsSettled, SignedIsJudged,
                SignedIsRecorded, ReviewsAreAnswerable, stores
  <1>2. CASE ResolveReads(w)
    <2> DEFINE read == [verb |-> "recheck", tx |-> tx, shown |-> handler[w].shown,
                        checker |-> handler[w].checker, approved |-> handler[w].approved,
                        now |-> handler[w].now, nonce |-> nonce, drift |-> safeDrift]
    <2>1. handler[w] \in ResolveCall /\ tx \in DOMAIN pending /\ lock = Free
          /\ handler' = [handler EXCEPT ![w] = read] /\ lock' = w
          /\ UNCHANGED <<clock, chain, stores, signed, withheld>>
      BY <1>2, CallByVerb DEF ResolveReads
    <2>2. read \in ReadCall
      BY <2>1 DEF ResolveCall, ReadCall, TypeOK
    <2>3. TypeOK'
      BY <2>1, <2>2 DEF TypeOK, chain, stores
    <2>4. read # Idle /\ read.verb = "recheck" /\ read.tx = tx
      BY <2>2
    <2> HIDE DEF read
    <2>5. handler'[w] = read /\ \A x \in Workers \ {w} : handler'[x] = handler[x]
      BY <2>1 DEF TypeOK
    <2>6. \A x \in Workers \ {w} : ~(handler[x] # Idle /\ handler[x].verb = "recheck")
      BY <2>1 DEF RechecksHoldLock
    <2>7. RechecksHoldLock' /\ LockHolder'
      BY <2>1, <2>4, <2>5, <2>6 DEF RechecksHoldLock, LockHolder, stores
    <2> QED BY <2>1, <2>3, <2>7
            DEF ReviewsMatch, BurntIsSettled, SignedIsJudged, SignedIsRecorded,
                ReviewsAreAnswerable, stores
  <1>3. CASE Rechecks(w)
    <2>1. /\ RechecksHoldLock' /\ LockHolder' /\ lock' = Free
          /\ tx \in DOMAIN pending /\ tx \in Transactions
          /\ handler' \in [Workers -> {Idle} \cup CosignCall \cup ResolveCall \cup ReadCall]
      BY <1>3, RecheckEnds DEF Rechecks
    <2>2. Judge(tx.call) = REVIEW
      BY <2>1 DEF ReviewsMatch
    <2> HIDE DEF tx
    <2>3. CASE ResolveStale(w)
      <3>1. Records(tx, DENY) /\ UNCHANGED <<clock, chain, pending, settled, consumed,
                                             signed, withheld>>
        BY <2>3 DEF ResolveStale, tx
      <3>2. receipts' \subseteq Receipt /\ receipts \subseteq receipts'
        BY <2>1, <3>1, RecordTypes DEF Verdicts
      <3> QED BY <2>1, <3>1, <3>2
              DEF TypeOK, chain, ReviewsMatch, BurntIsSettled, SignedIsJudged,
                  SignedIsRecorded, ReviewsAreAnswerable
    <2>4. CASE ResolveMisdirected(w)
      BY <2>1, <2>4
         DEF ResolveMisdirected, TypeOK, chain, stores, ReviewsMatch, BurntIsSettled,
             SignedIsJudged, SignedIsRecorded, ReviewsAreAnswerable
    <2>5. CASE ResolveEnded(w)
      <3>1. /\ Remove(tx) /\ Records(tx, DENY)
            /\ UNCHANGED <<clock, chain, settled, consumed, signed, withheld>>
        BY <2>5 DEF ResolveEnded, tx
      <3>2. receipts' \subseteq Receipt /\ receipts \subseteq receipts'
        BY <2>1, <3>1, RecordTypes DEF Verdicts
      <3>3. /\ DOMAIN pending' = DOMAIN pending \ {tx}
            /\ \A x \in DOMAIN pending' : pending'[x] = pending[x]
            /\ DOMAIN pending' \subseteq Transactions
            /\ \A x \in DOMAIN pending' : pending'[x] \in Review
        BY <3>1, RemoveTypes
      <3>4. TypeOK'
        BY <2>1, <3>1, <3>2, <3>3 DEF TypeOK, chain
      <3> QED BY <2>1, <3>1, <3>2, <3>3, <3>4
              DEF ReviewsMatch, BurntIsSettled, SignedIsJudged, SignedIsRecorded,
                  ReviewsAreAnswerable
    <2>6. CASE ResolveSigned(w)
      <3>1. /\ Remove(tx) /\ Signs(tx)
            /\ consumed' = consumed \cup {tx} /\ settled' = settled \cup {tx}
            /\ UNCHANGED <<clock, chain>>
        BY <2>6 DEF ResolveSigned, tx
      <3>2. /\ receipts' \subseteq Receipt /\ signed' \subseteq Transactions
            /\ signed' \subseteq signed \cup {tx} /\ SignedIsRecorded'
            /\ withheld' \subseteq Transactions
        BY <2>1, <3>1, SignKeeps
      <3>3. /\ DOMAIN pending' = DOMAIN pending \ {tx}
            /\ \A x \in DOMAIN pending' : pending'[x] = pending[x]
            /\ DOMAIN pending' \subseteq Transactions
            /\ \A x \in DOMAIN pending' : pending'[x] \in Review
        BY <3>1, RemoveTypes
      <3>4. TypeOK'
        BY <2>1, <3>1, <3>2, <3>3 DEF TypeOK, chain
      <3>5. SignedIsJudged'
        BY <2>2, <3>1, <3>2 DEF SignedIsJudged
      <3> QED BY <2>1, <3>1, <3>2, <3>3, <3>4, <3>5
              DEF ReviewsMatch, BurntIsSettled, ReviewsAreAnswerable
    <2> QED BY <1>3, <2>3, <2>4, <2>5, <2>6, <1>1, <1>2
            DEF Resolves
  <1> QED BY <1>1, <1>2, <1>3
          DEF Resolves, ResolveStale, ResolveMisdirected, ResolveEnded, ResolveSigned

\* A chain read that raises leaves the stores alone and gives the lock back.
LEMMA RaiseKeeps ==
    ASSUME CosignerInv, NEW w \in Workers, ReaderRaises(w)
    PROVE  CosignerInv'
  <1> USE DEF CosignerInv
  <1>1. Ends(w) /\ UNCHANGED <<clock, chain, stores, signed, withheld>>
    BY DEF ReaderRaises
  <1>2. /\ RechecksHoldLock' /\ LockHolder' /\ lock' \in {Free} \cup Workers
        /\ handler' \in [Workers -> {Idle} \cup CosignCall \cup ResolveCall \cup ReadCall]
    <2>1. CASE handler[w].verb = "cosign" /\ UNCHANGED lock
      BY <1>1, <2>1, ProposalEnds DEF ReaderRaises, TypeOK, stores
    <2>2. CASE lock = w /\ lock' = Free
      BY <1>1, <2>2, RecheckEnds
    <2> QED BY <2>1, <2>2 DEF ReaderRaises
  <1>3. TypeOK'
    BY <1>1, <1>2 DEF TypeOK, chain, stores
  <1> QED BY <1>1, <1>2, <1>3
          DEF ReviewsMatch, BurntIsSettled, SignedIsJudged, SignedIsRecorded,
              ReviewsAreAnswerable, stores

\* Time passes, the Safe executes and the chain drifts without the co-signer.
LEMMA WorldKeeps ==
    ASSUME CosignerInv, Tick \/ SafeExecutes \/ ChainDrifts
    PROVE  CosignerInv'
  <1> USE DEF CosignerInv
  <1>1. UNCHANGED <<handler, lock, stores, signed, withheld>>
    BY DEF Tick, SafeExecutes, ChainDrifts
  <1>2. clock' \in 0..MaxClock
    BY DEF Tick, SafeExecutes, ChainDrifts, TypeOK
  <1>3. nonce' \in 0..MaxNonce
    <2>1. CASE SafeExecutes
      <3>1. PICK tx \in signed : tx.nonce = nonce
        BY <2>1 DEF SafeExecutes
      <3>2. nonce \in 0..(MaxNonce - 1)
        BY <3>1 DEF TypeOK, Transactions
      <3> QED BY <2>1, <3>2 DEF SafeExecutes
    <2> QED BY <2>1 DEF Tick, ChainDrifts, chain, TypeOK
  <1>4. safeDrift' \in BOOLEAN /\ tokenDrift' \in BOOLEAN
    BY DEF Tick, SafeExecutes, ChainDrifts, chain, TypeOK
  <1>5. TypeOK'
    BY <1>1, <1>2, <1>3, <1>4 DEF TypeOK, stores
  <1> QED BY <1>1, <1>5
          DEF ReviewsMatch, RechecksHoldLock, LockHolder, BurntIsSettled,
              SignedIsJudged, SignedIsRecorded, ReviewsAreAnswerable, stores

\* CosignerInv holds of every state the co-signer can be in.
THEOREM CosignerInvariant == Spec => []CosignerInv
  <1>1. Init => CosignerInv
    <2> SUFFICES ASSUME Init PROVE CosignerInv
      OBVIOUS
    <2>1. DOMAIN pending = {}
      BY DEF Init
    <2>2. clock \in 0..MaxClock /\ nonce \in 0..MaxNonce
      BY DEF Init
    <2>3. TypeOK
      BY <2>1, <2>2 DEF Init, TypeOK
    <2> QED BY <2>1, <2>3
            DEF Init, CosignerInv, ReviewsMatch, RechecksHoldLock, LockHolder,
                BurntIsSettled, SignedIsJudged, SignedIsRecorded, ReviewsAreAnswerable
  <1>2. CosignerInv /\ [Next]_vars => CosignerInv'
    <2> SUFFICES ASSUME CosignerInv, [Next]_vars
                 PROVE  CosignerInv'
      OBVIOUS
    <2>1. CASE Tick \/ SafeExecutes \/ ChainDrifts
      BY <2>1, WorldKeeps
    <2>2. ASSUME NEW w \in Workers,
                 Arrives(w) \/ Cosigns(w) \/ Resolves(w) \/ ReaderRaises(w)
          PROVE  CosignerInv'
      BY <2>2, ArrivalKeeps, CosignKeeps, ResolveKeeps, RaiseKeeps
    <2>3. CASE UNCHANGED vars
      BY <2>3 DEF vars, chain, stores, CosignerInv, TypeOK, ReviewsMatch,
                  RechecksHoldLock, LockHolder, BurntIsSettled, SignedIsJudged,
                  SignedIsRecorded, ReviewsAreAnswerable
    <2> QED BY <2>1, <2>2, <2>3 DEF Next
  <1> QED BY <1>1, <1>2, PTL DEF Spec

-----------------------------------------------------------------------------
\* What follows of every state.

\* Every variable keeps the type the code gives it.
THEOREM TypeCorrect == Spec => []TypeOK
  BY CosignerInvariant, PTL DEF CosignerInv

\* Whatever the agents propose and however the calls interleave, a co-signature
\* is for a call within the policy's bounds, approved where it needs approval.
THEOREM SignaturesAreBounded == Spec => []SignedIsBounded
  <1>1. CosignerInv => SignedIsBounded
    <2> SUFFICES ASSUME CosignerInv, NEW tx \in signed
                 PROVE  /\ tx.call.operation = "call" /\ tx.call.value = 0
                        /\ tx.call.to \in Pinned \ {Safe}
                        /\ tx.call.amount <= ApprovalCap
                        /\ \/ tx.call.selector = "transfer"
                           \/ tx.call.selector = "approve" /\ tx.call.counterparty \in Spenders
                        /\ tx.call.amount > ReviewAbove => tx \in consumed
      BY DEF SignedIsBounded
    <2>1. tx.call \in SafeCall
      BY DEF CosignerInv, TypeOK, Transactions
    <2>2. \/ Judge(tx.call) = ABSTAIN
          \/ Judge(tx.call) = REVIEW /\ tx \in consumed
      BY DEF CosignerInv, SignedIsJudged
    <2>3. Judge(tx.call) # DENY
      BY <2>2 DEF ABSTAIN, REVIEW, DENY
    <2>4. tx.call.amount > ReviewAbove => tx \in consumed
      BY <2>1, <2>2, <2>3, JudgeBounds DEF ABSTAIN, REVIEW
    <2> QED BY <2>1, <2>3, <2>4, JudgeBounds
  <1> QED BY <1>1, CosignerInvariant, PTL

\* No co-signature is trailless, whichever call of the sink or signer raises.
THEOREM SignaturesAreRecorded == Spec => []SignedIsRecorded
  BY CosignerInvariant, PTL DEF CosignerInv

\* No open review has a burnt one-shot.
THEOREM ReviewsCanBeAnswered == Spec => []ReviewsAreAnswerable
  BY CosignerInvariant, PTL DEF CosignerInv

-----------------------------------------------------------------------------
\* What follows of every step.

\* Only cosign's signing path and a granted answer add a signature.
LEMMA SignersOnly ==
    ASSUME CosignerInv, [Next]_vars, NEW tx \in signed' \ signed
    PROVE  \E w \in Workers :
              \/ CosignSigned(w) /\ tx = Proposed(w)
              \/ ResolveSigned(w) /\ tx = handler[w].tx
  <1>1. ~UNCHANGED signed
    OBVIOUS
  <1>2. PICK w \in Workers : CosignSigned(w) \/ ResolveSigned(w)
    BY <1>1 DEF Next, vars, Tick, SafeExecutes, ChainDrifts, Arrives, Proposes, Answers,
           Cosigns, CosignDrifted, CosignDenied, HoldRefused, HoldExisting, HoldNew,
           Resolves, ResolveUnknown, ResolveReads, ResolveStale, ResolveMisdirected,
           ResolveEnded, ReaderRaises
  <1> QED BY <1>2 DEF CosignSigned, ResolveSigned, Signs

\* Only a settling answer takes a review from the queue, and it takes its own;
\* nothing changes a review that stays.
LEMMA QueueSteps ==
    ASSUME CosignerInv, [Next]_vars, NEW tx \in DOMAIN pending
    PROVE  \/ tx \in DOMAIN pending' /\ pending'[tx] = pending[tx]
           \/ /\ tx \notin DOMAIN pending'
              /\ \E w \in Workers : handler[w].tx = tx /\ (ResolveEnded(w) \/ ResolveSigned(w))
  <1>1. CASE UNCHANGED pending
    BY <1>1
  <1>2. ASSUME NEW w \in Workers, HoldNew(w)
        PROVE  tx \in DOMAIN pending' /\ pending'[tx] = pending[tx]
    BY <1>2 DEF HoldNew
  <1>3. ASSUME NEW w \in Workers, ResolveEnded(w) \/ ResolveSigned(w)
        PROVE  \/ tx \in DOMAIN pending' /\ pending'[tx] = pending[tx]
               \/ tx \notin DOMAIN pending' /\ handler[w].tx = tx
    BY <1>3 DEF ResolveEnded, ResolveSigned, Remove
  <1>4. \/ UNCHANGED pending
        \/ \E w \in Workers : HoldNew(w) \/ ResolveEnded(w) \/ ResolveSigned(w)
    BY DEF Next, vars, stores, Tick, SafeExecutes, ChainDrifts, Arrives, Proposes, Answers,
           Cosigns, CosignDrifted, CosignDenied, CosignSigned, HoldRefused, HoldExisting,
           Resolves, ResolveUnknown, ResolveReads, ResolveStale, ResolveMisdirected,
           ReaderRaises
  <1> QED BY <1>1, <1>2, <1>3, <1>4

\* A signature in the review band is made under the lock, for a live approval of
\* that transaction by another principal, on the chain as attested.
THEOREM ApprovalBeforeSignature == Spec => SignatureIsApproved
  <1>1. ASSUME CosignerInv, [Next]_vars, NEW tx \in Transactions,
               Judge(tx.call) = REVIEW, tx \in signed' \ signed
        PROVE  \E w \in Workers :
                  /\ lock = w
                  /\ handler[w].tx = tx /\ handler[w].shown = tx
                  /\ handler[w].approved
                  /\ tx \in DOMAIN pending /\ tx \notin consumed
                  /\ handler[w].checker # pending[tx].maker
                  /\ handler[w].now < pending[tx].expires
                  /\ handler[w].nonce = tx.nonce
                  /\ ~handler[w].drift /\ ~tokenDrift
    <2>1. PICK w \in Workers :
              \/ CosignSigned(w) /\ tx = Proposed(w)
              \/ ResolveSigned(w) /\ tx = handler[w].tx
      BY <1>1, SignersOnly
    <2>2. ResolveSigned(w) /\ tx = handler[w].tx
      BY <1>1, <2>1 DEF CosignSigned, Judged, Proposed, ABSTAIN, REVIEW
    <2>3. lock = w /\ handler[w] \in ReadCall /\ tx \in DOMAIN pending
      BY <1>1, <2>2, RecheckEnds DEF ResolveSigned, Rechecks
    <2>4. /\ ~(tx \in consumed) /\ ~(handler[w].now >= pending[tx].expires)
          /\ handler[w].shown = pending[tx].proposal
          /\ handler[w].checker # pending[tx].maker /\ handler[w].approved
      BY <2>2, ConsumeMeaning DEF ResolveSigned
    <2>5. pending[tx].proposal = tx /\ pending[tx] \in Review
      BY <1>1, <2>3 DEF CosignerInv, ReviewsMatch, TypeOK
    <2>6. handler[w].now < pending[tx].expires
      BY <2>3, <2>4, <2>5 DEF ReadCall, Review
    <2> QED BY <2>2, <2>3, <2>4, <2>5, <2>6 DEF ResolveSigned, Fits
  <1> DEFINE Approved ==
        \A tx \in Transactions :
          Judge(tx.call) = REVIEW /\ tx \in signed' \ signed =>
            \E w \in Workers :
                /\ lock = w
                /\ handler[w].tx = tx /\ handler[w].shown = tx
                /\ handler[w].approved
                /\ tx \in DOMAIN pending /\ tx \notin consumed
                /\ handler[w].checker # pending[tx].maker
                /\ handler[w].now < pending[tx].expires
                /\ handler[w].nonce = tx.nonce
                /\ ~handler[w].drift /\ ~tokenDrift
  <1>2. CosignerInv /\ [Next]_vars => [Approved]_vars
    BY <1>1
  <1>3. Spec => [][Approved]_vars
    BY <1>2, CosignerInvariant, PTL DEF Spec
  <1> QED BY <1>3 DEF SignatureIsApproved

\* A held review keeps its maker and its expiry, and leaves the queue only by an
\* answer about it on the chain it was held for.
THEOREM HeldReviewsAreKept == Spec => HeldReviewIsKept
  <1>1. ASSUME CosignerInv, [Next]_vars, NEW tx \in DOMAIN pending
        PROVE  \/ tx \in DOMAIN pending' /\ pending'[tx] = pending[tx]
               \/ /\ tx \notin DOMAIN pending'
                  /\ \E w \in Workers :
                        /\ lock = w
                        /\ handler[w].tx = tx
                        /\ handler[w].nonce = tx.nonce
                        /\ ~handler[w].drift /\ ~tokenDrift
                        /\ \/ handler[w].now >= pending[tx].expires
                           \/ /\ handler[w].shown = tx
                              /\ handler[w].checker # pending[tx].maker
    <2>1. CASE tx \in DOMAIN pending' /\ pending'[tx] = pending[tx]
      BY <2>1
    <2>2. ASSUME NEW w \in Workers, handler[w].tx = tx, tx \notin DOMAIN pending',
                 ResolveEnded(w) \/ ResolveSigned(w)
          PROVE  /\ lock = w
                 /\ handler[w].nonce = tx.nonce
                 /\ ~handler[w].drift /\ ~tokenDrift
                 /\ \/ handler[w].now >= pending[tx].expires
                    \/ /\ handler[w].shown = tx
                       /\ handler[w].checker # pending[tx].maker
      <3>1. lock = w /\ Fits(w) /\ Consumes(w) \in {"expired", "not_approved", "granted"}
        BY <2>2 DEF ResolveEnded, ResolveSigned, Rechecks, TerminalRejections
      <3>2. pending[tx].proposal = tx
        BY <1>1 DEF CosignerInv, ReviewsMatch
      <3> QED BY <2>2, <3>1, <3>2, ConsumeMeaning DEF Fits
    <2> QED BY <1>1, <2>1, <2>2, QueueSteps
  <1> DEFINE Kept ==
        \A tx \in DOMAIN pending :
         \/ tx \in DOMAIN pending' /\ pending'[tx] = pending[tx]
         \/ /\ tx \notin DOMAIN pending'
            /\ \E w \in Workers :
                  /\ lock = w
                  /\ handler[w].tx = tx
                  /\ handler[w].nonce = tx.nonce
                  /\ ~handler[w].drift /\ ~tokenDrift
                  /\ \/ handler[w].now >= pending[tx].expires
                     \/ /\ handler[w].shown = tx
                        /\ handler[w].checker # pending[tx].maker
  <1>2. CosignerInv /\ [Next]_vars => [Kept]_vars
    BY <1>1
  <1>3. Spec => [][Kept]_vars
    BY <1>2, CosignerInvariant, PTL DEF Spec
  <1> QED BY <1>3 DEF HeldReviewIsKept

\* Whichever call raises, no one-shot is burnt but for a signature that was
\* returned or withheld: neither drift, a stale nonce nor a declined answer
\* spends one.
THEOREM AnswersAreNotBurnt == Spec => []BurntMeansSigned
  <1>1. Init => BurntMeansSigned
    BY DEF Init, BurntMeansSigned
  <1>2. BurntMeansSigned /\ [Next]_vars => BurntMeansSigned'
    <2> SUFFICES ASSUME BurntMeansSigned, [Next]_vars
                 PROVE  BurntMeansSigned'
      OBVIOUS
    <2>1. CASE UNCHANGED <<consumed, signed, withheld>>
      BY <2>1 DEF BurntMeansSigned
    <2>2. ASSUME NEW w \in Workers, CosignSigned(w)
          PROVE  BurntMeansSigned'
      BY <2>2 DEF CosignSigned, Signs, BurntMeansSigned
    <2>3. ASSUME NEW w \in Workers, ResolveSigned(w)
          PROVE  BurntMeansSigned'
      BY <2>3 DEF ResolveSigned, Signs, BurntMeansSigned
    <2>4. \/ UNCHANGED <<consumed, signed, withheld>>
          \/ \E w \in Workers : CosignSigned(w) \/ ResolveSigned(w)
      BY DEF Next, vars, stores, Tick, SafeExecutes, ChainDrifts, Arrives, Proposes,
             Answers, Cosigns, CosignDrifted, CosignDenied, HoldRefused, HoldExisting,
             HoldNew, Resolves, ResolveUnknown, ResolveReads, ResolveStale,
             ResolveMisdirected, ResolveEnded, ReaderRaises
    <2> QED BY <2>1, <2>2, <2>3, <2>4
  <1> QED BY <1>1, <1>2, PTL DEF Spec

-----------------------------------------------------------------------------
\* The co-signer implements OneCosignature.

Reviews == [tx \in Transactions |-> ReviewOf(tx)]

\* What a step does to the reviews and the signatures: nothing, one signature by
\* the machine, or one review parked, closed, or spent on at most its signature.
Steps ==
    \/ UNCHANGED <<pending, settled, signed>>
    \/ \E tx \in Transactions :
          \/ /\ Judge(tx.call) = ABSTAIN
             /\ UNCHANGED <<pending, settled>>
             /\ signed' = signed \cup {tx}
          \/ /\ Judge(tx.call) = REVIEW
             /\ tx \notin DOMAIN pending /\ tx \notin settled
             /\ DOMAIN pending' = DOMAIN pending \cup {tx}
             /\ UNCHANGED <<settled, signed>>
          \/ /\ Judge(tx.call) = REVIEW
             /\ tx \in DOMAIN pending /\ tx \notin settled
             /\ DOMAIN pending' = DOMAIN pending \ {tx}
             /\ \/ UNCHANGED <<settled, signed>>
                \/ /\ settled' = settled \cup {tx}
                   /\ signed' \in {signed, signed \cup {tx}}

\* Every step of cosign and of resolve is one of them, whatever raises.
LEMMA CosignerSteps ==
    ASSUME CosignerInv, [Next]_vars
    PROVE  Steps
  <1>1. CASE UNCHANGED <<pending, settled, signed>>
    BY <1>1 DEF Steps
  <1>2. ASSUME NEW w \in Workers, CosignSigned(w)
        PROVE  Steps
    <2>1. Proposed(w) \in Transactions /\ Proposed(w).call = handler[w].call
      BY <1>2, ProposedType DEF CosignSigned, Judged, CosignerInv, Proposed
    <2> QED BY <1>2, <2>1 DEF CosignSigned, Judged, Signs, Steps
  <1>3. ASSUME NEW w \in Workers, HoldNew(w)
        PROVE  Steps
    <2> DEFINE tx == Proposed(w)
    <2>1. tx \in Transactions /\ tx.call = handler[w].call
      BY <1>3, ProposedType DEF HoldNew, Judged, CosignerInv, Proposed
    <2>2. /\ Judge(tx.call) = REVIEW
          /\ tx \notin DOMAIN pending /\ tx \notin settled
          /\ DOMAIN pending' = DOMAIN pending \cup {tx}
          /\ UNCHANGED <<settled, signed>>
      BY <1>3, <2>1 DEF HoldNew, Judged, AlreadySettled
    <2> HIDE DEF tx
    <2> QED BY <2>1, <2>2 DEF Steps
  <1>4. ASSUME NEW w \in Workers, ResolveEnded(w) \/ ResolveSigned(w)
        PROVE  Steps
    <2> DEFINE tx == handler[w].tx
    <2>1. tx \in Transactions /\ tx \in DOMAIN pending
      BY <1>4, RecheckEnds DEF ResolveEnded, ResolveSigned, Rechecks
    <2>2. Judge(tx.call) = REVIEW /\ tx \notin settled
      BY <2>1 DEF CosignerInv, ReviewsMatch, ReviewsAreAnswerable
    <2>3. DOMAIN pending' = DOMAIN pending \ {tx}
      BY <1>4, RemoveTypes DEF ResolveEnded, ResolveSigned, CosignerInv
    <2>4. \/ UNCHANGED <<settled, signed>>
          \/ /\ settled' = settled \cup {tx}
             /\ signed' \in {signed, signed \cup {tx}}
      BY <1>4 DEF ResolveEnded, ResolveSigned, Signs
    <2> HIDE DEF tx
    <2> QED BY <2>1, <2>2, <2>3, <2>4 DEF Steps
  <1>5. \/ UNCHANGED <<pending, settled, signed>>
        \/ \E w \in Workers : \/ CosignSigned(w) \/ HoldNew(w)
                              \/ ResolveEnded(w) \/ ResolveSigned(w)
    BY DEF Next, vars, stores, Tick, SafeExecutes, ChainDrifts, Arrives, Proposes, Answers,
           Cosigns, CosignDrifted, CosignDenied, HoldRefused, HoldExisting,
           Resolves, ResolveUnknown, ResolveReads, ResolveStale, ResolveMisdirected,
           ReaderRaises
  <1> QED BY <1>1, <1>2, <1>3, <1>4, <1>5

\* A step that touches one transaction's review moves that one only.
LEMMA OneReviewMoves ==
    ASSUME NEW tx \in Transactions, NEW to,
           ReviewOf(tx)' = to,
           \A x \in Transactions \ {tx} : ReviewOf(x)' = ReviewOf(x)
    PROVE  Reviews' = [Reviews EXCEPT ![tx] = to]
  BY DEF Reviews

\* Each of those steps is a step of OneCosignature, or none.
LEMMA AbstractStep ==
    ASSUME CosignerInv, [Next]_vars
    PROVE  [Promise!Next]_(Promise!vars)
  <1>1. CASE UNCHANGED <<pending, settled, signed>>
    BY <1>1 DEF Promise!vars, ReviewOf
  <1>2. ASSUME NEW tx \in Transactions, Judge(tx.call) = ABSTAIN,
               UNCHANGED <<pending, settled>>, signed' = signed \cup {tx}
        PROVE  Promise!Next
    <2>1. UNCHANGED Reviews
      BY <1>2 DEF Reviews, ReviewOf
    <2>2. Promise!Sign(tx)
      BY <1>2, <2>1 DEF Promise!Sign, Promise!Returned, Reviews
    <2> QED BY <2>2 DEF Promise!Next
  <1>3. ASSUME NEW tx \in Transactions, Judge(tx.call) = REVIEW,
               tx \notin DOMAIN pending, tx \notin settled,
               DOMAIN pending' = DOMAIN pending \cup {tx},
               UNCHANGED <<settled, signed>>
        PROVE  Promise!Next
    <2>1. /\ ReviewOf(tx) = "none" /\ ReviewOf(tx)' = "open"
          /\ \A x \in Transactions \ {tx} : ReviewOf(x)' = ReviewOf(x)
      BY <1>3 DEF ReviewOf
    <2>2. Reviews' = [Reviews EXCEPT ![tx] = "open"] /\ Reviews[tx] = "none"
      BY <2>1, OneReviewMoves DEF Reviews
    <2>3. Promise!Hold(tx)
      BY <1>3, <2>2 DEF Promise!Hold, Promise!Moves, Reviews
    <2> QED BY <2>3 DEF Promise!Next
  <1>4. ASSUME NEW tx \in Transactions, Judge(tx.call) = REVIEW,
               tx \in DOMAIN pending, tx \notin settled,
               DOMAIN pending' = DOMAIN pending \ {tx},
               UNCHANGED <<settled, signed>>
        PROVE  Promise!Next
    <2>1. /\ ReviewOf(tx) = "open" /\ ReviewOf(tx)' = "none"
          /\ \A x \in Transactions \ {tx} : ReviewOf(x)' = ReviewOf(x)
      BY <1>4 DEF ReviewOf
    <2>2. Reviews' = [Reviews EXCEPT ![tx] = "none"] /\ Reviews[tx] = "open"
      BY <2>1, OneReviewMoves DEF Reviews
    <2>3. Promise!Close(tx)
      BY <1>4, <2>2 DEF Promise!Close, Promise!Moves, Reviews
    <2> QED BY <2>3 DEF Promise!Next
  <1>5. ASSUME NEW tx \in Transactions, Judge(tx.call) = REVIEW,
               tx \in DOMAIN pending, tx \notin settled,
               DOMAIN pending' = DOMAIN pending \ {tx},
               settled' = settled \cup {tx},
               signed' \in {signed, signed \cup {tx}}
        PROVE  Promise!Next
    <2>1. /\ ReviewOf(tx) = "open" /\ ReviewOf(tx)' = "spent"
          /\ \A x \in Transactions \ {tx} : ReviewOf(x)' = ReviewOf(x)
      BY <1>5 DEF ReviewOf
    <2>2. Reviews' = [Reviews EXCEPT ![tx] = "spent"] /\ Reviews[tx] = "open"
      BY <2>1, OneReviewMoves DEF Reviews
    <2>3. Promise!Approve(tx)
      BY <1>5, <2>2 DEF Promise!Approve, Promise!Moves, Promise!Returned, Reviews
    <2> QED BY <2>3 DEF Promise!Next
  <1>6. Steps
    BY CosignerSteps
  <1> QED BY <1>1, <1>2, <1>3, <1>4, <1>5, <1>6 DEF Steps

\* Whatever races, drifts or raises, the co-signer keeps to one approval and one
\* signature per transaction above the threshold, and signs nothing denied.
THEOREM KeepsThePromise == Spec => ImplementsOneCosignature
  <1>1. Init => Promise!Init
    BY DEF Init, Promise!Init, ReviewOf
  <1>2. CosignerInv /\ [Next]_vars => [Promise!Next]_(Promise!vars)
    BY AbstractStep
  <1> QED BY <1>1, <1>2, CosignerInvariant, PTL
          DEF Spec, ImplementsOneCosignature, Promise!Spec
=============================================================================
