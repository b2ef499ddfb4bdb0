----------------------------- MODULE DecisionPath -----------------------------
(***************************************************************************)
(* The pure part of the decision path: completing a wire request into an   *)
(* intent, the digest a human approves, the trailing-window aggregate, the *)
(* two amount policies and their combination, the checks the execution     *)
(* gateway repeats before a dispatch, and what the agent is told.  No      *)
(* state lives here: the modules that hold state extend this one.          *)
(*                                                                         *)
(* Fingerprints and SHA-256 digests are injective, so a digest is the      *)
(* record of the fields it covers.  Time is a count of ticks.              *)
(***************************************************************************)
EXTENDS Integers, Sequences, FiniteSetsExt, Functions

CONSTANTS
    Currencies,      \* currencies a request may name
    Accounts,        \* (counterparty, source account) pairs
    Covered,         \* currencies CurrencyCoveragePolicy covers
    Limits,          \* the AmountLimit records of the deployment
    WindowSeconds,   \* length of the ledger's trailing window
    IntentTTL,       \* INTENT_TTL, in ticks
    ReviewTTL        \* REVIEW_TTL, in ticks

PaymentActions == {"payment", "refund", "payout", "transfer"}
ActionClasses  == PaymentActions \cup {"trade", "account_change"}
PayableRails   == {"card", "bank_transfer", "wallet"}
RailClasses    == PayableRails \cup {"brokerage", "other"}

\* A limit whose review band is absent has review = cap.
AmountLimit == [currency: Currencies, cap: Nat, review: Nat, window: Nat]

ASSUME DecisionPathAssumption ==
    /\ Covered \subseteq Currencies
    /\ Limits \subseteq AmountLimit
    /\ \A l \in Limits : l.review <= l.cap
    /\ WindowSeconds \in Nat \ {0}
    /\ IntentTTL \in Nat \ {0}
    /\ ReviewTTL \in Nat \ {0}

WireRequest == [action: ActionClasses, rail: RailClasses,
                currency: Currencies, account: Accounts, amount: Nat]

-----------------------------------------------------------------------------
\* From a request to an intent.

\* complete_intent raises UnmappableAction on anything else.
Mappable(r) == r.action \in PaymentActions /\ r.rail \in PayableRails

\* What compute_proposal_digest covers: the idempotency key and the
\* dimensions without the validity window.  The wire's `action` (and its
\* reversibility claim, always replaced by the strictest value) reaches no
\* field of the intent, so it is not covered.
ProposalOf(key, r) == [handle   |-> key,
                       rail     |-> r.rail,
                       currency |-> r.currency,
                       account  |-> r.account,
                       amount   |-> r.amount]

\* The intent: a proposal and its window [now, now + INTENT_TTL).
IntentOf(p, now) == [proposal   |-> p,
                     not_before |-> now,
                     not_after  |-> now + IntentTTL]

\* AggregateKey.from_intent
AggregateKey(p) == <<p.currency, p.account, p.rail>>

-----------------------------------------------------------------------------
\* The trailing window and the policies.

\* A plausible mistake: the opening edge left out.
WrongInWindow(ledger, key, now) ==
    {i \in DOMAIN ledger : /\ ledger[i].key = key
                           /\ now - WindowSeconds < ledger[i].at
                           /\ ledger[i].at <= now}

\* Ledger entries of `key` in the window ending at now, both edges included.
InWindow(ledger, key, now) ==
    {i \in DOMAIN ledger : /\ ledger[i].key = key
                           /\ now - WindowSeconds <= ledger[i].at
                           /\ ledger[i].at <= now}

Amounts(ledger) == [i \in DOMAIN ledger |-> ledger[i].amount]

\* WindowLedger.aggregate
Aggregate(ledger, key, now) ==
    SumFunctionOnSet(Amounts(ledger), InWindow(ledger, key, now))

\* Verdicts ordered by strictness: ABSTAIN/ALLOW, REVIEW, DENY.
ALLOW  == 0
REVIEW == 1
DENY   == 2
Verdicts == {ALLOW, REVIEW, DENY}

\* AmountWindowPolicy.evaluate
AmountWindow(l, p, spent) ==
    LET prospective == spent + p.amount
    IN  IF p.currency # l.currency THEN ALLOW
        ELSE IF l.window # WindowSeconds \/ prospective > l.cap THEN DENY
        ELSE IF prospective > l.review THEN REVIEW
        ELSE ALLOW

\* CurrencyCoveragePolicy.evaluate
CurrencyCoverage(p) == IF p.currency \in Covered THEN ALLOW ELSE DENY

\* DecisionEngine.decide: the strictest judgement of every policy.
Decide(p, spent) ==
    Max({CurrencyCoverage(p)} \cup {AmountWindow(l, p, spent) : l \in Limits})

\* What AuthorizationService._decide asks: the window as of now.
DecideAt(ledger, p, now) == Decide(p, Aggregate(ledger, AggregateKey(p), now))

-----------------------------------------------------------------------------
\* The execution gateway's own checks, in the order of ExecutionGateway.execute.

Statuses == {"success", "failure", "unknown"}

\* `decided` is the intent the decision binds to; `granted` the set of
\* proposals a grant covers, empty when there is no grant.
GatewayRefuses(intent, decided, verdict, granted, now) ==
    \/ intent # decided                                      \* digest_mismatch
    \/ verdict = DENY                                        \* denied
    \/ verdict = REVIEW /\ intent.proposal \notin granted    \* not_approved
    \/ now < intent.not_before \/ now >= intent.not_after    \* window_expired

\* Both success and unknown may have moved money, so both fill the window.
WrongCounts(status) == status = "success"
Counts(status) == status # "failure"

-----------------------------------------------------------------------------
AgentStatuses == {"completed", "refused", "awaiting_review"}

\* _agent_status; `status` is "none" when nothing was executed.
WrongAgentStatusHeld(verdict, status, granted) ==
    IF verdict = REVIEW THEN "awaiting_review"
    ELSE IF status = "success" THEN "completed"
    ELSE "refused"

WrongAgentStatusRaw(verdict, status, granted) ==
    IF verdict = REVIEW /\ ~granted THEN "awaiting_review"
    ELSE IF status = "success" THEN "completed"
    ELSE status

AgentStatus(verdict, status, granted) ==
    IF verdict = REVIEW /\ ~granted THEN "awaiting_review"
    ELSE IF status = "success" THEN "completed"
    ELSE "refused"
=============================================================================
