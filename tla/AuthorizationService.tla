------------------------- MODULE AuthorizationService -------------------------
(***************************************************************************)
(* The service that takes an authenticated request to an answer:           *)
(* AuthorizationService.authorize and .resolve, with the stores they hold  *)
(* (reservations, pending reviews, consumed approvals, window ledger,      *)
(* idempotency store, audit trail) and the rail they drive.                *)
(*                                                                         *)
(* Every HTTP request runs in a thread of its own.  A worker stamps the    *)
(* clock, then waits for the service's lock; the lock is not fair, so      *)
(* stamps enter the critical section in any order.  The section is atomic  *)
(* except at the rail call: a worker that dispatches keeps the lock while  *)
(* the rail works, time passes and other requests arrive.  One action is   *)
(* therefore one path through the critical section up to the rail call or  *)
(* to its end, and RailAnswers is the rest of it.                          *)
(*                                                                         *)
(* A receipt write may raise when AuditMayFail: the exception leaves the   *)
(* critical section with whatever was done before it.                      *)
(***************************************************************************)
EXTENDS DecisionPath, MakerChecker

CONSTANTS
    Workers,        \* handler threads
    Handles,        \* (principal, request_ref) pairs: the reservation keys
    Requests,       \* wire requests the agents may send
    Answers,        \* what checkers may answer; {} without an approver channel
    AuditMayFail,   \* whether the audit sink's append may raise
    MaxClock,       \* bound on time
    Idle, Free      \* a thread with no request; the lock with no holder

\* What a worker is doing: an agent's proposal or a checker's answer, with
\* the clock its handler read before asking for the lock.
Proposals     == {ProposalOf(h, r) : h \in Handles, r \in Requests}
AuthorizeCall == [verb: {"authorize"}, handle: Handles, request: Requests,
                  stamp: 0..MaxClock]
ResolveCall   == [verb: {"resolve"}, handle: Handles, proposal: Proposals,
                  approved: BOOLEAN, stamp: 0..MaxClock]

\* The continuation of the section that is waiting for the rail.
Dispatching == [worker: Workers, handle: Handles, proposal: Proposals,
                verdict: Verdicts, granted: BOOLEAN]

ASSUME AuthorizationAssumption ==
    /\ Requests \subseteq WireRequest
    /\ Answers \subseteq BOOLEAN
    /\ AuditMayFail \in BOOLEAN
    /\ MaxClock \in Nat
    /\ Idle \notin AuthorizeCall \cup ResolveCall
    /\ Free \notin Dispatching

VARIABLES
    clock,         \* the wall clock
    handler,       \* worker -> the request it handles, or Idle
    lock,          \* _lock: Free, or the dispatch its holder waits for
    floor,         \* _now_floor
    reservations,  \* _reservations: handle -> proposal and answer
    pending,       \* the pending store: handle -> the approval asked for
    consumed,      \* MakerChecker._consumed
    ledger,        \* WindowLedger._entries
    outcomes,      \* the idempotency store: handle -> outcome or "inflight"
    receipts,      \* the receipts in the audit sink
    rail,          \* what the rail received under each key, in order, and when
    told,          \* history: every answer given to an agent
    declined       \* history: reviews a checker declined

stores == <<reservations, pending, consumed, ledger, outcomes, receipts>>
vars   == <<clock, handler, lock, floor, stores, rail, told, declined>>

Reservation == [proposal: Proposals, answer: AgentStatuses]
Approval    == [proposal: Proposals, expires: Nat]
Entry       == [key: Currencies \X Accounts \X RailClasses, amount: Nat,
                at: 0..MaxClock]
Receipt     == [handle: Handles, proposal: Proposals, verdict: Verdicts,
                status: Statuses \cup {"none"}, approval: BOOLEAN]
Told        == [handle: Handles, request: Requests, answer: AgentStatuses]
RailCall    == [proposal: Proposals, verdict: Verdicts, at: 0..MaxClock,
                answer: Statuses \cup {"inflight"}, moved: BOOLEAN]

\* Python dictionaries: d[k] = v, and d.pop(k, None).
Put(d, k, v) == [x \in DOMAIN d \cup {k} |-> IF x = k THEN v ELSE d[x]]
Drop(d, k)   == [x \in DOMAIN d \ {k} |-> d[x]]

Later(a, b) == IF a >= b THEN a ELSE b

-----------------------------------------------------------------------------
Init ==
    /\ clock = 0
    /\ handler = [w \in Workers |-> Idle]
    /\ lock = Free
    /\ floor = 0
    /\ reservations = << >>
    /\ pending = << >>
    /\ consumed = {}
    /\ ledger = << >>
    /\ outcomes = << >>
    /\ receipts = {}
    /\ rail = [h \in Handles |-> << >>]
    /\ told = {}
    /\ declined = {}

-----------------------------------------------------------------------------
\* Arrivals.  Neither needs the lock.

Tell(h, r, answer) ==
    told' = told \cup {[handle |-> h, request |-> r, answer |-> answer]}

\* The stamp is read here, in the handler thread, before the lock.
AgentCalls(w, h, r) ==
    /\ handler[w] = Idle
    /\ Mappable(r)
    /\ handler' = [handler EXCEPT ![w] =
           [verb |-> "authorize", handle |-> h, request |-> r, stamp |-> clock]]
    /\ UNCHANGED <<clock, lock, floor, stores, rail, told, declined>>

\* complete_intent raises before the lock: refused, unrecorded, unreserved.
RefuseUnmappable(w, h, r) ==
    /\ handler[w] = Idle
    /\ ~Mappable(r)
    /\ Tell(h, r, "refused")
    /\ UNCHANGED <<clock, handler, lock, floor, stores, rail, declined>>

CheckerCalls(w, h, p, approved) ==
    /\ handler[w] = Idle
    /\ handler' = [handler EXCEPT ![w] =
           [verb |-> "resolve", handle |-> h, proposal |-> p,
            approved |-> approved, stamp |-> clock]]
    /\ UNCHANGED <<clock, lock, floor, stores, rail, told, declined>>

-----------------------------------------------------------------------------
\* Pieces of the critical section.

\* The operators named Wrong... are plausible mistakes in the definition that
\* follows them: substituted for it, each breaks a property below.

\* The clock a decision is made against never runs backwards.
WrongNow(w) == handler[w].stamp
Now(w) == Later(handler[w].stamp, floor)

WrongEnter(w, verb) ==
    /\ lock = Free
    /\ handler[w] # Idle
    /\ handler[w].verb = verb
    /\ handler[w].stamp >= floor
    /\ floor' = handler[w].stamp

Enter(w, verb) ==
    /\ lock = Free
    /\ handler[w] # Idle
    /\ handler[w].verb = verb
    /\ floor' = Now(w)

Leave(w) ==
    /\ handler' = [handler EXCEPT ![w] = Idle]
    /\ lock' = Free

\* PendingApprovalStore.release: the review leaves the queue.
WrongRelease(held, h) == held
Release(held, h) == Drop(held, h)

\* The receipt _record builds.
WrongReceiptFor(h, p, verdict, status, approval) ==
    [handle |-> h, proposal |-> p, verdict |-> verdict,
     status |-> IF approval THEN "none" ELSE status, approval |-> approval]

ReceiptFor(h, p, verdict, status, approval) ==
    [handle |-> h, proposal |-> p, verdict |-> verdict, status |-> status,
     approval |-> approval]

\* _settle, then release when an approval was spent.  `held` is the pending
\* store as this step has already changed it.  The receipt comes first, so
\* when its write raises nothing is reserved, released or answered.
Settle(w, h, p, verdict, status, granted, held) ==
    LET answer == AgentStatus(verdict, status, granted)
    IN  /\ Leave(w)
        /\ \/ /\ receipts' = receipts \cup
                    {ReceiptFor(h, p, verdict, status, granted)}
              /\ reservations' =
                    Put(reservations, h, [proposal |-> p, answer |-> answer])
              /\ pending' = IF granted THEN Release(held, h) ELSE held
              /\ IF granted THEN told' = told
                            ELSE Tell(h, handler[w].request, answer)
           \/ /\ AuditMayFail
              /\ pending' = held
              /\ UNCHANGED <<receipts, reservations, told>>

\* A plausible mistake: what leaves the window is dropped, its opening edge too.
WrongRecordSpend(p, status, now) ==
    ledger' = IF Counts(status)
                THEN Append(SelectSeq(ledger, LAMBDA e : now - WindowSeconds < e.at),
                            [key    |-> AggregateKey(p),
                             amount |-> p.amount, at |-> now])
                ELSE ledger

\* WindowLedger.record, for everything that may have moved money.
RecordSpend(p, status, now) ==
    ledger' = IF Counts(status)
                THEN Append(ledger, [key    |-> AggregateKey(p),
                                     amount |-> p.amount, at |-> now])
                ELSE ledger

\* Only the first caller reserves a key; nobody reserves it again.
WrongReserves(h) == h \in DOMAIN outcomes => outcomes[h] = "unknown"
Reserves(h) == h \notin DOMAIN outcomes

\* ExecutionGateway.execute once its checks have passed: reserve the key and
\* call the rail, or report what the key already holds without calling it.
Execute(w, h, intent, verdict, granted, now) ==
    \/ /\ Reserves(h)
       /\ outcomes' = Put(outcomes, h, "inflight")
       /\ rail' = [rail EXCEPT ![h] = Append(@,
              [proposal |-> intent.proposal, verdict |-> verdict,
               at |-> now,
               answer |-> "inflight", moved |-> FALSE])]
       /\ lock' = [worker |-> w, handle |-> h, proposal |-> intent.proposal,
                   verdict |-> verdict, granted |-> granted]
       /\ UNCHANGED <<handler, reservations, pending, ledger, receipts, told>>
    \/ LET status == IF outcomes[h] = "inflight" THEN "unknown" ELSE outcomes[h]
       IN  /\ ~Reserves(h)
           /\ RecordSpend(intent.proposal, status, now)
           /\ Settle(w, h, intent.proposal, verdict, status, granted, pending)
           /\ UNCHANGED <<outcomes, rail>>

-----------------------------------------------------------------------------
\* authorize, from the lock to the rail call or to the end.

\* Whether authorize answers from the reservation instead of deciding.
WrongSpent(h) == h \in DOMAIN reservations /\ reservations[h].answer # "refused"
Spent(h) == h \in DOMAIN reservations

\* The handle is spent: repeat its answer, or refuse a different proposal.
RepeatAnswer(w) ==
    LET h == handler[w].handle
        r == handler[w].request
    IN  /\ Enter(w, "authorize")
        /\ Spent(h)
        /\ Leave(w)
        /\ Tell(h, r, IF reservations[h].proposal = ProposalOf(h, r)
                        THEN reservations[h].answer ELSE "refused")
        /\ UNCHANGED <<clock, stores, rail, declined>>

Decided(w, verdict) ==
    LET h == handler[w].handle
    IN  /\ Enter(w, "authorize")
        /\ ~Spent(h)
        /\ verdict = DecideAt(ledger, ProposalOf(h, handler[w].request), Now(w))

AuthorizeDenied(w) ==
    LET h == handler[w].handle
        p == ProposalOf(h, handler[w].request)
    IN  /\ Decided(w, DENY)
        /\ Settle(w, h, p, DENY, "none", FALSE, pending)
        /\ UNCHANGED <<clock, consumed, ledger, outcomes, rail, declined>>

\* _hold: the review is parked before its receipt is written.
AuthorizeHeld(w) ==
    LET h == handler[w].handle
        p == ProposalOf(h, handler[w].request)
    IN  /\ Decided(w, REVIEW)
        /\ Settle(w, h, p, REVIEW, "none", FALSE,
                  Put(pending, h, [proposal |-> p, expires |-> Now(w) + ReviewTTL]))
        /\ UNCHANGED <<clock, consumed, ledger, outcomes, rail, declined>>

\* The intent's window starts at the stamp, not at the clamped clock.
AuthorizeAllowed(w) ==
    LET h      == handler[w].handle
        intent == IntentOf(ProposalOf(h, handler[w].request), handler[w].stamp)
    IN  /\ Decided(w, ALLOW)
        /\ IF GatewayRefuses(intent, intent, ALLOW, {}, Now(w))
             THEN /\ Settle(w, h, intent.proposal, ALLOW, "none", FALSE, pending)
                  /\ UNCHANGED <<ledger, outcomes, rail>>
             ELSE Execute(w, h, intent, ALLOW, FALSE, Now(w))
        /\ UNCHANGED <<clock, consumed, declined>>

-----------------------------------------------------------------------------
\* resolve, from the lock to the rail call or to the end.

\* The history variable `declined` notes every decline of an open review.
NoteDecline(w) ==
    LET h == handler[w].handle
    IN  declined' = IF /\ h \in DOMAIN pending
                       /\ handler[w].proposal = pending[h].proposal
                       /\ ~handler[w].approved
                      THEN declined \cup {h} ELSE declined

ResolveUnknown(w) ==
    /\ Enter(w, "resolve")
    /\ handler[w].handle \notin DOMAIN pending
    /\ Leave(w)
    /\ UNCHANGED <<clock, stores, rail, told, declined>>

\* The review is decided again before the answer is consumed.
Redecided(w, verdicts) ==
    LET h == handler[w].handle
    IN  /\ Enter(w, "resolve")
        /\ h \in DOMAIN pending
        /\ DecideAt(ledger, pending[h].proposal, Now(w)) \in verdicts
        /\ NoteDecline(w)

\* A limit outranks the checker; the answer is not consumed, the review stays.
ResolveDenied(w) ==
    LET h == handler[w].handle
    IN  /\ Redecided(w, {DENY})
        /\ Leave(w)
        /\ \/ receipts' = receipts \cup
                 {ReceiptFor(h, pending[h].proposal, DENY, "none", FALSE)}
           \/ AuditMayFail /\ UNCHANGED receipts
        /\ UNCHANGED <<clock, reservations, pending, consumed, ledger, outcomes,
                       rail, told>>

\* The maker is a fingerprint of a workload, so no checker is the maker.
Consumes(w) ==
    LET h == handler[w].handle
    IN  ConsumeResult(pending[h], handler[w].proposal, FALSE, handler[w].approved,
                      h \in consumed, Now(w))

\* The answer was wrong, not the review: nothing changes.
ResolveMisdirected(w) ==
    /\ Redecided(w, {ALLOW, REVIEW})
    /\ Consumes(w) \notin TerminalRejections \cup {"granted"}
    /\ Leave(w)
    /\ UNCHANGED <<clock, stores, rail, told>>

\* A decline or an expiry settles the review.
ResolveEnded(w) ==
    LET h == handler[w].handle
        p == pending[h].proposal
    IN  /\ Redecided(w, {ALLOW, REVIEW})
        /\ Consumes(w) \in TerminalRejections
        /\ Leave(w)
        /\ \/ /\ receipts' = receipts \cup
                    {ReceiptFor(h, p, DecideAt(ledger, p, Now(w)), "none", TRUE)}
              /\ reservations' =
                    Put(reservations, h, [proposal |-> p, answer |-> "refused"])
              /\ pending' = Release(pending, h)
           \/ /\ AuditMayFail
              /\ UNCHANGED <<receipts, reservations, pending>>
        /\ UNCHANGED <<clock, consumed, ledger, outcomes, rail, told>>

\* The one-shot is spent before the dispatch; the window is fresh, so of the
\* gateway's checks only the grant's could refuse, and it covers the intent.
ResolveGranted(w) ==
    LET h       == handler[w].handle
        p       == pending[h].proposal
        intent  == IntentOf(p, Now(w))
        verdict == DecideAt(ledger, p, Now(w))
    IN  /\ Redecided(w, {ALLOW, REVIEW})
        /\ Consumes(w) = "granted"
        /\ consumed' = consumed \cup {h}
        /\ ~GatewayRefuses(intent, intent, verdict, {p}, Now(w))
        /\ Execute(w, h, intent, verdict, TRUE, Now(w))
        /\ UNCHANGED clock

-----------------------------------------------------------------------------
\* The rail answers, or times out: finalize, count, settle, release the lock.
\* The floor cannot have moved since the dispatch, so it is the section's now.
RailAnswers(w, status, moved) ==
    LET h == lock.handle
        p == lock.proposal
        n == Len(rail[h])
    IN  /\ lock # Free
        /\ lock.worker = w
        /\ rail' = [rail EXCEPT ![h][n].answer = status, ![h][n].moved = moved]
        /\ outcomes' = Put(outcomes, h, status)
        /\ RecordSpend(p, status, floor)
        /\ Settle(w, h, p, lock.verdict, status, lock.granted, pending)
        /\ UNCHANGED <<clock, floor, consumed, declined>>

Tick ==
    /\ clock < MaxClock
    /\ clock' = clock + 1
    /\ UNCHANGED <<handler, lock, floor, stores, rail, told, declined>>

Arrives(w) ==
    \/ \E h \in Handles, r \in Requests :
          AgentCalls(w, h, r) \/ RefuseUnmappable(w, h, r)
    \/ \E h \in Handles, p \in Proposals, approved \in Answers :
          CheckerCalls(w, h, p, approved)

Authorizes(w) ==
    RepeatAnswer(w) \/ AuthorizeDenied(w) \/ AuthorizeHeld(w) \/ AuthorizeAllowed(w)

Resolves(w) ==
    \/ ResolveUnknown(w) \/ ResolveDenied(w) \/ ResolveMisdirected(w)
    \/ ResolveEnded(w) \/ ResolveGranted(w)

\* What the rail did is what it says it did, unless it says nothing.
RailReturns(w) ==
    \E status \in Statuses, moved \in BOOLEAN :
        /\ status = "success" => moved
        /\ status = "failure" => ~moved
        /\ RailAnswers(w, status, moved)

Next ==
    \/ Tick
    \/ \E w \in Workers : Arrives(w) \/ Authorizes(w) \/ Resolves(w) \/ RailReturns(w)

Spec == Init /\ [][Next]_vars

\* A thread that can take the lock does, when nobody else keeps taking it; the
\* rail call is bounded by TIMEOUT_SECONDS.  Requests need never arrive.
Fairness ==
    \A w \in Workers : WF_vars(Authorizes(w) \/ Resolves(w)) /\ WF_vars(RailReturns(w))

FairSpec == Spec /\ Fairness

-----------------------------------------------------------------------------
\* Invariants.

\* Every variable holds what the code's types allow.
TypeOK ==
    /\ clock \in 0..MaxClock
    /\ floor \in 0..MaxClock
    /\ handler \in [Workers -> {Idle} \cup AuthorizeCall \cup ResolveCall]
    /\ lock \in {Free} \cup Dispatching
    /\ DOMAIN reservations \subseteq Handles
    /\ \A h \in DOMAIN reservations : reservations[h] \in Reservation
    /\ DOMAIN pending \subseteq Handles
    /\ \A h \in DOMAIN pending : pending[h] \in Approval
    /\ consumed \subseteq Handles
    /\ ledger \in Seq(Entry)
    /\ DOMAIN outcomes \subseteq Handles
    /\ \A h \in DOMAIN outcomes : outcomes[h] \in Statuses \cup {"inflight"}
    /\ receipts \subseteq Receipt
    /\ rail \in [Handles -> Seq(RailCall)]
    /\ told \subseteq Told
    /\ declined \subseteq Handles

\* The thread that holds the lock across a rail call is still handling the
\* request it dispatches for, and its key is reserved and in flight.
LockHolder ==
    lock # Free =>
        /\ handler[lock.worker] \in IF lock.granted THEN ResolveCall ELSE AuthorizeCall
        /\ handler[lock.worker].handle = lock.handle
        /\ lock.handle \in DOMAIN outcomes
        /\ outcomes[lock.handle] = "inflight"

\* The idempotency store describes the rail: a key is reserved exactly when
\* the rail was called under it, once, and only the holder's is in flight.
KeysDescribeRail ==
    \A h \in Handles :
        /\ h \in DOMAIN outcomes <=> rail[h] # << >>
        /\ h \in DOMAIN outcomes => Len(rail[h]) = 1 /\ rail[h][1].answer = outcomes[h]
        /\ h \in DOMAIN outcomes /\ outcomes[h] = "inflight"
              => lock # Free /\ lock.handle = h

\* The inductive invariant behind AtMostOnce, whatever the audit sink does.
SafeInv == TypeOK /\ LockHolder /\ KeysDescribeRail

\* One handle's entries agree: the queue holds it exactly while it awaits
\* review, and a concluded rail call is the one it was reserved for and is
\* answered from.
HandleBooks(h) ==
    /\ h \in DOMAIN pending <=> /\ h \in DOMAIN reservations
                                /\ reservations[h].answer = "awaiting_review"
    /\ h \in DOMAIN pending => pending[h].proposal = reservations[h].proposal
    /\ h \in DOMAIN outcomes /\ outcomes[h] # "inflight" =>
          /\ h \in DOMAIN reservations
          /\ reservations[h].proposal = rail[h][1].proposal
          /\ reservations[h].answer =
                IF outcomes[h] = "success" THEN "completed" ELSE "refused"
    /\ h \in DOMAIN reservations /\ h \in DOMAIN outcomes /\ outcomes[h] = "inflight"
          => reservations[h].answer = "awaiting_review"
    /\ h \in DOMAIN reservations /\ reservations[h].answer = "completed"
          => h \in DOMAIN outcomes

\* The dispatch in flight is of the review it was granted for, or of a new
\* handle's request.
LockBooks ==
    lock # Free =>
      /\ rail[lock.handle][1].proposal = lock.proposal
      /\ lock.verdict = REVIEW => lock.granted
      /\ lock.granted => /\ lock.handle \in DOMAIN pending
                         /\ pending[lock.handle].proposal = lock.proposal
      /\ ~lock.granted => /\ lock.handle \notin DOMAIN reservations
                          /\ lock.proposal =
                                ProposalOf(lock.handle, handler[lock.worker].request)

\* When no receipt write fails the service's own books agree.
BooksAgree == (\A h \in Handles : HandleBooks(h)) /\ LockBooks

\* The rail is asked to move a handle's money at most once, however often the
\* request is retried, whichever thread wins the lock and whatever the audit
\* sink does (B2: reserved before executed, never re-dispatched).
AtMostOnce == \A h \in Handles : Len(rail[h]) <= 1

\* No trailing window ending at any time holds more spend than a limit on its
\* currency allows, although stamps enter the section out of order (the
\* monotonic floor) and checkers answer while agents spend (one lock for both).
WithinCap ==
    \A l \in Limits, i \in DOMAIN ledger, t \in 0..MaxClock :
        ledger[i].key[1] = l.currency => Aggregate(ledger, ledger[i].key, t) <= l.cap

\* The handles whose payment the rail moved under a key, dispatched at one of
\* the times, and the ledger's entries of a key at one of them.
MovedAt(key, times) ==
    {h \in Handles : /\ rail[h] # << >>
                     /\ AggregateKey(rail[h][1].proposal) = key
                     /\ rail[h][1].at \in times
                     /\ rail[h][1].moved}
EntriesAt(key, times) ==
    {i \in DOMAIN ledger : ledger[i].key = key /\ ledger[i].at \in times}

\* Their money.
MovedMoney(key, times) ==
    SumFunction([h \in MovedAt(key, times) |-> rail[h][1].proposal.amount])

\* Money the rail moved is in the ledger once its call has ended, at the time
\* it was dispatched and each payment with an entry of its own, whether or not
\* the rail's answer said so.
SpendIsCounted ==
    \A key \in {AggregateKey(p) : p \in Proposals}, times \in SUBSET (0..MaxClock) :
        MovedMoney(key, times)
            <= SumFunctionOnSet(Amounts(ledger), EntriesAt(key, times))

\* What the window is for: in no trailing window does the rail move more under
\* one key than a limit on its currency allows, however the threads, the
\* checkers' answers, the retries and the rail's silences fall.
MovedWithinCap ==
    \A l \in Limits, p \in Proposals, t \in 0..MaxClock :
        p.currency = l.currency =>
            MovedMoney(AggregateKey(p), (t - WindowSeconds)..t) <= l.cap

\* A handle whose answer is awaiting_review has moved nothing ("Nothing has
\* moved, and nothing is reserved"), and it is in the checkers' queue: the
\* agent's poll ends exactly when the review leaves it.
HeldMeansHeld ==
    LET awaiting == {h \in DOMAIN reservations :
                        reservations[h].answer = "awaiting_review"}
    IN  /\ \A h \in awaiting : lock = Free => rail[h] = << >>
        /\ lock = Free => DOMAIN pending = awaiting

\* What an agent reads is true of the money, whatever retries, reviews and
\* reused handles happened before or since: completed of a payment the rail
\* made for that very proposal, refused of one it never confirmed and never
\* will.
AnswersAreTrue ==
    \A x \in {z \in told : Mappable(z.request)} :
        LET ofIt == {i \in DOMAIN rail[x.handle] :
                        rail[x.handle][i].proposal = ProposalOf(x.handle, x.request)}
        IN  /\ x.answer = "completed" => \E i \in ofIt : rail[x.handle][i].moved
            /\ x.answer = "refused" => \A i \in ofIt : rail[x.handle][i].answer # "success"

\* So the final answers an agent reads about one proposal agree.
OneStory ==
    \A x, y \in {z \in told : Mappable(z.request)} :
        /\ x.handle = y.handle
        /\ ProposalOf(x.handle, x.request) = ProposalOf(y.handle, y.request)
        /\ "awaiting_review" \notin {x.answer, y.answer}
        => x.answer = y.answer

\* A receipt that reports an execution reports the one the rail performed
\* under that key ("The result of an executed intent, bound to its digest").
ReceiptsAreTrue ==
    \A x \in receipts :
        x.status # "none" =>
            \E i \in DOMAIN rail[x.handle] :
                /\ rail[x.handle][i].proposal = x.proposal
                /\ rail[x.handle][i].answer = x.status

\* Once nobody holds the lock, every rail call has its receipt ("An audit
\* write that silently fails would leave money moved with no trail").
DispatchesAreRecorded ==
    lock = Free =>
        \A h \in Handles : \A i \in DOMAIN rail[h] :
            \E x \in receipts : /\ x.handle = h
                               /\ x.proposal = rail[h][i].proposal
                               /\ x.status = rail[h][i].answer

-----------------------------------------------------------------------------
\* Action properties.

\* The rail is called under key h.
Sends(h) == Len(rail'[h]) > Len(rail[h])

\* A dispatch is either within the machine's authority when it is decided, or
\* a checker approved that very proposal in time and no earlier approval of
\* that review was spent; a spent approval authorizes one dispatch only.
DispatchIsAuthorized ==
    [][\A h \in Handles : Sends(h) =>
         LET sent == rail'[h][Len(rail'[h])]
             spent == Aggregate(ledger, AggregateKey(sent.proposal), floor')
         IN  \/ Decide(sent.proposal, spent) = ALLOW
             \/ /\ Decide(sent.proposal, spent) = REVIEW
                /\ h \in DOMAIN pending
                /\ h \notin consumed
                /\ floor' < pending[h].expires
                /\ \E w \in Workers :
                      /\ handler[w] \in ResolveCall
                      /\ handler[w].approved
                      /\ handler[w].handle = h
                      /\ handler[w].proposal = sent.proposal]_vars

\* An answer is given once and then repeated: a handle never changes the
\* proposal it is bound to, and its answer changes only from awaiting_review.
AnswerIsFinal ==
    [][\A h \in DOMAIN reservations :
         /\ h \in DOMAIN reservations'
         /\ reservations'[h].proposal = reservations[h].proposal
         /\ reservations'[h].answer # reservations[h].answer
               => reservations[h].answer = "awaiting_review"]_vars

\* "otherwise a checker who declines it leaves it open for a second checker
\* to approve": what a checker declined is never dispatched.
DeclineIsFinal == [][\A h \in declined : ~Sends(h)]_vars

\* A refusal the agent can read is not overtaken by a dispatch: not by a
\* retry, a second checker, or a review that was declined or has expired.
RefusedStaysRefused ==
    [][\A h \in Handles :
         /\ h \in DOMAIN reservations
         /\ reservations[h].answer = "refused"
         => ~Sends(h)]_vars

\* What is spent stays spent: as of any time, no step makes the decision about a
\* proposal laxer, so a limit that refused it keeps refusing it until its window
\* has passed, whoever is answered in between.
VerdictsOnlyTighten ==
    [][ledger' # ledger
       => \A p \in Proposals, t \in 0..MaxClock :
            DecideAt(ledger, p, t) <= DecideAt(ledger', p, t)]_vars

-----------------------------------------------------------------------------
\* Refinement: with an audit sink that does not fail, the service implements
\* the one-shot payment it promises.  A handle is spent on the proposal it is
\* reserved for, or on the one whose rail call is in flight.

SubjectOf(h) == IF h \in DOMAIN reservations THEN reservations[h].proposal
                ELSE IF h \in DOMAIN outcomes THEN rail[h][1].proposal
                ELSE Free
SentOf(h)    == IF h \in DOMAIN outcomes THEN outcomes[h] ELSE "no"
AnswerOf(h)  == IF h \in DOMAIN reservations THEN reservations[h].answer ELSE "none"

Promise == INSTANCE OneShotPayment WITH
    NoProposal <- Free,
    subject    <- [h \in Handles |-> SubjectOf(h)],
    sent       <- [h \in Handles |-> SentOf(h)],
    answer     <- [h \in Handles |-> AnswerOf(h)]

\* Every behaviour of the service is a behaviour of OneShotPayment.
ImplementsOneShot == Promise!Spec

-----------------------------------------------------------------------------
\* Liveness.

\* Once requests stop arriving every request in flight is answered: no path
\* through the section keeps the lock, with or without an audit failure.
Drains ==
    <>[][\A w \in Workers : ~Arrives(w)]_vars
        => \A w \in Workers : handler[w] # Idle ~> handler[w] = Idle

\* What of Drains is safety.  A request that waits has a way through the section
\* whenever the lock is free: whatever the policies, the queue and the checker
\* say, and the gateway has nothing left to refuse a grant for.
HasAWay(w) ==
    LET h == handler[w].handle
        p == pending[h].proposal
        verdict == DecideAt(ledger, p, Now(w))
        intent  == IntentOf(p, Now(w))
    IN  CASE handler[w].verb = "authorize" ->
                 \/ Spent(h)
                 \/ DecideAt(ledger, ProposalOf(h, handler[w].request), Now(w)) \in Verdicts
          [] handler[w].verb = "resolve" ->
                 \/ h \notin DOMAIN pending
                 \/ verdict = DENY
                 \/ /\ verdict \in {ALLOW, REVIEW}
                    /\ Consumes(w) = "granted" =>
                           ~GatewayRefuses(intent, intent, verdict, {p}, Now(w))

\* And while it is taken, its holder waits for nobody but the rail.
NobodyIsStuck ==
    IF lock = Free
    THEN \A w \in Workers : handler[w] # Idle => HasAWay(w)
    ELSE /\ lock.worker \in Workers
         /\ handler[lock.worker] # Idle
         /\ outcomes[lock.handle] = "inflight"
         /\ Len(rail[lock.handle]) = 1

\* A way through the section ends the request, or dispatches with the lock kept,
\* and the rail's answer ends that; no step starts a request over.
EverySectionEnds ==
    [][\A w \in Workers :
         /\ Authorizes(w) \/ Resolves(w) \/ RailReturns(w) =>
               \/ lock' = Free /\ handler'[w] = Idle
               \/ lock = Free /\ lock' # Free /\ lock'.worker = w
         /\ handler[w] # Idle => handler'[w] \in {handler[w], Idle}]_vars
=============================================================================
