---------------------- MODULE AuthorizationPromiseProofs ----------------------
(***************************************************************************)
(* What TLAPS proves of AuthorizationService when no receipt write fails:  *)
(* its books agree, an answer is final, a refusal is never overtaken by a  *)
(* dispatch, and the service implements OneShotPayment.                    *)
(*                                                                         *)
(* Every step of the service does at most one thing to at most one handle: *)
(* it answers it, sends its payment, or concludes it.  StepEffect says so  *)
(* once; each theorem is then a case analysis over these effects.          *)
(***************************************************************************)
EXTENDS AuthorizationServiceProofs

USE DecisionPathAssumption, AuthorizationAssumption

SoundInv == SafeInv /\ BooksAgree

-----------------------------------------------------------------------------
\* The effects a step can have on the books.

SameReservation(x) ==
    /\ x \in DOMAIN reservations' <=> x \in DOMAIN reservations
    /\ x \in DOMAIN reservations => reservations'[x] = reservations[x]
SamePending(x) ==
    /\ x \in DOMAIN pending' <=> x \in DOMAIN pending
    /\ x \in DOMAIN pending => pending'[x] = pending[x]
SameOutcome(x) ==
    /\ x \in DOMAIN outcomes' <=> x \in DOMAIN outcomes
    /\ x \in DOMAIN outcomes => outcomes'[x] = outcomes[x]
SameAt(x) ==
    SameReservation(x) /\ SamePending(x) /\ SameOutcome(x) /\ rail'[x] = rail[x]

\* Nothing was sent under h, and it is new or awaits a checker on p.
OpenFor(h, p) ==
    /\ h \notin DOMAIN outcomes
    /\ \/ h \notin DOMAIN reservations /\ h \notin DOMAIN pending
       \/ /\ h \in DOMAIN reservations
          /\ h \in DOMAIN pending
          /\ reservations[h].answer = "awaiting_review"
          /\ reservations[h].proposal = p
          /\ pending[h].proposal = p

NothingHappens ==
    /\ UNCHANGED <<reservations, pending, outcomes, rail>>
    /\ IF lock = Free THEN lock' = Free
       ELSE lock' = lock /\ handler'[lock.worker] = handler[lock.worker]

Settles(h, p, answer) ==
    /\ OpenFor(h, p)
    /\ lock = Free /\ lock' = Free
    /\ SameOutcome(h) /\ rail'[h] = rail[h]
    /\ h \in DOMAIN reservations'
    /\ reservations'[h].proposal = p /\ reservations'[h].answer = answer

Refuses(h, p) == Settles(h, p, "refused") /\ h \notin DOMAIN pending'

Holds(h, p) ==
    /\ Settles(h, p, "awaiting_review")
    /\ h \notin DOMAIN reservations
    /\ h \in DOMAIN pending' /\ pending'[h].proposal = p

Dispatches(h, p) ==
    /\ OpenFor(h, p)
    /\ lock = Free
    /\ SameReservation(h) /\ SamePending(h)
    /\ h \in DOMAIN outcomes' /\ outcomes'[h] = "inflight"
    /\ rail'[h][1].proposal = p
    /\ lock' # Free
    /\ lock'.handle = h /\ lock'.proposal = p
    /\ lock'.verdict = REVIEW => lock'.granted
    /\ lock'.granted => h \in DOMAIN pending
    /\ ~lock'.granted => /\ h \notin DOMAIN reservations
                         /\ p = ProposalOf(h, handler'[lock'.worker].request)

Concludes(h, status) ==
    /\ lock # Free /\ lock.handle = h /\ lock' = Free
    /\ h \in DOMAIN outcomes /\ outcomes[h] = "inflight"
    /\ h \in DOMAIN outcomes' /\ outcomes'[h] = status
    /\ rail'[h][1].proposal = rail[h][1].proposal
    /\ h \in DOMAIN reservations'
    /\ reservations'[h].proposal = rail[h][1].proposal
    /\ reservations'[h].answer = IF status = "success" THEN "completed" ELSE "refused"
    /\ h \notin DOMAIN pending'

ActsOn(h) ==
    /\ \A x \in Handles \ {h} : SameAt(x)
    /\ \/ \E p \in Proposals : Refuses(h, p) \/ Holds(h, p) \/ Dispatches(h, p)
       \/ \E status \in Statuses : Concludes(h, status)

Effect == NothingHappens \/ \E h \in Handles : ActsOn(h)

-----------------------------------------------------------------------------
\* Every step has one of these effects.

\* With the lock free, a handle nobody answered, and one in the checkers'
\* queue, are open: nothing was sent for them.
LEMMA OpenWhenFree ==
    ASSUME SoundInv, lock = Free, NEW h \in Handles, NEW p
    PROVE  /\ h \notin DOMAIN reservations => OpenFor(h, p)
           /\ h \in DOMAIN pending => OpenFor(h, pending[h].proposal)
  <1>1. h \in DOMAIN outcomes => outcomes[h] # "inflight"
    BY DEF SoundInv, SafeInv, KeysDescribeRail
  <1>2. h \in DOMAIN outcomes =>
           h \in DOMAIN reservations /\ reservations[h].answer # "awaiting_review"
    BY <1>1 DEF SoundInv, BooksAgree, HandleBooks, LockBooks
  <1>3. /\ h \in DOMAIN pending <=> /\ h \in DOMAIN reservations
                                    /\ reservations[h].answer = "awaiting_review"
        /\ h \in DOMAIN pending => pending[h].proposal = reservations[h].proposal
    BY DEF SoundInv, BooksAgree, HandleBooks, LockBooks
  <1> QED BY <1>2, <1>3 DEF OpenFor

\* Without audit failures, Settle reserves the answer and, when an approval
\* was spent, takes the review out of the queue.
LEMMA SettleEffect ==
    ASSUME ~AuditMayFail, NEW w, NEW h, NEW p, NEW verdict, NEW status,
           NEW granted \in BOOLEAN, NEW held, Settle(w, h, p, verdict, status, granted, held)
    PROVE  /\ lock' = Free
           /\ h \in DOMAIN reservations'
           /\ reservations'[h].proposal = p
           /\ reservations'[h].answer = AgentStatus(verdict, status, granted)
           /\ \A x : x # h => SameReservation(x)
           /\ ~granted => pending' = held
           /\ granted => /\ h \notin DOMAIN pending'
                         /\ \A x : x # h =>
                               /\ x \in DOMAIN pending' <=> x \in DOMAIN held
                               /\ x \in DOMAIN held => pending'[x] = held[x]
  <1>1. /\ lock' = Free
        /\ reservations' = Put(reservations, h,
              [proposal |-> p, answer |-> AgentStatus(verdict, status, granted)])
        /\ pending' = IF granted THEN Release(held, h) ELSE held
    BY DEF Settle, Leave
  <1>2. /\ h \in DOMAIN reservations'
        /\ reservations'[h].proposal = p
        /\ reservations'[h].answer = AgentStatus(verdict, status, granted)
        /\ \A x : x # h => SameReservation(x)
    BY <1>1 DEF Put, SameReservation
  <1>3. /\ ~granted => pending' = held
        /\ granted => /\ h \notin DOMAIN pending'
                      /\ \A x : x # h =>
                            /\ x \in DOMAIN pending' <=> x \in DOMAIN held
                            /\ x \in DOMAIN held => pending'[x] = held[x]
    BY <1>1 DEF Release, Drop
  <1> QED BY <1>1, <1>2, <1>3

\* The same for a section that spends no approval.
LEMMA UngrantedSettleEffect ==
    ASSUME ~AuditMayFail, NEW w, NEW h, NEW p, NEW verdict, NEW status, NEW held,
           Settle(w, h, p, verdict, status, FALSE, held)
    PROVE  /\ lock' = Free
           /\ h \in DOMAIN reservations'
           /\ reservations'[h].proposal = p
           /\ reservations'[h].answer = AgentStatus(verdict, status, FALSE)
           /\ \A x : x # h => SameReservation(x)
           /\ pending' = held
  <1>1. /\ lock' = Free
        /\ reservations' = Put(reservations, h,
              [proposal |-> p, answer |-> AgentStatus(verdict, status, FALSE)])
        /\ pending' = held
    BY DEF Settle, Leave
  <1> QED BY <1>1 DEF Put, SameReservation

\* An execution of an open handle reaches the rail.
LEMMA ExecuteEffect ==
    ASSUME SoundInv, lock = Free, NEW w \in Workers, NEW h \in Handles,
           NEW intent, NEW verdict \in Verdicts, NEW granted \in BOOLEAN, NEW now,
           intent.proposal \in Proposals,
           OpenFor(h, intent.proposal),
           granted => h \in DOMAIN pending,
           ~granted => /\ verdict # REVIEW
                       /\ h \notin DOMAIN reservations
                       /\ intent.proposal = ProposalOf(h, handler[w].request),
           Execute(w, h, intent, verdict, granted, now)
    PROVE  ActsOn(h)
  <1> DEFINE sent == [proposal |-> intent.proposal, verdict |-> verdict,
                      at |-> now,
                      answer |-> "inflight", moved |-> FALSE]
             held == [worker |-> w, handle |-> h, proposal |-> intent.proposal,
                      verdict |-> verdict, granted |-> granted]
  <1>1. /\ outcomes' = Put(outcomes, h, "inflight")
        /\ rail' = [rail EXCEPT ![h] = Append(@, sent)]
        /\ lock' = held
        /\ UNCHANGED <<handler, reservations, pending>>
    BY DEF Execute, Reserves, OpenFor
  <1>2. \A x \in Handles \ {h} : SameAt(x)
    <2>1. rail \in [Handles -> Seq(RailCall)]
      BY DEF SoundInv, SafeInv, TypeOK
    <2>2. \A x \in Handles \ {h} : rail'[x] = rail[x]
      BY <1>1, <2>1
    <2>3. \A x \in Handles \ {h} : SameOutcome(x)
      BY <1>1 DEF Put, SameOutcome
    <2>4. \A x \in Handles \ {h} : SameReservation(x) /\ SamePending(x)
      BY <1>1 DEF SameReservation, SamePending
    <2> QED BY <2>2, <2>3, <2>4 DEF SameAt
  <1>3. Dispatches(h, intent.proposal)
    <2>1. h \in DOMAIN outcomes' /\ outcomes'[h] = "inflight"
      BY <1>1 DEF Put
    <2>2. rail'[h][1].proposal = intent.proposal
      <3>1. rail[h] = << >> /\ rail \in [Handles -> Seq(RailCall)]
        BY DEF OpenFor, SoundInv, SafeInv, KeysDescribeRail, TypeOK
      <3>2. sent.proposal = intent.proposal
        OBVIOUS
      <3> HIDE DEF sent
      <3>3. rail'[h] = Append(<< >>, sent)
        BY <1>1, <3>1
      <3>4. rail'[h][1] = sent
        BY <3>3
      <3> QED BY <3>2, <3>4
    <2>3. lock' # Free
      BY <1>1 DEF Dispatching
    <2>4. /\ lock'.handle = h /\ lock'.proposal = intent.proposal
          /\ lock'.worker = w /\ lock'.verdict = verdict /\ lock'.granted = granted
      BY <1>1
    <2>5. SameReservation(h) /\ SamePending(h) /\ handler' = handler
      BY <1>1 DEF SameReservation, SamePending
    <2> QED BY <2>1, <2>2, <2>3, <2>4, <2>5 DEF Dispatches
  <1> QED BY <1>2, <1>3 DEF ActsOn

\* An arrival changes nothing on the books.
LEMMA ArrivalEffect ==
    ASSUME SoundInv, NEW w \in Workers, Arrives(w)
    PROVE  NothingHappens
  <1>1. /\ UNCHANGED <<reservations, pending, outcomes, rail, lock>>
        /\ \A v \in Workers : handler[v] # Idle => handler'[v] = handler[v]
    BY DEF Arrives, AgentCalls, RefuseUnmappable, CheckerCalls, stores, SoundInv, SafeInv, TypeOK
  <1>2. lock # Free => lock.worker \in Workers /\ handler[lock.worker] # Idle
    BY DEF SoundInv, SafeInv, TypeOK, LockHolder, Dispatching
  <1> QED BY <1>1, <1>2 DEF NothingHappens

\* A section that settles an open handle without an execution.
LEMMA AnsweredEffect ==
    ASSUME SoundInv, ~AuditMayFail, lock = Free, NEW w \in Workers, NEW h \in Handles,
           NEW p \in Proposals, NEW verdict \in {ALLOW, DENY},
           h \notin DOMAIN reservations,
           Settle(w, h, p, verdict, "none", FALSE, pending),
           UNCHANGED <<outcomes, rail>>
    PROVE  ActsOn(h)
  <1>1. OpenFor(h, p)
    BY OpenWhenFree
  <1>2. AgentStatus(verdict, "none", FALSE) = "refused"
    BY DEF AgentStatus, ALLOW, DENY, REVIEW
  <1>3. /\ lock' = Free
        /\ h \in DOMAIN reservations'
        /\ reservations'[h].proposal = p
        /\ reservations'[h].answer = "refused"
        /\ \A x : x # h => SameReservation(x)
        /\ pending' = pending
    BY <1>2, UngrantedSettleEffect
  <1>4. h \notin DOMAIN pending'
    BY <1>1, <1>3 DEF OpenFor
  <1>5. Refuses(h, p)
    BY <1>1, <1>3, <1>4 DEF Refuses, Settles, SameOutcome
  <1>6. \A x \in Handles \ {h} : SameAt(x)
    BY <1>3 DEF SameAt, SamePending, SameOutcome
  <1> QED BY <1>5, <1>6 DEF ActsOn

\* Every path through authorize either leaves the books alone or holds,
\* refuses or dispatches one handle nobody had spent.
LEMMA AuthorizeEffect ==
    ASSUME SoundInv, ~AuditMayFail, NEW w \in Workers, Authorizes(w)
    PROVE  Effect
  <1> DEFINE h == handler[w].handle
             r == handler[w].request
             p == ProposalOf(h, r)
             intent == IntentOf(p, handler[w].stamp)
  <1>1. Enter(w, "authorize")
    BY DEF Authorizes, RepeatAnswer, AuthorizeDenied, AuthorizeHeld, AuthorizeAllowed,
           Decided
  <1>2. handler[w] \in AuthorizeCall /\ lock = Free
    BY <1>1, CallByVerb DEF Enter, SoundInv, SafeInv
  <1>3. h \in Handles /\ p \in Proposals
    BY <1>2, ProposalType DEF AuthorizeCall
  <1>4. CASE RepeatAnswer(w)
    BY <1>2, <1>4 DEF RepeatAnswer, Leave, stores, Effect, NothingHappens
  <1>5. CASE AuthorizeDenied(w)
    <2>1. /\ Settle(w, h, p, DENY, "none", FALSE, pending)
          /\ UNCHANGED <<outcomes, rail>>
          /\ h \notin DOMAIN reservations
      BY <1>5 DEF AuthorizeDenied, Decided, Spent
    <2> HIDE DEF h, p
    <2> QED BY <1>2, <1>3, <2>1, AnsweredEffect DEF Effect
  <1>6. CASE AuthorizeHeld(w)
    <2> DEFINE held == Put(pending, h, [proposal |-> p, expires |-> Now(w) + ReviewTTL])
    <2>1. /\ Settle(w, h, p, REVIEW, "none", FALSE, held)
          /\ UNCHANGED <<outcomes, rail>>
          /\ h \notin DOMAIN reservations
      BY <1>6 DEF AuthorizeHeld, Decided, Spent
    <2>2. /\ h \in DOMAIN held
          /\ held[h].proposal = p
          /\ \A x : x # h => /\ x \in DOMAIN held <=> x \in DOMAIN pending
                             /\ x \in DOMAIN pending => held[x] = pending[x]
      BY DEF Put
    <2> HIDE DEF h, p, held
    <2>3. AgentStatus(REVIEW, "none", FALSE) = "awaiting_review"
      BY DEF AgentStatus
    <2>4. /\ lock' = Free
          /\ h \in DOMAIN reservations'
          /\ reservations'[h].proposal = p
          /\ reservations'[h].answer = "awaiting_review"
          /\ \A x : x # h => SameReservation(x)
          /\ pending' = held
      BY <2>1, <2>3, UngrantedSettleEffect
    <2>5. OpenFor(h, p)
      BY <1>2, <1>3, <2>1, OpenWhenFree
    <2>6. Holds(h, p)
      BY <1>2, <2>1, <2>2, <2>4, <2>5 DEF Holds, Settles, SameOutcome
    <2>7. \A x \in Handles \ {h} : SameAt(x)
      BY <2>1, <2>2, <2>4 DEF SameAt, SamePending, SameOutcome
    <2> QED BY <1>3, <2>6, <2>7 DEF ActsOn, Effect
  <1>7. CASE AuthorizeAllowed(w)
    <2>1. h \notin DOMAIN reservations /\ intent.proposal = p
      BY <1>7 DEF AuthorizeAllowed, Decided, Spent, IntentOf
    <2>2. CASE Settle(w, h, p, ALLOW, "none", FALSE, pending) /\ UNCHANGED <<outcomes, rail>>
      <3> HIDE DEF h, p
      <3> QED BY <1>2, <1>3, <2>1, <2>2, AnsweredEffect DEF Effect
    <2>3. CASE Execute(w, h, intent, ALLOW, FALSE, Now(w))
      <3>1. ALLOW \in Verdicts /\ ALLOW # REVIEW
        BY DEF Verdicts, ALLOW, REVIEW
      <3>2. OpenFor(h, p)
        BY <1>2, <1>3, <2>1, OpenWhenFree
      <3>3. p = ProposalOf(h, handler[w].request)
        OBVIOUS
      <3> HIDE DEF h, p, intent
      <3> QED BY <1>2, <1>3, <2>1, <2>3, <3>1, <3>2, <3>3, ExecuteEffect DEF Effect
    <2> QED BY <1>7, <2>1, <2>2, <2>3 DEF AuthorizeAllowed
  <1> QED BY <1>4, <1>5, <1>6, <1>7 DEF Authorizes

\* Every path through resolve either leaves the books alone or refuses or
\* dispatches one review that was waiting.
LEMMA ResolveEffect ==
    ASSUME SoundInv, ~AuditMayFail, NEW w \in Workers, Resolves(w)
    PROVE  Effect
  <1> DEFINE h == handler[w].handle
             p == pending[h].proposal
             verdict == DecideAt(ledger, p, Now(w))
             intent == IntentOf(p, Now(w))
  <1>1. Enter(w, "resolve")
    BY DEF Resolves, ResolveUnknown, ResolveDenied, ResolveMisdirected, ResolveEnded,
           ResolveGranted, Redecided
  <1>2. h \in Handles /\ lock = Free
    BY <1>1, CallByVerb DEF Enter, SoundInv, SafeInv
  <1>3. CASE ResolveUnknown(w) \/ ResolveDenied(w) \/ ResolveMisdirected(w)
    BY <1>2, <1>3 DEF ResolveUnknown, ResolveDenied, ResolveMisdirected, Leave, stores,
       Effect, NothingHappens
  <1>4. h \in DOMAIN pending => p \in Proposals /\ OpenFor(h, p)
    BY <1>2, OpenWhenFree DEF SoundInv, SafeInv, TypeOK, Approval
  <1>5. CASE ResolveEnded(w)
    <2>1. /\ lock' = Free
          /\ reservations' = Put(reservations, h, [proposal |-> p, answer |-> "refused"])
          /\ pending' = Release(pending, h)
          /\ UNCHANGED <<outcomes, rail>>
          /\ h \in DOMAIN pending
      BY <1>5 DEF ResolveEnded, Redecided, Leave
    <2> HIDE DEF h, p
    <2>2. /\ h \in DOMAIN reservations'
          /\ reservations'[h].proposal = p
          /\ reservations'[h].answer = "refused"
          /\ \A x : x # h => SameReservation(x)
      BY <2>1 DEF Put, SameReservation
    <2>3. h \notin DOMAIN pending' /\ \A x : x # h => SamePending(x)
      BY <2>1 DEF Release, Drop, SamePending
    <2>4. Refuses(h, p)
      BY <1>2, <1>4, <2>1, <2>2, <2>3 DEF Refuses, Settles, SameOutcome
    <2>5. \A x \in Handles \ {h} : SameAt(x)
      BY <2>1, <2>2, <2>3 DEF SameAt, SameOutcome
    <2> QED BY <1>2, <1>4, <2>1, <2>4, <2>5 DEF ActsOn, Effect
  <1>6. CASE ResolveGranted(w)
    <2>1. /\ Execute(w, h, intent, verdict, TRUE, Now(w))
          /\ verdict \in Verdicts
          /\ h \in DOMAIN pending
      BY <1>6 DEF ResolveGranted, Redecided, Verdicts
    <2>2. intent.proposal = p
      BY DEF IntentOf
    <2> HIDE DEF h, p, verdict, intent
    <2> QED BY <1>2, <1>4, <2>1, <2>2, ExecuteEffect DEF Effect
  <1> QED BY <1>3, <1>5, <1>6 DEF Resolves

\* The rail's answer concludes the handle in flight and no other.
LEMMA RailEffect ==
    ASSUME SoundInv, ~AuditMayFail, NEW w \in Workers, RailReturns(w)
    PROVE  Effect
  <1> DEFINE h == lock.handle
             p == lock.proposal
             g == lock.granted
             n == Len(rail[h])
  <1>1. PICK status \in Statuses, moved \in BOOLEAN : RailAnswers(w, status, moved)
    BY DEF RailReturns
  <1>2. /\ lock # Free
        /\ outcomes' = Put(outcomes, h, status)
        /\ rail' = [rail EXCEPT ![h][n].answer = status, ![h][n].moved = moved]
        /\ Settle(w, h, p, lock.verdict, status, g, pending)
    BY <1>1 DEF RailAnswers
  <1>3. /\ h \in Handles /\ p \in Proposals
        /\ h \in DOMAIN outcomes /\ outcomes[h] = "inflight"
        /\ g \in BOOLEAN
    BY <1>2 DEF SoundInv, SafeInv, TypeOK, LockHolder, Dispatching
  <1>4. /\ rail[h][1].proposal = p
        /\ lock.verdict = REVIEW => g
        /\ g => h \in DOMAIN pending
        /\ ~g => h \notin DOMAIN reservations
    BY <1>2 DEF SoundInv, BooksAgree, HandleBooks, LockBooks
  <1>5. AgentStatus(lock.verdict, status, g) =
           IF status = "success" THEN "completed" ELSE "refused"
    BY <1>4 DEF AgentStatus
  <1>6. n = 1 /\ rail \in [Handles -> Seq(RailCall)]
    BY <1>3, Zenon DEF SoundInv, SafeInv, KeysDescribeRail, TypeOK
  <1>7. \A x \in Handles \ {h} : rail'[x] = rail[x]
    BY <1>2, <1>3, <1>6
  <1>8. rail'[h][1].proposal = rail[h][1].proposal
    <2> DEFINE call == [[rail[h][1] EXCEPT !.answer = status] EXCEPT !.moved = moved]
    <2>1. rail'[h] = [rail[h] EXCEPT ![1] = call] /\ rail[h] \in Seq(RailCall)
      BY <1>2, <1>3, <1>6
    <2>2. call.proposal = rail[h][1].proposal
      BY <2>1, <1>6 DEF RailCall
    <2> HIDE DEF call
    <2> QED BY <2>1, <2>2, <1>6
  <1>9. h \in DOMAIN outcomes' /\ outcomes'[h] = status /\ \A x : x # h => SameOutcome(x)
    BY <1>2 DEF Put, SameOutcome
  <1> HIDE DEF h, p, g, n
  <1>10. /\ lock' = Free
         /\ h \in DOMAIN reservations'
         /\ reservations'[h].proposal = p
         /\ reservations'[h].answer = AgentStatus(lock.verdict, status, g)
         /\ \A x : x # h => SameReservation(x)
         /\ ~g => pending' = pending
         /\ g => /\ h \notin DOMAIN pending'
                 /\ \A x : x # h =>
                       /\ x \in DOMAIN pending' <=> x \in DOMAIN pending
                       /\ x \in DOMAIN pending => pending'[x] = pending[x]
    BY <1>2, <1>3, SettleEffect
  <1>11. h \notin DOMAIN pending' /\ \A x : x # h => SamePending(x)
    <2>1. CASE g
      BY <1>10, <2>1 DEF SamePending
    <2>2. CASE ~g
      <3>1. h \notin DOMAIN pending
        BY <1>3, <1>4, <2>2 DEF SoundInv, BooksAgree, HandleBooks, LockBooks
      <3> QED BY <1>10, <2>2, <3>1 DEF SamePending
    <2> QED BY <1>3, <2>1, <2>2
  <1>12. Concludes(h, status)
    BY <1>2, <1>3, <1>4, <1>5, <1>8, <1>9, <1>10, <1>11 DEF Concludes, h
  <1>13. \A x \in Handles \ {h} : SameAt(x)
    BY <1>7, <1>9, <1>10, <1>11 DEF SameAt
  <1> QED BY <1>3, <1>12, <1>13 DEF ActsOn, Effect

\* Every step of the service does at most one thing, to one handle.
LEMMA StepEffect ==
    ASSUME SoundInv, ~AuditMayFail, [Next]_vars
    PROVE  Effect
  <1>1. CASE Tick \/ UNCHANGED vars
    BY <1>1 DEF Tick, vars, stores, Effect, NothingHappens
  <1>2. ASSUME NEW w \in Workers,
               Arrives(w) \/ Authorizes(w) \/ Resolves(w) \/ RailReturns(w)
        PROVE  Effect
    BY <1>2, ArrivalEffect, AuthorizeEffect, ResolveEffect, RailEffect DEF Effect
  <1> QED BY <1>1, <1>2 DEF Next

-----------------------------------------------------------------------------
\* The books stay in agreement.

\* Whatever a step does to its handle, the books agree afterwards.
LEMMA BooksStep ==
    ASSUME SoundInv, ~AuditMayFail, [Next]_vars
    PROVE  BooksAgree'
  <1>1. Effect
    BY StepEffect
  <1>2. (\A h \in Handles : HandleBooks(h)) /\ LockBooks
    BY DEF SoundInv, BooksAgree
  <1>3. ASSUME NEW x \in Handles, SameAt(x)
        PROVE  HandleBooks(x)'
    BY <1>2, <1>3 DEF HandleBooks, SameAt, SameReservation, SamePending, SameOutcome
  <1>4. CASE NothingHappens
    <2>1. \A x \in Handles : SameAt(x)
      BY <1>4 DEF NothingHappens, SameAt, SameReservation, SamePending, SameOutcome
    <2>2. LockBooks'
      BY <1>2, <1>4 DEF NothingHappens, LockBooks
    <2> QED BY <1>3, <2>1, <2>2 DEF BooksAgree
  <1>5. ASSUME NEW h \in Handles, ActsOn(h)
        PROVE  BooksAgree'
    <2>1. \A x \in Handles \ {h} : HandleBooks(x)'
      BY <1>3, <1>5 DEF ActsOn
    <2>2. ASSUME NEW p \in Proposals, Refuses(h, p)
          PROVE  HandleBooks(h)' /\ LockBooks'
      BY <2>2 DEF Refuses, Settles, OpenFor, SameOutcome, HandleBooks, LockBooks
    <2>3. ASSUME NEW p \in Proposals, Holds(h, p)
          PROVE  HandleBooks(h)' /\ LockBooks'
      BY <2>3 DEF Holds, Settles, OpenFor, SameOutcome, HandleBooks, LockBooks
    <2>4. ASSUME NEW p \in Proposals, Dispatches(h, p)
          PROVE  HandleBooks(h)' /\ LockBooks'
      <3>1. HandleBooks(h)'
        BY <2>4, <1>2
           DEF Dispatches, OpenFor, SameReservation, SamePending, HandleBooks
      <3>2. LockBooks'
        <4>1. /\ lock'.handle = h /\ lock'.proposal = p
              /\ rail'[h][1].proposal = p
              /\ lock'.verdict = REVIEW => lock'.granted
          BY <2>4 DEF Dispatches
        <4>2. lock'.granted => h \in DOMAIN pending' /\ pending'[h].proposal = p
          BY <2>4 DEF Dispatches, OpenFor, SamePending
        <4>3. ~lock'.granted => /\ h \notin DOMAIN reservations'
                                /\ p = ProposalOf(h, handler'[lock'.worker].request)
          BY <2>4 DEF Dispatches, SameReservation
        <4> QED BY <4>1, <4>2, <4>3 DEF LockBooks
      <3> QED BY <3>1, <3>2
    <2>5. ASSUME NEW status \in Statuses, Concludes(h, status)
          PROVE  HandleBooks(h)' /\ LockBooks'
      BY <2>5 DEF Concludes, Statuses, HandleBooks, LockBooks
    <2> QED BY <1>5, <2>1, <2>2, <2>3, <2>4, <2>5 DEF ActsOn, BooksAgree
  <1> QED BY <1>1, <1>4, <1>5 DEF Effect

\* While no receipt write fails, the reservations, the checkers' queue, the
\* idempotency store and the rail always agree about every handle.
THEOREM BooksInvariant ==
    ASSUME ~AuditMayFail
    PROVE  Spec => []SoundInv
  <1>1. Init => BooksAgree
    BY DEF Init, BooksAgree, HandleBooks, LockBooks
  <1>2. Init => SoundInv
    BY <1>1, InitSafe DEF SoundInv
  <1>3. SoundInv /\ [Next]_vars => SoundInv'
    BY BooksStep, SafeStep DEF SoundInv
  <1> QED BY <1>2, <1>3, PTL DEF Spec

\* A handle that reads awaiting_review has moved nothing and is in the
\* checkers' queue, and the queue holds nothing else.
THEOREM HeldIsHeld ==
    ASSUME ~AuditMayFail
    PROVE  Spec => []HeldMeansHeld
  <1>1. ASSUME SoundInv
        PROVE  HeldMeansHeld
    <2> DEFINE awaiting == {h \in DOMAIN reservations :
                               reservations[h].answer = "awaiting_review"}
    <2>1. DOMAIN reservations \subseteq Handles /\ DOMAIN pending \subseteq Handles
      BY <1>1 DEF SoundInv, SafeInv, TypeOK
    <2>2. DOMAIN pending = awaiting
      BY <1>1, <2>1 DEF SoundInv, BooksAgree, HandleBooks, LockBooks
    <2>3. ASSUME NEW h \in awaiting, lock = Free
          PROVE  rail[h] = << >>
      <3>1. h \in Handles /\ h \notin DOMAIN outcomes
        BY <1>1, <2>1, <2>2, <2>3, OpenWhenFree DEF OpenFor
      <3> QED BY <1>1, <3>1 DEF SoundInv, SafeInv, KeysDescribeRail
    <2> QED BY <2>2, <2>3 DEF HeldMeansHeld
  <1> QED BY <1>1, BooksInvariant, PTL

\* No step unbinds an answered handle or rewrites an answer other than
\* awaiting_review.
LEMMA FinalStep ==
    ASSUME SoundInv, ~AuditMayFail, [Next]_vars
    PROVE  \A h \in DOMAIN reservations :
             /\ h \in DOMAIN reservations'
             /\ reservations'[h].proposal = reservations[h].proposal
             /\ reservations'[h].answer # reservations[h].answer
                   => reservations[h].answer = "awaiting_review"
  <1>1. Effect
    BY StepEffect
  <1>2. DOMAIN reservations \subseteq Handles
    BY DEF SoundInv, SafeInv, TypeOK
  <1>3. CASE NothingHappens
    BY <1>3 DEF NothingHappens
  <1>4. ASSUME NEW h \in Handles, ActsOn(h), NEW x \in DOMAIN reservations
        PROVE  /\ x \in DOMAIN reservations'
               /\ reservations'[x].proposal = reservations[x].proposal
               /\ reservations'[x].answer # reservations[x].answer
                     => reservations[x].answer = "awaiting_review"
    <2>1. CASE x # h
      BY <1>2, <1>4, <2>1 DEF ActsOn, SameAt, SameReservation
    <2>2. CASE x = h
      <3>1. ASSUME NEW p \in Proposals, Refuses(h, p) \/ Holds(h, p) \/ Dispatches(h, p)
            PROVE  /\ h \in DOMAIN reservations'
                   /\ reservations'[h].proposal = reservations[h].proposal
                   /\ reservations[h].answer = "awaiting_review"
        BY <1>4, <2>2, <3>1
           DEF Refuses, Holds, Dispatches, Settles, OpenFor, SameReservation
      <3>2. ASSUME NEW status \in Statuses, Concludes(h, status)
            PROVE  /\ h \in DOMAIN reservations'
                   /\ reservations'[h].proposal = reservations[h].proposal
                   /\ reservations[h].answer = "awaiting_review"
        <4>1. /\ lock # Free /\ lock.handle = h
              /\ h \in DOMAIN outcomes /\ outcomes[h] = "inflight"
              /\ h \in DOMAIN reservations'
              /\ reservations'[h].proposal = rail[h][1].proposal
          BY <3>2 DEF Concludes
        <4>2. reservations[h].answer = "awaiting_review" /\ h \in DOMAIN pending
          BY <1>4, <2>2, <4>1 DEF SoundInv, BooksAgree, HandleBooks, LockBooks
        <4>3. lock.granted /\ pending[h].proposal = rail[h][1].proposal
          BY <1>4, <2>2, <4>1 DEF SoundInv, BooksAgree, HandleBooks, LockBooks
        <4>4. pending[h].proposal = reservations[h].proposal
          BY <4>2 DEF SoundInv, BooksAgree, HandleBooks, LockBooks
        <4> QED BY <4>1, <4>2, <4>3, <4>4
      <3> QED BY <1>4, <2>2, <3>1, <3>2 DEF ActsOn
    <2> QED BY <2>1, <2>2
  <1> QED BY <1>1, <1>3, <1>4 DEF Effect

\* An answer, once reserved, is repeated for ever; only awaiting_review gives
\* way, and a handle never changes the proposal it is bound to.
THEOREM AnswersAreFinal ==
    ASSUME ~AuditMayFail
    PROVE  Spec => AnswerIsFinal
  <1> DEFINE Final == \A h \in DOMAIN reservations :
         /\ h \in DOMAIN reservations'
         /\ reservations'[h].proposal = reservations[h].proposal
         /\ reservations'[h].answer # reservations[h].answer
               => reservations[h].answer = "awaiting_review"
  <1>1. SoundInv /\ [Next]_vars => Final
    BY FinalStep
  <1>2. Spec => [][Final]_vars
    BY <1>1, BooksInvariant, PTL DEF Spec
  <1> QED BY <1>2 DEF AnswerIsFinal

\* No retry, second checker, declined review or expired one dispatches a
\* payment whose handle already reads refused.
THEOREM RefusedIsNotOvertaken ==
    ASSUME ~AuditMayFail
    PROVE  Spec => RefusedStaysRefused
  <1> DEFINE Stays == \A h \in Handles :
         /\ h \in DOMAIN reservations
         /\ reservations[h].answer = "refused"
         => ~Sends(h)
  <1>1. ASSUME SoundInv, [Next]_vars, NEW x \in Handles,
               x \in DOMAIN reservations, reservations[x].answer = "refused",
               Sends(x)
        PROVE  FALSE
    <2>1. Effect
      BY <1>1, StepEffect
    <2>2. rail'[x] # rail[x]
      BY <1>1 DEF Sends, SoundInv, SafeInv, TypeOK
    <2>3. ActsOn(x)
      BY <2>1, <2>2 DEF Effect, NothingHappens, ActsOn, SameAt
    <2>4. PICK status \in Statuses : Concludes(x, status)
      BY <1>1, <2>2, <2>3
         DEF ActsOn, Refuses, Holds, Dispatches, Settles, OpenFor
    <2>5. x \in DOMAIN outcomes /\ x \in DOMAIN outcomes'
      BY <2>4 DEF Concludes
    <2>6. SafeInv'
      BY <1>1, SafeStep DEF SoundInv
    <2>7. Len(rail[x]) = 1 /\ Len(rail'[x]) = 1
      BY <1>1, <2>5, <2>6, Zenon DEF SoundInv, SafeInv, KeysDescribeRail
    <2> QED BY <1>1, <2>7 DEF Sends
  <1>2. SoundInv /\ [Next]_vars => Stays
    BY <1>1
  <1>3. Spec => [][Stays]_vars
    BY <1>2, BooksInvariant, PTL DEF Spec
  <1> QED BY <1>3 DEF RefusedStaysRefused

-----------------------------------------------------------------------------
\* The trail and the agent's answers.

\* A receipt that reports an execution reports how a reserved key ended, and
\* every key that has ended has such a receipt.
ReceiptsFollowRail == \A x \in receipts :
    x.status # "none" => /\ x.handle \in DOMAIN outcomes
                         /\ rail[x.handle][1].proposal = x.proposal
                         /\ outcomes[x.handle] = x.status
RailIsReceipted == \A h \in DOMAIN outcomes :
    outcomes[h] # "inflight" => \E x \in receipts :
                                   /\ x.handle = h
                                   /\ x.proposal = rail[h][1].proposal
                                   /\ x.status = outcomes[h]

\* An answer an agent was given is the one its handle is bound to, one from
\* before the review ended, or the refusal of another proposal.
Truthful(z) ==
    LET p == ProposalOf(z.handle, z.request)
    IN  Mappable(z.request) =>
          /\ z.handle \in DOMAIN reservations
          /\ IF reservations[z.handle].proposal = p
               THEN z.answer \in {reservations[z.handle].answer, "awaiting_review"}
               ELSE z.answer = "refused"

TrailBooks == /\ ReceiptsFollowRail
              /\ RailIsReceipted
              /\ \A z \in told : Truthful(z)

TrailInv == SoundInv /\ TrailBooks

\* What a step can add to the receipts: nothing about an execution, or, when
\* the lock's holder concludes, exactly the receipt of its dispatch.
QuietReceipts ==
    /\ receipts \subseteq receipts'
    /\ \A x \in receipts' : x \in receipts \/ x.status = "none"
ConcludingReceipt ==
    /\ lock' = Free
    /\ \E x : /\ receipts' = receipts \cup {x}
              /\ x.handle = lock.handle
              /\ x.proposal = lock.proposal
              /\ x.status = outcomes'[lock.handle]
ReceiptEffect ==
    IF lock = Free THEN QuietReceipts
                   ELSE ConcludingReceipt \/ (lock' = lock /\ receipts' = receipts)

\* What a step can tell: something said before, or the truth.
ToldEffect == \A z \in told' : z \in told \/ Truthful(z)'

\* An execution of an open handle tells and records nothing yet.
LEMMA ExecuteQuiet ==
    ASSUME NEW w, NEW h, NEW p, NEW intent, NEW verdict, NEW granted, NEW now,
           OpenFor(h, p), Execute(w, h, intent, verdict, granted, now)
    PROVE  UNCHANGED <<receipts, told>>
  BY DEF Execute, Reserves, OpenFor

\* A section that answers its own request records the answer it tells.
LEMMA SettleTells ==
    ASSUME ~AuditMayFail, NEW w, NEW h, NEW p, NEW verdict, NEW status, NEW held,
           handler[w].handle = h, p = ProposalOf(h, handler[w].request),
           Settle(w, h, p, verdict, status, FALSE, held)
    PROVE  ToldEffect
  <1> DEFINE answer == AgentStatus(verdict, status, FALSE)
             new == [handle |-> h, request |-> handler[w].request, answer |-> answer]
  <1>1. told' = told \cup {new} /\ reservations' = Put(reservations, h,
           [proposal |-> p, answer |-> answer])
    BY DEF Settle, Tell
  <1> HIDE DEF answer
  <1>2. /\ h \in DOMAIN reservations'
        /\ reservations'[h].proposal = p /\ reservations'[h].answer = answer
    BY <1>1 DEF Put
  <1>3. ASSUME NEW z, z = new
        PROVE  Truthful(z)'
    BY <1>2, <1>3 DEF Truthful
  <1> QED BY <1>1, <1>3 DEF ToldEffect

\* A section that executes nothing records no execution.
LEMMA SettleQuiet ==
    ASSUME ~AuditMayFail, NEW w, NEW h, NEW p, NEW verdict, NEW granted, NEW held,
           Settle(w, h, p, verdict, "none", granted, held)
    PROVE  QuietReceipts
  BY DEF Settle, ReceiptFor, QuietReceipts

\* Arrivals record nothing, and refuse only what no intent completes.
LEMMA ArrivalTrail ==
    ASSUME NEW w \in Workers, Arrives(w)
    PROVE  ReceiptEffect /\ ToldEffect
  <1>1. lock' = lock /\ receipts' = receipts
    BY DEF Arrives, AgentCalls, RefuseUnmappable, CheckerCalls, stores
  <1>2. ReceiptEffect
    BY <1>1 DEF ReceiptEffect, QuietReceipts
  <1>3. ToldEffect
    <2>1. CASE told' = told
      BY <2>1 DEF ToldEffect
    <2>2. ASSUME NEW h \in Handles, NEW r \in Requests, RefuseUnmappable(w, h, r)
          PROVE  ToldEffect
      <3>1. /\ told' = told \cup {[handle |-> h, request |-> r, answer |-> "refused"]}
            /\ ~Mappable(r)
        BY <2>2 DEF RefuseUnmappable, Tell
      <3> QED BY <3>1 DEF ToldEffect, Truthful
    <2> QED BY <2>1, <2>2 DEF Arrives, AgentCalls, CheckerCalls
  <1> QED BY <1>2, <1>3

\* authorize tells the answer it reserves, or the one that is reserved.
LEMMA AuthorizeTrail ==
    ASSUME SoundInv, ~AuditMayFail, NEW w \in Workers, Authorizes(w)
    PROVE  ReceiptEffect /\ ToldEffect
  <1> DEFINE h == handler[w].handle
             r == handler[w].request
             p == ProposalOf(h, r)
             intent == IntentOf(p, handler[w].stamp)
  <1>1. Enter(w, "authorize")
    BY DEF Authorizes, RepeatAnswer, AuthorizeDenied, AuthorizeHeld, AuthorizeAllowed,
           Decided
  <1>2. h \in Handles /\ lock = Free
    BY <1>1, CallByVerb DEF Enter, SoundInv, SafeInv
  <1>3. ASSUME NEW verdict, NEW held, Settle(w, h, p, verdict, "none", FALSE, held)
        PROVE  ReceiptEffect /\ ToldEffect
    BY <1>2, <1>3, SettleQuiet, SettleTells DEF ReceiptEffect
  <1>4. CASE RepeatAnswer(w)
    <2> DEFINE new == [handle |-> h, request |-> r,
                       answer |-> IF reservations[h].proposal = p
                                    THEN reservations[h].answer ELSE "refused"]
    <2>1. /\ told' = told \cup {new}
          /\ h \in DOMAIN reservations
          /\ reservations' = reservations /\ receipts' = receipts
      BY <1>4 DEF RepeatAnswer, Spent, Tell, stores
    <2>2. ASSUME NEW z, z = new
          PROVE  Truthful(z)'
      BY <2>1, <2>2 DEF Truthful
    <2> QED BY <1>2, <2>1, <2>2 DEF ReceiptEffect, QuietReceipts, ToldEffect
  <1>5. CASE AuthorizeDenied(w)
    BY <1>3, <1>5 DEF AuthorizeDenied
  <1>6. CASE AuthorizeHeld(w)
    BY <1>3, <1>6 DEF AuthorizeHeld
  <1>7. CASE AuthorizeAllowed(w)
    <2>1. OpenFor(h, p) /\ intent.proposal = p
      BY <1>2, <1>7, OpenWhenFree DEF AuthorizeAllowed, Decided, Spent, IntentOf
    <2>2. CASE Execute(w, h, intent, ALLOW, FALSE, Now(w))
      BY <1>2, <2>1, <2>2, ExecuteQuiet DEF ReceiptEffect, QuietReceipts, ToldEffect
    <2>3. CASE Settle(w, h, p, ALLOW, "none", FALSE, pending)
      BY <1>3, <2>3
    <2> QED BY <1>7, <2>1, <2>2, <2>3 DEF AuthorizeAllowed
  <1> QED BY <1>4, <1>5, <1>6, <1>7 DEF Authorizes

\* resolve answers checkers only, and executes before it records.
LEMMA ResolveTrail ==
    ASSUME SoundInv, ~AuditMayFail, NEW w \in Workers, Resolves(w)
    PROVE  ReceiptEffect /\ ToldEffect
  <1> DEFINE h == handler[w].handle
             p == pending[h].proposal
             verdict == DecideAt(ledger, p, Now(w))
             intent == IntentOf(p, Now(w))
  <1>1. Enter(w, "resolve")
    BY DEF Resolves, ResolveUnknown, ResolveDenied, ResolveMisdirected, ResolveEnded,
           ResolveGranted, Redecided
  <1>2. h \in Handles /\ lock = Free
    BY <1>1, CallByVerb DEF Enter, SoundInv, SafeInv
  <1>3. CASE ResolveGranted(w)
    <2>1. OpenFor(h, p) /\ Execute(w, h, intent, verdict, TRUE, Now(w))
      BY <1>2, <1>3, OpenWhenFree DEF ResolveGranted, Redecided
    <2> HIDE DEF h, p, verdict, intent
    <2>2. UNCHANGED <<receipts, told>>
      BY <2>1, ExecuteQuiet
    <2> QED BY <1>2, <2>2 DEF ReceiptEffect, QuietReceipts, ToldEffect
  <1>4. CASE ResolveUnknown(w) \/ ResolveDenied(w) \/ ResolveMisdirected(w) \/ ResolveEnded(w)
    <2>1. told' = told /\ QuietReceipts
      BY <1>4 DEF ResolveUnknown, ResolveDenied, ResolveMisdirected, ResolveEnded, stores,
                  ReceiptFor, QuietReceipts
    <2> QED BY <1>2, <2>1 DEF ReceiptEffect, ToldEffect
  <1> QED BY <1>3, <1>4 DEF Resolves

\* The rail's answer is recorded as the rail gave it, and told to the agent
\* whose request is waiting for it.
LEMMA RailTrail ==
    ASSUME SoundInv, ~AuditMayFail, NEW w \in Workers, RailReturns(w)
    PROVE  ReceiptEffect /\ ToldEffect
  <1>1. PICK status \in Statuses, moved \in BOOLEAN : RailAnswers(w, status, moved)
    BY DEF RailReturns
  <1> DEFINE h == lock.handle
             p == lock.proposal
             g == lock.granted
             new == ReceiptFor(h, p, lock.verdict, status, g)
  <1>2. /\ lock # Free /\ lock.worker = w
        /\ outcomes' = Put(outcomes, h, status)
        /\ Settle(w, h, p, lock.verdict, status, g, pending)
    BY <1>1 DEF RailAnswers
  <1>3. ReceiptEffect
    <2>1. lock' = Free /\ receipts' = receipts \cup {new}
      BY <1>2 DEF Settle, Leave
    <2>2. new.handle = h /\ new.proposal = p /\ new.status = status
      BY DEF ReceiptFor
    <2>3. outcomes'[h] = status
      BY <1>2 DEF Put
    <2> HIDE DEF new
    <2> QED BY <1>2, <2>1, <2>2, <2>3 DEF ReceiptEffect, ConcludingReceipt
  <1>4. CASE g
    <2>1. told' = told
      BY <1>2, <1>4 DEF Settle
    <2> QED BY <1>3, <2>1 DEF ToldEffect
  <1>5. CASE ~g
    <2>1. handler[w].handle = h /\ p = ProposalOf(h, handler[w].request)
      BY <1>2, <1>5 DEF SoundInv, SafeInv, LockHolder, BooksAgree, LockBooks
    <2>2. g = FALSE
      BY <1>2, <1>5 DEF SoundInv, SafeInv, TypeOK, Dispatching
    <2>3. Settle(w, h, p, lock.verdict, status, FALSE, pending)
      BY <1>2, <2>2
    <2> HIDE DEF h, p, g
    <2> QED BY <1>3, <2>1, <2>3, SettleTells
  <1> QED BY <1>4, <1>5

\* Every step records and tells as above.
LEMMA StepTrail ==
    ASSUME SoundInv, ~AuditMayFail, [Next]_vars
    PROVE  ReceiptEffect /\ ToldEffect
  <1>1. CASE Tick \/ UNCHANGED vars
    BY <1>1 DEF Tick, vars, stores, ReceiptEffect, QuietReceipts, ToldEffect
  <1>2. ASSUME NEW w \in Workers,
               Arrives(w) \/ Authorizes(w) \/ Resolves(w) \/ RailReturns(w)
        PROVE  ReceiptEffect /\ ToldEffect
    BY <1>2, ArrivalTrail, AuthorizeTrail, ResolveTrail, RailTrail
  <1> QED BY <1>1, <1>2 DEF Next

\* What was told stays true: a bound handle keeps its proposal, and only an
\* answer that was awaiting_review changes.
LEMMA ToldStep ==
    ASSUME TrailInv, ~AuditMayFail, [Next]_vars
    PROVE  \A z \in told' : Truthful(z)'
  <1>1. /\ ToldEffect
        /\ \A h \in DOMAIN reservations :
             /\ h \in DOMAIN reservations'
             /\ reservations'[h].proposal = reservations[h].proposal
             /\ reservations'[h].answer # reservations[h].answer
                   => reservations[h].answer = "awaiting_review"
    BY StepTrail, FinalStep DEF TrailInv
  <1>2. ASSUME NEW z \in told
        PROVE  Truthful(z)'
    BY <1>1 DEF TrailInv, TrailBooks, Truthful
  <1> QED BY <1>1, <1>2 DEF ToldEffect

\* The receipts and the keys stay in step: the only step that ends a dispatch
\* is the one that writes its receipt.
LEMMA ReceiptStep ==
    ASSUME TrailInv, ~AuditMayFail, [Next]_vars
    PROVE  ReceiptsFollowRail' /\ RailIsReceipted'
  <1>1. Effect /\ ReceiptEffect /\ SoundInv
    BY StepEffect, StepTrail DEF TrailInv
  <1>2. ReceiptsFollowRail /\ RailIsReceipted
    BY DEF TrailInv, TrailBooks
  <1>3. /\ DOMAIN outcomes \subseteq Handles
        /\ \A x \in receipts : x.handle \in Handles /\ x.status # "inflight"
    BY <1>1 DEF SoundInv, SafeInv, TypeOK, Receipt, Statuses
  <1>4. SafeInv'
    BY <1>1, SafeStep DEF SoundInv
  <1>5. DOMAIN outcomes' \subseteq Handles
    BY <1>4 DEF SafeInv, TypeOK
  <1>6. CASE NothingHappens
    <2>1. UNCHANGED <<outcomes, rail>>
      BY <1>6 DEF NothingHappens
    <2>2. QuietReceipts
      BY <1>1, <1>6 DEF NothingHappens, ReceiptEffect, ConcludingReceipt, QuietReceipts
    <2> QED BY <1>2, <2>1, <2>2 DEF QuietReceipts, ReceiptsFollowRail, RailIsReceipted
  <1>7. ASSUME NEW h \in Handles, ActsOn(h), lock = Free
        PROVE  ReceiptsFollowRail' /\ RailIsReceipted'
    <2>1. QuietReceipts
      BY <1>1, <1>7 DEF ReceiptEffect
    <2>2. \A x \in Handles : x \in DOMAIN outcomes =>
             /\ x \in DOMAIN outcomes'
             /\ outcomes'[x] = outcomes[x]
             /\ rail'[x] = rail[x]
      BY <1>7 DEF ActsOn, SameAt, SameOutcome, Refuses, Holds, Settles, Dispatches,
                  OpenFor, Concludes
    <2>3. \A x \in Handles : x \in DOMAIN outcomes' =>
             x \in DOMAIN outcomes \/ outcomes'[x] = "inflight"
      BY <1>7 DEF ActsOn, SameAt, SameOutcome, Refuses, Holds, Settles, Dispatches,
                  Concludes
    <2>4. ReceiptsFollowRail'
      BY <1>2, <1>3, <2>1, <2>2 DEF QuietReceipts, ReceiptsFollowRail
    <2>5. RailIsReceipted'
      BY <1>2, <1>5, <2>1, <2>2, <2>3 DEF QuietReceipts, RailIsReceipted
    <2> QED BY <2>4, <2>5
  <1>8. ASSUME NEW h \in Handles, ActsOn(h), lock # Free
        PROVE  ReceiptsFollowRail' /\ RailIsReceipted'
    <2>1. PICK status \in Statuses : Concludes(h, status)
      BY <1>7, <1>8 DEF ActsOn, Refuses, Holds, Settles, Dispatches
    <2>2. PICK x : /\ receipts' = receipts \cup {x}
                   /\ x.handle = h
                   /\ x.proposal = lock.proposal
                   /\ x.status = outcomes'[h]
      BY <1>1, <1>8, <2>1 DEF Concludes, ReceiptEffect, ConcludingReceipt
    <2>3. /\ h \in DOMAIN outcomes /\ outcomes[h] = "inflight"
          /\ h \in DOMAIN outcomes'
          /\ rail'[h][1].proposal = lock.proposal
          /\ rail'[h][1].proposal = rail[h][1].proposal
      BY <1>1, <1>8, <2>1 DEF Concludes, SoundInv, BooksAgree, LockBooks
    <2>4. \A y \in Handles \ {h} : SameOutcome(y) /\ rail'[y] = rail[y]
      BY <1>8 DEF ActsOn, SameAt
    <2>5. \A y \in receipts : y.status # "none" => y.handle # h
      BY <1>2, <1>3, <2>3 DEF ReceiptsFollowRail
    <2>6. ReceiptsFollowRail'
      BY <1>2, <1>3, <2>2, <2>3, <2>4, <2>5 DEF ReceiptsFollowRail, SameOutcome
    <2>7. RailIsReceipted'
      BY <1>2, <1>5, <2>2, <2>3, <2>4 DEF RailIsReceipted, SameOutcome
    <2> QED BY <2>6, <2>7
  <1> QED BY <1>1, <1>6, <1>7, <1>8 DEF Effect

\* While no receipt write fails, the receipts, the keys and what the agents
\* were told agree.
THEOREM TrailInvariant ==
    ASSUME ~AuditMayFail
    PROVE  Spec => []TrailInv
  <1>1. Init => TrailBooks
    BY DEF Init, TrailBooks, ReceiptsFollowRail, RailIsReceipted
  <1>2. Init => BooksAgree
    BY DEF Init, BooksAgree, HandleBooks, LockBooks
  <1>3. TrailInv /\ [Next]_vars => TrailInv'
    BY BooksStep, SafeStep, ToldStep, ReceiptStep DEF TrailInv, TrailBooks, SoundInv
  <1> QED BY <1>1, <1>2, <1>3, InitSafe, PTL DEF Spec, TrailInv, SoundInv

\* A receipt that reports an execution reports the one the rail performed.
THEOREM TrueReceipts ==
    ASSUME ~AuditMayFail
    PROVE  Spec => []ReceiptsAreTrue
  <1>1. ASSUME TrailInv, NEW x \in receipts, x.status # "none"
        PROVE  \E i \in DOMAIN rail[x.handle] :
                  /\ rail[x.handle][i].proposal = x.proposal
                  /\ rail[x.handle][i].answer = x.status
    <2> DEFINE h == x.handle
    <2>1. h \in Handles /\ rail[h] \in Seq(RailCall)
      BY <1>1 DEF TrailInv, SoundInv, SafeInv, TypeOK, Receipt
    <2>2. /\ h \in DOMAIN outcomes
          /\ rail[h][1].proposal = x.proposal /\ outcomes[h] = x.status
      BY <1>1 DEF TrailInv, TrailBooks, ReceiptsFollowRail
    <2> HIDE DEF h
    <2>3. Len(rail[h]) = 1 /\ rail[h][1].answer = outcomes[h]
      BY <1>1, <2>1, <2>2, Zenon DEF TrailInv, SoundInv, SafeInv, KeysDescribeRail
    <2>4. 1 \in DOMAIN rail[h]
      BY <2>1, <2>3
    <2> QED BY <2>2, <2>3, <2>4 DEF h
  <1>2. TrailInv => ReceiptsAreTrue
    BY <1>1 DEF ReceiptsAreTrue
  <1> QED BY <1>2, TrailInvariant, PTL

\* Once nobody holds the lock, every rail call has its receipt.
THEOREM EveryDispatchIsRecorded ==
    ASSUME ~AuditMayFail
    PROVE  Spec => []DispatchesAreRecorded
  <1>1. ASSUME TrailInv, lock = Free, NEW h \in Handles, NEW i \in DOMAIN rail[h]
        PROVE  \E x \in receipts : /\ x.handle = h
                                   /\ x.proposal = rail[h][i].proposal
                                   /\ x.status = rail[h][i].answer
    <2>1. rail[h] \in Seq(RailCall)
      BY <1>1 DEF TrailInv, SoundInv, SafeInv, TypeOK
    <2>2. h \in DOMAIN outcomes
      <3>1. rail[h] # << >>
        BY <1>1, <2>1
      <3> QED BY <1>1, <3>1, Zenon DEF TrailInv, SoundInv, SafeInv, KeysDescribeRail
    <2>3. /\ Len(rail[h]) = 1 /\ rail[h][1].answer = outcomes[h]
          /\ outcomes[h] # "inflight"
      BY <1>1, <2>2, Zenon DEF TrailInv, SoundInv, SafeInv, KeysDescribeRail
    <2>4. i = 1
      BY <1>1, <2>1, <2>3
    <2> QED BY <1>1, <2>2, <2>3, <2>4 DEF TrailInv, TrailBooks, RailIsReceipted
  <1>2. TrailInv => DispatchesAreRecorded
    BY <1>1 DEF DispatchesAreRecorded
  <1> QED BY <1>2, TrailInvariant, PTL

\* What an agent was told is true of the money: completed of a payment of that
\* proposal which the rail moved, refused of one it has not confirmed.
THEOREM AgentsReadTheTruth ==
    ASSUME ~AuditMayFail
    PROVE  Spec => []AnswersAreTrue
  <1>1. ASSUME TrailInv, ConfirmedHasMoved, NEW z \in told, Mappable(z.request)
        PROVE  LET h == z.handle
                   p == ProposalOf(h, z.request)
                   ofIt == {i \in DOMAIN rail[h] : rail[h][i].proposal = p}
               IN  /\ z.answer = "completed" => \E i \in ofIt : rail[h][i].moved
                   /\ z.answer = "refused" =>
                         \A i \in ofIt : rail[h][i].answer # "success"
    <2> DEFINE h == z.handle
               p == ProposalOf(h, z.request)
    <2>1. /\ h \in Handles /\ h \in DOMAIN reservations
          /\ rail[h] \in Seq(RailCall)
          /\ HandleBooks(h)
          /\ IF reservations[h].proposal = p
                THEN z.answer \in {reservations[h].answer, "awaiting_review"}
                ELSE z.answer = "refused"
      BY <1>1 DEF TrailInv, TrailBooks, Truthful, SoundInv, SafeInv, BooksAgree, TypeOK, Told
    <2> HIDE DEF h, p
    <2>2. /\ h \in DOMAIN outcomes => Len(rail[h]) = 1 /\ rail[h][1].answer = outcomes[h]
          /\ h \notin DOMAIN outcomes => rail[h] = << >>
      BY <1>1, <2>1, Zenon DEF TrailInv, SoundInv, SafeInv, KeysDescribeRail
    <2>3. CASE h \notin DOMAIN outcomes
      <3>1. reservations[h].answer # "completed"
        BY <2>1, <2>3 DEF HandleBooks
      <3> QED BY <2>1, <2>2, <2>3, <3>1 DEF h, p
    <2>4. CASE h \in DOMAIN outcomes
      <3>1. DOMAIN rail[h] = {1} /\ rail[h][1].answer = outcomes[h]
        BY <2>1, <2>2, <2>4
      <3>2. z.answer = "completed" =>
               rail[h][1].proposal = p /\ outcomes[h] = "success" /\ rail[h][1].moved
        BY <1>1, <2>1, <2>4 DEF HandleBooks, ConfirmedHasMoved
      <3>3. z.answer = "refused" /\ rail[h][1].proposal = p => outcomes[h] # "success"
        BY <2>1, <2>4 DEF HandleBooks
      <3> QED BY <3>1, <3>2, <3>3 DEF h, p
    <2> QED BY <2>3, <2>4
  <1>2. TrailInv /\ ConfirmedHasMoved => AnswersAreTrue
    BY <1>1 DEF AnswersAreTrue
  <1> QED BY <1>2, TrailInvariant, ConfirmedMoves, PTL

\* The final answers an agent reads about one proposal agree.
THEOREM AgentsReadOneStory ==
    ASSUME ~AuditMayFail
    PROVE  Spec => []OneStory
  <1>1. TrailInv => OneStory
    BY DEF TrailInv, TrailBooks, Truthful, OneStory
  <1> QED BY <1>1, TrailInvariant, PTL

-----------------------------------------------------------------------------
\* Refinement.

Subjects == [h \in Handles |-> SubjectOf(h)]
Sents    == [h \in Handles |-> SentOf(h)]
Answered == [h \in Handles |-> AnswerOf(h)]

\* A handle the step leaves alone maps to the same abstract state.
LEMMA UntouchedHandle ==
    ASSUME NEW x, SameAt(x)
    PROVE  SubjectOf(x)' = SubjectOf(x) /\ SentOf(x)' = SentOf(x) /\ AnswerOf(x)' = AnswerOf(x)
  BY DEF SameAt, SameReservation, SameOutcome, SubjectOf, SentOf, AnswerOf

\* A step on h maps to an update of h's abstract state.
LEMMA OneHandleMapped ==
    ASSUME NEW h \in Handles, \A x \in Handles \ {h} : SameAt(x)
    PROVE  /\ Subjects' = [Subjects EXCEPT ![h] = SubjectOf(h)']
           /\ Sents'    = [Sents EXCEPT ![h] = SentOf(h)']
           /\ Answered' = [Answered EXCEPT ![h] = AnswerOf(h)']
  <1>1. \A x \in Handles \ {h} : /\ SubjectOf(x)' = SubjectOf(x)
                                 /\ SentOf(x)' = SentOf(x)
                                 /\ AnswerOf(x)' = AnswerOf(x)
    BY UntouchedHandle
  <1>2. Subjects' = [Subjects EXCEPT ![h] = SubjectOf(h)']
    BY <1>1 DEF Subjects
  <1>3. Sents' = [Sents EXCEPT ![h] = SentOf(h)']
    BY <1>1 DEF Sents
  <1>4. Answered' = [Answered EXCEPT ![h] = AnswerOf(h)']
    BY <1>1 DEF Answered
  <1> QED BY <1>2, <1>3, <1>4

\* An open handle maps to an open one that takes p.
LEMMA OpenMapped ==
    ASSUME NEW h \in Handles, NEW p, OpenFor(h, p)
    PROVE  /\ Subjects[h] \in {Free, p}
           /\ Sents[h] = "no"
           /\ Answered[h] \in {"none", "awaiting_review"}
           /\ h \notin DOMAIN reservations => Answered[h] = "none"
  BY DEF OpenFor, Subjects, Sents, Answered, SubjectOf, SentOf, AnswerOf

\* Every step of the service is a step of OneShotPayment, or a stutter.
LEMMA AbstractStep ==
    ASSUME SoundInv, ~AuditMayFail, [Next]_vars
    PROVE  [Promise!Next]_(Promise!vars)
  <1> DEFINE abstract == <<Subjects, Sents, Answered>>
  <1>1. Effect
    BY StepEffect
  <1>2. CASE NothingHappens
    <2>1. \A x \in Handles : SameAt(x)
      BY <1>2 DEF NothingHappens, SameAt, SameReservation, SamePending, SameOutcome
    <2>2. \A x \in Handles : /\ SubjectOf(x)' = SubjectOf(x)
                             /\ SentOf(x)' = SentOf(x)
                             /\ AnswerOf(x)' = AnswerOf(x)
      BY <2>1, UntouchedHandle
    <2> QED BY <2>2 DEF Promise!vars
  <1>3. ASSUME NEW h \in Handles, ActsOn(h)
        PROVE  Promise!Next
    <2>1. /\ Subjects' = [Subjects EXCEPT ![h] = SubjectOf(h)']
          /\ Sents'    = [Sents EXCEPT ![h] = SentOf(h)']
          /\ Answered' = [Answered EXCEPT ![h] = AnswerOf(h)']
      BY <1>3, OneHandleMapped DEF ActsOn
    <2>2. ASSUME NEW p \in Proposals, Refuses(h, p)
          PROVE  Promise!Refuse(h, p)
      <3>1. SubjectOf(h)' = p /\ AnswerOf(h)' = "refused"
        BY <2>2 DEF Refuses, Settles, SubjectOf, AnswerOf
      <3>2. SentOf(h)' = SentOf(h)
        BY <2>2 DEF Refuses, Settles, SameOutcome, SentOf
      <3>3. Sents' = Sents
        BY <2>1, <3>2 DEF Sents
      <3>4. OpenFor(h, p)
        BY <2>2 DEF Refuses, Settles
      <3> QED BY <2>1, <3>1, <3>3, <3>4, OpenMapped
              DEF Promise!Refuse, Promise!Binds, Promise!Open, Subjects, Sents, Answered
    <2>3. ASSUME NEW p \in Proposals, Holds(h, p)
          PROVE  Promise!Hold(h, p)
      <3>1. SubjectOf(h)' = p /\ AnswerOf(h)' = "awaiting_review"
        BY <2>3 DEF Holds, Settles, SubjectOf, AnswerOf
      <3>2. SentOf(h)' = SentOf(h)
        BY <2>3 DEF Holds, Settles, SameOutcome, SentOf
      <3>3. Sents' = Sents
        BY <2>1, <3>2 DEF Sents
      <3>4. OpenFor(h, p) /\ h \notin DOMAIN reservations
        BY <2>3 DEF Holds, Settles
      <3> QED BY <2>1, <3>1, <3>3, <3>4, OpenMapped
              DEF Promise!Hold, Promise!Binds, Promise!Open, Subjects, Sents, Answered
    <2>4. ASSUME NEW p \in Proposals, Dispatches(h, p)
          PROVE  Promise!Send(h, p)
      <3>1. SubjectOf(h)' = p
        BY <2>4 DEF Dispatches, OpenFor, SameReservation, SubjectOf
      <3>2. SentOf(h)' = "inflight" /\ AnswerOf(h)' = AnswerOf(h)
        BY <2>4 DEF Dispatches, SameReservation, SentOf, AnswerOf
      <3>3. Answered' = Answered
        BY <2>1, <3>2 DEF Answered
      <3>4. OpenFor(h, p)
        BY <2>4 DEF Dispatches
      <3> QED BY <2>1, <3>1, <3>2, <3>3, <3>4, OpenMapped
              DEF Promise!Send, Promise!Binds, Promise!Open, Subjects, Sents, Answered
    <2>5. ASSUME NEW status \in Statuses, Concludes(h, status)
          PROVE  Promise!Conclude(h, status)
      <3>1. /\ SubjectOf(h)' = rail[h][1].proposal
            /\ SentOf(h)' = status /\ SentOf(h) = "inflight"
            /\ AnswerOf(h)' = IF status = "success" THEN "completed" ELSE "refused"
        BY <2>5 DEF Concludes, SubjectOf, SentOf, AnswerOf
      <3>2. SubjectOf(h) = rail[h][1].proposal
        <4>1. /\ lock # Free /\ lock.handle = h
              /\ h \in DOMAIN outcomes /\ outcomes[h] = "inflight"
          BY <2>5 DEF Concludes
        <4>2. CASE h \in DOMAIN reservations
          <5>1. lock.granted /\ pending[h].proposal = rail[h][1].proposal
                   /\ h \in DOMAIN pending
            BY <4>1, <4>2 DEF SoundInv, BooksAgree, LockBooks
          <5>2. pending[h].proposal = reservations[h].proposal
            BY <5>1 DEF SoundInv, BooksAgree, HandleBooks
          <5> QED BY <4>2, <5>1, <5>2 DEF SubjectOf
        <4>3. CASE h \notin DOMAIN reservations
          BY <4>1, <4>3 DEF SubjectOf
        <4> QED BY <4>2, <4>3
      <3>3. Subjects' = Subjects
        BY <2>1, <3>1, <3>2 DEF Subjects
      <3> QED BY <2>1, <3>1, <3>3 DEF Promise!Conclude, Subjects, Sents, Answered
    <2> QED BY <1>3, <2>2, <2>3, <2>4, <2>5 DEF ActsOn, Promise!Next, Statuses
  <1> QED BY <1>1, <1>2, <1>3 DEF Effect

\* The service implements the one-shot payment: each handle is spent on one
\* proposal, sent at most once, and answered as the rail answered.
THEOREM KeepsThePromise ==
    ASSUME ~AuditMayFail
    PROVE  Spec => ImplementsOneShot
  <1>1. Init => Promise!Init
    BY DEF Init, Promise!Init, SubjectOf, SentOf, AnswerOf
  <1>2. SoundInv /\ [Next]_vars => [Promise!Next]_(Promise!vars)
    BY AbstractStep
  <1> QED BY <1>1, <1>2, BooksInvariant, PTL DEF Spec, ImplementsOneShot, Promise!Spec
=============================================================================
