------------------------------ MODULE PaymentPath ------------------------------
(***************************************************************************)
(* From the agent to the rail and back, through crashes.  Agents reach the *)
(* gateway over connections that break and with a client that gives up     *)
(* after its own timeout; checkers answer reviews they were shown; the     *)
(* gateway's process may die at any moment and start again with empty      *)
(* stores and a fresh fingerprint key; the rail is another system, which   *)
(* gets a call and moves the money, or not, in its own time.               *)
(*                                                                         *)
(* The stores are those of AuthorizationService; what the policies say of a*)
(* request is a choice here.  Its lock covers a rail call, so one dispatch *)
(* is under way at a time and every other request waits for it.  A receipt *)
(* is written before anything is reserved, released or answered, and the   *)
(* write may raise.                                                        *)
(*                                                                         *)
(* The fingerprint key is generated by each process, so a fingerprint is   *)
(* the value and the life whose key made it: the rail's idempotency key is *)
(* <<life, handle>>, and so is the reference of a held review.             *)
(***************************************************************************)
EXTENDS WireClientKit, Rails

CONSTANTS
    Handles,        \* an agent's request_ref, under its principal
    Proposals,      \* what a request may ask for
    NoProposal,
    Conns,          \* connections, each with its handler thread
    Idle,           \* a connection that is closed
    Free,           \* the service's lock with no holder
    Candidates,     \* designs a client may have
    AuditMayFail,   \* whether a receipt's write may raise
    MaxLife         \* bound on the processes that are started

\* An exchange over a connection, and whether its client still listens.
Exchange == [handle: Handles, proposal: Proposals, waiting: BOOLEAN,
             stage: {"queued", "rail", "decided"},
             status: AgentOutcomeStatus \cup {"none"}]

ASSUME PaymentPathAssumption ==
    /\ NoProposal \notin Proposals
    /\ Candidates \subseteq Designs
    /\ AuditMayFail \in BOOLEAN
    /\ MaxLife \in Nat \ {0}
    /\ Idle \notin Exchange
    /\ "checker" \notin Conns
    /\ Free \notin Conns \cup {"checker"}

\* What a process knows a handle by, and the rail a payment.
Lives   == 1..MaxLife
Keys    == Lives \X Handles
Payment == [key: Keys, proposal: Proposals]

\* A review as it was shown to a checker; `life` is history.
Review == [life: Lives, ref: Keys, proposal: Proposals]

VARIABLES
    design,     \* the design of the agents' client, certified by the kit
    life, up,   \* the process that runs, or ran last
    subject, answer,    \* _reservations: a handle's proposal and answer
    review,     \* the queue: the proposal a handle's open review is about
    consumed,   \* handles whose approval is spent
    sent,       \* the idempotency store
    conn,       \* connection -> its exchange, or Idle
    lock,       \* who dispatches: a connection, "checker", or Free
    shown,      \* reviews a checker was shown, of every life
    rail,       \* payments the rail has received and not yet decided
    moved,      \* payments the rail has moved the money of
    calls,      \* history: key -> number of calls the rail received
    asked,      \* history: payments an agent asked for, by life
    released,   \* history: what was sent, and the review that released it
    raised,     \* history: keys that a receipt was lost of
    told        \* <<handle, proposal>> -> the last thing an agent was told

booked  == <<subject, answer, raised>>
service == <<booked, review, consumed, sent>>
process == <<life, up>>
ledger  == <<rail, moved, calls, released>>
vars    == <<design, process, service, conn, lock, shown, ledger, asked, told>>

-----------------------------------------------------------------------------
\* FingerprintKey.generate, once in each process.  The Wrong... operators are
\* plausible mistakes; here, a key that outlives the stores.
WrongFingerprint(h) == <<1, h>>
Fingerprint(h) == <<life, h>>

\* What the client tells its agent when `a` comes back, and all it may tell when
\* something other than the gateway's answer does: silence, a broken connection,
\* a service that does not announce this dialect.
Reads(a) == Client(design).reads[a]
Strays   == {Reads(a) : a \in {x \in Answer : ~AnnouncesOne(x)}}

Tells(k, status) ==
    told' = IF conn[k].waiting
            THEN [told EXCEPT ![<<conn[k].handle, conn[k].proposal>>] = status]
            ELSE told

Init ==
    /\ design \in {d \in Candidates : Certified(Client(d))}
    /\ life = 1
    /\ up = TRUE
    /\ subject = [h \in Handles |-> NoProposal]
    /\ answer = [h \in Handles |-> "none"]
    /\ review = [h \in Handles |-> NoProposal]
    /\ consumed = {}
    /\ sent = [h \in Handles |-> "no"]
    /\ raised = {}
    /\ conn = [k \in Conns |-> Idle]
    /\ lock = Free
    /\ shown = {}
    /\ rail = {}
    /\ moved = {}
    /\ calls = [key \in Keys |-> 0]
    /\ asked = {}
    /\ released = {}
    /\ told = [r \in Handles \X Proposals |-> "none"]

-----------------------------------------------------------------------------
\* The agent's end of a connection.

\* One POST; a handle may be asked again at any time, with any proposal.
Ask(k, h, p) ==
    /\ up
    /\ conn[k] = Idle
    /\ conn' = [conn EXCEPT ![k] = [handle |-> h, proposal |-> p, waiting |-> TRUE,
                                    stage |-> "queued", status |-> "none"]]
    /\ asked' = asked \cup {[life |-> life, handle |-> h, proposal |-> p]}
    /\ UNCHANGED <<design, process, service, lock, shown, ledger, told>>

\* No gateway runs: nothing listens, or something else does.
AskNobody(h, p, status) ==
    /\ ~up
    /\ told' = [told EXCEPT ![<<h, p>>] = status]
    /\ UNCHANGED <<design, process, service, conn, lock, shown, ledger, asked>>

\* The client's timeout, a reset, or a stray response.  The handler thread does
\* not notice; or the request never arrived.
Interrupted(k, status) ==
    /\ conn[k] # Idle
    /\ conn[k].waiting
    /\ Tells(k, status)
    /\ \/ conn' = [conn EXCEPT ![k].waiting = FALSE]
       \/ conn[k].stage = "queued" /\ conn' = [conn EXCEPT ![k] = Idle]
    /\ UNCHANGED <<design, process, service, lock, shown, ledger, asked>>

-----------------------------------------------------------------------------
\* The handler thread.

\* The request has the lock: nothing is being dispatched.
HasLock(k) ==
    /\ up
    /\ conn[k] # Idle
    /\ conn[k].stage = "queued"
    /\ lock = Free

\* The section ends: with an answer to write, or with an exception, which the
\* server makes a closed connection of.
Decides(k, status) ==
    /\ conn' = [conn EXCEPT ![k].stage = "decided", ![k].status = status]
    /\ UNCHANGED told

Breaks(k) ==
    /\ Tells(k, Reads([kind |-> "reset"]))
    /\ conn' = [conn EXCEPT ![k] = Idle]

\* _settle: the receipt, then the reservation.  When the receipt's write raises
\* the handle is as it was.
Settles(h, p, status) ==
    /\ subject' = [subject EXCEPT ![h] = p]
    /\ answer' = [answer EXCEPT ![h] = status]
    /\ UNCHANGED raised

Raises(h) ==
    /\ AuditMayFail
    /\ raised' = raised \cup {Fingerprint(h)}
    /\ UNCHANGED <<subject, answer>>

SettlesFor(k, status) ==
    \/ Settles(conn[k].handle, conn[k].proposal, status) /\ Decides(k, status)
    \/ Raises(conn[k].handle) /\ Breaks(k)

\* A settled review leaves the queue.
SettlesReview(h, status) ==
    \/ Settles(h, review[h], status) /\ review' = [review EXCEPT ![h] = NoProposal]
    \/ Raises(h) /\ UNCHANGED review

\* _agent_status of what the idempotency store holds.
StatusOf(outcome) == IF outcome = "success" THEN "completed" ELSE "refused"

\* A reserved handle: its answer, if it is asked for the same proposal.
WrongRepeats(k) ==
    /\ HasLock(k)
    /\ subject[conn[k].handle] # NoProposal
    /\ Decides(k, answer[conn[k].handle])
    /\ UNCHANGED <<design, process, service, lock, shown, ledger, asked>>
Repeats(k) ==
    LET r == conn[k]
    IN  /\ HasLock(k)
        /\ subject[r.handle] # NoProposal
        /\ Decides(k, IF subject[r.handle] = r.proposal THEN answer[r.handle]
                      ELSE "refused")
        /\ UNCHANGED <<design, process, service, lock, shown, ledger, asked>>

\* A handle with no reservation is decided: held for a checker, refused, or
\* executed.  A review is in the queue before its receipt is written.
IsNew(k) == HasLock(k) /\ subject[conn[k].handle] = NoProposal

Holds(k) ==
    /\ IsNew(k)
    /\ review' = [review EXCEPT ![conn[k].handle] = conn[k].proposal]
    /\ SettlesFor(k, "awaiting_review")
    /\ UNCHANGED <<design, process, consumed, sent, lock, shown, ledger, asked>>

Refuses(k) ==
    /\ IsNew(k)
    /\ SettlesFor(k, "refused")
    /\ UNCHANGED <<design, process, review, consumed, sent, lock, shown, ledger, asked>>

\* ExecutionGateway.execute: only the first caller reserves a key and calls the
\* rail, under the handle's fingerprint.
Calls(h, p, reviews) ==
    /\ sent[h] = "no"
    /\ sent' = [sent EXCEPT ![h] = "inflight"]
    /\ calls' = [calls EXCEPT ![Fingerprint(h)] = @ + 1]
    /\ rail' = rail \cup {[key |-> Fingerprint(h), proposal |-> p]}
    /\ released' = released \cup
          {[life |-> life, handle |-> h, proposal |-> p, reviews |-> reviews]}
    /\ UNCHANGED moved

Sends(k) ==
    /\ IsNew(k)
    /\ Calls(conn[k].handle, conn[k].proposal, {})
    /\ lock' = k
    /\ conn' = [conn EXCEPT ![k].stage = "rail"]
    /\ UNCHANGED <<design, process, booked, review, consumed, shown, asked, told>>

\* Any other caller gets what the key recorded, whatever it was recorded for: the
\* reservation that would have told them apart was lost with its receipt.
Recalls(k) ==
    /\ IsNew(k)
    /\ sent[conn[k].handle] # "no"
    /\ SettlesFor(k, StatusOf(sent[conn[k].handle]))
    /\ UNCHANGED <<design, process, review, consumed, sent, lock, shown, ledger, asked>>

\* The response is written; nobody reads it when the client has gone.
Replies(k) ==
    /\ up
    /\ conn[k] # Idle
    /\ conn[k].stage = "decided"
    /\ Tells(k, Reads(AnswerOf(conn[k].status)))
    /\ conn' = [conn EXCEPT ![k] = Idle]
    /\ UNCHANGED <<design, process, service, lock, shown, ledger, asked>>

-----------------------------------------------------------------------------
\* The checkers' door.

\* A checker reads the open reviews.
Shows ==
    /\ up
    /\ shown' = shown \cup
          {[life |-> life, ref |-> Fingerprint(h), proposal |-> review[h]] :
              h \in {x \in Handles : review[x] # NoProposal}}
    /\ UNCHANGED <<design, process, service, conn, lock, ledger, asked, told>>

\* An answer carries the reference and the digest of a review that was shown,
\* then or in an earlier life; it reaches an open review whose approval is not
\* spent, or changes nothing.
Reaches(v, h) ==
    /\ up
    /\ lock = Free
    /\ Fingerprint(h) = v.ref
    /\ review[h] # NoProposal
    /\ h \notin consumed

Grants(v, h) ==
    /\ Reaches(v, h)
    /\ review[h] = v.proposal
    /\ consumed' = consumed \cup {h}

Approves(v, h) ==
    /\ Grants(v, h)
    /\ Calls(h, v.proposal, {v})
    /\ lock' = "checker"
    /\ UNCHANGED <<design, process, booked, review, conn, shown, asked, told>>

\* The handle's key was spent without a reservation: as Recalls.
ApprovesSpent(v, h) ==
    /\ Grants(v, h)
    /\ sent[h] # "no"
    /\ SettlesReview(h, StatusOf(sent[h]))
    /\ UNCHANGED <<design, process, sent, conn, lock, shown, ledger, asked, told>>

\* A decline, or any answer to a review that has expired.
Declines(v, h) ==
    /\ Reaches(v, h)
    /\ SettlesReview(h, "refused")
    /\ UNCHANGED <<design, process, consumed, sent, conn, lock, shown, ledger, asked, told>>

-----------------------------------------------------------------------------
\* The rail.

\* It de-duplicates by key, so a key's money moves once however often it is sent.
RailMoves(x) ==
    /\ rail' = rail \ {x}
    /\ moved' = moved \cup {x}
    /\ UNCHANGED <<design, process, service, conn, lock, shown, calls, released, asked, told>>

RailDeclines(x) ==
    /\ rail' = rail \ {x}
    /\ UNCHANGED <<design, process, service, conn, lock, shown, moved, calls, released,
                   asked, told>>

Fate(x) == IF x \in moved THEN "moved" ELSE IF x \in rail THEN "open" ELSE "declined"

\* The dispatch under way ends, while the call may still be on its way; what it
\* came to is finalized, then settled.
InFlight(h) == IF lock \in Conns THEN conn[lock].proposal ELSE review[h]

RailAnswers(h, status) ==
    /\ up
    /\ sent[h] = "inflight"
    /\ status \in Outcomes(Fate([key |-> Fingerprint(h), proposal |-> InFlight(h)]))
    /\ sent' = [sent EXCEPT ![h] = status]
    /\ lock' = Free
    /\ IF lock \in Conns
       THEN SettlesFor(lock, StatusOf(status)) /\ UNCHANGED review
       ELSE SettlesReview(h, StatusOf(status)) /\ UNCHANGED <<conn, told>>
    /\ UNCHANGED <<design, process, consumed, shown, ledger, asked>>

-----------------------------------------------------------------------------
\* The process.

\* Every store is in memory; connections are reset, and what the rail has it has.
Crash ==
    /\ up
    /\ up' = FALSE
    /\ subject' = [h \in Handles |-> NoProposal]
    /\ answer' = [h \in Handles |-> "none"]
    /\ review' = [h \in Handles |-> NoProposal]
    /\ consumed' = {}
    /\ sent' = [h \in Handles |-> "no"]
    /\ lock' = Free
    /\ conn' = [k \in Conns |-> Idle]
    /\ told' = [r \in Handles \X Proposals |->
                  IF \E k \in Conns : /\ conn[k] # Idle
                                      /\ conn[k].waiting
                                      /\ r = <<conn[k].handle, conn[k].proposal>>
                  THEN Reads([kind |-> "reset"]) ELSE told[r]]
    /\ UNCHANGED <<design, life, shown, ledger, asked, raised>>

Restart ==
    /\ ~up
    /\ life < MaxLife
    /\ life' = life + 1
    /\ up' = TRUE
    /\ UNCHANGED <<design, service, conn, lock, shown, ledger, asked, told>>

Agents ==
    \E h \in Handles, p \in Proposals :
        \/ \E k \in Conns : Ask(k, h, p)
        \/ \E s \in Strays : AskNobody(h, p, s)

Threads(k) ==
    \/ Repeats(k) \/ Holds(k) \/ Refuses(k) \/ Sends(k) \/ Recalls(k) \/ Replies(k)
    \/ \E s \in Strays : Interrupted(k, s)

Checkers ==
    \/ Shows
    \/ \E v \in shown, h \in Handles :
          Approves(v, h) \/ ApprovesSpent(v, h) \/ Declines(v, h)

Rail ==
    \/ \E x \in rail : RailMoves(x) \/ RailDeclines(x)
    \/ \E h \in Handles, s \in Statuses : RailAnswers(h, s)

Next ==
    \/ Agents
    \/ \E k \in Conns : Threads(k)
    \/ Checkers
    \/ Rail
    \/ Crash
    \/ Restart

Spec == Init /\ [][Next]_vars

-----------------------------------------------------------------------------
\* Every variable holds what the code's types allow.
TypeOK ==
    /\ design \in Designs
    /\ life \in Lives
    /\ up \in BOOLEAN
    /\ subject \in [Handles -> Proposals \cup {NoProposal}]
    /\ answer \in [Handles -> AgentOutcomeStatus \cup {"none"}]
    /\ review \in [Handles -> Proposals \cup {NoProposal}]
    /\ consumed \subseteq Handles
    /\ sent \in [Handles -> {"no", "inflight"} \cup Statuses]
    /\ raised \subseteq Keys
    /\ conn \in [Conns -> Exchange \cup {Idle}]
    /\ lock \in Conns \cup {"checker", Free}
    /\ shown \subseteq Review
    /\ rail \subseteq Payment
    /\ moved \subseteq Payment
    /\ calls \in [Keys -> Nat]
    /\ asked \subseteq [life: Lives, handle: Handles, proposal: Proposals]
    /\ released \subseteq [life: Lives, handle: Handles, proposal: Proposals,
                           reviews: SUBSET Review]
    /\ told \in [Handles \X Proposals -> Told \cup {"none"}]

\* However the answer was lost, repeated, late or somebody else's, an agent whose
\* client the kit certified is told `completed` only of a proposal whose money
\* the rail has moved, in this life of the gateway or an earlier one.  It is so
\* while every receipt can be written.
WasPaid(h, p) == \E l \in Lives : [key |-> <<l, h>>, proposal |-> p] \in moved

CompletedWasPaid ==
    \A h \in Handles, p \in Proposals : told[<<h, p>>] = "completed" => WasPaid(h, p)

\* Whatever receipts are lost: `completed` is never told where nothing was paid,
\* and it is of another proposal than the one that was paid only where a receipt
\* of that very key was lost, and with it what the key was reserved for.
WasPaidUnderALostReceipt(h) ==
    \E l \in Lives, q \in Proposals :
        <<l, h>> \in raised /\ [key |-> <<l, h>>, proposal |-> q] \in moved

CompletedMovedMoney ==
    \A h \in Handles, p \in Proposals :
        told[<<h, p>>] = "completed" => WasPaid(h, p) \/ WasPaidUnderALostReceipt(h)

\* "the gateway never re-dispatches a reserved key": the rail receives one
\* idempotency key once, although clients retry, give up and ask again while the
\* first call is under way, receipts are lost after it, and the process forgets
\* what it has sent.
OneCallPerKey == \A key \in Keys : calls[key] <= 1

\* Nothing of a dead process acts in the next: what a life of the gateway sends
\* was asked of that life, and what a checker's approval released was a review
\* of that life, whatever references and requests are still about.
SentInItsOwnLife ==
    \A s \in released :
        /\ [life |-> s.life, handle |-> s.handle, proposal |-> s.proposal] \in asked
        /\ \A v \in s.reviews : v.life = s.life /\ v.proposal = s.proposal
=============================================================================
