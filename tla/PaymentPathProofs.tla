--------------------------- MODULE PaymentPathProofs ---------------------------
(***************************************************************************)
(* PaymentPath for any number of handles, proposals, connections and lives.*)
(*                                                                         *)
(* `completed` is true because a chain of copies is: the rail says success *)
(* only of what it moved (Rails), the service's answer is that, an exchange*)
(* is decided with it or with the answer to the same proposal, and a       *)
(* certified client adds none of its own (CompletedIsTheGateways).        *)
(* A lost receipt breaks one link, the proposal a spent handle was         *)
(* reserved for, and the key it was lost of is in `raised`.  One call per  *)
(* key rests on the handle's being spent when the call is made, and on the *)
(* key's being of this life.                                               *)
(***************************************************************************)
EXTENDS PaymentPath, TLAPS

-----------------------------------------------------------------------------
\* The clients.

LEMMA AnswersOfTheGateway ==
    ASSUME NEW status \in AgentOutcomeStatus \cup {"none"}
    PROVE  AnswerOf(status) \in Answer
BY DEF AnswerOf, Answer, Response, Versions

LEMMA KitScripts ==
    /\ CertificationResponse("completed", "unspoken") \in Answer
    /\ Unparseable \in Answer
    /\ [kind |-> "reset"] \in Answer
BY DEF CertificationResponse, Unparseable, Answer, Response, NoResponse, Versions,
       AgentOutcomeStatus

LEMMA ReadsAreTold ==
    ASSUME NEW d \in Designs, NEW a \in Answer
    PROVE  Client(d).reads[a] \in Told
<1>1. GatewayClientReads(a) \in Told
  BY DEF GatewayClientReads, WireResponse, TransportRefusal, Told, AgentOutcomeStatus
<1>2. ASSUME NEW vs PROVE MinimalReads(a, vs) \in Told
  BY DEF MinimalReads, MinimalReadsAnswer, Told, AgentOutcomeStatus
<1>3. DialectBlindReads(a) \in Told /\ OptimistReads(a) \in Told
  BY <1>2 DEF DialectBlindReads, OptimistReads, Told, AgentOutcomeStatus
<1> QED BY <1>1, <1>2, <1>3 DEF Client, Designs

\* The kit refuses the client that reads any dialect as its own, by an envelope
\* of another version, and the one that takes what it cannot read for success.
LEMMA TheKitRefuses ==
    ASSUME NEW d \in Designs, Certified(Client(d))
    PROVE  d \in {"shipped", "minimal"}
<1>1. d # "dialect_blind"
  <2> SUFFICES ASSUME d = "dialect_blind" PROVE FALSE
    OBVIOUS
  <2> DEFINE a == CertificationResponse("completed", "unspoken")
  <2>1. Client(d).reads[a] = "refused"
    BY DEF Certified, CertifiedReader, AForeignDialectIsRefused
  <2>2. Client(d).reads[a] = DialectBlindReads(a)
    BY KitScripts DEF Client
  <2>3. DialectBlindReads(a) = "completed"
    BY DEF DialectBlindReads, MinimalReads, MinimalReadsAnswer, CertificationResponse,
           Versions, AgentOutcomeStatus
  <2> QED BY <2>1, <2>2, <2>3
<1>2. d # "optimist"
  <2> SUFFICES ASSUME d = "optimist" PROVE FALSE
    OBVIOUS
  <2>1. Client(d).reads[Unparseable] = "refused"
    BY DEF Certified, CertifiedReader, AnUnparseableAnswerIsRefused
  <2>2. Client(d).reads[Unparseable] = OptimistReads(Unparseable)
    BY KitScripts DEF Client
  <2>3. OptimistReads(Unparseable) = "completed"
    BY DEF OptimistReads, MinimalReads, MinimalReadsAnswer, Unparseable
  <2> QED BY <2>1, <2>2, <2>3
<1> QED BY <1>1, <1>2 DEF Designs

\* A certified client says `completed` only on a response that announces version
\* one and whose status is `completed`: the gateway's, or one that no other
\* service sends.
LEMMA CompletedIsTheGateways ==
    ASSUME NEW d \in Designs, Certified(Client(d)), NEW a \in Answer,
           Client(d).reads[a] = "completed"
    PROVE  AnnouncesOne(a) /\ a.status = "completed"
<1>1. CASE d = "shipped"
  <2>1. GatewayClientReads(a) = "completed"
    BY <1>1 DEF Client
  <2> QED BY <2>1 DEF GatewayClientReads, WireResponse, TransportRefusal, AnnouncesOne,
                      SUPPORTED_WIRE_VERSIONS, EqualToOne
<1>2. CASE d = "minimal"
  <2>1. MinimalReads(a, EqualToOne) = "completed"
    BY <1>2 DEF Client
  <2> QED BY <2>1 DEF MinimalReads, MinimalReadsAnswer, AnnouncesOne
<1> QED BY <1>1, <1>2, TheKitRefuses

-----------------------------------------------------------------------------
\* Over either executor, a dispatch ends in success only when the rail moved the
\* money.
LEMMA SuccessIsMoved ==
    ASSUME NEW fate \in Fates, "success" \in Outcomes(fate)
    PROVE  fate = "moved"
<1>1. CASE \E r \in HttpSays(fate) : StatusFor(r) = "success"
  BY <1>1 DEF HttpSays, StatusFor
<1>2. CASE \E r \in StripeSays(fate) : StripeStatus(r) = "success"
  BY <1>2 DEF StripeSays, StripeStatus, MapStatus
<1> QED BY <1>1, <1>2 DEF Outcomes

-----------------------------------------------------------------------------
\* The inductive invariant.

\* The agents' client is one the kit certified.
Reader == Certified(Client(design))

\* Between two lives there is nothing but the rail and what people remember.
Quiet ==
    ~up => /\ \A h \in Handles : /\ subject[h] = NoProposal /\ answer[h] = "none"
                                 /\ review[h] = NoProposal /\ sent[h] = "no"
           /\ \A k \in Conns : conn[k] = Idle
           /\ lock = Free

AtRail(k) == conn[k] # Idle /\ conn[k].stage = "rail"

\* A dispatch under way has the lock and there is one: an exchange's, whose
\* handle is not reserved yet, or that of a review which is still in the queue.
LockIsOwned ==
    /\ lock = Free => \A h \in Handles : sent[h] # "inflight"
    /\ \A g, h \in Handles : sent[g] = "inflight" /\ sent[h] = "inflight" => g = h
    /\ \A k \in Conns : AtRail(k) => lock = k
    /\ \A k \in Conns : lock = k => /\ AtRail(k)
                                    /\ sent[conn[k].handle] = "inflight"
                                    /\ subject[conn[k].handle] = NoProposal
    /\ lock = "checker" => \A h \in Handles : sent[h] = "inflight" => review[h] # NoProposal

\* What a handle of this life was asked for, and what the rail moved under it: of
\* the proposal a `completed` is about, or of another, if a receipt was lost.
Asked(h, p)     == [life |-> life, handle |-> h, proposal |-> p] \in asked
Lost(h)         == <<life, h>> \in raised
Moved(h, p)     == [key |-> <<life, h>>, proposal |-> p] \in moved
MovedSome(h)    == \E q \in Proposals : Moved(h, q)
Justified(h, p) == Moved(h, p) \/ (Lost(h) /\ MovedSome(h))

\* The stores agree about a handle: a spent one is reserved and out of the queue,
\* and a held one is reserved for what is held, unless a receipt was lost.
Sound(h) ==
    /\ answer[h] = "completed" => Justified(h, subject[h])
    /\ sent[h] = "success" => MovedSome(h)
    /\ sent[h] \in Statuses /\ subject[h] = NoProposal => Lost(h)
    /\ review[h] # NoProposal =>
           Lost(h) \/ (subject[h] = review[h] /\ sent[h] \notin Statuses)
    /\ subject[h] # NoProposal => Asked(h, subject[h])
    /\ review[h] # NoProposal => Asked(h, review[h])

SoundBooks == \A h \in Handles : Sound(h)

\* An exchange was asked for in this life, and one that is decided is decided truly.
SoundExchange(k) ==
    conn[k] # Idle =>
        /\ Asked(conn[k].handle, conn[k].proposal)
        /\ conn[k].status = "completed" => Justified(conn[k].handle, conn[k].proposal)

SoundExchanges == \A k \in Conns : SoundExchange(k)

\* A key of this life has been used only for a handle that was sent, and one of
\* a life to come not at all.
CalledOnce ==
    \A l \in Lives, h \in Handles :
        /\ calls[<<l, h>>] <= 1
        /\ l > life => calls[<<l, h>>] = 0
        /\ l = life /\ up /\ sent[h] = "no" => calls[<<l, h>>] = 0

\* A review's reference was made by the life that showed it.
ShownInItsLife == \A v \in shown : v.ref[1] = v.life

\* No receipt is lost that cannot be.
NothingLost == ~AuditMayFail => raised = {}

IInv ==
    /\ TypeOK /\ Reader /\ Quiet /\ LockIsOwned /\ SoundBooks /\ SoundExchanges
    /\ CalledOnce /\ ShownInItsLife /\ NothingLost
    /\ CompletedMovedMoney /\ SentInItsOwnLife

LEMMA InitHolds == Init => IInv
<1> SUFFICES ASSUME Init PROVE IInv
  OBVIOUS
<1> USE DEF Init
<1>1. TypeOK
  BY PaymentPathAssumption DEF TypeOK, Lives, Keys
<1>2. Reader /\ Quiet /\ NothingLost
  BY DEF Reader, Quiet, NothingLost
<1>3. LockIsOwned
  BY PaymentPathAssumption DEF LockIsOwned, AtRail
<1>4. SoundBooks /\ SoundExchanges
  BY DEF SoundBooks, Sound, SoundExchanges, SoundExchange, Statuses
<1>5. CalledOnce
  BY DEF CalledOnce, Keys
<1>6. ShownInItsLife /\ CompletedMovedMoney /\ SentInItsOwnLife
  BY DEF ShownInItsLife, CompletedMovedMoney, SentInItsOwnLife
<1> QED BY <1>1, <1>2, <1>3, <1>4, <1>5, <1>6 DEF IInv

-----------------------------------------------------------------------------
\* Facts the steps share.

\* An exchange under way is one of the agents'.
LEMMA Exchanges ==
    ASSUME TypeOK, NEW k \in Conns, conn[k] # Idle
    PROVE  /\ conn[k] \in Exchange
           /\ conn[k].handle \in Handles /\ conn[k].proposal \in Proposals
           /\ conn[k].status \in AgentOutcomeStatus \cup {"none"}
           /\ conn[k].stage \in {"queued", "rail", "decided"}
           /\ conn[k].waiting \in BOOLEAN
BY DEF TypeOK, Exchange

\* What is told instead of the gateway's answer is no `completed`.
LEMMA StraysAreRefusals ==
    ASSUME TypeOK, Reader, NEW status \in Strays
    PROVE  status \in Told /\ status # "completed"
<1>1. PICK a \in Answer : ~AnnouncesOne(a) /\ status = Client(design).reads[a]
  BY DEF Strays, Reads
<1> QED BY <1>1, ReadsAreTold, CompletedIsTheGateways DEF TypeOK, Reader

LEMMA ResetIsStray == Reads([kind |-> "reset"]) \in Strays
BY KitScripts DEF Strays, AnnouncesOne

\* What a client tells of the gateway's answer is `completed` only if that is.
LEMMA RelayedIsTrue ==
    ASSUME TypeOK, Reader, NEW status \in AgentOutcomeStatus \cup {"none"}
    PROVE  /\ Reads(AnswerOf(status)) \in Told
           /\ Reads(AnswerOf(status)) = "completed" => status = "completed"
<1>1. AnswerOf(status) \in Answer /\ AnswerOf(status).status = status
  BY AnswersOfTheGateway DEF AnswerOf
<1> QED BY <1>1, ReadsAreTold, CompletedIsTheGateways DEF TypeOK, Reader, Reads

LEMMA Fingerprints ==
    ASSUME TypeOK, NEW h \in Handles
    PROVE  Fingerprint(h) \in Keys /\ Fingerprint(h) = <<life, h>>
BY DEF TypeOK, Fingerprint, Keys

\* What telling over a connection leaves in `told`.
LEMMA Telling ==
    ASSUME TypeOK, NEW k \in Conns, conn[k] # Idle, NEW status \in Told, Tells(k, status)
    PROVE  /\ told' \in [Handles \X Proposals -> Told \cup {"none"}]
           /\ \A h \in Handles, p \in Proposals :
                  \/ told'[<<h, p>>] = told[<<h, p>>]
                  \/ /\ h = conn[k].handle /\ p = conn[k].proposal
                     /\ told'[<<h, p>>] = status
<1>1. conn[k].handle \in Handles /\ conn[k].proposal \in Proposals
  BY Exchanges
<1>2. told \in [Handles \X Proposals -> Told \cup {"none"}]
  BY DEF TypeOK
<1>3. CASE told' = told
  BY <1>2, <1>3
<1>4. CASE told' = [told EXCEPT ![<<conn[k].handle, conn[k].proposal>>] = status]
  BY <1>1, <1>2, <1>4
<1> QED BY <1>3, <1>4 DEF Tells

\* Nobody is told anything new, or a refusal.
NothingClaimed ==
    /\ told' \in [Handles \X Proposals -> Told \cup {"none"}]
    /\ \A h \in Handles, p \in Proposals :
           told'[<<h, p>>] = "completed" => told[<<h, p>>] = "completed"

LEMMA Straying ==
    ASSUME TypeOK, Reader, NEW k \in Conns, conn[k] # Idle, NEW status \in Strays,
           Tells(k, status)
    PROVE  NothingClaimed
BY StraysAreRefusals, Telling DEF NothingClaimed

\* An agent's crash-time answer is a refusal.
LEMMA Crashing ==
    ASSUME TypeOK, Reader, Crash
    PROVE  NothingClaimed
<1>1. Reads([kind |-> "reset"]) \in Told /\ Reads([kind |-> "reset"]) # "completed"
  BY ResetIsStray, StraysAreRefusals
<1>2. told \in [Handles \X Proposals -> Told \cup {"none"}]
  BY DEF TypeOK
<1> QED BY <1>1, <1>2 DEF Crash, NothingClaimed

-----------------------------------------------------------------------------
\* What the parts of a section do.  A step that settles leaves its handle with the
\* answer, or with a receipt lost and nothing else.
Settled(h, p, status) ==
    \/ /\ subject'[h] = p /\ answer'[h] = status /\ raised' = raised
    \/ /\ AuditMayFail /\ raised' = raised \cup {<<life, h>>}
       /\ subject'[h] = subject[h] /\ answer'[h] = answer[h]

OthersBooked(h) == \A g \in Handles \ {h} : subject'[g] = subject[g] /\ answer'[g] = answer[g]

BookTypes ==
    /\ subject' \in [Handles -> Proposals \cup {NoProposal}]
    /\ answer' \in [Handles -> AgentOutcomeStatus \cup {"none"}]
    /\ raised' \subseteq Keys

LEMMA Settling ==
    ASSUME TypeOK, NEW h \in Handles, NEW p \in Proposals, NEW status \in AgentOutcomeStatus,
           Settles(h, p, status) \/ Raises(h)
    PROVE  BookTypes /\ OthersBooked(h) /\ Settled(h, p, status)
<1>1. CASE Settles(h, p, status)
  BY <1>1 DEF Settles, TypeOK, BookTypes, OthersBooked, Settled
<1>2. CASE Raises(h)
  BY <1>2, Fingerprints DEF Raises, TypeOK, BookTypes, OthersBooked, Settled
<1> QED BY <1>1, <1>2

\* Its exchange is decided with the answer, or breaks.
ExchangeSettled(k, status) ==
    \/ /\ conn'[k] = [conn[k] EXCEPT !.stage = "decided", !.status = status]
       /\ told' = told
    \/ conn'[k] = Idle

OthersExchange(k) == \A j \in Conns \ {k} : conn'[j] = conn[j]

LEMMA Deciding ==
    ASSUME TypeOK, NEW k \in Conns, conn[k] # Idle,
           NEW status \in AgentOutcomeStatus \cup {"none"}, Decides(k, status)
    PROVE  /\ conn' \in [Conns -> Exchange \cup {Idle}]
           /\ OthersExchange(k) /\ ExchangeSettled(k, status)
           /\ conn'[k] # Idle /\ conn'[k].stage = "decided" /\ conn'[k].status = status
           /\ conn'[k].handle = conn[k].handle /\ conn'[k].proposal = conn[k].proposal
           /\ told' = told
<1>1. [conn[k] EXCEPT !.stage = "decided", !.status = status] \in Exchange
  BY Exchanges DEF Exchange
<1>2. conn'[k] = [conn[k] EXCEPT !.stage = "decided", !.status = status]
  BY DEF Decides, TypeOK
<1>3. conn[k] \in Exchange
  BY Exchanges
<1>4. conn' \in [Conns -> Exchange \cup {Idle}] /\ OthersExchange(k)
  BY <1>1, <1>2 DEF Decides, TypeOK, OthersExchange
<1>5. conn'[k] # Idle
  BY <1>1, <1>2, PaymentPathAssumption
<1>6. /\ conn'[k].stage = "decided" /\ conn'[k].status = status
      /\ conn'[k].handle = conn[k].handle /\ conn'[k].proposal = conn[k].proposal
  BY <1>2, <1>3 DEF Exchange
<1> QED BY <1>2, <1>4, <1>5, <1>6 DEF Decides, ExchangeSettled

LEMMA Breaking ==
    ASSUME TypeOK, Reader, NEW k \in Conns, conn[k] # Idle, Breaks(k)
    PROVE  /\ conn' \in [Conns -> Exchange \cup {Idle}]
           /\ OthersExchange(k) /\ conn'[k] = Idle
           /\ NothingClaimed
<1>1. NothingClaimed
  BY ResetIsStray, Straying DEF Breaks
<1> QED BY <1>1 DEF Breaks, TypeOK, OthersExchange

LEMMA SettlingFor ==
    ASSUME TypeOK, Reader, NEW k \in Conns, conn[k] # Idle, NEW status \in AgentOutcomeStatus,
           SettlesFor(k, status)
    PROVE  /\ BookTypes /\ OthersBooked(conn[k].handle)
           /\ Settled(conn[k].handle, conn[k].proposal, status)
           /\ conn' \in [Conns -> Exchange \cup {Idle}]
           /\ OthersExchange(k) /\ ExchangeSettled(k, status)
           /\ NothingClaimed
<1>1. conn[k].handle \in Handles /\ conn[k].proposal \in Proposals
  BY Exchanges
<1>2. BookTypes /\ OthersBooked(conn[k].handle)
      /\ Settled(conn[k].handle, conn[k].proposal, status)
  BY <1>1, Settling DEF SettlesFor
<1>3. CASE Decides(k, status)
  BY <1>2, <1>3, Deciding DEF NothingClaimed, TypeOK
<1>4. CASE Breaks(k)
  BY <1>2, <1>4, Breaking DEF ExchangeSettled
<1> QED BY <1>3, <1>4 DEF SettlesFor

\* A settled review leaves the queue, or a receipt of it was lost.
LEMMA SettlingReview ==
    ASSUME TypeOK, NEW h \in Handles, review[h] # NoProposal, NEW status \in AgentOutcomeStatus,
           SettlesReview(h, status)
    PROVE  /\ BookTypes /\ OthersBooked(h) /\ Settled(h, review[h], status)
           /\ review' \in [Handles -> Proposals \cup {NoProposal}]
           /\ \A g \in Handles \ {h} : review'[g] = review[g]
           /\ \/ review'[h] = NoProposal /\ subject'[h] = review[h]
              \/ review'[h] = review[h] /\ <<life, h>> \in raised'
<1>1. review[h] \in Proposals
  BY DEF TypeOK
<1>2. BookTypes /\ OthersBooked(h) /\ Settled(h, review[h], status)
  BY <1>1, Settling DEF SettlesReview
<1>3. CASE Settles(h, review[h], status) /\ review' = [review EXCEPT ![h] = NoProposal]
  BY <1>2, <1>3 DEF Settles, TypeOK
<1>4. CASE Raises(h) /\ UNCHANGED review
  BY <1>2, <1>4, Fingerprints DEF Raises, TypeOK
<1> QED BY <1>3, <1>4 DEF SettlesReview

LEMMA StatusesOf ==
    ASSUME NEW outcome
    PROVE  /\ StatusOf(outcome) \in AgentOutcomeStatus
           /\ StatusOf(outcome) = "completed" => outcome = "success"
BY DEF StatusOf, AgentOutcomeStatus

\* A call spends its handle and nothing else.
LEMMA Calling ==
    ASSUME TypeOK, NEW h \in Handles, NEW p \in Proposals, NEW reviews \in SUBSET Review,
           Calls(h, p, reviews)
    PROVE  /\ sent[h] = "no" /\ sent'[h] = "inflight"
           /\ \A g \in Handles \ {h} : sent'[g] = sent[g]
           /\ sent' \in [Handles -> {"no", "inflight"} \cup Statuses]
           /\ calls' \in [Keys -> Nat]
           /\ rail' \subseteq Payment
           /\ released' \subseteq [life: Lives, handle: Handles, proposal: Proposals,
                                   reviews: SUBSET Review]
           /\ moved' = moved
<1>1. Fingerprint(h) \in Keys
  BY Fingerprints
<1>2. calls' \in [Keys -> Nat]
  BY <1>1 DEF Calls, TypeOK
<1>3. rail' \subseteq Payment
  BY <1>1 DEF Calls, TypeOK, Payment
<1>4. released' \subseteq [life: Lives, handle: Handles, proposal: Proposals,
                          reviews: SUBSET Review]
  BY DEF Calls, TypeOK
<1> QED BY <1>2, <1>3, <1>4 DEF Calls, TypeOK

\* Who sends, and what.
LEMMA Sending ==
    ASSUME TypeOK, NEW k \in Conns, Sends(k)
    PROVE  /\ up /\ conn[k] # Idle /\ conn[k] \in Exchange /\ conn[k].stage = "queued"
           /\ conn[k].handle \in Handles /\ conn[k].proposal \in Proposals
           /\ subject[conn[k].handle] = NoProposal
           /\ Calls(conn[k].handle, conn[k].proposal, {}) /\ {} \in SUBSET Review
           /\ lock = Free /\ lock' = k
           /\ conn'[k] # Idle /\ conn'[k].stage = "rail" /\ conn'[k].status = conn[k].status
           /\ conn'[k].handle = conn[k].handle /\ conn'[k].proposal = conn[k].proposal
           /\ conn' \in [Conns -> Exchange \cup {Idle}] /\ OthersExchange(k)
<1>1. conn[k] # Idle /\ conn[k] \in Exchange
  BY Exchanges DEF Sends, IsNew, HasLock
<1>2. [conn[k] EXCEPT !.stage = "rail"] \in Exchange
  BY <1>1 DEF Exchange
<1>3. conn'[k] = [conn[k] EXCEPT !.stage = "rail"]
  BY DEF Sends, TypeOK
<1>4. conn' \in [Conns -> Exchange \cup {Idle}] /\ OthersExchange(k)
  BY <1>2 DEF Sends, TypeOK, OthersExchange
<1> QED
  BY <1>1, <1>2, <1>3, <1>4, PaymentPathAssumption DEF Sends, IsNew, HasLock, Exchange

\* Which review an answer is to.
LEMMA Granting ==
    ASSUME TypeOK, NEW v \in shown, NEW h \in Handles, Grants(v, h)
    PROVE  /\ v \in Review /\ {v} \in SUBSET Review /\ v.proposal \in Proposals
           /\ up /\ lock = Free /\ review[h] = v.proposal /\ review[h] # NoProposal
           /\ v.ref = <<life, h>>
           /\ consumed' \subseteq Handles
<1>1. v \in Review /\ v.proposal \in Proposals
  BY DEF TypeOK, Review
<1> QED BY <1>1, Fingerprints DEF Grants, Reaches, TypeOK

\* An interrupted exchange goes on without its client, unless it never arrived.
LEMMA Interrupting ==
    ASSUME TypeOK, Reader, NEW k \in Conns, NEW s \in Strays, Interrupted(k, s)
    PROVE  /\ conn[k] # Idle /\ NothingClaimed
           /\ conn' \in [Conns -> Exchange \cup {Idle}] /\ OthersExchange(k)
           /\ \/ /\ conn'[k] # Idle /\ conn'[k].stage = conn[k].stage
                 /\ conn'[k].status = conn[k].status
                 /\ conn'[k].handle = conn[k].handle /\ conn'[k].proposal = conn[k].proposal
              \/ conn[k].stage = "queued" /\ conn'[k] = Idle
<1>1. conn[k] # Idle /\ NothingClaimed /\ conn[k] \in Exchange
  BY Straying, Exchanges DEF Interrupted
<1>2. CASE conn' = [conn EXCEPT ![k].waiting = FALSE]
  <2>1. [conn[k] EXCEPT !.waiting = FALSE] \in Exchange
    BY <1>1 DEF Exchange
  <2>2. conn'[k] = [conn[k] EXCEPT !.waiting = FALSE]
    BY <1>2 DEF TypeOK
  <2>3. conn'[k] # Idle
    BY <2>1, <2>2, PaymentPathAssumption
  <2>4. conn' \in [Conns -> Exchange \cup {Idle}] /\ OthersExchange(k)
    BY <1>2, <2>1 DEF TypeOK, OthersExchange
  <2> QED BY <1>1, <2>2, <2>3, <2>4 DEF Exchange
<1>3. CASE conn[k].stage = "queued" /\ conn' = [conn EXCEPT ![k] = Idle]
  BY <1>1, <1>3 DEF TypeOK, OthersExchange
<1> QED BY <1>2, <1>3 DEF Interrupted

-----------------------------------------------------------------------------
\* Types, one step for each action.
LEMMA TypesStep ==
    ASSUME IInv, Next
    PROVE  TypeOK'
<1> USE DEF IInv
<1>1. ASSUME NEW h \in Handles, NEW p \in Proposals, NEW k \in Conns, Ask(k, h, p)
      PROVE  TypeOK'
  <2>1. conn'[k] \in Exchange
    BY <1>1 DEF Ask, TypeOK, Exchange
  <2>2. conn' \in [Conns -> Exchange \cup {Idle}]
    BY <1>1, <2>1 DEF Ask, TypeOK
  <2>3. asked' \subseteq [life: Lives, handle: Handles, proposal: Proposals]
    BY <1>1 DEF Ask, TypeOK
  <2> QED BY <1>1, <2>2, <2>3 DEF Ask, TypeOK, process, service, booked, ledger
<1>2. ASSUME NEW h \in Handles, NEW p \in Proposals, NEW s \in Strays, AskNobody(h, p, s)
      PROVE  TypeOK'
  <2>1. s \in Told
    BY StraysAreRefusals
  <2>2. told' \in [Handles \X Proposals -> Told \cup {"none"}]
    BY <1>2, <2>1 DEF AskNobody, TypeOK
  <2> QED BY <1>2, <2>2 DEF AskNobody, TypeOK, process, service, booked, ledger
<1>3. ASSUME NEW k \in Conns, NEW s \in Strays, Interrupted(k, s)
      PROVE  TypeOK'
  <2>1. NothingClaimed /\ conn' \in [Conns -> Exchange \cup {Idle}]
    BY <1>3, Interrupting
  <2> QED
    BY <1>3, <2>1 DEF Interrupted, TypeOK, process, service, booked, ledger, NothingClaimed
<1>4. ASSUME NEW k \in Conns, Repeats(k)
      PROVE  TypeOK'
  <2> DEFINE status == IF subject[conn[k].handle] = conn[k].proposal
                       THEN answer[conn[k].handle] ELSE "refused"
  <2>1. conn[k] # Idle /\ Decides(k, status)
    BY <1>4 DEF Repeats, HasLock
  <2>2. status \in AgentOutcomeStatus \cup {"none"}
    BY <2>1, Exchanges DEF TypeOK, AgentOutcomeStatus
  <2>3. conn' \in [Conns -> Exchange \cup {Idle}] /\ told' = told
    BY <2>1, <2>2, Deciding
  <2> QED BY <1>4, <2>3 DEF Repeats, TypeOK, process, service, booked, ledger
<1>5. ASSUME NEW k \in Conns, NEW status \in AgentOutcomeStatus, conn[k] # Idle,
             SettlesFor(k, status), UNCHANGED <<design, process, sent, lock, shown, ledger, asked>>,
             review' \in [Handles -> Proposals \cup {NoProposal}], consumed' = consumed
      PROVE  TypeOK'
  <2>1. BookTypes /\ conn' \in [Conns -> Exchange \cup {Idle}] /\ NothingClaimed
    BY <1>5, SettlingFor
  <2> QED BY <1>5, <2>1 DEF TypeOK, process, ledger, BookTypes, NothingClaimed
<1>6. ASSUME NEW k \in Conns, Holds(k) \/ Refuses(k) \/ Recalls(k)
      PROVE  TypeOK'
  <2>1. conn[k] # Idle /\ conn[k].handle \in Handles /\ conn[k].proposal \in Proposals
    BY <1>6, Exchanges DEF Holds, Refuses, Recalls, IsNew, HasLock
  <2>2. review' \in [Handles -> Proposals \cup {NoProposal}] /\ consumed' = consumed
    BY <1>6, <2>1 DEF Holds, Refuses, Recalls, TypeOK
  <2>3. PICK status \in AgentOutcomeStatus : SettlesFor(k, status)
    BY <1>6, StatusesOf DEF Holds, Refuses, Recalls, AgentOutcomeStatus
  <2> QED BY <1>5, <1>6, <2>1, <2>2, <2>3 DEF Holds, Refuses, Recalls
<1>7. ASSUME NEW k \in Conns, Sends(k)
      PROVE  TypeOK'
  <2>1. /\ conn[k].handle \in Handles /\ conn[k].proposal \in Proposals
        /\ Calls(conn[k].handle, conn[k].proposal, {}) /\ {} \in SUBSET Review
        /\ conn' \in [Conns -> Exchange \cup {Idle}]
    BY <1>7, Sending
  <2> QED BY <1>7, <2>1, Calling DEF Sends, TypeOK, process, booked
<1>8. ASSUME NEW k \in Conns, Replies(k)
      PROVE  TypeOK'
  <2>1. conn[k] # Idle /\ conn[k].status \in AgentOutcomeStatus \cup {"none"}
    BY <1>8, Exchanges DEF Replies
  <2>2. told' \in [Handles \X Proposals -> Told \cup {"none"}]
    BY <1>8, <2>1, Telling, RelayedIsTrue DEF Replies
  <2>3. conn' \in [Conns -> Exchange \cup {Idle}]
    BY <1>8 DEF Replies, TypeOK
  <2> QED BY <1>8, <2>2, <2>3 DEF Replies, TypeOK, process, service, booked, ledger
<1>9. ASSUME Shows
      PROVE  TypeOK'
  <2>1. ASSUME NEW h \in Handles, review[h] # NoProposal
        PROVE  [life |-> life, ref |-> Fingerprint(h), proposal |-> review[h]] \in Review
    BY <2>1, Fingerprints DEF TypeOK, Review
  <2>2. shown' \subseteq Review
    BY <1>9, <2>1 DEF Shows, TypeOK
  <2> QED BY <1>9, <2>2 DEF Shows, TypeOK, process, service, booked, ledger
<1>10. ASSUME NEW v \in shown, NEW h \in Handles, Approves(v, h)
       PROVE  TypeOK'
  <2>1. /\ {v} \in SUBSET Review /\ v.proposal \in Proposals /\ consumed' \subseteq Handles
        /\ Calls(h, v.proposal, {v})
    BY <1>10, Granting DEF Approves
  <2> QED BY <1>10, <2>1, Calling DEF Approves, TypeOK, process, booked
<1>11. ASSUME NEW v \in shown, NEW h \in Handles, ApprovesSpent(v, h)
       PROVE  TypeOK'
  <2>1. /\ review[h] # NoProposal /\ consumed' \subseteq Handles
        /\ SettlesReview(h, StatusOf(sent[h]))
    BY <1>11, Granting DEF ApprovesSpent
  <2>2. BookTypes /\ review' \in [Handles -> Proposals \cup {NoProposal}]
    BY <2>1, SettlingReview, StatusesOf
  <2> QED BY <1>11, <2>1, <2>2 DEF ApprovesSpent, TypeOK, process, ledger, BookTypes
<1>12. ASSUME NEW v \in shown, NEW h \in Handles, Declines(v, h)
       PROVE  TypeOK'
  <2>1. review[h] # NoProposal /\ SettlesReview(h, "refused")
    BY <1>12 DEF Declines, Reaches
  <2>2. BookTypes /\ review' \in [Handles -> Proposals \cup {NoProposal}]
    BY <2>1, SettlingReview DEF AgentOutcomeStatus
  <2> QED BY <1>12, <2>2 DEF Declines, TypeOK, process, ledger, BookTypes
<1>13. ASSUME NEW x \in rail, RailMoves(x) \/ RailDeclines(x)
       PROVE  TypeOK'
  BY <1>13 DEF RailMoves, RailDeclines, TypeOK, process, service, booked
<1>14. ASSUME NEW h \in Handles, NEW s \in Statuses, RailAnswers(h, s)
       PROVE  TypeOK'
  <2>1. sent' \in [Handles -> {"no", "inflight"} \cup Statuses] /\ lock' = Free
    BY <1>14 DEF RailAnswers, TypeOK
  <2>2. /\ BookTypes /\ review' \in [Handles -> Proposals \cup {NoProposal}]
        /\ conn' \in [Conns -> Exchange \cup {Idle}]
        /\ told' \in [Handles \X Proposals -> Told \cup {"none"}]
    <3>1. CASE lock \in Conns
      <4>1. conn[lock] # Idle /\ SettlesFor(lock, StatusOf(s)) /\ review' = review
        BY <1>14, <3>1 DEF RailAnswers, LockIsOwned, AtRail
      <4> QED BY <3>1, <4>1, SettlingFor, StatusesOf DEF TypeOK, NothingClaimed
    <3>2. CASE lock \notin Conns
      <4>1. sent[h] = "inflight" /\ SettlesReview(h, StatusOf(s)) /\ conn' = conn /\ told' = told
        BY <1>14, <3>2 DEF RailAnswers
      <4>2. review[h] # NoProposal
        BY <3>2, <4>1 DEF LockIsOwned, TypeOK
      <4> QED BY <4>1, <4>2, SettlingReview, StatusesOf DEF TypeOK
    <3> QED BY <3>1, <3>2
  <2> QED BY <1>14, <2>1, <2>2 DEF RailAnswers, TypeOK, process, ledger, BookTypes
<1>15. ASSUME Crash
       PROVE  TypeOK'
  <2>1. told' \in [Handles \X Proposals -> Told \cup {"none"}]
    BY <1>15, Crashing DEF NothingClaimed
  <2> QED BY <1>15, <2>1 DEF Crash, TypeOK, ledger, AgentOutcomeStatus
<1>16. ASSUME Restart
       PROVE  TypeOK'
  BY <1>16, PaymentPathAssumption DEF Restart, TypeOK, Lives, service, booked, ledger
<1> QED
  BY <1>1, <1>2, <1>3, <1>4, <1>6, <1>7, <1>8, <1>9, <1>10, <1>11, <1>12, <1>13,
     <1>14, <1>15, <1>16 DEF Next, Agents, Threads, Checkers, Rail

-----------------------------------------------------------------------------
\* The other parts, each with a step for the actions that can disturb it.

LEMMA ReaderStep ==
    ASSUME IInv, Next
    PROVE  Reader'
<1>1. design' = design
  BY DEF Next, Agents, Threads, Checkers, Rail, Ask, AskNobody, Interrupted, Repeats, Holds,
         Refuses, Sends, Recalls, Replies, Shows, Approves, ApprovesSpent, Declines, RailMoves,
         RailDeclines, RailAnswers, Crash, Restart
<1> QED BY <1>1 DEF IInv, Reader

LEMMA QuietStep ==
    ASSUME IInv, Next
    PROVE  Quiet'
<1>1. CASE Crash
  BY <1>1 DEF IInv, TypeOK, Crash, Quiet
<1>2. CASE up' = TRUE
  BY <1>2 DEF Quiet
<1>3. CASE /\ up = FALSE /\ up' = up
           /\ UNCHANGED <<subject, sent, answer, review, conn, lock>>
  BY <1>3 DEF IInv, Quiet
<1>4. CASE up = TRUE /\ up' = up
  BY <1>4 DEF Quiet
<1>5. \/ Crash
      \/ up' = TRUE
      \/ up' = up /\ (up \/ UNCHANGED <<subject, sent, answer, review, conn, lock>>)
  <2> USE DEF process, service, booked
  <2>1. ASSUME NEW k \in Conns, NEW s \in Strays, Interrupted(k, s)
        PROVE  up' = up /\ up = TRUE
    BY <2>1 DEF IInv, TypeOK, Interrupted, Quiet
  <2>2. CASE \E h \in Handles, s \in Statuses : RailAnswers(h, s)
    BY <2>2 DEF RailAnswers
  <2>3. CASE Agents
    BY <2>3 DEF Agents, Ask, AskNobody
  <2>4. ASSUME NEW k \in Conns,
               Repeats(k) \/ Holds(k) \/ Refuses(k) \/ Sends(k) \/ Recalls(k) \/ Replies(k)
        PROVE  up' = up /\ up
    BY <2>4 DEF Repeats, Holds, Refuses, Sends, Recalls, Replies, IsNew, HasLock
  <2>5. CASE Checkers
    BY <2>5 DEF Checkers, Shows, Approves, ApprovesSpent, Declines, Grants, Reaches
  <2>6. CASE \E x \in rail : RailMoves(x) \/ RailDeclines(x)
    BY <2>6 DEF RailMoves, RailDeclines
  <2>7. CASE Restart
    BY <2>7 DEF Restart
  <2> QED BY <2>1, <2>2, <2>3, <2>4, <2>5, <2>6, <2>7 DEF Next, Threads, Rail
<1> QED BY <1>1, <1>2, <1>3, <1>4, <1>5 DEF IInv, TypeOK

LEMMA NothingLostStep ==
    ASSUME IInv, Next
    PROVE  NothingLost'
<1>1. raised' = raised \/ AuditMayFail
  BY DEF Next, Agents, Threads, Checkers, Rail, Ask, AskNobody, Interrupted, Repeats, Holds,
         Refuses, Sends, Recalls, Replies, Shows, Approves, ApprovesSpent, Declines, RailMoves,
         RailDeclines, RailAnswers, Crash, Restart, SettlesFor, SettlesReview, Settles, Raises,
         service, booked
<1> QED BY <1>1 DEF IInv, NothingLost

LEMMA LockStep ==
    ASSUME IInv, Next
    PROVE  LockIsOwned'
<1> USE DEF IInv
<1>1. ASSUME NEW h \in Handles, NEW p \in Proposals, NEW k \in Conns, Ask(k, h, p)
      PROVE  LockIsOwned'
  <2>1. UNCHANGED <<subject, sent, review, lock>> /\ ~AtRail(k)
    BY <1>1 DEF Ask, service, booked, AtRail
  <2>2. ~AtRail(k)' /\ \A j \in Conns \ {k} : conn'[j] = conn[j]
    BY <1>1 DEF Ask, AtRail, TypeOK
  <2> QED BY <2>1, <2>2 DEF LockIsOwned, AtRail
<1>2. ASSUME NEW h \in Handles, NEW p \in Proposals, NEW s \in Strays, AskNobody(h, p, s)
      PROVE  LockIsOwned'
  BY <1>2 DEF AskNobody, LockIsOwned, AtRail, service, booked
<1>3. ASSUME NEW k \in Conns, NEW s \in Strays, Interrupted(k, s)
      PROVE  LockIsOwned'
  <2>1. UNCHANGED <<subject, sent, review, lock>>
    BY <1>3 DEF Interrupted, service, booked
  <2>2. CASE /\ conn'[k] # Idle /\ conn'[k].stage = conn[k].stage
             /\ conn'[k].handle = conn[k].handle /\ conn'[k].proposal = conn[k].proposal
    BY <1>3, <2>1, <2>2, Interrupting DEF LockIsOwned, AtRail, OthersExchange
  <2>3. CASE conn[k].stage = "queued" /\ conn'[k] = Idle
    BY <1>3, <2>1, <2>3, Interrupting DEF LockIsOwned, AtRail, OthersExchange
  <2> QED BY <1>3, <2>2, <2>3, Interrupting
<1>4. ASSUME NEW k \in Conns, conn[k] # Idle, ~AtRail(k), lock = Free, lock' = lock, sent' = sent,
             NEW status \in AgentOutcomeStatus \cup {"none"},
             OthersExchange(k), ExchangeSettled(k, status)
      PROVE  LockIsOwned'
  <2>1. conn[k] \in Exchange
    BY <1>4, Exchanges
  <2>2. ~AtRail(k)'
    BY <1>4, <2>1 DEF ExchangeSettled, AtRail, Exchange
  <2> QED BY <1>4, <2>2, PaymentPathAssumption DEF LockIsOwned, AtRail, OthersExchange
<1>5. ASSUME NEW k \in Conns, Repeats(k) \/ Holds(k) \/ Refuses(k) \/ Recalls(k)
      PROVE  LockIsOwned'
  <2>1. conn[k] # Idle /\ ~AtRail(k) /\ lock = Free /\ lock' = lock /\ sent' = sent
    BY <1>5 DEF Repeats, Holds, Refuses, Recalls, IsNew, HasLock, AtRail, service
  <2>2. CASE Repeats(k)
    <3> DEFINE status == IF subject[conn[k].handle] = conn[k].proposal
                         THEN answer[conn[k].handle] ELSE "refused"
    <3>1. Decides(k, status) /\ status \in AgentOutcomeStatus \cup {"none"}
      BY <2>1, <2>2, Exchanges DEF Repeats, TypeOK, AgentOutcomeStatus
    <3> QED BY <1>4, <2>1, <3>1, Deciding
  <2>3. CASE Holds(k) \/ Refuses(k) \/ Recalls(k)
    <3>1. PICK status \in AgentOutcomeStatus : SettlesFor(k, status)
      BY <2>3, StatusesOf DEF Holds, Refuses, Recalls, AgentOutcomeStatus
    <3> QED BY <1>4, <2>1, <3>1, SettlingFor
  <2> QED BY <1>5, <2>2, <2>3
<1>6. ASSUME NEW k \in Conns, Sends(k)
      PROVE  LockIsOwned'
  <2> DEFINE h == conn[k].handle
  <2>1. /\ conn[k] # Idle /\ lock = Free /\ lock' = k /\ h \in Handles
        /\ conn[k].proposal \in Proposals /\ {} \in SUBSET Review
        /\ Calls(h, conn[k].proposal, {}) /\ subject[h] = NoProposal /\ subject' = subject
    BY <1>6, Sending DEF Sends, booked
  <2>2. sent'[h] = "inflight" /\ \A g \in Handles \ {h} : sent'[g] = sent[g]
    BY <2>1, Calling
  <2>3. /\ conn'[k] # Idle /\ conn'[k].stage = "rail" /\ conn'[k].handle = h
        /\ \A j \in Conns \ {k} : conn'[j] = conn[j]
    BY <1>6, Sending DEF OthersExchange
  <2> QED BY <2>1, <2>2, <2>3, PaymentPathAssumption DEF LockIsOwned, AtRail
<1>7. ASSUME NEW k \in Conns, Replies(k)
      PROVE  LockIsOwned'
  <2>1. UNCHANGED <<subject, sent, review, lock>> /\ ~AtRail(k)
    BY <1>7 DEF Replies, service, booked, AtRail
  <2>2. ~AtRail(k)' /\ \A j \in Conns \ {k} : conn'[j] = conn[j]
    BY <1>7 DEF Replies, AtRail, TypeOK
  <2> QED BY <2>1, <2>2 DEF LockIsOwned, AtRail
<1>8. ASSUME Shows
      PROVE  LockIsOwned'
  BY <1>8 DEF Shows, LockIsOwned, AtRail, service, booked
<1>9. ASSUME NEW v \in shown, NEW h \in Handles, Approves(v, h)
      PROVE  LockIsOwned'
  <2>1. /\ lock = Free /\ lock' = "checker" /\ conn' = conn /\ review' = review
        /\ review[h] # NoProposal /\ {v} \in SUBSET Review
        /\ v.proposal \in Proposals /\ Calls(h, v.proposal, {v})
    BY <1>9, Granting DEF Approves
  <2>2. \A g \in Handles \ {h} : sent'[g] = sent[g]
    BY <2>1, Calling
  <2> QED BY <2>1, <2>2, PaymentPathAssumption DEF LockIsOwned, AtRail
<1>10. ASSUME NEW v \in shown, NEW h \in Handles, ApprovesSpent(v, h) \/ Declines(v, h)
       PROVE  LockIsOwned'
  BY <1>10, PaymentPathAssumption
     DEF ApprovesSpent, Declines, Grants, Reaches, LockIsOwned, AtRail
<1>11. ASSUME NEW x \in rail, RailMoves(x) \/ RailDeclines(x)
       PROVE  LockIsOwned'
  BY <1>11 DEF RailMoves, RailDeclines, LockIsOwned, AtRail, service, booked
<1>12. ASSUME NEW h \in Handles, NEW s \in Statuses, RailAnswers(h, s)
       PROVE  LockIsOwned'
  <2>1. lock' = Free /\ sent[h] = "inflight" /\ sent' = [sent EXCEPT ![h] = s]
    BY <1>12 DEF RailAnswers
  <2>2. \A g \in Handles : sent'[g] # "inflight"
    BY <2>1 DEF LockIsOwned, TypeOK, Statuses
  <2>3. ASSUME NEW k \in Conns PROVE ~AtRail(k)'
    <3>1. CASE lock \in Conns
      <4>1. /\ conn[lock] # Idle /\ conn[lock] \in Exchange
            /\ SettlesFor(lock, StatusOf(s))
        BY <1>12, <3>1, Exchanges DEF RailAnswers, LockIsOwned, AtRail
      <4>2. OthersExchange(lock) /\ ExchangeSettled(lock, StatusOf(s))
        BY <3>1, <4>1, SettlingFor, StatusesOf
      <4>3. CASE k = lock
        BY <4>1, <4>2, <4>3 DEF ExchangeSettled, AtRail, Exchange
      <4>4. CASE k # lock
        BY <3>1, <4>2, <4>4 DEF OthersExchange, LockIsOwned, AtRail
      <4> QED BY <4>3, <4>4
    <3>2. CASE lock \notin Conns
      BY <1>12, <3>2 DEF RailAnswers, LockIsOwned, AtRail
    <3> QED BY <3>1, <3>2
  <2> QED BY <2>1, <2>2, <2>3, PaymentPathAssumption DEF LockIsOwned
<1>13. ASSUME Crash
       PROVE  LockIsOwned'
  BY <1>13, PaymentPathAssumption DEF Crash, LockIsOwned, AtRail
<1>14. ASSUME Restart
       PROVE  LockIsOwned'
  BY <1>14 DEF Restart, LockIsOwned, AtRail, service, booked
<1> QED
  BY <1>1, <1>2, <1>3, <1>5, <1>6, <1>7, <1>8, <1>9, <1>10, <1>11, <1>12, <1>13, <1>14
     DEF Next, Agents, Threads, Checkers, Rail

-----------------------------------------------------------------------------
\* What only grows, and what lasts while the process does.
LEMMA Growing ==
    ASSUME Next
    PROVE  moved \subseteq moved' /\ asked \subseteq asked' /\ raised \subseteq raised'
<1> USE DEF Next, Agents, Threads, Checkers, Rail, Ask, AskNobody, Interrupted, Repeats, Holds,
            Refuses, Sends, Recalls, Replies, Shows, Approves, ApprovesSpent, Declines, RailMoves,
            RailDeclines, RailAnswers, Crash, Restart
<1>1. moved \subseteq moved'
  BY DEF Calls, ledger
<1>2. asked \subseteq asked'
  OBVIOUS
<1>3. raised \subseteq raised'
  BY DEF SettlesFor, SettlesReview, Settles, Raises, service, booked
<1> QED BY <1>1, <1>2, <1>3

\* What was justified stays so.
LEMMA JustifiedStays ==
    ASSUME Next, life' = life, NEW h, NEW p
    PROVE  /\ Justified(h, p) => Justified(h, p)'
           /\ MovedSome(h) => MovedSome(h)'
           /\ Lost(h) => Lost(h)'
           /\ Asked(h, p) => Asked(h, p)'
BY Growing DEF Justified, MovedSome, Moved, Lost, Asked

\* A handle no step touches.
Stays(h) == /\ subject'[h] = subject[h] /\ answer'[h] = answer[h]
            /\ review'[h] = review[h] /\ sent'[h] = sent[h]

LEMMA SoundStays ==
    ASSUME IInv, Next, life' = life, NEW h \in Handles, Stays(h)
    PROVE  Sound(h)'
<1>1. Sound(h)
  BY DEF IInv, SoundBooks
<1> QED BY <1>1, JustifiedStays DEF Sound, Stays

\* A handle that is settled with a true answer, whose call has ended, or was not
\* made, and which leaves the queue with it unless a receipt was lost.
LEMMA SoundSettled ==
    ASSUME IInv, Next, life' = life, NEW h \in Handles, NEW p \in Proposals, NEW status,
           Settled(h, p, status),
           status = "completed" => Justified(h, p)', Asked(h, p),
           sent'[h] = "success" => MovedSome(h)',
           review'[h] # NoProposal =>
               /\ review'[h] = p \/ review'[h] = review[h]
               /\ Lost(h)' \/ (review'[h] = p /\ subject'[h] = p /\ sent'[h] \notin Statuses),
           sent'[h] \in Statuses => subject'[h] = p \/ Lost(h)'
    PROVE  Sound(h)'
<1>1. Sound(h)
  BY DEF IInv, SoundBooks
<1>2. p # NoProposal
  BY PaymentPathAssumption
<1>3. CASE subject'[h] = p /\ answer'[h] = status
  BY <1>1, <1>2, <1>3, JustifiedStays DEF Sound
<1>4. CASE raised' = raised \cup {<<life, h>>} /\ subject'[h] = subject[h] /\ answer'[h] = answer[h]
  <2>1. Lost(h)'
    BY <1>4 DEF Lost
  <2> QED BY <1>1, <1>4, <2>1, JustifiedStays DEF Sound
<1> QED BY <1>3, <1>4 DEF Settled

\* A success is concluded only of a payment that was moved, under this life's key.
LEMMA ConcludesTruly ==
    ASSUME IInv, NEW h \in Handles, NEW s \in Statuses, RailAnswers(h, s), s = "success"
    PROVE  Moved(h, InFlight(h))
<1> DEFINE x == [key |-> Fingerprint(h), proposal |-> InFlight(h)]
<1>1. Fate(x) \in Fates /\ (Fate(x) = "moved" => x \in moved)
  BY DEF Fate, Fates
<1>2. s \in Outcomes(Fate(x))
  BY DEF RailAnswers
<1> QED BY <1>1, <1>2, SuccessIsMoved, Fingerprints DEF IInv, Moved

\* Whose call the rail has ended, and what is settled with it.
LEMMA Ending ==
    ASSUME IInv, NEW h \in Handles, NEW s \in Statuses, RailAnswers(h, s)
    PROVE  /\ InFlight(h) \in Proposals /\ Asked(h, InFlight(h))
           /\ sent[h] = "inflight" /\ sent'[h] = s
           /\ \A g \in Handles \ {h} : sent'[g] = sent[g] /\ review'[g] = review[g]
           /\ OthersBooked(h) /\ Settled(h, InFlight(h), StatusOf(s))
           /\ subject'[h] = InFlight(h) \/ Lost(h)'
           /\ review'[h] # NoProposal => review'[h] = review[h] /\ Lost(h)'
           /\ life' = life
           /\ \A k \in Conns :
                 \/ conn'[k] = conn[k]
                 \/ conn'[k] = Idle
                 \/ /\ conn[k] # Idle /\ conn[k].handle = h /\ conn[k].proposal = InFlight(h)
                    /\ conn'[k].handle = h /\ conn'[k].proposal = conn[k].proposal
                    /\ conn'[k].status = StatusOf(s)
<1> USE DEF IInv
<1>1. /\ sent[h] = "inflight" /\ sent'[h] = s /\ life' = life
      /\ \A g \in Handles \ {h} : sent'[g] = sent[g]
  BY DEF RailAnswers, TypeOK, process
<1>2. CASE lock \in Conns
  <2> DEFINE k == lock
  <2>1. /\ conn[k] # Idle /\ conn[k] \in Exchange /\ sent[conn[k].handle] = "inflight"
        /\ subject[conn[k].handle] = NoProposal
        /\ conn[k].handle \in Handles /\ conn[k].proposal \in Proposals
    BY <1>2, Exchanges DEF LockIsOwned, AtRail
  <2>2. conn[k].handle = h /\ InFlight(h) = conn[k].proposal
    BY <1>1, <1>2, <2>1 DEF LockIsOwned, InFlight
  <2>3. SettlesFor(k, StatusOf(s)) /\ review' = review
    BY <1>2 DEF RailAnswers
  <2>4. /\ OthersBooked(h) /\ Settled(h, InFlight(h), StatusOf(s))
        /\ OthersExchange(k) /\ ExchangeSettled(k, StatusOf(s))
    BY <1>2, <2>1, <2>2, <2>3, SettlingFor, StatusesOf
  <2>5. Asked(h, InFlight(h))
    BY <1>2, <2>1, <2>2 DEF SoundExchanges, SoundExchange
  <2>6. subject'[h] = InFlight(h) \/ Lost(h)'
    BY <1>1, <2>4 DEF Settled, Lost
  <2>7. review[h] # NoProposal => Lost(h)
    BY <2>1, <2>2 DEF SoundBooks, Sound
  <2>8. Lost(h) => Lost(h)'
    BY <1>1, <2>4 DEF Settled, Lost
  <2> QED
    BY <1>1, <1>2, <2>1, <2>2, <2>3, <2>4, <2>5, <2>6, <2>7, <2>8
       DEF OthersExchange, ExchangeSettled, Exchange
<1>3. CASE lock \notin Conns
  <2>1. lock = "checker"
    BY <1>1, <1>3 DEF LockIsOwned, TypeOK
  <2>2. review[h] # NoProposal /\ review[h] \in Proposals /\ InFlight(h) = review[h]
    BY <1>1, <1>3, <2>1 DEF LockIsOwned, TypeOK, InFlight
  <2>3. SettlesReview(h, StatusOf(s)) /\ conn' = conn
    BY <1>3 DEF RailAnswers
  <2>4. /\ OthersBooked(h) /\ Settled(h, InFlight(h), StatusOf(s))
        /\ \A g \in Handles \ {h} : review'[g] = review[g]
        /\ \/ review'[h] = NoProposal /\ subject'[h] = review[h]
           \/ review'[h] = review[h] /\ <<life, h>> \in raised'
    BY <2>2, <2>3, SettlingReview, StatusesOf
  <2>5. Asked(h, InFlight(h))
    BY <2>2 DEF SoundBooks, Sound
  <2> QED BY <1>1, <2>2, <2>3, <2>4, <2>5 DEF Lost
<1> QED BY <1>2, <1>3

\* The stores agree about every handle after every step of the service.
LEMMA BooksStep ==
    ASSUME IInv, Next
    PROVE  SoundBooks'
<1> USE DEF IInv
<1>1. ASSUME NEW h \in Handles, life' = life, Sound(h)', \A g \in Handles \ {h} : Stays(g)
      PROVE  SoundBooks'
  BY <1>1, SoundStays DEF SoundBooks
<1>2. ASSUME NEW k \in Conns, Holds(k)
      PROVE  SoundBooks'
  <2>0. PICK h \in Handles, p \in Proposals : h = conn[k].handle /\ p = conn[k].proposal
    BY <1>2, Exchanges DEF Holds, IsNew, HasLock
  <2>1. /\ conn[k] # Idle /\ life' = life
        /\ subject[h] = NoProposal /\ sent' = sent /\ SettlesFor(k, "awaiting_review")
    BY <1>2, <2>0 DEF Holds, IsNew, HasLock, process
  <2>2. Settled(h, p, "awaiting_review") /\ OthersBooked(h)
    BY <2>0, <2>1, SettlingFor DEF AgentOutcomeStatus
  <2>3. review'[h] = p /\ \A g \in Handles \ {h} : review'[g] = review[g]
    BY <1>2, <2>0 DEF Holds, TypeOK
  <2>4. Asked(h, p) /\ (sent[h] = "success" => MovedSome(h)) /\ (sent[h] \in Statuses => Lost(h))
    BY <2>0, <2>1 DEF SoundExchanges, SoundExchange, SoundBooks, Sound
  <2>5. sent'[h] \in Statuses => Lost(h)'
    BY <2>1, <2>4, JustifiedStays
  <2>6. subject'[h] = p \/ Lost(h)'
    BY <2>1, <2>2 DEF Settled, Lost
  <2>7. Sound(h)'
    BY <2>1, <2>2, <2>3, <2>4, <2>5, <2>6, SoundSettled, JustifiedStays
  <2> QED BY <1>1, <2>1, <2>2, <2>3, <2>7 DEF OthersBooked, Stays
<1>3. ASSUME NEW k \in Conns, Refuses(k) \/ Recalls(k)
      PROVE  SoundBooks'
  <2>0. PICK h \in Handles, p \in Proposals : h = conn[k].handle /\ p = conn[k].proposal
    BY <1>3, Exchanges DEF Refuses, Recalls, IsNew, HasLock
  <2>1. /\ conn[k] # Idle /\ life' = life
        /\ lock = Free /\ subject[h] = NoProposal /\ sent' = sent /\ review' = review
    BY <1>3, <2>0 DEF Refuses, Recalls, IsNew, HasLock, process
  <2>2. Asked(h, p) /\ Sound(h)
    BY <2>0, <2>1 DEF SoundExchanges, SoundExchange, SoundBooks
  <2>3. (sent[h] \in Statuses => Lost(h)) /\ (review[h] # NoProposal => Lost(h))
    BY <2>1, <2>2 DEF Sound
  <2>4. PICK status \in AgentOutcomeStatus :
           SettlesFor(k, status) /\ (status = "completed" => Justified(h, p))
    <3>1. CASE Refuses(k)
      BY <3>1 DEF Refuses, AgentOutcomeStatus
    <3>2. CASE Recalls(k)
      <4>1. sent[h] = "success" => Justified(h, p)
        BY <2>2, <2>3 DEF Sound, Justified, Statuses
      <4> QED BY <2>0, <3>2, <4>1, StatusesOf DEF Recalls
    <3> QED BY <1>3, <3>1, <3>2
  <2>5. Settled(h, p, status) /\ OthersBooked(h)
    BY <2>0, <2>1, <2>4, SettlingFor
  <2>6. status = "completed" => Justified(h, p)'
    BY <2>1, <2>4, JustifiedStays
  <2>7. /\ sent'[h] = "success" => MovedSome(h)'
        /\ sent'[h] \in Statuses => Lost(h)'
        /\ review'[h] # NoProposal => Lost(h)'
    BY <2>1, <2>2, <2>3, JustifiedStays DEF Sound
  <2>8. Sound(h)'
    BY <2>1, <2>2, <2>5, <2>6, <2>7, SoundSettled
  <2> QED BY <1>1, <2>1, <2>5, <2>8 DEF OthersBooked, Stays
<1>4. ASSUME NEW h \in Handles, NEW p \in Proposals, NEW reviews \in SUBSET Review,
             Calls(h, p, reviews), UNCHANGED <<life, subject, answer, raised, review>>
      PROVE  SoundBooks'
  <2>1. sent'[h] = "inflight" /\ \A g \in Handles \ {h} : sent'[g] = sent[g]
    BY <1>4, Calling
  <2>2. Sound(h)'
    BY <1>4, <2>1, JustifiedStays DEF SoundBooks, Sound, Statuses
  <2> QED BY <1>1, <1>4, <2>1, <2>2 DEF Stays
<1>5. ASSUME NEW k \in Conns, Sends(k)
      PROVE  SoundBooks'
  BY <1>4, <1>5, Sending DEF Sends, process, booked
<1>6. ASSUME NEW v \in shown, NEW h \in Handles, Approves(v, h)
      PROVE  SoundBooks'
  BY <1>4, <1>6, Granting DEF Approves, process, booked
<1>7. ASSUME NEW v \in shown, NEW h \in Handles, ApprovesSpent(v, h) \/ Declines(v, h)
      PROVE  SoundBooks'
  <2>0. PICK p \in Proposals : p = review[h]
    BY <1>7 DEF ApprovesSpent, Declines, Grants, Reaches, TypeOK
  <2>1. p # NoProposal /\ life' = life /\ sent' = sent /\ lock = Free
    BY <1>7, <2>0, PaymentPathAssumption
       DEF ApprovesSpent, Declines, Grants, Reaches, process
  <2>2. Asked(h, p) /\ Sound(h)
    BY <2>0, <2>1 DEF SoundBooks, Sound
  <2>3. PICK status \in AgentOutcomeStatus :
           SettlesReview(h, status) /\ (status = "completed" => Justified(h, p))
    <3>1. CASE Declines(v, h)
      BY <3>1 DEF Declines, AgentOutcomeStatus
    <3>2. CASE ApprovesSpent(v, h)
      <4>1. sent[h] = "success" => Justified(h, p)
        BY <2>0, <2>1, <2>2 DEF Sound, Justified, Statuses
      <4> QED BY <2>0, <3>2, <4>1, StatusesOf DEF ApprovesSpent
    <3> QED BY <1>7, <3>1, <3>2
  <2>4. /\ Settled(h, p, status) /\ OthersBooked(h)
        /\ \A g \in Handles \ {h} : review'[g] = review[g]
        /\ \/ review'[h] = NoProposal /\ subject'[h] = p
           \/ review'[h] = p /\ Lost(h)'
    BY <2>0, <2>1, <2>3, SettlingReview DEF Lost
  <2>5. status = "completed" => Justified(h, p)'
    BY <2>1, <2>3, JustifiedStays
  <2>6. sent'[h] = "success" => MovedSome(h)'
    BY <2>1, <2>2, JustifiedStays DEF Sound
  <2>7. Sound(h)'
    BY <2>0, <2>1, <2>2, <2>4, <2>5, <2>6, SoundSettled
  <2> QED BY <1>1, <2>1, <2>4, <2>7 DEF OthersBooked, Stays
<1>8. ASSUME NEW h \in Handles, NEW s \in Statuses, RailAnswers(h, s)
      PROVE  SoundBooks'
  <2>0. PICK p \in Proposals : p = InFlight(h)
    BY <1>8, Ending
  <2>1. s = "success" => Moved(h, p)
    BY <1>8, <2>0, ConcludesTruly
  <2>2. /\ Asked(h, p) /\ sent'[h] = s /\ life' = life
        /\ \A g \in Handles \ {h} : Stays(g)
        /\ Settled(h, p, StatusOf(s))
        /\ subject'[h] = p \/ Lost(h)'
        /\ review'[h] # NoProposal => review'[h] = review[h] /\ Lost(h)'
    <3>1. OthersBooked(h) /\ \A g \in Handles \ {h} : sent'[g] = sent[g] /\ review'[g] = review[g]
      BY <1>8, Ending
    <3>2. Settled(h, p, StatusOf(s))
      BY <1>8, <2>0, Ending DEF Settled
    <3> QED BY <1>8, <2>0, <3>1, <3>2, Ending DEF OthersBooked, Stays
  <2>3. s = "success" => Justified(h, p) /\ MovedSome(h)
    BY <2>1, <2>2 DEF Justified, MovedSome
  <2>4. /\ StatusOf(s) = "completed" => Justified(h, p)'
        /\ sent'[h] = "success" => MovedSome(h)'
    BY <2>2, <2>3, JustifiedStays, StatusesOf
  <2>5. Sound(h)'
    BY <2>2, <2>4, SoundSettled
  <2> QED BY <1>1, <2>2, <2>5
<1>9. CASE Crash
  BY <1>9 DEF Crash, SoundBooks, Sound, Statuses
<1>10. CASE Restart
  BY <1>10 DEF Restart, Quiet, SoundBooks, Sound, Statuses, service, booked
<1>11. CASE UNCHANGED service /\ life' = life
  BY <1>11, SoundStays DEF SoundBooks, Stays, service, booked
<1>12. \/ \E k \in Conns : Holds(k) \/ Refuses(k) \/ Recalls(k) \/ Sends(k)
       \/ \E v \in shown, h \in Handles : Approves(v, h) \/ ApprovesSpent(v, h) \/ Declines(v, h)
       \/ \E h \in Handles, s \in Statuses : RailAnswers(h, s)
       \/ Crash
       \/ Restart
       \/ UNCHANGED service /\ life' = life
  BY DEF Next, Agents, Threads, Checkers, Rail, Ask, AskNobody, Interrupted, Repeats, Replies,
         Shows, RailMoves, RailDeclines, process
<1> QED BY <1>2, <1>3, <1>5, <1>6, <1>7, <1>8, <1>9, <1>10, <1>11, <1>12

\* So does what the exchanges carry.
LEMMA ExchangesStep ==
    ASSUME IInv, Next
    PROVE  SoundExchanges'
<1> USE DEF IInv
<1>1. CASE Crash
  BY <1>1 DEF Crash, SoundExchanges, SoundExchange
<1>2. CASE Restart
  BY <1>2 DEF Restart, Quiet, SoundExchanges, SoundExchange
<1>3. ASSUME NEW k \in Conns, life' = life,
             \/ conn'[k] = Idle
             \/ conn'[k] = conn[k]
             \/ /\ conn[k] # Idle
                /\ conn'[k].handle = conn[k].handle /\ conn'[k].proposal = conn[k].proposal
                /\ conn'[k].status = "completed" =>
                      \/ conn[k].status = "completed"
                      \/ Justified(conn[k].handle, conn[k].proposal)
      PROVE  SoundExchange(k)'
  BY <1>3, JustifiedStays DEF SoundExchanges, SoundExchange
<1>4. ASSUME life' = life, NEW k \in Conns, SoundExchange(k)', OthersExchange(k)
      PROVE  SoundExchanges'
  BY <1>3, <1>4 DEF SoundExchanges, OthersExchange
<1>5. ASSUME NEW h \in Handles, NEW p \in Proposals, NEW k \in Conns, Ask(k, h, p)
      PROVE  SoundExchanges'
  <2>1. life' = life /\ OthersExchange(k)
    BY <1>5 DEF Ask, OthersExchange, TypeOK, process
  <2>2. SoundExchange(k)'
    BY <1>5 DEF Ask, SoundExchange, Asked, TypeOK, process
  <2> QED BY <1>4, <2>1, <2>2
<1>6. ASSUME NEW k \in Conns, NEW s \in Strays, Interrupted(k, s)
      PROVE  SoundExchanges'
  <2>1. life' = life
    BY <1>6 DEF Interrupted, process
  <2> QED BY <1>3, <1>4, <1>6, <2>1, Interrupting
<1>7. ASSUME NEW k \in Conns, Repeats(k)
      PROVE  SoundExchanges'
  <2> DEFINE h == conn[k].handle
             status == IF subject[h] = conn[k].proposal THEN answer[h] ELSE "refused"
  <2>1. conn[k] # Idle /\ h \in Handles /\ Decides(k, status) /\ life' = life
    BY <1>7, Exchanges DEF Repeats, HasLock, process
  <2>2. status \in AgentOutcomeStatus \cup {"none"}
    BY <2>1 DEF TypeOK, AgentOutcomeStatus
  <2>3. status = "completed" => Justified(h, conn[k].proposal)
    BY <2>1 DEF SoundBooks, Sound
  <2>4. SoundExchange(k)' /\ OthersExchange(k)
    BY <1>3, <2>1, <2>2, <2>3, Deciding
  <2> QED BY <1>4, <2>1, <2>4
<1>8. ASSUME NEW k \in Conns, Holds(k) \/ Refuses(k) \/ Recalls(k)
      PROVE  SoundExchanges'
  <2> DEFINE h == conn[k].handle
             p == conn[k].proposal
  <2>1. /\ conn[k] # Idle /\ conn[k] \in Exchange /\ h \in Handles /\ life' = life
        /\ subject[h] = NoProposal
    BY <1>8, Exchanges DEF Holds, Refuses, Recalls, IsNew, HasLock, process
  <2>2. PICK status \in AgentOutcomeStatus :
           SettlesFor(k, status) /\ (status = "completed" => Justified(h, p))
    <3>1. CASE Holds(k) \/ Refuses(k)
      BY <3>1 DEF Holds, Refuses, AgentOutcomeStatus
    <3>2. CASE Recalls(k)
      <4>1. sent[h] = "success" => Justified(h, p)
        BY <2>1 DEF SoundBooks, Sound, Justified, Statuses
      <4> QED BY <3>2, <4>1, StatusesOf DEF Recalls
    <3> QED BY <1>8, <3>1, <3>2
  <2>3. OthersExchange(k) /\ ExchangeSettled(k, status)
    BY <2>1, <2>2, SettlingFor
  <2>4. SoundExchange(k)'
    BY <1>3, <2>1, <2>2, <2>3 DEF ExchangeSettled, Exchange
  <2> QED BY <1>4, <2>1, <2>3, <2>4
<1>9. ASSUME NEW k \in Conns, Sends(k)
      PROVE  SoundExchanges'
  <2>1. life' = life
    BY <1>9 DEF Sends, process
  <2> QED BY <1>3, <1>4, <1>9, <2>1, Sending
<1>10. ASSUME NEW k \in Conns, Replies(k)
       PROVE  SoundExchanges'
  <2>1. life' = life /\ conn'[k] = Idle /\ OthersExchange(k)
    BY <1>10 DEF Replies, process, OthersExchange, TypeOK
  <2> QED BY <1>3, <1>4, <2>1
<1>11. ASSUME NEW h \in Handles, NEW s \in Statuses, RailAnswers(h, s)
       PROVE  SoundExchanges'
  <2>1. StatusOf(s) = "completed" => Justified(h, InFlight(h))
    BY <1>11, ConcludesTruly, StatusesOf DEF Justified
  <2>2. ASSUME NEW k \in Conns PROVE SoundExchange(k)'
    <3>1. life' = life
      BY <1>11, Ending
    <3>2. \/ conn'[k] = conn[k]
          \/ conn'[k] = Idle
          \/ /\ conn[k] # Idle /\ conn[k].handle = h /\ conn[k].proposal = InFlight(h)
             /\ conn'[k].handle = h /\ conn'[k].proposal = conn[k].proposal
             /\ conn'[k].status = StatusOf(s)
      BY <1>11, Ending
    <3> QED BY <1>3, <2>1, <3>1, <3>2
  <2> QED BY <2>2 DEF SoundExchanges
<1>12. CASE conn' = conn /\ life' = life
  BY <1>3, <1>12 DEF SoundExchanges
<1>13. \/ \E h \in Handles, p \in Proposals, k \in Conns : Ask(k, h, p)
       \/ \E k \in Conns : \/ Repeats(k) \/ Holds(k) \/ Refuses(k) \/ Recalls(k)
                           \/ Sends(k) \/ Replies(k)
                           \/ \E s \in Strays : Interrupted(k, s)
       \/ \E h \in Handles, s \in Statuses : RailAnswers(h, s)
       \/ Crash
       \/ Restart
       \/ conn' = conn /\ life' = life
  BY DEF Next, Agents, Threads, Checkers, Rail, AskNobody, Shows, Approves, ApprovesSpent,
         Declines, RailMoves, RailDeclines, process
<1> QED
  BY <1>1, <1>2, <1>5, <1>6, <1>7, <1>8, <1>9, <1>10, <1>11, <1>12, <1>13

-----------------------------------------------------------------------------
\* A call is of this life's key for a handle that had not been sent.
LEMMA CalledByCalls ==
    ASSUME IInv, up, NEW h \in Handles, NEW p \in Proposals, NEW reviews \in SUBSET Review,
           Calls(h, p, reviews), UNCHANGED process
    PROVE  CalledOnce'
<1> USE DEF IInv
<1>1. sent[h] = "no" /\ sent'[h] = "inflight" /\ \A g \in Handles \ {h} : sent'[g] = sent[g]
  BY Calling
<1>2. Fingerprint(h) = <<life, h>> /\ <<life, h>> \in Keys /\ life \in Lives
  BY Fingerprints DEF TypeOK
<1>3. calls[<<life, h>>] = 0
  BY <1>1, <1>2 DEF CalledOnce
<1>4. calls' = [calls EXCEPT ![<<life, h>>] = @ + 1]
  BY <1>2 DEF Calls
<1>5. calls'[<<life, h>>] = 1
  BY <1>2, <1>3, <1>4 DEF TypeOK
<1>6. ASSUME NEW l \in Lives, NEW g \in Handles, <<l, g>> # <<life, h>>
      PROVE  calls'[<<l, g>>] = calls[<<l, g>>]
  BY <1>4, <1>6 DEF TypeOK, Keys
<1>7. ASSUME NEW l \in Lives, NEW g \in Handles
      PROVE  /\ calls'[<<l, g>>] <= 1
             /\ l > life => calls'[<<l, g>>] = 0
             /\ l = life /\ sent'[g] = "no" => calls'[<<l, g>>] = 0
  <2>1. CASE l = life /\ g = h
    BY <1>1, <1>2, <1>5, <2>1 DEF Lives
  <2>2. CASE l # life \/ g # h
    <3>1. calls'[<<l, g>>] = calls[<<l, g>>]
      BY <1>6, <2>2
    <3>2. /\ calls[<<l, g>>] <= 1
          /\ l > life => calls[<<l, g>>] = 0
          /\ l = life /\ sent[g] = "no" => calls[<<l, g>>] = 0
      BY DEF CalledOnce
    <3>3. l = life => sent'[g] = sent[g]
      BY <1>1, <2>2
    <3> QED BY <3>1, <3>2, <3>3
  <2> QED BY <2>1, <2>2
<1> QED BY <1>7 DEF CalledOnce, process

LEMMA CalledStep ==
    ASSUME IInv, Next
    PROVE  CalledOnce'
<1> USE DEF IInv
<1>1. ASSUME NEW k \in Conns, Sends(k)
      PROVE  CalledOnce'
  BY <1>1, Sending, CalledByCalls DEF Sends
<1>2. ASSUME NEW v \in shown, NEW h \in Handles, Approves(v, h)
      PROVE  CalledOnce'
  BY <1>2, Granting, CalledByCalls DEF Approves
<1>3. ASSUME Restart
      PROVE  CalledOnce'
  <2>1. calls' = calls /\ life' = life + 1 /\ life \in Nat
    BY <1>3 DEF Restart, ledger, TypeOK, Lives
  <2>2. ASSUME NEW l \in Lives, NEW h \in Handles
        PROVE  calls[<<l, h>>] <= 1 /\ (l > life => calls[<<l, h>>] = 0)
    BY DEF CalledOnce
  <2>3. \A l \in Lives : l > life + 1 \/ l = life + 1 => l > life
    BY <2>1 DEF Lives
  <2> QED BY <2>1, <2>2, <2>3 DEF CalledOnce
<1>4. CASE Crash
  BY <1>4 DEF Crash, CalledOnce, ledger
<1>5. ASSUME calls' = calls, life' = life, up' = up, sent' = sent
      PROVE  CalledOnce'
  BY <1>5 DEF CalledOnce
<1>6. ASSUME NEW h \in Handles, NEW s \in Statuses, RailAnswers(h, s)
      PROVE  CalledOnce'
  <2>1. UNCHANGED <<calls, life, up>> /\ sent[h] # "no"
    BY <1>6 DEF RailAnswers, process, ledger
  <2>2. \A g \in Handles : sent'[g] = "no" => sent[g] = "no"
    BY <1>6 DEF RailAnswers, TypeOK, Statuses
  <2> QED BY <2>1, <2>2 DEF CalledOnce
<1>7. \/ \E k \in Conns : Sends(k)
      \/ \E v \in shown, h \in Handles : Approves(v, h)
      \/ \E h \in Handles, s \in Statuses : RailAnswers(h, s)
      \/ Crash
      \/ Restart
      \/ calls' = calls /\ life' = life /\ up' = up /\ sent' = sent
  BY DEF Next, Agents, Threads, Checkers, Rail, Ask, AskNobody, Interrupted, Repeats, Holds,
         Refuses, Recalls, Replies, Shows, ApprovesSpent, Declines, RailMoves, RailDeclines,
         service, process, ledger
<1> QED BY <1>1, <1>2, <1>3, <1>4, <1>5, <1>6, <1>7

LEMMA ShownStep ==
    ASSUME IInv, Next
    PROVE  ShownInItsLife'
<1>1. CASE Shows
  <2>1. \A h \in Handles : Fingerprint(h)[1] = life
    BY DEF Fingerprint
  <2> QED BY <1>1, <2>1 DEF IInv, Shows, ShownInItsLife
<1>2. CASE ~Shows
  <2>1. shown' = shown
    BY <1>2 DEF Next, Agents, Threads, Checkers, Rail, Ask, AskNobody, Interrupted, Repeats,
                Holds, Refuses, Sends, Recalls, Replies, Approves, ApprovesSpent, Declines,
                RailMoves, RailDeclines, RailAnswers, Crash, Restart
  <2> QED BY <2>1 DEF IInv, ShownInItsLife
<1> QED BY <1>1, <1>2

\* An agent learns something when nobody answers, when it is interrupted, when the
\* gateway replies or its thread raises, and when the gateway dies; only the reply
\* may say `completed`.
LEMMA ToldStep ==
    ASSUME IInv, Next
    PROVE  CompletedMovedMoney'
<1> USE DEF IInv
<1> DEFINE True(h, p) == WasPaid(h, p) \/ WasPaidUnderALostReceipt(h)
<1>1. \A h \in Handles, p \in Proposals : True(h, p) => True(h, p)'
  BY Growing DEF WasPaid, WasPaidUnderALostReceipt
<1>2. ASSUME \A h \in Handles, p \in Proposals :
                 told'[<<h, p>>] = "completed" => told[<<h, p>>] = "completed" \/ True(h, p)
      PROVE  CompletedMovedMoney'
  BY <1>1, <1>2 DEF CompletedMovedMoney
<1>3. CASE NothingClaimed
  BY <1>2, <1>3 DEF NothingClaimed
<1>4. ASSUME NEW g \in Handles, NEW q \in Proposals, NEW s \in Strays, AskNobody(g, q, s)
      PROVE  CompletedMovedMoney'
  <2>1. s # "completed" /\ told' = [told EXCEPT ![<<g, q>>] = s]
    BY <1>4, StraysAreRefusals DEF AskNobody
  <2> QED BY <1>2, <2>1 DEF TypeOK
<1>5. ASSUME NEW k \in Conns, Replies(k)
      PROVE  CompletedMovedMoney'
  <2> DEFINE said == Reads(AnswerOf(conn[k].status))
  <2>1. conn[k] # Idle /\ Tells(k, said)
    BY <1>5 DEF Replies
  <2>2. said \in Told /\ (said = "completed" => conn[k].status = "completed")
    BY <2>1, Exchanges, RelayedIsTrue
  <2>3. ASSUME NEW h \in Handles, NEW p \in Proposals,
               h = conn[k].handle, p = conn[k].proposal, said = "completed"
        PROVE  True(h, p)
    <3>1. Justified(h, p)
      BY <2>1, <2>2, <2>3 DEF SoundExchanges, SoundExchange
    <3> QED
      BY <3>1 DEF Justified, MovedSome, Moved, Lost, TypeOK, WasPaid, WasPaidUnderALostReceipt
  <2>4. \A h \in Handles, p \in Proposals :
            \/ told'[<<h, p>>] = told[<<h, p>>]
            \/ h = conn[k].handle /\ p = conn[k].proposal /\ told'[<<h, p>>] = said
    BY <2>1, <2>2, Telling
  <2> QED BY <1>2, <2>3, <2>4
<1>6. ASSUME NEW k \in Conns, Holds(k) \/ Refuses(k) \/ Recalls(k)
      PROVE  NothingClaimed
  <2>1. conn[k] # Idle
    BY <1>6 DEF Holds, Refuses, Recalls, IsNew, HasLock
  <2>2. PICK status \in AgentOutcomeStatus : SettlesFor(k, status)
    BY <1>6, StatusesOf DEF Holds, Refuses, Recalls, AgentOutcomeStatus
  <2> QED BY <2>1, <2>2, SettlingFor
<1>7. ASSUME NEW h \in Handles, NEW s \in Statuses, RailAnswers(h, s)
      PROVE  NothingClaimed
  <2>1. CASE lock \in Conns
    <3>1. conn[lock] # Idle /\ SettlesFor(lock, StatusOf(s))
      BY <1>7, <2>1 DEF RailAnswers, LockIsOwned, AtRail
    <3> QED BY <2>1, <3>1, SettlingFor, StatusesOf
  <2>2. CASE lock \notin Conns
    BY <1>7, <2>2 DEF RailAnswers, NothingClaimed, TypeOK
  <2> QED BY <2>1, <2>2
<1>8. CASE told' = told
  BY <1>2, <1>8
<1>9. ASSUME NEW k \in Conns, NEW s \in Strays, Interrupted(k, s)
      PROVE  NothingClaimed
  BY <1>9, Interrupting
<1>10. CASE Crash
  BY <1>3, <1>10, Crashing
<1>11. \A k \in Conns : Repeats(k) => told' = told
  BY DEF Repeats, Decides
<1>12. \/ \E h \in Handles, p \in Proposals, s \in Strays : AskNobody(h, p, s)
       \/ \E k \in Conns : \/ Replies(k) \/ Holds(k) \/ Refuses(k) \/ Recalls(k)
                           \/ \E s \in Strays : Interrupted(k, s)
       \/ \E h \in Handles, s \in Statuses : RailAnswers(h, s)
       \/ Crash
       \/ told' = told
  BY <1>11 DEF Next, Agents, Threads, Checkers, Rail, Ask, Sends, Shows, Approves,
              ApprovesSpent, Declines, RailMoves, RailDeclines, Restart
<1> QED BY <1>3, <1>4, <1>5, <1>6, <1>7, <1>8, <1>9, <1>10, <1>12

\* What is sent was asked of this life; what an approval releases was shown in it,
\* because the approval's reference is the handle's fingerprint.
LEMMA ReleasedStep ==
    ASSUME IInv, Next
    PROVE  SentInItsOwnLife'
<1> USE DEF IInv
<1> DEFINE Own(s) ==
        /\ [life |-> s.life, handle |-> s.handle, proposal |-> s.proposal] \in asked
        /\ \A v \in s.reviews : v.life = s.life /\ v.proposal = s.proposal
<1>1. ASSUME NEW h \in Handles, NEW p \in Proposals, NEW reviews, Calls(h, p, reviews),
             Asked(h, p), \A v \in reviews : v.life = life /\ v.proposal = p
      PROVE  SentInItsOwnLife'
  <2> DEFINE new == [life |-> life, handle |-> h, proposal |-> p, reviews |-> reviews]
  <2>1. released' = released \cup {new}
    BY <1>1 DEF Calls
  <2>2. Own(new)
    BY <1>1 DEF Asked
  <2>3. \A s \in released : Own(s)
    BY DEF SentInItsOwnLife
  <2>4. \A s \in released' : Own(s)
    BY <2>1, <2>2, <2>3
  <2> QED BY <2>4, Growing DEF SentInItsOwnLife
<1>2. ASSUME NEW k \in Conns, Sends(k)
      PROVE  SentInItsOwnLife'
  <2>1. Asked(conn[k].handle, conn[k].proposal)
    BY <1>2, Sending DEF SoundExchanges, SoundExchange
  <2> QED BY <1>1, <1>2, <2>1, Sending
<1>3. ASSUME NEW v \in shown, NEW h \in Handles, Approves(v, h)
      PROVE  SentInItsOwnLife'
  <2>1. /\ v.proposal \in Proposals /\ Calls(h, v.proposal, {v})
        /\ v.ref = <<life, h>> /\ review[h] = v.proposal /\ review[h] # NoProposal
    BY <1>3, Granting DEF Approves
  <2>2. v.life = life
    BY <2>1 DEF ShownInItsLife
  <2>3. Asked(h, v.proposal)
    BY <2>1 DEF SoundBooks, Sound
  <2> QED BY <1>1, <2>1, <2>2, <2>3
<1>4. CASE released' = released
  BY <1>4, Growing DEF SentInItsOwnLife
<1>5. \/ \E k \in Conns : Sends(k)
      \/ \E v \in shown, h \in Handles : Approves(v, h)
      \/ released' = released
  BY DEF Next, Agents, Threads, Checkers, Rail, Ask, AskNobody, Interrupted, Repeats, Holds,
         Refuses, Recalls, Replies, Shows, ApprovesSpent, Declines, RailMoves, RailDeclines,
         RailAnswers, Crash, Restart, ledger
<1> QED BY <1>2, <1>3, <1>4, <1>5

-----------------------------------------------------------------------------
LEMMA Invariant == Spec => []IInv
<1>1. IInv /\ [Next]_vars => IInv'
  <2> SUFFICES ASSUME IInv, [Next]_vars PROVE IInv'
    OBVIOUS
  <2>1. CASE Next
    BY <2>1, TypesStep, ReaderStep, QuietStep, LockStep, BooksStep, ExchangesStep, CalledStep,
       ShownStep, NothingLostStep, ToldStep, ReleasedStep DEF IInv
  <2>2. CASE UNCHANGED vars
    <3> USE <2>2 DEF vars, process, service, booked, ledger
    <3>1. TypeOK'
      BY DEF IInv, TypeOK
    <3>2. Reader' /\ Quiet' /\ LockIsOwned'
      BY DEF IInv, Reader, Quiet, LockIsOwned, AtRail
    <3>3. SoundBooks'
      BY DEF IInv, SoundBooks, Sound, Justified, MovedSome, Moved, Lost, Asked
    <3>4. SoundExchanges'
      BY DEF IInv, SoundExchanges, SoundExchange, Justified, MovedSome, Moved, Lost, Asked
    <3>5. CalledOnce' /\ ShownInItsLife' /\ NothingLost'
      BY DEF IInv, CalledOnce, ShownInItsLife, NothingLost
    <3>6. CompletedMovedMoney' /\ SentInItsOwnLife'
      BY DEF IInv, CompletedMovedMoney, WasPaid, WasPaidUnderALostReceipt, SentInItsOwnLife
    <3> QED BY <3>1, <3>2, <3>3, <3>4, <3>5, <3>6 DEF IInv
  <2> QED BY <2>1, <2>2
<1> QED BY <1>1, InitHolds, PTL DEF Spec

-----------------------------------------------------------------------------
\* Every variable holds what the code's types allow, for any number of agents'
\* connections, handles and processes.
THEOREM TypeCorrect == Spec => []TypeOK
<1>1. IInv => TypeOK
  BY DEF IInv
<1> QED BY <1>1, Invariant, PTL

\* From the rail to the agent, `completed` is never made up: not by a client the
\* kit certified, not by a repeat, a timeout, a crash or a foreign answer.  Any
\* receipt may be lost, and then a handle may report what another proposal under
\* it paid; where nothing was paid it is not told even so.
THEOREM CompletedMeansMoved == Spec => []CompletedMovedMoney
<1>1. IInv => CompletedMovedMoney
  BY DEF IInv
<1> QED BY <1>1, Invariant, PTL

\* While receipts can be written, `completed` is of the very proposal that was
\* paid.
THEOREM CompletedMeansPaid ==
    ASSUME ~AuditMayFail
    PROVE  Spec => []CompletedWasPaid
<1>1. IInv => CompletedWasPaid
  BY DEF IInv, NothingLost, CompletedMovedMoney, WasPaidUnderALostReceipt, CompletedWasPaid
<1> QED BY <1>1, Invariant, PTL

\* The rail receives each idempotency key at most once, through any number of
\* retries, lost receipts and restarts.
THEOREM EachKeyIsCalledOnce == Spec => []OneCallPerKey
<1>1. IInv => OneCallPerKey
  BY DEF IInv, CalledOnce, OneCallPerKey, Keys
<1> QED BY <1>1, Invariant, PTL

\* A payment is sent by the life of the gateway it was asked of, and an approval
\* releases only a review of the life that sends it.
THEOREM NothingOutlivesItsLife == Spec => []SentInItsOwnLife
<1>1. IInv => SentInItsOwnLife
  BY DEF IInv
<1> QED BY <1>1, Invariant, PTL
=============================================================================
