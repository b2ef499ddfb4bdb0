------------------------------ MODULE WireClient ------------------------------
(***************************************************************************)
(* The wire contract between an agent and the gateway, from both ends, and *)
(* the kit that certifies a client for it: what the gateway accepts as a   *)
(* request, what may come back on a connection, how the shipped client and *)
(* the examples read it, and the checks of WireClientConformance.  No      *)
(* state lives here.                                                       *)
(*                                                                         *)
(* A client is [sends, reads]: the requests it makes for the proposal it   *)
(* is handed, and a function from what comes back to what it tells its     *)
(* agent.                                                                  *)
(***************************************************************************)
EXTENDS Naturals, Sequences

-----------------------------------------------------------------------------
\* The vocabulary.

AgentOutcomeStatus == {"completed", "refused", "awaiting_review"}

\* Values a version field may hold: 1, a version nobody speaks, JSON's true and
\* 1.0, which Python holds equal to 1, and a string.
Versions == {"one", "unspoken", "true", "float", "text"}
EqualToOne == {"one", "true", "float"}
SUPPORTED_WIRE_VERSIONS == {"one"}
PRINCIPAL_FIELDS == {"client_principal", "principal"}
EnvelopeFields == {"wire_version", "request"} \cup PRINCIPAL_FIELDS \cup {"other"}

\* What a `request` field holds: whether it is an object, the fields that claim
\* an identity, whether it is a valid AuthorizationRequest (which forbids them
\* and anything else) whose amount is an integer, and whether it is the proposal
\* the client was handed.
Proposal == {p \in [object: BOOLEAN, claims: SUBSET PRINCIPAL_FIELDS,
                    valid: BOOLEAN, integral: BOOLEAN, handed: BOOLEAN] :
                /\ p.valid => p.object /\ p.claims = {}
                /\ p.handed => p.valid /\ p.integral}

\* A request as it is received.
Request == [method: {"POST", "GET"}, path: {"/authorize", "elsewhere"},
            body: {"object", "json", "garbage"}, fields: SUBSET EnvelopeFields,
            version: Versions, proposal: Proposal]

-----------------------------------------------------------------------------
\* The gateway's end.

CarriesAPrincipal(r) ==
    \/ r.fields \cap PRINCIPAL_FIELDS # {}
    \/ "request" \in r.fields /\ r.proposal.object /\ r.proposal.claims # {}

\* do_POST reads the version with Python's equality; only a boolean is barred.
VersionSpoken(r) == "wire_version" \in r.fields /\ r.version \in EqualToOne \ {"true"}

\* The requests that reach AuthorizationService.authorize.
ReachesService(r) ==
    /\ r.method = "POST"
    /\ r.path = "/authorize"
    /\ r.body = "object"
    /\ ~CarriesAPrincipal(r)
    /\ VersionSpoken(r)
    /\ "request" \in r.fields /\ r.proposal.valid

-----------------------------------------------------------------------------
\* What comes back.

\* An exchange that ended without a response: no listener or a failed name look-up,
\* a handshake refused, a connection reset, no byte in time, or bytes that are
\* no HTTP response or only part of one.
NoResponse == [kind: {"unreachable", "tls", "reset", "timeout", "not_http"}]

\* A response: its code, and a body that is no JSON, JSON but no envelope, or an
\* envelope.  `whole` says whether its outcome has exactly the contract's fields.
Response ==
         [kind: {"http"}, code: {200, 403, 503}, body: {"html", "json"}]
    \cup [kind: {"http"}, code: {200, 403, 503}, body: {"envelope"},
          version: Versions, status: AgentOutcomeStatus \cup {"authorized", "none"},
          whole: BOOLEAN]

Answer == NoResponse \cup Response

\* How _authorize answers a decided request.
AnswerOf(status) == [kind |-> "http", code |-> 200, body |-> "envelope",
                     version |-> "one", status |-> status, whole |-> TRUE]

\* The gateway's answers, and all that Python would read as version one.
FromGateway(a)  == \E s \in AgentOutcomeStatus : a = AnswerOf(s)
AnnouncesOne(a) == /\ a.kind = "http"
                   /\ a.body = "envelope"
                   /\ a.version \in EqualToOne

-----------------------------------------------------------------------------
\* The clients.  "raises" is an exception where a status was due.

Told == AgentOutcomeStatus \cup {"raises"}

\* GatewayClient.request_authorization: only a response WireResponse validates
\* is relayed, and all else is a TransportRefusal, whose status is fixed.
RefusalReason(a) ==
    IF a.kind = "tls" THEN "tls_rejected"
    ELSE IF a.kind # "http" THEN "gateway_unreachable"
    ELSE IF a.code # 200 THEN "gateway_declined"
    ELSE "malformed_response"

\* WireResponse: the version a strict integer this client speaks, the outcome's
\* status of the vocabulary and its other fields as declared.
WireResponse(a) ==
    /\ a.kind = "http" /\ a.code = 200 /\ a.body = "envelope"
    /\ a.version \in SUPPORTED_WIRE_VERSIONS
    /\ a.status \in AgentOutcomeStatus
    /\ a.whole

TransportRefusal(reason) == [status |-> "refused", reason |-> reason]

GatewayClientReads(a) ==
    IF WireResponse(a) THEN a.status
    ELSE TransportRefusal(RefusalReason(a)).status

\* MinimalWireClient: the version compared with Python's equality, of the
\* outcome only its status, and nothing caught but OSError and ValueError.
MinimalReadsAnswer(a, versions) ==
    IF /\ a.body = "envelope"
       /\ a.version \in versions
       /\ a.status \in AgentOutcomeStatus
    THEN a.status
    ELSE "refused"

MinimalReads(a, versions) ==
    IF a.kind = "not_http" THEN "raises"
    ELSE IF a.kind # "http" THEN "refused"
    ELSE IF a.code # 200 THEN "refused"
    ELSE MinimalReadsAnswer(a, versions)

\* DialectBlindClient drops the look at the version, OptimistClient reads what
\* it cannot read as success.
DialectBlindReads(a) == MinimalReads(a, Versions)

OptimistReads(a) ==
    IF a.kind = "http" /\ a.code = 200 /\ MinimalReads(a, EqualToOne) = "refused"
    THEN "completed"
    ELSE MinimalReads(a, EqualToOne)

\* Both clients send WireRequest once, with the proposal as it was handed over.
WireRequest ==
    [method |-> "POST", path |-> "/authorize", body |-> "object",
     fields |-> {"wire_version", "request"}, version |-> "one",
     proposal |-> [object |-> TRUE, claims |-> {}, valid |-> TRUE,
                   integral |-> TRUE, handed |-> TRUE]]

Designs == {"shipped", "minimal", "dialect_blind", "optimist"}

Client(design) ==
    [sends |-> <<WireRequest>>,
     reads |-> [a \in Answer |->
                   CASE design = "shipped"       -> GatewayClientReads(a)
                     [] design = "minimal"       -> MinimalReads(a, EqualToOne)
                     [] design = "dialect_blind" -> DialectBlindReads(a)
                     [] design = "optimist"      -> OptimistReads(a)]]
=============================================================================
