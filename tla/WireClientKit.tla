----------------------------- MODULE WireClientKit -----------------------------
(***************************************************************************)
(* WireClientConformance: the checks a third party's client passes to be   *)
(* certified.  Each is a predicate of a client [sends, reads], named as in *)
(* the code without its test_ prefix.  The probe answers every request     *)
(* with the scripted response and records what it received.                *)
(***************************************************************************)
EXTENDS WireClient

\* certification_response, and the probe's other scripts.
CertificationResponse(status, version) ==
    [kind |-> "http", code |-> 200, body |-> "envelope",
     version |-> version, status |-> status, whole |-> TRUE]

COMPLETED_RESPONSE == CertificationResponse("completed", "one")
Unavailable        == [kind |-> "http", code |-> 503, body |-> "json"]
Unparseable        == [kind |-> "http", code |-> 200, body |-> "html"]
NothingListens     == [kind |-> "unreachable"]

\* _ask, _sole_request, _sole_envelope and _sole_proposal: exactly one request,
\* whose body is a JSON object with a `request` that is an object.
AsksOnce(c) == Len(c.sends) = 1

SoleEnvelope(c) == AsksOnce(c) /\ c.sends[1].body = "object"

SoleProposal(c) ==
    SoleEnvelope(c) /\ "request" \in c.sends[1].fields /\ c.sends[1].proposal.object

-----------------------------------------------------------------------------
\* What the client sends.

AsksTheGatewayBeforeAnswering(c) == AsksOnce(c)

PostsTheEnvelopeToTheAuthorizePath(c) ==
    AsksOnce(c) /\ c.sends[1].method = "POST" /\ c.sends[1].path = "/authorize"

EnvelopeCarriesTheVersionAndTheRequestOnly(c) ==
    SoleEnvelope(c) /\ c.sends[1].fields = {"wire_version", "request"}

\* An integer, which excludes true, 1.0 and "1", among the supported ones.
AnnouncesAWireVersionThisContractDefines(c) ==
    /\ SoleEnvelope(c)
    /\ "wire_version" \in c.sends[1].fields
    /\ c.sends[1].version \in SUPPORTED_WIRE_VERSIONS

RequestIsTheClosedAgentSurface(c) ==
    SoleProposal(c) /\ c.sends[1].proposal.integral /\ c.sends[1].proposal.valid

RequestIsTheOneItWasHanded(c) == SoleProposal(c) /\ c.sends[1].proposal.handed

CarriesNoPrincipalInEitherPocket(c) ==
    SoleProposal(c) /\ ~CarriesAPrincipal(c.sends[1])

-----------------------------------------------------------------------------
\* How the client reads the answer.

RelaysTheGatewayAnswerUnchanged(c) ==
    \A s \in {"completed", "awaiting_review"} :
        c.reads[CertificationResponse(s, "one")] = s

AGatewayThatDeclinesReadsAsRefused(c) == c.reads[Unavailable] = "refused"

AnUnparseableAnswerIsRefused(c) == c.reads[Unparseable] = "refused"

AnUnknownStatusIsRefused(c) ==
    c.reads[CertificationResponse("authorized", "one")] = "refused"

AForeignDialectIsRefused(c) ==
    c.reads[CertificationResponse("completed", "unspoken")] = "refused"

AnUnreachableGatewayYieldsRefused(c) == c.reads[NothingListens] = "refused"

EveryAnswerIsInTheClosedVocabulary(c) ==
    \A a \in {COMPLETED_RESPONSE, Unavailable, Unparseable} :
        c.reads[a] \in AgentOutcomeStatus

-----------------------------------------------------------------------------
CertifiedSender(c) ==
    /\ AsksTheGatewayBeforeAnswering(c)
    /\ PostsTheEnvelopeToTheAuthorizePath(c)
    /\ EnvelopeCarriesTheVersionAndTheRequestOnly(c)
    /\ AnnouncesAWireVersionThisContractDefines(c)
    /\ RequestIsTheClosedAgentSurface(c)
    /\ RequestIsTheOneItWasHanded(c)
    /\ CarriesNoPrincipalInEitherPocket(c)

CertifiedReader(c) ==
    /\ RelaysTheGatewayAnswerUnchanged(c)
    /\ AGatewayThatDeclinesReadsAsRefused(c)
    /\ AnUnparseableAnswerIsRefused(c)
    /\ AnUnknownStatusIsRefused(c)
    /\ AForeignDialectIsRefused(c)
    /\ AnUnreachableGatewayYieldsRefused(c)
    /\ EveryAnswerIsInTheClosedVocabulary(c)

Certified(c) == CertifiedSender(c) /\ CertifiedReader(c)
=============================================================================
