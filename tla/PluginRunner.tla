------------------------------ MODULE PluginRunner ------------------------------
(***************************************************************************)
(* Consulting extensions and reducing what they say.  Two hosts do it: the *)
(* runner, for third-party plugins, which isolates and revalidates each    *)
(* answer; and the decision engine, for the core's own policies, which     *)
(* isolates only.  An extension may do anything when it is consulted, and  *)
(* something else the next time.                                           *)
(*                                                                         *)
(* The order of findings is canonical, so a judgement's findings are a     *)
(* set; of a finding's two quantities one is kept.                         *)
(***************************************************************************)
EXTENDS Naturals

CONSTANTS
    Extensions,             \* what may be installed
    PluginFindings,         \* findings an extension may return
    MAX_DETAIL_MAGNITUDE,   \* bound on a finding's quantity
    NoQuantity,             \* observed is None
    Silent                  \* not consulted yet in this run

\* PluginVerdict: there is no ALLOW.
ABSTAIN == 0
REVIEW  == 1
DENY    == 2
PluginVerdict == {ABSTAIN, REVIEW, DENY}

FailureCode == {"plugin_error", "plugin_contract_mismatch", "plugin_invalid_result"}
ReasonCode  == {"velocity_limit", "org_policy", "value_band_exceeded"} \cup FailureCode

Finding == [code: ReasonCode, observed: Nat \cup {NoQuantity}]
Failed(reason) == [code |-> reason, observed |-> NoQuantity]

ASSUME PluginRunnerAssumption ==
    /\ MAX_DETAIL_MAGNITUDE \in Nat
    /\ PluginFindings \subseteq Finding

\* What may be in a result: the extensions' findings and the host's own.
Findings == PluginFindings \cup {Failed(reason) : reason \in FailureCode}

PluginJudgement == [verdict: PluginVerdict, findings: SUBSET Findings]

\* What consulting an extension comes to.  "unspoken" declares another version of
\* the contract, or none; "raising_property" raises when it is asked which;
\* "unwinds" raises a BaseException; "other" returns no judgement.  A judgement
\* may have been built around the validators (model_construct, a subclass), be of
\* another version, or raise when it is dumped.
Behaviour ==
         [kind: {"unspoken", "raising_property", "not_callable", "raises",
                 "unwinds", "other"}]
    \cup [kind: {"judgement"}, contract_version: {"spoken", "unspoken"},
          verdict: PluginVerdict, findings: SUBSET PluginFindings, dumps: BOOLEAN]

ASSUME SilentAssumption == Silent \notin Behaviour

VARIABLES
    host,       \* "runner" or "engine"
    installed,  \* the extensions registered
    heard,      \* what each came to in this run
    result,     \* the judgement so far
    phase       \* "idle", "running", "decided" or "unwound"

plugins == <<host, installed, heard, result, phase>>

-----------------------------------------------------------------------------
\* The validators: a concern has a finding, a quantity is bounded.
ConcernsAreExplained(verdict, findings) == verdict # ABSTAIN => findings # {}

InBounds(f) == f.observed # NoQuantity => f.observed <= MAX_DETAIL_MAGNITUDE

\* The Wrong... operators are plausible mistakes; here, the bound is left to the
\* constructor, which an extension goes around.
WrongValid(b) == ConcernsAreExplained(b.verdict, b.findings)

Valid(b) ==
    /\ ConcernsAreExplained(b.verdict, b.findings)
    /\ \A f \in b.findings : InBounds(f)

Deny(reason) == [verdict |-> DENY, findings |-> {Failed(reason)}]

Says(b) == [verdict |-> b.verdict, findings |-> b.findings]

\* _evaluate_isolated, for what does not unwind.
EvaluateIsolated(b) ==
    CASE b.kind \in {"unspoken", "not_callable"} -> Deny("plugin_contract_mismatch")
      [] b.kind = "raises"                       -> Deny("plugin_error")
      [] b.kind = "other"                        -> Deny("plugin_invalid_result")
      [] OTHER ->
            IF ~(b.dumps /\ Valid(b)) THEN Deny("plugin_invalid_result")
            ELSE IF b.contract_version # "spoken" THEN Deny("plugin_contract_mismatch")
            ELSE Says(b)

\* DecisionEngine._evaluate: a judgement is taken as it is, of any version, and
\* whatever raises on the way to it is inside the try.  It asks no extension which
\* version it speaks, so what comes of asking does not come up.
OnlyWhenAsked(b) == b.kind \in {"unspoken", "raising_property"}

EngineEvaluates(b) ==
    CASE b.kind = "judgement" -> Says(b)
      [] b.kind = "other"     -> Deny("plugin_invalid_result")
      [] OTHER                -> Deny("plugin_error")

Evaluate(b) == IF host = "runner" THEN EvaluateIsolated(b) ELSE EngineEvaluates(b)

\* What no except clause catches: the look at the version is before the first.
Escapes(b) == b.kind \in {"unwinds", "raising_property"}

\* A mistake: one finding for each code.
WrongMergeFindings(left, right) ==
    left \cup {f \in right : \A g \in left : g.code # f.code}

MergeFindings(left, right) == left \cup right

Stricter(v, w) == IF v >= w THEN v ELSE w

\* combine builds a PluginJudgement, whose validator raises on a concern without
\* a finding.
Combined(left, right) ==
    [verdict  |-> Stricter(left.verdict, right.verdict),
     findings |-> MergeFindings(left.findings, right.findings)]

\* A mistake: combine builds what it builds unvalidated.
WrongCombines(left, right) == TRUE

Combines(left, right) ==
    LET c == Combined(left, right) IN ConcernsAreExplained(c.verdict, c.findings)

Neutral == [verdict |-> ABSTAIN, findings |-> {}]

\* render: a sentence for each finding, quantified or plain.
Sentence(f) == [code |-> f.code, quantified |-> f.observed # NoQuantity]

Render(j) == IF j.verdict = ABSTAIN THEN {} ELSE {Sentence(f) : f \in j.findings}

-----------------------------------------------------------------------------
PluginsInit ==
    /\ host \in {"runner", "engine"}
    /\ installed = {}
    /\ heard = [e \in Extensions |-> Silent]
    /\ result = Neutral
    /\ phase = "idle"

Install(e) ==
    /\ phase # "running"
    /\ installed' = installed \cup {e}
    /\ heard' = [x \in Extensions |-> Silent]
    /\ result' = Neutral
    /\ phase' = "idle"
    /\ UNCHANGED host

Start ==
    /\ phase # "running"
    /\ heard' = [e \in Extensions |-> Silent]
    /\ result' = Neutral
    /\ phase' = "running"
    /\ UNCHANGED <<host, installed>>

\* Any extension not yet consulted may be next: the order is the operator's.
Waiting == {e \in installed : heard[e] = Silent}

Done == Waiting = {}

Consult(e, b) ==
    /\ phase = "running"
    /\ ~Done
    /\ e \in Waiting
    /\ host = "engine" => ~OnlyWhenAsked(b)
    /\ heard' = [heard EXCEPT ![e] = b]
    /\ IF ~Escapes(b) /\ Combines(result, Evaluate(b))
       THEN result' = Combined(result, Evaluate(b)) /\ UNCHANGED phase
       ELSE phase' = "unwound" /\ UNCHANGED result
    /\ UNCHANGED <<host, installed>>

Finish ==
    /\ phase = "running"
    /\ Done
    /\ phase' = "decided"
    /\ UNCHANGED <<host, installed, heard, result>>

PluginsNext ==
    \/ \E e \in Extensions : Install(e)
    \/ Start
    \/ \E e \in installed, b \in Behaviour : Consult(e, b)
    \/ Finish

PluginsSpec == PluginsInit /\ [][PluginsNext]_plugins

PluginsTypeOK ==
    /\ host \in {"runner", "engine"}
    /\ installed \subseteq Extensions
    /\ heard \in [Extensions -> Behaviour \cup {Silent}]
    /\ result \in PluginJudgement
    /\ phase \in {"idle", "running", "decided", "unwound"}
    /\ host = "runner" => \A f \in result.findings : InBounds(f)

-----------------------------------------------------------------------------
\* A plugin kept the contract: it answered, in this version, what may be said.
KeptTheContract(b) ==
    /\ b.kind = "judgement"
    /\ host = "runner" => b.contract_version = "spoken" /\ b.dumps /\ Valid(b)

\* A run that reaches a decision has heard every extension, whichever failed
\* before it and whatever the order: one that kept the contract has its verdict
\* and its findings in the result, one that did not is a denial with a reason of
\* its own, and the result is silence only if every extension was silent.  And
\* the result holds nothing else: the verdict and every finding are somebody's,
\* the host's own reasons only where an extension failed.
NobodyIsSilenced ==
    LET kept   == {e \in installed : KeptTheContract(heard[e])}
        failed == installed \ kept
    IN  phase = "decided" =>
            /\ \A e \in installed :
                 /\ heard[e] # Silent
                 /\ result.verdict = ABSTAIN => heard[e].verdict = ABSTAIN
            /\ \A e \in kept : /\ heard[e].verdict <= result.verdict
                               /\ heard[e].findings \subseteq result.findings
            /\ failed # {} => /\ result.verdict = DENY
                              /\ \E f \in result.findings : f.code \in FailureCode
            /\ \/ result.verdict = ABSTAIN
               \/ failed # {}
               \/ \E e \in kept : heard[e].verdict = result.verdict
            /\ \A f \in result.findings :
                 \/ \E e \in kept : f \in heard[e].findings
                 \/ failed # {} /\ \E reason \in FailureCode : f = Failed(reason)

\* "running the same extensions in a different registration order must produce
\* byte-identical records": a decision is what the answers come to together.
OrderDoesNotMatter ==
    LET said == {Evaluate(heard[e]) : e \in installed}
    IN  phase = "decided" =>
            /\ result.findings = UNION {j.findings : j \in said}
            /\ result.verdict \in {ABSTAIN} \cup {j.verdict : j \in said}
            /\ \A j \in said : j.verdict <= result.verdict

\* A concern nobody can act on is not decided: a decision other than silence
\* renders to at least one sentence, although the engine takes judgements that
\* never met their validators.
ConcernsAreActionable ==
    phase = "decided" /\ result.verdict # ABSTAIN => Render(result) # {}
=============================================================================
