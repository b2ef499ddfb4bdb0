----------------------------- MODULE PolicyPluginKit -----------------------------
(***************************************************************************)
(* PolicyPluginConformance: the checks an extension passes to be           *)
(* certified, named as in the code without the test_ prefix.  They run in  *)
(* this order on one instance, which may remember what it was asked, so    *)
(* the whole suite is one sequence of calls and a check looks at its part. *)
(*                                                                         *)
(* An extension is a machine [declares, begins, says, next, alters]: from  *)
(* a view and what it remembers, what consulting it comes to and what it   *)
(* remembers next; `alters` are the views it changes under the caller.     *)
(***************************************************************************)
EXTENDS PluginRunner, SequencesExt

CONSTANT conformance_corpus     \* the views, in their order

Abstains == [kind |-> "judgement", contract_version |-> "spoken",
             verdict |-> ABSTAIN, findings |-> {}, dumps |-> TRUE]
AlwaysDeny == Deny("org_policy")

\* What the instance remembers after a sequence of views, and what it answers on
\* the way; getattr finds the version it declares before it is asked.
Remembers(x, m, views) == FoldLeft(LAMBDA mem, v : x.next[v, mem], m, views)

Raw(x, m, views) ==
    [i \in DOMAIN views |-> x.says[views[i], Remembers(x, m, SubSeq(views, 1, i - 1))]]

Answers(x, m, views) ==
    [i \in DOMAIN views |-> IF x.declares = "spoken" THEN Raw(x, m, views)[i]
                            ELSE [kind |-> "unspoken"]]

\* Each view twice in a row, for the checks that consult it twice on one view.
Twice == [i \in 1..(2 * Len(conformance_corpus)) |-> conformance_corpus[(i + 1) \div 2]]

\* The calls of each check, in the order they run.
Suite == <<conformance_corpus, conformance_corpus, conformance_corpus, conformance_corpus,
           Twice, conformance_corpus \o Reverse(conformance_corpus), conformance_corpus,
           conformance_corpus, conformance_corpus, Twice, Twice>>

Begun(x, i) == Remembers(x, x.begins, FlattenSeq(SubSeq(Suite, 1, i - 1)))
Heard(x, i)  == Answers(x, Begun(x, i), Suite[i])

Unwinds(b) == b.kind \in {"unwinds", "raising_property"}

\* run_plugins over the judgements of a few extensions, which do not unwind.
Runs(js)   == FoldLeft(Combined, Neutral, js)
Judges(b)  == Runs(<<EvaluateIsolated(b)>>)
Reasons(j) == {f.code : f \in j.findings}
Beside(x, i) == [n \in DOMAIN Suite[i] |-> EvaluateIsolated(Heard(x, i)[n])]

-----------------------------------------------------------------------------
DeclaresTheSupportedContractVersion(x) == x.declares = "spoken"

\* run_plugins returns a judgement, or the extension unwound it.
ReturnsAJudgementForEveryView(x) ==
    \A n \in DOMAIN Heard(x, 1) : ~Unwinds(Heard(x, 1)[n])

NeverTripsTheRunnerFailurePaths(x) ==
    \A n \in DOMAIN Heard(x, 2) : Reasons(Judges(Heard(x, 2)[n])) \cap FailureCode = {}

NeverClaimsApproval(x) ==
    \A n \in DOMAIN Heard(x, 3) : Judges(Heard(x, 3)[n]).verdict \in PluginVerdict

DoesNotMutateTheView(x) == x.alters \cap ToSet(Suite[4]) = {}

IsDeterministic(x) ==
    \A n \in DOMAIN conformance_corpus :
        Judges(Heard(x, 5)[2 * n - 1]) = Judges(Heard(x, 5)[2 * n])

HasNoSideEffectsAcrossViews(x) ==
    LET first    == SubSeq(Heard(x, 6), 1, Len(conformance_corpus))
        replayed == SubSeq(Heard(x, 6), Len(conformance_corpus) + 1, Len(Suite[6]))
    IN  \A n \in DOMAIN first : Judges(first[n]) = Judges(Reverse(replayed)[n])

\* Read from what the extension itself returns, which the runner would scrub.
FindingsStayWithinTheClosedVocabulary(x) ==
    LET raw == Raw(x, Begun(x, 7), Suite[7])
    IN  \A n \in DOMAIN raw : /\ raw[n].kind = "judgement"
                              /\ \A f \in raw[n].findings : InBounds(f)

EveryConcernIsActionable(x) ==
    \A n \in DOMAIN Heard(x, 8) :
        LET j == Judges(Heard(x, 8)[n]) IN j.verdict # ABSTAIN => Render(j) # {}

CannotWeakenAnotherExtension(x) ==
    \A n \in DOMAIN Suite[9] : Runs(<<AlwaysDeny, Beside(x, 9)[n]>>).verdict = DENY

RegistrationOrderDoesNotChangeTheOutcome(x) ==
    \A n \in DOMAIN conformance_corpus :
        LET forward == Runs(<<Beside(x, 10)[2 * n - 1], Neutral, AlwaysDeny>>)
            reverse == Runs(<<AlwaysDeny, Neutral, Beside(x, 10)[2 * n]>>)
        IN  forward.verdict = reverse.verdict /\ Reasons(forward) = Reasons(reverse)

AFailingNeighbourDoesNotSuppressThisPlugin(x) ==
    \A n \in DOMAIN conformance_corpus :
        Reasons(Runs(<<Beside(x, 11)[2 * n - 1]>>)) \subseteq
            Reasons(Runs(<<Deny("plugin_error"), Beside(x, 11)[2 * n]>>))

\* An extension that unwinds fails the check that meets it.
CertifiedPlugin(x) ==
    /\ DeclaresTheSupportedContractVersion(x)
    /\ \A i \in DOMAIN Suite : \A n \in DOMAIN Suite[i] : ~Unwinds(Heard(x, i)[n])
    /\ ReturnsAJudgementForEveryView(x)
    /\ NeverTripsTheRunnerFailurePaths(x)
    /\ NeverClaimsApproval(x)
    /\ DoesNotMutateTheView(x)
    /\ IsDeterministic(x)
    /\ HasNoSideEffectsAcrossViews(x)
    /\ FindingsStayWithinTheClosedVocabulary(x)
    /\ EveryConcernIsActionable(x)
    /\ CannotWeakenAnotherExtension(x)
    /\ RegistrationOrderDoesNotChangeTheOutcome(x)
    /\ AFailingNeighbourDoesNotSuppressThisPlugin(x)

-----------------------------------------------------------------------------
\* CounterpartyAllowlistPolicy: it remembers nothing and denies whom it does not
\* list.
CounterpartyAllowlist(memory, allowed) ==
    [declares |-> "spoken", begins |-> CHOOSE m \in memory : TRUE, alters |-> {},
     says |-> [c \in ToSet(conformance_corpus) \X memory |->
                  IF c[1] \in allowed THEN Abstains
                  ELSE [Abstains EXCEPT !.verdict = DENY,
                                        !.findings = {Failed("org_policy")}]],
     next |-> [c \in ToSet(conformance_corpus) \X memory |-> c[2]]]
=============================================================================
