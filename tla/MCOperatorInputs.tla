---------------------------- MODULE MCOperatorInputs ----------------------------
(***************************************************************************)
(* Small instances of OperatorInputs for TLC.                              *)
(***************************************************************************)
EXTENDS OperatorInputs, PolicyPluginKit, RailAdapters, TLC

\* The defaults in their order of size: retries 0, TTL and window above it.
MCStrictest == [s \in Setting |->
    CASE s = "approval_ttl_seconds"    -> 1
      [] s = "window_lookback_seconds" -> 2
      [] OTHER                         -> 0]

\* Two quantities of one code, and one beyond the bound.
MCFindings == {[code |-> "velocity_limit", observed |-> 1],
               [code |-> "velocity_limit", observed |-> 2],
               [code |-> "org_policy", observed |-> 3]}

MCCorpus == <<"known", "new">>

\* The two halves share no variable and no property relates them, so each is
\* explored with the other where it starts: every state of each is reached.
MCNext ==
    \/ phase = "idle" /\ installed = {} /\ SettingsNext /\ UNCHANGED plugins
    \/ now = 0 /\ records = {} /\ PluginsNext /\ UNCHANGED settings

MCSpec == Init /\ [][MCNext]_vars

-----------------------------------------------------------------------------
\* Extensions that remember one bit: what they say of two views, and how judging
\* one changes what they remember.
Memory  == {0, 1}
Views   == ToSet(conformance_corpus)
Denies  == [Abstains EXCEPT !.verdict = DENY, !.findings = {Failed("org_policy")}]

\* The example plugin passes the kit, whatever it lists.
ASSUME TheAllowlistIsCertified ==
    \A allowed \in SUBSET Views : CertifiedPlugin(CounterpartyAllowlist(Memory, allowed))

\* What the kit does not see, although it looks for state carried from one view
\* to the next: a plugin it certifies denies a view or not by what it judged
\* before, because the corpus's first view has tripped a latch for good.
Latch == [declares |-> "spoken", begins |-> 0, alters |-> {},
          says |-> [c \in Views \X Memory |-> IF c = <<"new", 1>> THEN Denies ELSE Abstains],
          next |-> [c \in Views \X Memory |-> IF c[1] = "known" THEN 1 ELSE c[2]]]

ASSUME TheKitMissesALatch ==
    /\ CertifiedPlugin(Latch)
    /\ Answers(Latch, 0, <<"new">>)[1] # Answers(Latch, 0, <<"known", "new">>)[2]

-----------------------------------------------------------------------------
\* Both adapters pass their kit on every call they map.
Mapped(calls, derives(_)) == {c \in calls : IsIntent(derives(c))}

ASSUME TheAdaptersAreCertified ==
    /\ CertifiedAdapter(StripeAdapter(Mapped(StripeCall, StripeDerives)))
    /\ CertifiedAdapter(AlpacaAdapter(Mapped(AlpacaCall, AlpacaDerives)))

Symmetry == Permutations(Extensions)
=============================================================================
