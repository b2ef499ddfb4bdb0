-------------------------- MODULE OperatorInputsProofs --------------------------
(***************************************************************************)
(* OperatorInputs for every value of its constants.  The settings' three   *)
(* properties need no invariant but the types: they rest on one lemma, that*)
(* the code's comparison of numbers is the comparison of what the values   *)
(* let through.  The extensions' two need what a run keeps while it goes.  *)
(***************************************************************************)
EXTENDS OperatorInputs, WellFoundedInduction, TLAPS

-----------------------------------------------------------------------------
\* is_looser_than says which of two values lets more through, in the direction
\* of each setting.
LEMMA Direction ==
    ASSUME NEW s \in Setting, NEW v \in Values, NEW w \in Values
    PROVE  ~IsLooserThan(s, v, w) <=> AtMost(s, v, w)
<1>1. CASE s = "approval_ttl_seconds"
  <2>1. v > w => w \in Permits(s, v) /\ w \notin Permits(s, w)
    BY <1>1, RelaxationGuardAssumption DEF Permits, Values
  <2>2. ~(v > w) => Permits(s, v) \subseteq Permits(s, w)
    BY <1>1, RelaxationGuardAssumption DEF Permits, Values
  <2> QED BY <1>1, <2>1, <2>2 DEF IsLooserThan, AtMost
<1>2. CASE s = "window_lookback_seconds"
  <2>1. v < w => v \in Permits(s, v) /\ v \notin Permits(s, w)
    BY <1>2, RelaxationGuardAssumption DEF Permits, Values
  <2>2. ~(v < w) => Permits(s, v) \subseteq Permits(s, w)
    BY <1>2, RelaxationGuardAssumption DEF Permits, Values
  <2> QED BY <1>2, <2>1, <2>2 DEF IsLooserThan, AtMost
<1>3. CASE s = "rail_retry_attempts"
  <2>1. v > w => v \in Permits(s, v) /\ v \notin Permits(s, w)
    BY <1>3, RelaxationGuardAssumption DEF Permits, Values
  <2>2. ~(v > w) => Permits(s, v) \subseteq Permits(s, w)
    BY <1>3, RelaxationGuardAssumption DEF Permits, Values
  <2> QED BY <1>3, <2>1, <2>2 DEF IsLooserThan, AtMost
<1> QED BY <1>1, <1>2, <1>3 DEF Setting

\* A value that is looser than another is looser the other way round of none.
LEMMA LooserIsStrict ==
    ASSUME NEW s \in Setting, NEW v \in Values, NEW w \in Values, IsLooserThan(s, v, w)
    PROVE  AtMost(s, w, v)
<1>1. ~IsLooserThan(s, w, v)
  BY RelaxationGuardAssumption DEF IsLooserThan, Values
<1> QED BY <1>1, Direction

LEMMA StrictestIsAValue == \A s \in Setting : Strictest[s] \in Values
BY RelaxationGuardAssumption

\* The cases of resolve, by what was asked and which records permit it.
LEMMA Cases ==
    ASSUME NEW s \in Setting, NEW v \in Values, NEW rs \in SUBSET Relaxation,
           NEW time \in Nat, NEW d \in Resolve(s, v, rs, time)
    PROVE  \/ /\ ~IsLooser(s, v)
              /\ d.value = v /\ d.resolution = "as_requested" /\ d.authority = NoAuthority
           \/ /\ IsLooser(s, v)
              /\ Permitting(rs, s, v, time) # {}
              /\ d.value = v /\ d.resolution = "relaxed_by_authority"
              /\ d.authority \in Narrowest(Permitting(rs, s, v, time))
           \/ /\ IsLooser(s, v)
              /\ Permitting(rs, s, v, time) = {}
              /\ d.value = Strictest[s] /\ d.resolution # "relaxed_by_authority"
              /\ d.authority = NoAuthority
<1>1. CASE ~IsLooser(s, v)
  BY <1>1 DEF Resolve, Decision
<1>2. CASE IsLooser(s, v) /\ Permitting(rs, s, v, time) # {}
  BY <1>2 DEF Resolve, Decision
<1>3. CASE IsLooser(s, v) /\ Permitting(rs, s, v, time) = {}
  <2>1. Refusal(rs, s, time) # "relaxed_by_authority"
    BY DEF Refusal
  <2> QED BY <1>3, <2>1 DEF Resolve, Decision
<1> QED BY <1>1, <1>2, <1>3

LEMMA PermittingIsOfTheSetting ==
    ASSUME NEW s, NEW v, NEW rs \in SUBSET Relaxation, NEW time \in Nat,
           NEW r \in Permitting(rs, s, v, time)
    PROVE  /\ r \in rs /\ r \in Relaxation
           /\ r.setting = s
           /\ r.relaxed_to \in Values
           /\ r.expires_at \in Times /\ time < r.expires_at
           /\ ~IsLooserThan(s, v, r.relaxed_to)
BY DEF Permitting, Authorises, IsLive, Relaxation

LEMMA OnlyAuthority ==
    ASSUME SettingsTypeOK
    PROVE  OnlyAuthorityLoosens
<1> SUFFICES ASSUME NEW s \in Setting, NEW v \in Values,
                    NEW d \in Resolve(s, v, records, now)
             PROVE  /\ \/ AtMost(s, d.value, Strictest[s])
                       \/ \E r \in records : /\ r.setting = s
                                             /\ r.expires_at \in Times
                                             /\ now < r.expires_at
                                             /\ AtMost(s, d.value, r.relaxed_to)
                    /\ AtMost(s, v, Strictest[s]) => d.value = v
  BY DEF OnlyAuthorityLoosens
<1>1. now \in Nat /\ records \in SUBSET Relaxation /\ Strictest[s] \in Values
  BY StrictestIsAValue, RelaxationGuardAssumption DEF SettingsTypeOK, Times
<1>2. AtMost(s, v, Strictest[s]) <=> ~IsLooser(s, v)
  BY <1>1, Direction DEF IsLooser
<1>3. CASE ~IsLooser(s, v) /\ d.value = v
  BY <1>2, <1>3
<1>4. CASE /\ IsLooser(s, v)
           /\ Permitting(records, s, v, now) # {}
           /\ d.value = v
  <2>1. PICK r \in Permitting(records, s, v, now) : TRUE
    BY <1>4
  <2>2. AtMost(s, v, r.relaxed_to)
    BY <1>1, <2>1, PermittingIsOfTheSetting, Direction
  <2> QED BY <1>1, <1>2, <1>4, <2>1, <2>2, PermittingIsOfTheSetting
<1>5. CASE IsLooser(s, v) /\ d.value = Strictest[s]
  <2>1. AtMost(s, Strictest[s], Strictest[s])
    BY DEF AtMost
  <2> QED BY <1>2, <1>5, <2>1
<1> QED BY <1>1, <1>3, <1>4, <1>5, Cases

LEMMA Narrowness ==
    ASSUME SettingsTypeOK
    PROVE  AuthorityIsNarrowest
<1> SUFFICES ASSUME NEW s \in Setting, NEW v \in Values,
                    NEW d \in Resolve(s, v, records, now)
             PROVE  IF d.resolution = "relaxed_by_authority"
                    THEN /\ d.authority \in records
                         /\ AtMost(s, v, d.authority.relaxed_to)
                         /\ \A r \in Permitting(records, s, v, now) :
                                AtMost(s, d.authority.relaxed_to, r.relaxed_to)
                    ELSE /\ d.authority = NoAuthority
                         /\ AtMost(s, d.value, Strictest[s])
  BY DEF AuthorityIsNarrowest
<1>1. now \in Nat /\ records \in SUBSET Relaxation /\ Strictest[s] \in Values
  BY StrictestIsAValue, RelaxationGuardAssumption DEF SettingsTypeOK, Times
<1>2. CASE /\ ~IsLooser(s, v)
           /\ d.value = v /\ d.resolution = "as_requested" /\ d.authority = NoAuthority
  <2>1. AtMost(s, v, Strictest[s])
    BY <1>1, <1>2, Direction DEF IsLooser
  <2> QED BY <1>2, <2>1
<1>3. CASE /\ d.resolution = "relaxed_by_authority"
           /\ d.authority \in Narrowest(Permitting(records, s, v, now))
  <2> DEFINE a == d.authority
  <2>1. a \in Permitting(records, s, v, now)
    BY <1>3 DEF Narrowest
  <2>2. /\ a \in records /\ a.setting = s /\ a.relaxed_to \in Values
        /\ AtMost(s, v, a.relaxed_to)
    BY <1>1, <2>1, PermittingIsOfTheSetting, Direction
  <2>3. ASSUME NEW r \in Permitting(records, s, v, now)
        PROVE  AtMost(s, a.relaxed_to, r.relaxed_to)
    <3>1. ~Precedes(r, a)
      BY <1>3 DEF Narrowest
    <3>2. r.setting = s /\ r.relaxed_to \in Values
      BY <1>1, PermittingIsOfTheSetting
    <3>3. ~IsLooserThan(s, a.relaxed_to, r.relaxed_to)
      BY <3>1, <3>2 DEF Precedes
    <3> QED BY <2>2, <3>2, <3>3, Direction
  <2> QED BY <1>3, <2>2, <2>3
<1>4. CASE /\ d.value = Strictest[s] /\ d.resolution # "relaxed_by_authority"
           /\ d.authority = NoAuthority
  <2>1. AtMost(s, Strictest[s], Strictest[s])
    BY DEF AtMost
  <2> QED BY <1>4, <2>1
<1> QED BY <1>1, <1>2, <1>3, <1>4, Cases

\* min() over records that are not none has a least one to return.
LEMMA LeastNatural ==
    ASSUME NEW S \in SUBSET Nat, S # {}
    PROVE  \E m \in S : \A x \in S : m <= x
<1> DEFINE less == {ss \in Nat \X Nat : ss[1] < ss[2]}
<1>1. IsWellFoundedOn(less, Nat)
  BY NatLessThanWellFounded, Zenon DEF OpToRel
<1>2. PICK m \in S : \A y \in S : ~ (<<y, m>> \in less)
  <2>1. S \subseteq Nat
    OBVIOUS
  <2> HIDE DEF less
  <2> QED BY <1>1, <2>1, WFMin
<1>3. \A y \in S : ~(y < m) /\ y \in Nat /\ m \in Nat
  BY <1>2
<1> QED BY <1>3

LEMMA NarrowestExists ==
    ASSUME NEW s \in Setting, NEW v, NEW rs \in SUBSET Relaxation, NEW time \in Nat,
           Permitting(rs, s, v, time) # {}
    PROVE  Narrowest(Permitting(rs, s, v, time)) # {}
<1> DEFINE permitting == Permitting(rs, s, v, time)
           reach(r) == IF s = "window_lookback_seconds" THEN MaxValue - r.relaxed_to
                       ELSE r.relaxed_to
           reaches == {reach(r) : r \in permitting}
<1>1. \A r \in permitting : /\ r.setting = s
                            /\ r.relaxed_to \in Values
                            /\ r.approver_ref \in Nat
  BY PermittingIsOfTheSetting, RelaxationGuardAssumption DEF Relaxation
<1>2. \A r \in permitting : reach(r) \in Nat
  BY <1>1, RelaxationGuardAssumption DEF Values
<1>3. ASSUME NEW a \in permitting, NEW b \in permitting
      PROVE  /\ IsLooserThan(s, b.relaxed_to, a.relaxed_to) <=> reach(a) < reach(b)
             /\ a.relaxed_to = b.relaxed_to <=> reach(a) = reach(b)
  BY <1>1, RelaxationGuardAssumption DEF IsLooserThan, Values
<1> HIDE DEF permitting, reach
<1>4. PICK low \in reaches : \A n \in reaches : low <= n
  <2>1. reaches \in SUBSET Nat /\ reaches # {}
    BY <1>2 DEF permitting
  <2> QED BY <2>1, LeastNatural
<1> DEFINE lowest == {r \in permitting : reach(r) = low}
           approvers == {r.approver_ref : r \in lowest}
<1>5. PICK first \in approvers : \A n \in approvers : first <= n
  <2>1. approvers \in SUBSET Nat /\ approvers # {}
    BY <1>1, <1>4
  <2> QED BY <2>1, LeastNatural
<1>6. PICK r \in permitting : reach(r) = low /\ r.approver_ref = first
  BY <1>5
<1>7. ASSUME NEW other \in permitting, Precedes(other, r)
      PROVE  FALSE
  <2>1. low <= reach(other) /\ reach(other) \in Nat /\ low \in Nat
    BY <1>2, <1>4, <1>6
  <2>2. CASE IsLooserThan(other.setting, r.relaxed_to, other.relaxed_to)
    <3>1. reach(other) < low
      BY <1>1, <1>3, <1>6, <2>2
    <3> QED BY <2>1, <3>1
  <2>3. CASE other.relaxed_to = r.relaxed_to /\ other.approver_ref < r.approver_ref
    <3>1. other \in lowest
      BY <1>3, <1>6, <2>3
    <3>2. first <= other.approver_ref /\ other.approver_ref \in Nat /\ first \in Nat
      BY <1>1, <1>5, <1>6, <3>1
    <3> QED BY <1>6, <2>3, <3>2
  <2> QED BY <1>7, <2>2, <2>3 DEF Precedes
<1>8. r \in Narrowest(permitting)
  BY <1>7 DEF Narrowest
<1> QED BY <1>8 DEF permitting

\* Narrowest leaves only ties.
LEMMA NarrowestTie ==
    ASSUME NEW s \in Setting, NEW v, NEW rs \in SUBSET Relaxation, NEW time \in Nat,
           NEW a \in Narrowest(Permitting(rs, s, v, time)),
           NEW b \in Narrowest(Permitting(rs, s, v, time))
    PROVE  a.relaxed_to = b.relaxed_to /\ a.approver_ref = b.approver_ref
<1>1. /\ a \in Permitting(rs, s, v, time) /\ b \in Permitting(rs, s, v, time)
      /\ ~Precedes(a, b) /\ ~Precedes(b, a)
  BY DEF Narrowest
<1>2. /\ a.setting = s /\ a.relaxed_to \in Nat /\ a.approver_ref \in Nat
      /\ b.setting = s /\ b.relaxed_to \in Nat /\ b.approver_ref \in Nat
  BY <1>1, PermittingIsOfTheSetting, RelaxationGuardAssumption DEF Relaxation, Values
<1>3. a.relaxed_to = b.relaxed_to
  BY <1>1, <1>2 DEF Precedes, IsLooserThan
<1> QED BY <1>1, <1>2, <1>3 DEF Precedes

LEMMA Determined ==
    ASSUME SettingsTypeOK
    PROVE  ValueIsDetermined
<1> SUFFICES ASSUME NEW s \in Setting, NEW v \in Values
             PROVE  /\ Resolve(s, v, records, now) # {}
                    /\ \A d, e \in Resolve(s, v, records, now) :
                         /\ d.value = e.value
                         /\ d.resolution = e.resolution
                         /\ d.authority # e.authority =>
                               /\ d.authority.relaxed_to = e.authority.relaxed_to
                               /\ d.authority.approver_ref = e.authority.approver_ref
  BY DEF ValueIsDetermined
<1>1. now \in Nat /\ records \in SUBSET Relaxation
  BY RelaxationGuardAssumption DEF SettingsTypeOK, Times
<1>2. CASE /\ IsLooser(s, v)
           /\ Permitting(records, s, v, now) # {}
  <2> DEFINE narrowest == Narrowest(Permitting(records, s, v, now))
  <2>1. Resolve(s, v, records, now) =
            {Decision(s, v, "relaxed_by_authority", r) : r \in narrowest}
    BY <1>2 DEF Resolve
  <2>2. narrowest # {}
    BY <1>1, <1>2, NarrowestExists
  <2>3. \A a, b \in narrowest : a.relaxed_to = b.relaxed_to /\ a.approver_ref = b.approver_ref
    BY <1>1, NarrowestTie
  <2> HIDE DEF narrowest
  <2>4. Resolve(s, v, records, now) # {}
    BY <2>1, <2>2
  <2>5. ASSUME NEW d \in Resolve(s, v, records, now)
        PROVE  /\ d.value = v /\ d.resolution = "relaxed_by_authority"
               /\ d.authority \in narrowest
    BY <2>1 DEF Decision
  <2> QED BY <2>3, <2>4, <2>5
<1>3. CASE ~IsLooser(s, v) \/ Permitting(records, s, v, now) = {}
  <2>1. PICK d : Resolve(s, v, records, now) = {d}
    BY <1>3 DEF Resolve
  <2> QED BY <2>1
<1> QED BY <1>2, <1>3

\* What a record no longer there, or no longer live, permitted, nothing permits.
LEMMA PermittingShrinks ==
    ASSUME SettingsTypeOK, SettingsTypeOK', now <= now', records' \subseteq records,
           NEW s \in Setting, NEW v \in Values
    PROVE  Permitting(records', s, v, now') \subseteq Permitting(records, s, v, now)
<1> SUFFICES ASSUME NEW r \in Permitting(records', s, v, now')
             PROVE  r \in Permitting(records, s, v, now)
  OBVIOUS
<1>1. now \in Nat /\ now' \in Nat /\ records' \in SUBSET Relaxation
  BY RelaxationGuardAssumption DEF SettingsTypeOK, Times
<1>2. r \in records /\ r.setting = s /\ ~IsLooserThan(s, v, r.relaxed_to)
  BY <1>1, PermittingIsOfTheSetting
<1>3. r.expires_at \in Times /\ now' < r.expires_at
  BY <1>1, PermittingIsOfTheSetting
<1>4. r.expires_at \in Nat /\ now < r.expires_at
  BY <1>1, <1>3, RelaxationGuardAssumption DEF Times
<1>5. r.expires_at # NoExpiry
  BY <1>4, RelaxationGuardAssumption
<1> QED BY <1>2, <1>4, <1>5 DEF Permitting, Authorises, IsLive

LEMMA Lapse ==
    ASSUME SettingsTypeOK, SettingsTypeOK', now <= now', records' \subseteq records,
           NEW s \in Setting, NEW v \in Values,
           NEW d \in Resolve(s, v, records, now), NEW e \in Resolve(s, v, records', now')
    PROVE  AtMost(s, e.value, d.value)
<1>1. /\ now \in Nat /\ records \in SUBSET Relaxation
      /\ now' \in Nat /\ records' \in SUBSET Relaxation
      /\ Strictest[s] \in Values
  BY StrictestIsAValue, RelaxationGuardAssumption DEF SettingsTypeOK, Times
<1>2. /\ AtMost(s, v, v) /\ AtMost(s, Strictest[s], Strictest[s])
      /\ IsLooser(s, v) => AtMost(s, Strictest[s], v)
  BY <1>1, LooserIsStrict DEF AtMost, IsLooser
<1>3. CASE ~IsLooser(s, v)
  BY <1>1, <1>2, <1>3, Cases
<1>4. CASE IsLooser(s, v) /\ Permitting(records, s, v, now) # {}
  <2>1. d.value = v
    BY <1>1, <1>4, Cases
  <2>2. e.value \in {v, Strictest[s]}
    BY <1>1, <1>4, Cases
  <2> QED BY <1>2, <1>4, <2>1, <2>2
<1>5. CASE IsLooser(s, v) /\ Permitting(records, s, v, now) = {}
  <2>1. Permitting(records', s, v, now') = {}
    BY <1>5, PermittingShrinks
  <2>2. d.value = Strictest[s] /\ e.value = Strictest[s]
    BY <1>1, <1>5, <2>1, Cases
  <2> QED BY <1>2, <2>2
<1> QED BY <1>3, <1>4, <1>5

-----------------------------------------------------------------------------
\* A host's judgements are judgements: the runner's are bounded, and either says
\* what the extension said or denies with a reason of the host's own.
LEMMA DenyIsAJudgement ==
    ASSUME NEW reason \in FailureCode
    PROVE  /\ Deny(reason) \in PluginJudgement
           /\ Deny(reason).verdict = DENY
           /\ Failed(reason) \in Deny(reason).findings
           /\ Failed(reason).code = reason
           /\ \A f \in Deny(reason).findings : InBounds(f)
<1>1. Failed(reason) \in Findings
  BY DEF Findings
<1> QED BY <1>1 DEF Deny, PluginJudgement, PluginVerdict, Failed, InBounds

LEMMA Evaluation ==
    ASSUME NEW b \in Behaviour, host \in {"runner", "engine"}, ~Escapes(b)
    PROVE  /\ Evaluate(b) \in PluginJudgement
           /\ IF KeptTheContract(b)
              THEN Evaluate(b).verdict = b.verdict /\ Evaluate(b).findings = b.findings
              ELSE \E reason \in FailureCode : Evaluate(b) = Deny(reason)
           /\ host = "runner" => \A f \in Evaluate(b).findings : InBounds(f)
<1> DEFINE Denied == \E reason \in FailureCode : Evaluate(b) = Deny(reason)
           Said   == Evaluate(b) = Says(b)
<1>1. CASE Denied /\ ~KeptTheContract(b)
  <2>1. PICK reason \in FailureCode : Evaluate(b) = Deny(reason)
    BY <1>1
  <2> QED BY <1>1, <2>1, DenyIsAJudgement
<1>2. CASE Said /\ KeptTheContract(b)
  <2>1. b.verdict \in PluginVerdict /\ b.findings \in SUBSET PluginFindings
    BY <1>2 DEF KeptTheContract, Behaviour
  <2>2. Says(b) \in PluginJudgement
    BY <2>1 DEF Says, PluginJudgement, Findings
  <2>3. host = "runner" => \A f \in b.findings : InBounds(f)
    BY <1>2 DEF KeptTheContract, Valid
  <2> QED BY <1>2, <2>2, <2>3 DEF Says
<1>3. CASE host = "runner"
  <2>1. CASE b.kind = "judgement"
    <3>1. b.contract_version \in {"spoken", "unspoken"} /\ b.dumps \in BOOLEAN
      BY <2>1 DEF Behaviour
    <3>2. CASE b.dumps /\ Valid(b) /\ b.contract_version = "spoken"
      BY <1>2, <1>3, <2>1, <3>2 DEF Evaluate, EvaluateIsolated, KeptTheContract
    <3>3. CASE ~(b.dumps /\ Valid(b))
      BY <1>1, <1>3, <2>1, <3>3 DEF Evaluate, EvaluateIsolated, KeptTheContract, FailureCode
    <3>4. CASE b.dumps /\ Valid(b) /\ b.contract_version # "spoken"
      BY <1>1, <1>3, <2>1, <3>4 DEF Evaluate, EvaluateIsolated, KeptTheContract, FailureCode
    <3> QED BY <3>2, <3>3, <3>4
  <2>2. CASE b.kind \in {"unspoken", "not_callable", "raises", "other"}
    BY <1>1, <1>3, <2>2 DEF Evaluate, EvaluateIsolated, KeptTheContract, FailureCode
  <2> QED BY <1>3, <2>1, <2>2 DEF Behaviour, Escapes
<1>4. CASE host = "engine"
  <2>1. CASE b.kind = "judgement"
    BY <1>2, <1>4, <2>1 DEF Evaluate, EngineEvaluates, KeptTheContract
  <2>2. CASE b.kind # "judgement"
    BY <1>1, <1>4, <2>2 DEF Evaluate, EngineEvaluates, KeptTheContract, FailureCode
  <2> QED BY <2>1, <2>2
<1> QED BY <1>3, <1>4

\* combine is a maximum and a union: it lowers neither side and loses no finding.
LEMMA CombinedIsUpperBound ==
    ASSUME NEW l \in PluginJudgement, NEW r \in PluginJudgement
    PROVE  /\ Combined(l, r) \in PluginJudgement
           /\ l.verdict <= Combined(l, r).verdict
           /\ r.verdict <= Combined(l, r).verdict
           /\ l.findings \subseteq Combined(l, r).findings
           /\ r.findings \subseteq Combined(l, r).findings
           /\ Combined(l, r).verdict \in {l.verdict, r.verdict}
           /\ Combined(l, r).findings = l.findings \cup r.findings
BY DEF Combined, PluginJudgement, PluginVerdict, ABSTAIN, REVIEW, DENY, Stricter, MergeFindings

-----------------------------------------------------------------------------
\* Those heard so far in a run, and what each came to.
Heard == {e \in installed : heard[e] # Silent}
Said(e) == Evaluate(heard[e])

\* While a run goes on and when it has decided, its result is the least judgement
\* that holds what was said so far; a concern has a finding, and a decision has
\* heard them all.
ResultIsTheJoin ==
    /\ \A e \in Heard : /\ ~Escapes(heard[e])
                        /\ Said(e).verdict <= result.verdict
                        /\ Said(e).findings \subseteq result.findings
    /\ \A f \in result.findings : \E e \in Heard : f \in Said(e).findings
    /\ result.verdict = ABSTAIN \/ \E e \in Heard : Said(e).verdict = result.verdict

RunIsFaithful ==
    /\ phase \in {"running", "decided"} => ResultIsTheJoin
    /\ result.verdict # ABSTAIN => result.findings # {}
    /\ phase = "decided" => \A e \in installed : heard[e] # Silent

IInv == TypeOK /\ RunIsFaithful

\* What an extension comes to depends on it and the host alone.
LEMMA SameSaid ==
    ASSUME host' = host, NEW e, heard'[e] = heard[e]
    PROVE  Said(e)' = Said(e) /\ Escapes(heard[e])' = Escapes(heard[e])
BY DEF Said, Evaluate, Escapes

LEMMA InitHolds == Init => IInv
<1> SUFFICES ASSUME Init PROVE IInv
  OBVIOUS
<1>1. SettingsTypeOK
  BY RelaxationGuardAssumption DEF Init, SettingsInit, SettingsTypeOK, Times
<1>2. Neutral \in PluginJudgement
  BY DEF Neutral, PluginJudgement, PluginVerdict
<1>3. PluginsTypeOK
  BY <1>2 DEF Init, PluginsInit, PluginsTypeOK, Neutral
<1>4. RunIsFaithful
  BY DEF Init, PluginsInit, RunIsFaithful, Neutral
<1> QED BY <1>1, <1>3, <1>4 DEF IInv, TypeOK

LEMMA SettingsStep ==
    ASSUME SettingsTypeOK, SettingsNext
    PROVE  SettingsTypeOK' /\ now <= now'
<1>1. now \in Nat /\ MaxTime \in Nat
  BY RelaxationGuardAssumption DEF SettingsTypeOK, Times
<1>2. ASSUME NEW r \in Relaxation, Grant(r) PROVE SettingsTypeOK' /\ now <= now'
  BY <1>1, <1>2 DEF Grant, SettingsTypeOK
<1>3. ASSUME NEW r \in records, Withdraw(r) PROVE SettingsTypeOK' /\ now <= now'
  BY <1>1, <1>3 DEF Withdraw, SettingsTypeOK
<1>4. ASSUME Tick PROVE SettingsTypeOK' /\ now <= now'
  BY <1>1, <1>4 DEF Tick, SettingsTypeOK, Times
<1> QED BY <1>2, <1>3, <1>4 DEF SettingsNext

LEMMA PluginsStep ==
    ASSUME PluginsTypeOK, RunIsFaithful, PluginsNext
    PROVE  PluginsTypeOK' /\ RunIsFaithful'
<1> USE DEF PluginsTypeOK
<1>1. Neutral \in PluginJudgement /\ Neutral.verdict = ABSTAIN /\ Neutral.findings = {}
  BY DEF Neutral, PluginJudgement, PluginVerdict
<1>2. ASSUME NEW e \in Extensions, Install(e) PROVE PluginsTypeOK' /\ RunIsFaithful'
  BY <1>1, <1>2 DEF Install, RunIsFaithful
<1>3. ASSUME Start PROVE PluginsTypeOK' /\ RunIsFaithful'
  BY <1>1, <1>3 DEF Start, RunIsFaithful, ResultIsTheJoin, Heard
<1>4. ASSUME NEW e \in installed, NEW b \in Behaviour, Consult(e, b)
      PROVE  PluginsTypeOK' /\ RunIsFaithful'
  <2>1. /\ phase = "running" /\ e \in Extensions /\ heard[e] = Silent
        /\ heard' = [heard EXCEPT ![e] = b] /\ UNCHANGED <<host, installed>>
        /\ b # Silent
    BY <1>4, SilentAssumption DEF Consult, Waiting
  <2>2. heard' \in [Extensions -> Behaviour \cup {Silent}]
    BY <2>1
  <2>3. CASE phase' = "unwound" /\ UNCHANGED result
    BY <2>1, <2>2, <2>3 DEF RunIsFaithful
  <2>4. CASE /\ ~Escapes(b) /\ Combines(result, Evaluate(b))
             /\ result' = Combined(result, Evaluate(b)) /\ UNCHANGED phase
    <3> DEFINE j == Evaluate(b)
    <3>1. /\ j \in PluginJudgement
          /\ host = "runner" => \A f \in j.findings : InBounds(f)
      BY <2>4, Evaluation
    <3>2. /\ result' \in PluginJudgement
          /\ result.verdict <= result'.verdict /\ j.verdict <= result'.verdict
          /\ result'.verdict \in {result.verdict, j.verdict}
          /\ result'.findings = result.findings \cup j.findings
      BY <2>4, <3>1, CombinedIsUpperBound
    <3>3. PluginsTypeOK'
      <4>1. host' = "runner" => \A f \in result'.findings : InBounds(f)
        BY <2>1, <3>1, <3>2
      <4>2. (host = "runner" => \A f \in result.findings : InBounds(f))'
        BY <4>1
      <4> QED BY <2>1, <2>2, <2>4, <3>2, <4>2
    <3>4. result'.verdict # ABSTAIN => result'.findings # {}
      BY <2>4 DEF Combines, ConcernsAreExplained
    <3>5. Heard' = Heard \cup {e} /\ e \notin Heard
      BY <2>1, <2>2 DEF Heard
    <3>6. Said(e)' = j /\ ~Escapes(heard[e])'
      BY <2>1, <2>4 DEF Said, Evaluate, Escapes
    <3>7. ASSUME NEW x \in Heard
          PROVE  Said(x)' = Said(x) /\ Escapes(heard[x])' = Escapes(heard[x])
      BY <2>1, <3>5, SameSaid DEF Heard
    <3>8. ASSUME NEW x \in Heard
          PROVE  /\ ~Escapes(heard[x])'
                 /\ Said(x).verdict <= result'.verdict
                 /\ Said(x).findings \subseteq result'.findings
      <4>1. /\ ~Escapes(heard[x])
            /\ Said(x).verdict <= result.verdict
            /\ Said(x).findings \subseteq result.findings
        BY <2>1 DEF RunIsFaithful, ResultIsTheJoin
      <4>2. Said(x) \in PluginJudgement
        BY <4>1, Evaluation DEF Heard, Said
      <4>3. /\ Said(x).verdict \in {0, 1, 2} /\ result.verdict \in {0, 1, 2}
            /\ result'.verdict \in {0, 1, 2}
        BY <3>2, <4>2 DEF PluginJudgement, PluginVerdict, ABSTAIN, REVIEW, DENY
      <4> QED BY <3>2, <3>7, <4>1, <4>3
    <3>9. ResultIsTheJoin'
      <4> HIDE DEF j
      <4>1. \A x \in Heard' : /\ ~Escapes(heard[x])'
                              /\ Said(x)'.verdict <= result'.verdict
                              /\ Said(x)'.findings \subseteq result'.findings
        BY <3>2, <3>5, <3>6, <3>7, <3>8
      <4>2. \A f \in result'.findings : \E x \in Heard' : f \in Said(x)'.findings
        BY <2>1, <3>2, <3>5, <3>6, <3>7 DEF RunIsFaithful, ResultIsTheJoin
      <4>3. result'.verdict = ABSTAIN \/ \E x \in Heard' : Said(x)'.verdict = result'.verdict
        BY <2>1, <3>2, <3>5, <3>6, <3>7 DEF RunIsFaithful, ResultIsTheJoin
      <4> QED BY <4>1, <4>2, <4>3 DEF ResultIsTheJoin
    <3> QED BY <2>1, <2>4, <3>3, <3>4, <3>9 DEF RunIsFaithful
  <2> QED BY <1>4, <2>3, <2>4 DEF Consult
<1>5. ASSUME Finish PROVE PluginsTypeOK' /\ RunIsFaithful'
  BY <1>5 DEF Finish, Done, Waiting, RunIsFaithful, ResultIsTheJoin, Heard, Said,
              Evaluate, Escapes
<1> QED BY <1>2, <1>3, <1>4, <1>5 DEF PluginsNext

LEMMA Step == IInv /\ [Next]_vars => IInv'
<1> SUFFICES ASSUME IInv, [Next]_vars PROVE IInv'
  OBVIOUS
<1>1. CASE SettingsNext /\ UNCHANGED plugins
  <2>1. SettingsTypeOK'
    BY <1>1, SettingsStep DEF IInv, TypeOK
  <2>2. PluginsTypeOK' /\ RunIsFaithful'
    BY <1>1 DEF IInv, TypeOK, plugins, PluginsTypeOK, RunIsFaithful, ResultIsTheJoin,
              Heard, Said, Evaluate, Escapes
  <2> QED BY <2>1, <2>2 DEF IInv, TypeOK
<1>2. CASE PluginsNext /\ UNCHANGED settings
  <2>1. PluginsTypeOK' /\ RunIsFaithful'
    BY <1>2, PluginsStep DEF IInv, TypeOK
  <2>2. SettingsTypeOK'
    BY <1>2 DEF IInv, TypeOK, settings, SettingsTypeOK
  <2> QED BY <2>1, <2>2 DEF IInv, TypeOK
<1>3. CASE UNCHANGED vars
  BY <1>3 DEF IInv, TypeOK, vars, settings, plugins, SettingsTypeOK, PluginsTypeOK,
              RunIsFaithful, ResultIsTheJoin,
              Heard, Said, Evaluate, Escapes
<1> QED BY <1>1, <1>2, <1>3 DEF Next

LEMMA Invariant == Spec => []IInv
BY InitHolds, Step, PTL DEF Spec

-----------------------------------------------------------------------------
\* The clock, the records and every run's result have the code's types, and the
\* runner's quantities are within the published bound.
THEOREM TypeCorrect == Spec => []TypeOK
BY Invariant, PTL DEF IInv

\* No value is resolved looser than its default without a live record for it.
THEOREM LooseningTakesAuthority == Spec => []OnlyAuthorityLoosens
<1>1. TypeOK => OnlyAuthorityLoosens
  BY OnlyAuthority DEF TypeOK
<1> QED BY <1>1, TypeCorrect, PTL

\* A relaxed value names the narrowest record that permits it.
THEOREM TheNarrowestIsNamed == Spec => []AuthorityIsNarrowest
<1>1. TypeOK => AuthorityIsNarrowest
  BY Narrowness DEF TypeOK
<1> QED BY <1>1, TypeCorrect, PTL

\* For any records in any number and order: a setting always resolves, and to one
\* value.
THEOREM EverySettingResolves == Spec => []ValueIsDetermined
<1>1. TypeOK => ValueIsDetermined
  BY Determined DEF TypeOK
<1> QED BY <1>1, TypeCorrect, PTL

\* Time and withdrawal only tighten.
THEOREM LapsingTightens == Spec => LapseTightens
<1> DEFINE Tightens == \A s \in Setting, v \in Values :
                          \A d \in Resolve(s, v, records, now),
                             e \in Resolve(s, v, records', now') :
                              AtMost(s, e.value, d.value)
<1>1. TypeOK /\ TypeOK' /\ [Next]_vars => [records' \subseteq records => Tightens]_settings
  <2> SUFFICES ASSUME TypeOK, TypeOK', [Next]_vars, ~(UNCHANGED settings),
                      records' \subseteq records,
                      NEW s \in Setting, NEW v \in Values,
                      NEW d \in Resolve(s, v, records, now),
                      NEW e \in Resolve(s, v, records', now')
               PROVE  AtMost(s, e.value, d.value)
    OBVIOUS
  <2>1. now <= now'
    BY SettingsStep DEF Next, TypeOK, vars, settings
  <2> QED BY <2>1, Lapse DEF TypeOK
<1> QED BY <1>1, TypeCorrect, PTL DEF Spec, LapseTightens

\* A decided run is made of every extension's answer, and of nothing else.
THEOREM EveryoneIsHeard == Spec => []NobodyIsSilenced
<1>1. IInv => NobodyIsSilenced
  <2> DEFINE kept   == {e \in installed : KeptTheContract(heard[e])}
             failed == installed \ kept
  <2> SUFFICES ASSUME IInv, phase = "decided"
               PROVE  NobodyIsSilenced
    BY DEF NobodyIsSilenced
  <2>1. /\ Heard = installed
        /\ ResultIsTheJoin
        /\ \A e \in installed : heard[e] \in Behaviour /\ heard[e] # Silent
    BY DEF IInv, TypeOK, PluginsTypeOK, RunIsFaithful, Heard
  <2>2. ASSUME NEW e \in kept
        PROVE  Said(e).verdict = heard[e].verdict /\ Said(e).findings = heard[e].findings
    BY <2>1, Evaluation DEF Said, IInv, TypeOK, PluginsTypeOK, ResultIsTheJoin
  <2>3. ASSUME NEW e \in failed
        PROVE  \E reason \in FailureCode : Said(e) = Deny(reason)
    BY <2>1, Evaluation DEF Said, IInv, TypeOK, PluginsTypeOK, ResultIsTheJoin
  <2>4. result.verdict \in {0, 1, 2} /\ \A e \in kept : heard[e].verdict \in {0, 1, 2}
    BY <2>1 DEF IInv, TypeOK, PluginsTypeOK, KeptTheContract, Behaviour, PluginJudgement,
                PluginVerdict, ABSTAIN, REVIEW, DENY
  <2>5. failed # {} => /\ result.verdict = DENY
                       /\ \E f \in result.findings : f.code \in FailureCode
    <3> SUFFICES ASSUME NEW e \in failed
                 PROVE  /\ result.verdict = DENY
                        /\ \E f \in result.findings : f.code \in FailureCode
      OBVIOUS
    <3>1. PICK reason \in FailureCode : Said(e) = Deny(reason)
      BY <2>3
    <3>2. DENY <= result.verdict /\ Failed(reason) \in result.findings
             /\ Failed(reason).code = reason
      BY <2>1, <3>1, DenyIsAJudgement DEF ResultIsTheJoin
    <3> QED BY <2>4, <3>2 DEF DENY
  <2>6. \A e \in kept : heard[e].verdict <= result.verdict
                           /\ heard[e].findings \subseteq result.findings
    BY <2>1, <2>2 DEF ResultIsTheJoin
  <2>7. result.verdict = ABSTAIN => failed = {} /\ \A e \in installed : heard[e].verdict = ABSTAIN
    <3>1. result.verdict = ABSTAIN => failed = {}
      BY <2>5 DEF ABSTAIN, DENY
    <3> QED BY <2>4, <2>6, <3>1 DEF ABSTAIN
  <2>8. \/ result.verdict = ABSTAIN
        \/ failed # {}
        \/ \E e \in kept : heard[e].verdict = result.verdict
    BY <2>1, <2>2 DEF ResultIsTheJoin
  <2>9. ASSUME NEW f \in result.findings
        PROVE  \/ \E e \in kept : f \in heard[e].findings
               \/ failed # {} /\ \E reason \in FailureCode : f = Failed(reason)
    <3>1. PICK e \in installed : f \in Said(e).findings
      BY <2>1 DEF ResultIsTheJoin
    <3>2. CASE e \in kept
      BY <2>2, <3>1, <3>2
    <3>3. CASE e \in failed
      <4>1. PICK reason \in FailureCode : Said(e) = Deny(reason)
        BY <2>3, <3>3
      <4> QED BY <3>1, <3>3, <4>1 DEF Deny
    <3> QED BY <3>2, <3>3
  <2> HIDE DEF kept, failed
  <2> QED BY <2>1, <2>5, <2>6, <2>7, <2>8, <2>9 DEF NobodyIsSilenced, kept, failed
<1> QED BY <1>1, Invariant, PTL

\* For any extensions, whatever they answer and whichever fail: the decision is the
\* union and the strictest of the answers, so their order cannot be read off it.
THEOREM RegistrationOrderIsInvisible == Spec => []OrderDoesNotMatter
<1>1. IInv => OrderDoesNotMatter
  <2> SUFFICES ASSUME IInv, phase = "decided"
               PROVE  OrderDoesNotMatter
    BY DEF OrderDoesNotMatter
  <2> DEFINE said == {Evaluate(heard[e]) : e \in installed}
  <2>1. Heard = installed /\ ResultIsTheJoin
    BY DEF IInv, RunIsFaithful, Heard
  <2>2. \A j \in said : j.verdict <= result.verdict /\ j.findings \subseteq result.findings
    BY <2>1 DEF ResultIsTheJoin, Said
  <2>3. \A f \in result.findings : \E j \in said : f \in j.findings
    BY <2>1 DEF ResultIsTheJoin, Said
  <2>4. result.verdict \in {ABSTAIN} \cup {j.verdict : j \in said}
    BY <2>1 DEF ResultIsTheJoin, Said
  <2>5. result.findings = UNION {j.findings : j \in said}
    <3> HIDE DEF said
    <3> QED BY <2>2, <2>3
  <2> QED BY <2>2, <2>4, <2>5 DEF OrderDoesNotMatter
<1> QED BY <1>1, Invariant, PTL

\* Every concern that is decided can be put into words.
THEOREM ConcernsRender == Spec => []ConcernsAreActionable
<1>1. IInv => ConcernsAreActionable
  BY DEF IInv, RunIsFaithful, ConcernsAreActionable, Render
<1> QED BY <1>1, Invariant, PTL
=============================================================================
