---------------------------- MODULE RelaxationGuard ----------------------------
(***************************************************************************)
(* Control-plane settings and the records that may loosen them.  A setting *)
(* has a strictest default; a looser value is granted only by a live       *)
(* record for that setting, and `resolve` is asked each time a value is    *)
(* used, so a record that lapses takes its effect with it.                 *)
(*                                                                         *)
(* The operator's records and the clock are the state; a decision is       *)
(* computed from both.  `resolve` receives the records in some order,      *)
(* which matters only between records that tie, so Resolve is the set of   *)
(* the decisions some order gives.                                         *)
(***************************************************************************)
EXTENDS Naturals, FiniteSets

Setting == {"approval_ttl_seconds", "window_lookback_seconds", "rail_retry_attempts"}

CONSTANTS
    Strictest,      \* setting -> the value it falls back to
    Approvers,      \* handles of checkers, as numbers: they are compared
    NoExpiry,       \* expires_at is None
    NoAuthority,    \* authority is None
    MaxValue,       \* bound on values
    MaxTime,        \* bound on the clock
    MaxRecords      \* bound on the records in force

Values == 0..MaxValue
Times  == 0..MaxTime

ASSUME RelaxationGuardAssumption ==
    /\ MaxValue \in Nat
    /\ MaxTime \in Nat
    /\ MaxRecords \in Nat
    /\ Strictest \in [Setting -> Values]
    /\ Approvers \subseteq Nat
    /\ NoExpiry \notin Nat

\* approved_at is kept and never consulted, so it is left out.
Relaxation == [setting: Setting, relaxed_to: Values, approver_ref: Approvers,
               expires_at: Times \cup {NoExpiry}]

ASSUME NoAuthorityAssumption == NoAuthority \notin Relaxation

Resolutions == {"as_requested", "relaxed_by_authority", "refused_no_record",
                "refused_expired", "refused_insufficient"}

Decisions == [setting: Setting, value: Values, resolution: Resolutions,
              authority: Relaxation \cup {NoAuthority}]

VARIABLES
    now,        \* the clock
    records     \* the approved records a caller hands to resolve

settings == <<now, records>>

-----------------------------------------------------------------------------
\* The Wrong... operators are plausible mistakes; here, one direction for all.
WrongIsLooserThan(setting, value, reference) == value > reference

IsLooserThan(setting, value, reference) ==
    IF setting = "window_lookback_seconds" THEN value < reference ELSE value > reference

IsLooser(setting, value) == IsLooserThan(setting, value, Strictest[setting])

\* A mistake: the two ends of the record's time swapped.
WrongIsLive(r, time) == r.expires_at # NoExpiry /\ r.expires_at < time

IsLive(r, time) == r.expires_at # NoExpiry /\ time < r.expires_at

Authorises(r, setting, value, time) ==
    /\ r.setting = setting
    /\ IsLive(r, time)
    /\ ~IsLooserThan(setting, value, r.relaxed_to)

Permitting(rs, setting, value, time) == {r \in rs : Authorises(r, setting, value, time)}

\* The order by _looseness and, between equals, by approver.
Precedes(a, b) ==
    \/ IsLooserThan(a.setting, b.relaxed_to, a.relaxed_to)
    \/ a.relaxed_to = b.relaxed_to /\ a.approver_ref < b.approver_ref

\* A mistake: the broadest record is cited.
WrongNarrowest(rs) == {r \in rs : \A other \in rs : ~Precedes(r, other)}

Narrowest(rs) == {r \in rs : \A other \in rs : ~Precedes(other, r)}

Decision(setting, value, resolution, authority) ==
    [setting |-> setting, value |-> value, resolution |-> resolution,
     authority |-> authority]

\* Which refusal: a record that is live is too narrow, one that is not has lapsed.
Refusal(rs, setting, time) ==
    LET mine == {r \in rs : r.setting = setting}
    IN  CASE \E r \in mine : IsLive(r, time) -> "refused_insufficient"
          [] mine = {}                       -> "refused_no_record"
          [] OTHER                           -> "refused_expired"

Resolve(setting, requested, rs, time) ==
    LET permitting == Permitting(rs, setting, requested, time)
    IN  IF ~IsLooser(setting, requested)
        THEN {Decision(setting, requested, "as_requested", NoAuthority)}
        ELSE IF permitting # {}
        THEN {Decision(setting, requested, "relaxed_by_authority", r) :
                  r \in Narrowest(permitting)}
        ELSE {Decision(setting, Strictest[setting], Refusal(rs, setting, time),
                       NoAuthority)}

-----------------------------------------------------------------------------
SettingsInit == now = 0 /\ records = {}

\* A checker approves a relaxation; records are frozen, so widening one is a
\* new record.
Grant(r) ==
    /\ Cardinality(records) < MaxRecords
    /\ records' = records \cup {r}
    /\ UNCHANGED now

Withdraw(r) ==
    /\ records' = records \ {r}
    /\ UNCHANGED now

Tick ==
    /\ now < MaxTime
    /\ now' = now + 1
    /\ UNCHANGED records

SettingsNext ==
    \/ \E r \in Relaxation : Grant(r)
    \/ \E r \in records : Withdraw(r)
    \/ Tick

SettingsSpec == SettingsInit /\ [][SettingsNext]_settings

SettingsTypeOK ==
    /\ now \in Times
    /\ records \subseteq Relaxation

-----------------------------------------------------------------------------
\* What a value lets through, said without the order of numbers the code uses:
\* the ages at which an approval still counts, the ages at which past activity
\* is forgotten, the retries that are sent.
Permits(setting, v) ==
    CASE setting = "approval_ttl_seconds"    -> {age \in Values : age < v}
      [] setting = "window_lookback_seconds" -> {age \in Values : v <= age}
      [] OTHER                               -> {n \in Values : 1 <= n /\ n <= v}

AtMost(setting, v, w) == Permits(setting, v) \subseteq Permits(setting, w)

\* Loosening takes authority: whatever was requested, the resolved value lets
\* nothing through that neither the default nor one record lets through, and that
\* record is of this setting, has an expiry, and the expiry is still to come.  A
\* value stricter than the default needs nothing and is given.
OnlyAuthorityLoosens ==
    \A s \in Setting, v \in Values : \A d \in Resolve(s, v, records, now) :
        /\ \/ AtMost(s, d.value, Strictest[s])
           \/ \E r \in records : /\ r.setting = s
                                 /\ r.expires_at \in Times
                                 /\ now < r.expires_at
                                 /\ AtMost(s, d.value, r.relaxed_to)
        /\ AtMost(s, v, Strictest[s]) => d.value = v

\* The decision names the authority it relied on: a relaxed value cites a record
\* in force that permits it, none that also does is narrower, and anything that
\* is not relaxed cites none and lets no more through than the default.
AuthorityIsNarrowest ==
    \A s \in Setting, v \in Values : \A d \in Resolve(s, v, records, now) :
        IF d.resolution = "relaxed_by_authority"
        THEN /\ d.authority \in records
             /\ AtMost(s, v, d.authority.relaxed_to)
             /\ \A r \in Permitting(records, s, v, now) :
                    AtMost(s, d.authority.relaxed_to, r.relaxed_to)
        ELSE /\ d.authority = NoAuthority
             /\ AtMost(s, d.value, Strictest[s])

\* Drift is towards the default: a step that grants nothing, the clock's or a
\* withdrawal, never makes the value some setting resolves to looser.
LapseTightens ==
    [][records' \subseteq records =>
        \A s \in Setting, v \in Values :
            \A d \in Resolve(s, v, records, now), e \in Resolve(s, v, records', now') :
                AtMost(s, e.value, d.value)]_settings

\* resolve answers whatever is asked of it, and the order in which it is handed
\* the records decides nothing a caller acts on: the value and the resolution are
\* the same, and two records it may cite grant the same and are of one checker.
ValueIsDetermined ==
    \A s \in Setting, v \in Values :
        LET answers == Resolve(s, v, records, now)
        IN  /\ answers # {}
            /\ \A d, e \in answers :
                 /\ d.value = e.value
                 /\ d.resolution = e.resolution
                 /\ d.authority # e.authority =>
                       /\ d.authority.relaxed_to = e.authority.relaxed_to
                       /\ d.authority.approver_ref = e.authority.approver_ref
=============================================================================
