----------------------------- MODULE ChannelsProofs -----------------------------
(***************************************************************************)
(* Theorems about Channels, for every set of environments, certificates,   *)
(* authorities and principals.                                             *)
(***************************************************************************)
EXTENDS Channels, TLAPS

\* What main has checked stays true of the environment it runs with.
StartInv ==
    phase \notin {"config", "refused"} =>
        /\ ~ApproverRefused(env.approver)
        /\ Separated(env)

\* How far each socket has come, by phase.
ListenerInv ==
    /\ phase \in {"config", "bind", "refused", "stopping", "stopped"} =>
          \A d \in Doors : listener[d] = "closed"
    /\ phase # "serving" => \A d \in Doors : listener[d] # "serving"
    /\ phase = "bound" /\ ~NoApprover(env.approver) => listener["approver"] = "bound"
    /\ phase = "serving" /\ ~NoApprover(env.approver) => listener["approver"] = "serving"

\* Nothing is connected, called or held before the process serves; connections
\* and reviews do not survive it.
QuietInv ==
    /\ phase \notin {"serving", "stopping"} =>
          held = {} /\ \A c \in Connections : connection[c] = None
    /\ phase \notin {"serving", "stopping", "stopped"} => calls = {}

\* A principal behind a door is one of that door's, by one of its authorities.
EntitledInv ==
    /\ \A c \in Connections :
          connection[c] # None /\ HasPrincipal(c) =>
              /\ connection[c].identity \in SettingsOf(connection[c].door).allowlist
              /\ connection[c].authority \in SettingsOf(connection[c].door).client_ca
    /\ \A a \in calls : /\ a.uri \in SettingsOf(a.door).allowlist
                        /\ a.authority \in SettingsOf(a.door).client_ca

HeldInv == held # {} => ReviewBand(env)

ChannelsInv ==
    TypeOK /\ StartInv /\ ListenerInv /\ QuietInv /\ EntitledInv /\ HeldInv

-----------------------------------------------------------------------------
LEMMA SettingsType ==
    ASSUME TypeOK, NEW door \in Doors
    PROVE  SettingsOf(door) \in Settings
  <1>1. env \in Environment
    BY ChannelsAssumption DEF TypeOK
  <1> QED BY <1>1 DEF SettingsOf, Environment

\* A derived identity is a listed principal, or a refusal.
LEMMA IdentityMeaning ==
    ASSUME NEW leaf \in Leaf, NEW allowlist
    PROVE  \/ Identity(leaf, allowlist) = Refused
           \/ Identity(leaf, allowlist) \in allowlist \cap Uris
  <1>1. CASE Identified(leaf, allowlist)
    <2> DEFINE u == CHOOSE u \in allowlist : leaf.uris = {u}
    <2>1. u \in allowlist /\ leaf.uris = {u}
      BY <1>1 DEF Identified
    <2>2. u \in Uris
      BY <2>1 DEF Leaf
    <2> QED BY <1>1, <2>1, <2>2 DEF Identity
  <1>2. CASE ~Identified(leaf, allowlist)
    BY <1>2 DEF Identity
  <1> QED BY <1>1, <1>2

\* Starting touches neither connections nor calls.
LEMMA StartKeeps ==
    ASSUME ChannelsInv,
           LoadsConfig \/ CreatesServer \/ CreatesApproverServer \/ Serves
    PROVE  ChannelsInv'
  <1> USE DEF ChannelsInv, Doors
  <1>1. CASE LoadsConfig
    BY <1>1 DEF LoadsConfig, Refuses, TypeOK, StartInv, ListenerInv, QuietInv,
                EntitledInv, HeldInv, HasPrincipal, SettingsOf
  <1>2. CASE CreatesServer
    BY <1>2 DEF CreatesServer, Refuses, TypeOK, StartInv, ListenerInv, QuietInv,
                EntitledInv, HeldInv, HasPrincipal, SettingsOf
  <1>3. CASE CreatesApproverServer
    BY <1>3 DEF CreatesApproverServer, Refuses, TypeOK, StartInv, ListenerInv,
                QuietInv, EntitledInv, HeldInv, HasPrincipal, SettingsOf
  <1>4. CASE Serves
    BY <1>4 DEF Serves, TypeOK, StartInv, ListenerInv, QuietInv, EntitledInv,
                HeldInv, HasPrincipal, SettingsOf
  <1> QED BY <1>1, <1>2, <1>3, <1>4

LEMMA StopKeeps ==
    ASSUME ChannelsInv, Stops \/ Exits
    PROVE  ChannelsInv'
  BY DEF ChannelsInv, Stops, Exits, TypeOK, StartInv, ListenerInv, QuietInv, EntitledInv,
         HeldInv, HasPrincipal, SettingsOf, ReviewBand

\* A new connection carries an identity its door allows, or none.
LEMMA ConnectKeeps ==
    ASSUME ChannelsInv, NEW c \in Connections,
           \/ \E door \in Doors, leaf \in Certificates : Connects(c, door, leaf)
           \/ ConnectsPlain(c)
           \/ Closes(c)
    PROVE  ChannelsInv'
  <1> USE DEF ChannelsInv
  <1>1. ASSUME NEW door \in Doors, NEW leaf \in Certificates, Connects(c, door, leaf)
        PROVE  ChannelsInv'
    <2>1. leaf \in Leaf /\ leaf.authority \in Authorities
      BY ChannelsAssumption DEF Leaf
    <2> DEFINE id == Identity(leaf, SettingsOf(door).allowlist)
    <2>2. id = Refused \/ id \in SettingsOf(door).allowlist \cap Uris
      BY <2>1, IdentityMeaning
    <2>3. TypeOK'
      BY <1>1, <2>1, <2>2 DEF Connects, TypeOK, Connection
    <2>4. phase = "serving"
      BY <1>1 DEF Connects, ListenerInv
    <2>5. \A e \in Connections \ {c} : connection'[e] = connection[e]
      BY <1>1 DEF Connects, TypeOK
    <2>6. connection'[c] = [door |-> door, authority |-> leaf.authority, identity |-> id]
      BY <1>1 DEF Connects, TypeOK
    <2>7. EntitledInv'
      BY <1>1, <2>2, <2>5, <2>6 DEF Connects, EntitledInv, HasPrincipal, SettingsOf
    <2> QED BY <1>1, <2>3, <2>4, <2>7
          DEF Connects, StartInv, ListenerInv, QuietInv, HeldInv
  <1>2. CASE ConnectsPlain(c)
    <2>1. TypeOK'
      BY <1>2 DEF ConnectsPlain, TypeOK, Connection, Doors
    <2>2. phase = "serving"
      BY <1>2 DEF ConnectsPlain, ListenerInv, Doors
    <2>3. EntitledInv'
      BY <1>2 DEF ConnectsPlain, TypeOK, EntitledInv, HasPrincipal, SettingsOf
    <2> QED BY <1>2, <2>1, <2>2, <2>3
          DEF ConnectsPlain, StartInv, ListenerInv, QuietInv, HeldInv
  <1>3. CASE Closes(c)
    <2>1. TypeOK'
      BY <1>3 DEF Closes, TypeOK
    <2>2. EntitledInv'
      BY <1>3 DEF Closes, TypeOK, EntitledInv, HasPrincipal, SettingsOf
    <2> QED BY <1>3, <2>1, <2>2
          DEF Closes, TypeOK, StartInv, ListenerInv, QuietInv, HeldInv
  <1> QED BY <1>1, <1>2, <1>3

\* What reaches the service is the principal of an entitled connection.
LEMMA RequestKeeps ==
    ASSUME ChannelsInv, NEW c \in Connections, Proposes(c) \/ Answers(c)
    PROVE  ChannelsInv'
  <1> USE DEF ChannelsInv
  <1>1. PICK door \in Doors : Reaches(c, door)
    BY DEF Proposes, Answers, Doors
  <1>2. connection[c] \in Connection /\ connection[c].door = door
    BY <1>1 DEF Reaches, TypeOK
  <1>3. phase \in {"serving", "stopping"}
    BY <1>1 DEF Reaches, QuietInv
  <1>4. /\ connection[c].identity \in SettingsOf(door).allowlist
        /\ connection[c].authority \in SettingsOf(door).client_ca
    BY <1>1, <1>2 DEF Reaches, EntitledInv
  <1>5. connection[c].identity \in Uris
    BY <1>1, <1>2 DEF Reaches, HasPrincipal, Connection
  <1>6. connection[c].authority \in Authorities
    BY <1>4, SettingsType DEF Settings
  <1>7. UNCHANGED <<env, phase, listener, connection>>
    BY <1>1 DEF Reaches
  <1>8. calls' = calls \cup {[door |-> door, uri |-> connection[c].identity,
                              authority |-> connection[c].authority]}
    BY <1>1, <1>2 DEF Reaches
  <1>9. held' \subseteq Uris /\ (held' # {} => ReviewBand(env))
    BY <1>5 DEF Proposes, Answers, TypeOK, HeldInv
  <1>10. TypeOK'
    BY <1>5, <1>6, <1>7, <1>8, <1>9 DEF TypeOK, Call
  <1>11. EntitledInv'
    BY <1>4, <1>7, <1>8 DEF EntitledInv, HasPrincipal, SettingsOf
  <1> QED BY <1>3, <1>7, <1>9, <1>10, <1>11
        DEF StartInv, ListenerInv, QuietInv, HeldInv, ReviewBand

-----------------------------------------------------------------------------
\* The invariant of the process, from its first step to its last.
THEOREM ChannelsInvariant == Spec => []ChannelsInv
  <1>1. Init => ChannelsInv
    BY DEF Init, ChannelsInv, TypeOK, StartInv, ListenerInv, QuietInv, EntitledInv,
           HeldInv, Doors
  <1>2. ChannelsInv /\ [Next]_vars => ChannelsInv'
    <2> SUFFICES ASSUME ChannelsInv, [Next]_vars
                 PROVE  ChannelsInv'
      OBVIOUS
    <2>1. CASE LoadsConfig \/ CreatesServer \/ CreatesApproverServer \/ Serves
      BY <2>1, StartKeeps
    <2>2. CASE Stops \/ Exits
      BY <2>2, StopKeeps
    <2>3. ASSUME NEW c \in Connections,
                 \/ \E door \in Doors, leaf \in Certificates : Connects(c, door, leaf)
                 \/ ConnectsPlain(c)
                 \/ Closes(c)
          PROVE  ChannelsInv'
      BY <2>3, ConnectKeeps
    <2>4. ASSUME NEW c \in Connections, Proposes(c) \/ Answers(c)
          PROVE  ChannelsInv'
      BY <2>4, RequestKeeps
    <2>5. CASE UNCHANGED vars
      BY <2>5 DEF vars, ChannelsInv, TypeOK, StartInv, ListenerInv, QuietInv,
                  EntitledInv, HeldInv, HasPrincipal, SettingsOf, ReviewBand
    <2> QED BY <2>1, <2>2, <2>3, <2>4, <2>5 DEF Next
  <1> QED BY <1>1, <1>2, PTL DEF Spec

\* Every variable keeps its type.
THEOREM TypeCorrect == Spec => []TypeOK
  BY ChannelsInvariant, PTL DEF ChannelsInv

\* No two calls through different doors share an entry of both doors' lists.
LEMMA DoorsApart ==
    ASSUME ChannelsInv, NEW a \in calls, NEW b \in calls, a.door # b.door
    PROVE  a.uri # b.uri /\ a.authority # b.authority
  <1>1. a \in Call /\ b \in Call
    BY DEF ChannelsInv, TypeOK
  <1>2. /\ a.uri \in SettingsOf(a.door).allowlist
        /\ b.uri \in SettingsOf(b.door).allowlist
        /\ a.authority \in SettingsOf(a.door).client_ca
        /\ b.authority \in SettingsOf(b.door).client_ca
    BY DEF ChannelsInv, EntitledInv
  <1>3. Separated(env)
    BY DEF ChannelsInv, StartInv, QuietInv
  <1>4. \/ a.door = "agent" /\ b.door = "approver"
        \/ a.door = "approver" /\ b.door = "agent"
    BY <1>1 DEF Call, Doors
  <1> QED BY <1>2, <1>3, <1>4 DEF SettingsOf, Separated, NoApprover

\* Nobody who reached authorize ever reaches resolve in the same process.
THEOREM NobodyAnswersTheirOwn == Spec => []MakerIsNotChecker
  <1>1. ChannelsInv => MakerIsNotChecker
    BY DoorsApart DEF MakerIsNotChecker
  <1> QED BY <1>1, ChannelsInvariant, PTL

\* One authority's leaves reach the service through one door.
THEOREM AuthoritiesAreApart == Spec => []OneDoorPerAuthority
  <1>1. ChannelsInv => OneDoorPerAuthority
    BY DoorsApart DEF OneDoorPerAuthority
  <1> QED BY <1>1, ChannelsInvariant, PTL

\* A held review has an open door, an authority and a principal to answer it.
THEOREM ReviewsHaveADoor == Spec => []HeldCanBeAnswered
  <1>1. ChannelsInv => HeldCanBeAnswered
    <2> SUFFICES ASSUME ChannelsInv, phase = "serving", held # {}
                 PROVE  /\ listener["approver"] = "serving"
                        /\ env.approver.client_ca # {}
                        /\ env.approver.allowlist \cap Uris # {}
      BY DEF HeldCanBeAnswered
    <2>1. phase = "serving" /\ ~NoApprover(env.approver)
      BY DEF ChannelsInv, HeldInv, ReviewBand
    <2>2. ~Unfit(env.approver)
      BY <2>1 DEF ChannelsInv, StartInv, ApproverRefused
    <2>3. env.approver \in Settings
      BY ChannelsAssumption DEF ChannelsInv, TypeOK, Environment
    <2> QED BY <2>1, <2>2, <2>3 DEF ChannelsInv, ListenerInv, Unfit, Settings
  <1> QED BY <1>1, ChannelsInvariant, PTL

\* A process that refused to start has served nobody.
THEOREM RefusalsComeFirst == Spec => []RefusedNeverServed
  <1>1. ChannelsInv => RefusedNeverServed
    BY DEF ChannelsInv, ListenerInv, QuietInv, RefusedNeverServed
  <1> QED BY <1>1, ChannelsInvariant, PTL
=============================================================================
