-------------------------------- MODULE Channels --------------------------------
(***************************************************************************)
(* The process gateway.server.main starts: its configuration, its refusals *)
(* to start, and its two doors, the agents' and the checkers', as far as   *)
(* they decide who may propose and who may answer.  AuthorizationService   *)
(* is what stands behind both; here a proposal is held or not, and an      *)
(* answer ends a review or does not.                                       *)
(*                                                                         *)
(* The TLS handshake is external: it admits a certificate that an          *)
(* authority of the door's bundle issued.  Certificate and key files do    *)
(* not change while the process reads them.                                *)
(***************************************************************************)
EXTENDS FiniteSets

CONSTANTS
    Uris,           \* well-formed principal URIs
    BadEntry,       \* an allowlist entry with a wildcard or that is no URI
    Authorities,    \* CA certificates
    Environments,   \* the environments the process may be started with
    Certificates,   \* the leaf certificates peers may present
    Connections,    \* handler threads
    Anonymous, Refused, None

\* The settings of a channel.  `tls` is the server certificate and its key: not
\* named, one of two, not readable, not loadable, or in order.  An empty
\* `client_ca` or `allowlist` is one that is not named; a named bundle holds a
\* certificate and a named list an entry.
Settings == [bind: {"none", "loopback", "remote", "malformed"},
             tls: {"none", "part", "unreadable", "garbage", "whole"},
             client_ca: SUBSET Authorities,
             allowlist: SUBSET (Uris \cup {BadEntry})]

Environment == [unknown: BOOLEAN, rail: BOOLEAN, agent: Settings, approver: Settings]

\* `purpose` is an extendedKeyUsage and a keyUsage that say client and
\* signature, `within` a lifetime within the cap.
Leaf == [authority: Authorities, uris: SUBSET Uris, purpose: BOOLEAN, within: BOOLEAN]

Doors == {"agent", "approver"}

ASSUME ChannelsAssumption ==
    /\ BadEntry \notin Uris
    /\ Anonymous \notin Uris /\ Refused \notin Uris /\ Anonymous # Refused
    /\ None \notin Authorities
    /\ Environments \subseteq Environment
    /\ Certificates \subseteq Leaf
    /\ None \notin [door: Doors, identity: Uris \cup {Anonymous, Refused},
                    authority: Authorities \cup {None}]

VARIABLES
    env,            \* the process's environment
    phase,          \* how far main has come
    listener,       \* door -> its listening socket
    connection,     \* handler thread -> its connection, or None
    calls,          \* history: who reached the service through which door
    held            \* makers of the reviews the service holds

vars == <<env, phase, listener, connection, calls, held>>

Connection == [door: Doors, identity: Uris \cup {Anonymous, Refused},
               authority: Authorities \cup {None}]
Call == [door: Doors, uri: Uris, authority: Authorities]

-----------------------------------------------------------------------------
\* Configuration.  A Wrong... operator is a plausible mistake in the one after.

\* On loopback nothing named means plaintext; anything named means all of it.
Plaintext(s) == /\ s.bind \in {"none", "loopback"}
                /\ s.tls = "none" /\ s.client_ca = {} /\ s.allowlist = {}

\* What no TLS listener starts without.
Unfit(s) == \/ s.tls \in {"none", "part", "unreadable"}
            \/ s.client_ca = {}
            \/ s.allowlist = {} \/ BadEntry \in s.allowlist

ConfigRefused(e) == \/ e.unknown
                    \/ e.agent.bind = "malformed"
                    \/ ~Plaintext(e.agent) /\ Unfit(e.agent)

NoApprover(s) == /\ s.bind = "none" /\ s.tls = "none"
                 /\ s.client_ca = {} /\ s.allowlist = {}

ApproverRefused(s) ==
    ~NoApprover(s) /\ (s.bind \in {"none", "malformed"} \/ Unfit(s))

WrongSeparated(e) ==
    NoApprover(e.approver) \/ e.agent.client_ca \cap e.approver.client_ca = {}

WrongSeparatedByBundle(e) ==
    \/ NoApprover(e.approver)
    \/ /\ e.agent.client_ca # e.approver.client_ca
       /\ e.agent.allowlist \cap e.approver.allowlist = {}

\* No authority is trusted, and no principal listed, on both channels.
Separated(e) ==
    \/ NoApprover(e.approver)
    \/ /\ e.agent.client_ca \cap e.approver.client_ca = {}
       /\ e.agent.allowlist \cap e.approver.allowlist = {}

\* The limit has a review band exactly when there is a door to answer through.
WrongReviewBand(e) == e.rail
ReviewBand(e) == e.rail /\ ~NoApprover(e.approver)

-----------------------------------------------------------------------------
Init ==
    /\ env \in Environments
    /\ phase = "config"
    /\ listener = [d \in Doors |-> "closed"]
    /\ connection = [c \in Connections |-> None]
    /\ calls = {}
    /\ held = {}

\* main leaves before it serves, with every socket closed.
Refuses ==
    /\ phase' = "refused"
    /\ listener' = [d \in Doors |-> "closed"]

LoadsConfig ==
    /\ phase = "config"
    /\ IF ConfigRefused(env) \/ ApproverRefused(env.approver) \/ ~Separated(env)
         THEN Refuses
         ELSE phase' = "bind" /\ UNCHANGED listener
    /\ UNCHANGED <<env, connection, calls, held>>

WrongCreatesServer ==
    /\ phase = "bind"
    /\ \/ Refuses
       \/ /\ env.agent.tls # "garbage"
          /\ phase' = "bindApprover"
          /\ listener' = [listener EXCEPT !["agent"] = "serving"]
    /\ UNCHANGED <<env, connection, calls, held>>

\* Binding may raise, and material that does not load refuses.
CreatesServer ==
    /\ phase = "bind"
    /\ \/ Refuses
       \/ /\ env.agent.tls # "garbage"
          /\ phase' = "bindApprover"
          /\ listener' = [listener EXCEPT !["agent"] = "bound"]
    /\ UNCHANGED <<env, connection, calls, held>>

CreatesApproverServer ==
    /\ phase = "bindApprover"
    /\ \/ /\ NoApprover(env.approver)
          /\ phase' = "bound"
          /\ UNCHANGED listener
       \/ ~NoApprover(env.approver) /\ Refuses
       \/ /\ ~NoApprover(env.approver)
          /\ env.approver.tls # "garbage"
          /\ phase' = "bound"
          /\ listener' = [listener EXCEPT !["approver"] = "bound"]
    /\ UNCHANGED <<env, connection, calls, held>>

Serves ==
    /\ phase = "bound"
    /\ phase' = "serving"
    /\ listener' = [d \in Doors |->
                       IF listener[d] = "bound" THEN "serving" ELSE listener[d]]
    /\ UNCHANGED <<env, connection, calls, held>>

\* A KeyboardInterrupt: the loops end; requests on open connections still run.
Stops ==
    /\ phase = "serving"
    /\ phase' = "stopping"
    /\ listener' = [d \in Doors |-> "closed"]
    /\ UNCHANGED <<env, connection, calls, held>>

\* The handler threads are daemons, and the reviews are in memory.
Exits ==
    /\ phase = "stopping"
    /\ phase' = "stopped"
    /\ connection' = [c \in Connections |-> None]
    /\ held' = {}
    /\ UNCHANGED <<env, listener, calls>>

-----------------------------------------------------------------------------
\* Connections.

SettingsOf(door) == IF door = "agent" THEN env.agent ELSE env.approver

\* verify_client_purpose, then derive_principal.
Identified(leaf, allowlist) ==
    leaf.purpose /\ leaf.within /\ \E u \in allowlist : leaf.uris = {u}

Identity(leaf, allowlist) ==
    IF Identified(leaf, allowlist)
      THEN CHOOSE u \in allowlist : leaf.uris = {u} ELSE Refused

\* One connection, one identity, derived before any request is read.
Connects(c, door, leaf) ==
    /\ listener[door] = "serving"
    /\ connection[c] = None
    /\ leaf.authority \in SettingsOf(door).client_ca
    /\ connection' = [connection EXCEPT ![c] =
           [door |-> door, authority |-> leaf.authority,
            identity |-> Identity(leaf, SettingsOf(door).allowlist)]]
    /\ UNCHANGED <<env, phase, listener, calls, held>>

ConnectsPlain(c) ==
    /\ listener["agent"] = "serving"
    /\ Plaintext(env.agent)
    /\ connection[c] = None
    /\ connection' = [connection EXCEPT ![c] =
           [door |-> "agent", authority |-> None, identity |-> Anonymous]]
    /\ UNCHANGED <<env, phase, listener, calls, held>>

\* The loopback peer may connect, and has no principal to authorize for.
WrongHasPrincipal(c) == connection[c].identity # Refused
HasPrincipal(c) == connection[c].identity \notin {Refused, Anonymous}

\* A request that reaches the service; without a rail there is none.
Reaches(c, door) ==
    /\ connection[c] # None
    /\ connection[c].door = door
    /\ HasPrincipal(c)
    /\ env.rail
    /\ calls' = calls \cup {[door |-> door, uri |-> connection[c].identity,
                             authority |-> connection[c].authority]}
    /\ UNCHANGED <<env, phase, listener, connection>>

Proposes(c) ==
    /\ Reaches(c, "agent")
    /\ \/ held' = held
       \/ ReviewBand(env) /\ held' = held \cup {connection[c].identity}

Answers(c) ==
    /\ Reaches(c, "approver")
    /\ \/ held' = held
       \/ \E maker \in held : held' = held \ {maker}

\* A refused request closes its connection; so does a peer that has finished.
Closes(c) ==
    /\ connection[c] # None
    /\ connection' = [connection EXCEPT ![c] = None]
    /\ UNCHANGED <<env, phase, listener, calls, held>>

-----------------------------------------------------------------------------
Next ==
    \/ LoadsConfig \/ CreatesServer \/ CreatesApproverServer \/ Serves
    \/ Stops \/ Exits
    \/ \E c \in Connections :
          \/ \E door \in Doors, leaf \in Certificates : Connects(c, door, leaf)
          \/ ConnectsPlain(c)
          \/ Proposes(c) \/ Answers(c) \/ Closes(c)

Spec == Init /\ [][Next]_vars

-----------------------------------------------------------------------------
\* Every variable keeps its type; what reaches the service is a principal.
TypeOK ==
    /\ env \in Environments
    /\ phase \in {"config", "bind", "bindApprover", "bound", "serving",
                  "refused", "stopping", "stopped"}
    /\ listener \in [Doors -> {"closed", "bound", "serving"}]
    /\ connection \in [Connections -> Connection \cup {None}]
    /\ calls \subseteq Call
    /\ held \subseteq Uris

\* "A workload that can propose and approve is its own checker": over the life of
\* a process, nobody who reached authorize ever reaches resolve.
MakerIsNotChecker ==
    \A a, b \in calls : a.uri = b.uri => a.door = b.door

\* "A CA that can mint an agent credential must not be able to mint an approver
\* credential": one authority's leaves reach one door, whatever they claim.
OneDoorPerAuthority ==
    \A a, b \in calls : a.authority = b.authority => a.door = b.door

\* "No action is ever parked where no human can reach it": while the process serves
\* and holds a review, the checkers' door is open to an authority and a principal.
HeldCanBeAnswered ==
    phase = "serving" /\ held # {} =>
        /\ listener["approver"] = "serving"
        /\ env.approver.client_ca # {}
        /\ env.approver.allowlist \cap Uris # {}

\* "Every refusal below happens before either listener serves a byte": a process
\* that refused to start has no socket open and never called the service.
RefusedNeverServed ==
    phase = "refused" =>
        /\ \A d \in Doors : listener[d] = "closed"
        /\ calls = {}
        /\ \A c \in Connections : connection[c] = None
=============================================================================
