----------------------------- MODULE ProtectedSafe -----------------------------
(***************************************************************************)
(* One Safe under SecondSignTransactionGuard, SecondSignModuleGuard and    *)
(* SecondSignRecoveryController: what its owners' transactions, its        *)
(* modules and the recovery initiator can do to the account.               *)
(*                                                                         *)
(* The Safe itself (1.5.0) is external: a self-call reconfigures it as its *)
(* selector says, a delegatecall in any way, and a call that fails leaves  *)
(* everything as it was.  Transactions that touch neither the account's    *)
(* configuration nor the controller are left out.                          *)
(***************************************************************************)
EXTENDS OnchainPolicy, SequencesExt

CONSTANTS
    Keys,           \* accounts that may own the Safe
    Agent, Cosigner,
    Sentinel,       \* what precedes the first owner in the Safe's linked list
    Controller,     \* the recovery controller
    Others,         \* other modules somebody may have enabled before the guards
    PolicyBound,    \* whether the co-signer signs by the policy, or anything
    Delay,          \* the controller's timelock
    Width,          \* 2^64: readyAt is truncated to it
    MaxClock,       \* bound on block time
    None

ASSUME ProtectedSafeAssumption ==
    /\ {Agent, Cosigner} \subseteq Keys /\ Agent # Cosigner
    /\ Sentinel \notin Keys
    /\ Controller \in Addresses \ (Pinned \cup {Safe})
    /\ Controller \notin Others
    /\ PolicyBound \in BOOLEAN
    /\ Delay \in Nat /\ Width \in Nat /\ MaxClock \in Nat
    /\ MaxClock + Delay < Width

\* SafeSelectors: the entrypoints that reconfigure the account.
Selectors == {"setGuard", "setModuleGuard", "changeThreshold",
              "addOwnerWithThreshold", "removeOwner", "swapOwner",
              "enableModule", "disableModule", "setFallbackHandler"}

\* A delegatecall runs foreign code: its selector says nothing of what it does.
Transaction ==
    [to: {Safe, Controller}, operation: {"call"},
     selector: Selectors \cup {"cancelRecovery"}]
    \cup [to: {Safe, Controller}, operation: {"delegatecall"}, selector: {"any"}]

Account == [owners: Seq(Keys), threshold: Nat, guard: BOOLEAN,
            moduleGuard: BOOLEAN, modules: SUBSET (Others \cup {Controller}),
            handler: BOOLEAN]

Rotation == [prev: Keys \cup {Sentinel}, old: Keys, new: Keys]
Pending  == [readyAt: 0..(Width - 1), rotation: Rotation]

VARIABLES
    account,        \* the Safe's owners, threshold, guards, modules, handler
    pending,        \* the controller's _pending, or None
    clock,          \* block.timestamp
    requestedAt     \* history: when the pending recovery was requested

vars == <<account, pending, clock, requestedAt>>

-----------------------------------------------------------------------------
\* The Safe.

Resized(a, owners, threshold) ==
    [a EXCEPT !.owners = owners, !.threshold = threshold]

\* The accounts a self-call can leave, by its selector.
Reconfigured(a) ==
    LET n == Len(a.owners)
        Fresh == Keys \ Range(a.owners)
    IN [setGuard |-> {[a EXCEPT !.guard = g] : g \in BOOLEAN},
        setModuleGuard |-> {[a EXCEPT !.moduleGuard = g] : g \in BOOLEAN},
        changeThreshold |-> {[a EXCEPT !.threshold = t] : t \in 1..n},
        addOwnerWithThreshold |->
            {Resized(a, Cons(k, a.owners), t) : k \in Fresh, t \in 1..(n + 1)},
        removeOwner |->
            {Resized(a, RemoveAt(a.owners, i), t) : i \in 1..n, t \in 1..(n - 1)},
        swapOwner |-> {[a EXCEPT !.owners[i] = k] : i \in 1..n, k \in Fresh},
        enableModule |->
            {[a EXCEPT !.modules = @ \cup {m}] : m \in Others \cup {Controller}},
        disableModule |-> {[a EXCEPT !.modules = @ \ {m}] : m \in a.modules},
        setFallbackHandler |-> {[a EXCEPT !.handler = h] : h \in BOOLEAN}]

\* swapOwner(prev, old, new) finds `old` after `prev` and not `new`.  The
\* Wrong... operators are plausible mistakes.
RotationFits(owners, r) ==
    /\ r.new \notin Range(owners)
    /\ \E i \in DOMAIN owners :
          /\ owners[i] = r.old
          /\ r.prev = IF i = 1 THEN Sentinel ELSE owners[i - 1]

Rotated(owners, r) ==
    [i \in DOMAIN owners |-> IF owners[i] = r.old THEN r.new ELSE owners[i]]

-----------------------------------------------------------------------------
\* The guards.

TransactionGuardRefuses(tx) ==
    \/ tx.operation = "delegatecall"
    \/ tx.to = Safe /\ tx.selector \in Selectors

WrongModuleGuardRefuses(tx) ==
    \/ tx.operation = "delegatecall"
    \/ tx.to = Safe /\ tx.selector \in Selectors \ {"swapOwner", "removeOwner"}

WrongModuleGuardRefusesAll(tx) ==
    tx.operation = "delegatecall" \/ (tx.to = Safe /\ tx.selector \in Selectors)

ModuleGuardRefuses(tx) ==
    \/ tx.operation = "delegatecall"
    \/ tx.to = Safe /\ tx.selector \in Selectors \ {"swapOwner"}

-----------------------------------------------------------------------------
\* The owners' path: enough owners sign, the co-signer by the policy if bound.

AsCall(tx) ==
    [to |-> tx.to, value |-> 0, operation |-> tx.operation, selector |-> "other",
     args |-> TRUE, counterparty |-> tx.to, amount |-> 0]

Willing(key, tx) ==
    key = Cosigner /\ PolicyBound => Judge(AsCall(tx)) # DENY

Signed(tx) ==
    Cardinality({key \in Range(account.owners) : Willing(key, tx)})
        >= account.threshold

\* What a transaction that nothing refused does.
Runs(tx) ==
    /\ UNCHANGED <<clock, requestedAt>>
    /\ \/ /\ tx.operation = "call" /\ tx.to = Safe /\ tx.selector \in Selectors
          /\ account' \in Reconfigured(account)[tx.selector]
          /\ UNCHANGED pending
       \/ /\ tx.operation = "delegatecall"
          /\ \E selector \in Selectors :
                account' \in Reconfigured(account)[selector]
          /\ UNCHANGED pending
       \/ /\ tx.operation = "call" /\ tx.to = Controller
          /\ tx.selector = "cancelRecovery"
          /\ pending' = None
          /\ UNCHANGED account

Executes(tx) ==
    /\ Signed(tx)
    /\ account.guard => ~TransactionGuardRefuses(tx)
    /\ Runs(tx)

\* A module other than the controller needs no signature.
ModuleCalls(tx) ==
    /\ account.modules \ {Controller} # {}
    /\ account.moduleGuard => ~ModuleGuardRefuses(tx)
    /\ Runs(tx)

-----------------------------------------------------------------------------
\* The controller, called by its initiator.

\* Replaces a pending recovery and starts the timelock again.
WrongReadyAt == IF pending = None THEN (clock + Delay) % Width ELSE pending.readyAt
ReadyAt == (clock + Delay) % Width

RequestRecovery(rotation) ==
    /\ pending' = [readyAt |-> ReadyAt, rotation |-> rotation]
    /\ requestedAt' = clock
    /\ UNCHANGED <<account, clock>>

Swap == [to |-> Safe, operation |-> "call", selector |-> "swapOwner"]

\* The controller's own checks, and the Safe's of a module and of a swapOwner.
RotationIsReady ==
    /\ pending # None
    /\ clock >= pending.readyAt
    /\ Controller \in account.modules
    /\ account.moduleGuard => ~ModuleGuardRefuses(Swap)
    /\ RotationFits(account.owners, pending.rotation)

\* Reverts, and changes nothing, when the Safe does not rotate.
ExecuteRecovery ==
    /\ RotationIsReady
    /\ account' = [account EXCEPT !.owners = Rotated(@, pending.rotation)]
    /\ pending' = None
    /\ UNCHANGED <<clock, requestedAt>>

Tick ==
    /\ clock < MaxClock
    /\ clock' = clock + 1
    /\ UNCHANGED <<account, pending, requestedAt>>

-----------------------------------------------------------------------------
\* An account before its set-up, with either threshold, and one set up.
Unguarded(threshold) ==
    [owners |-> <<Agent, Cosigner>>, threshold |-> threshold, guard |-> FALSE,
     moduleGuard |-> FALSE, modules |-> {}, handler |-> FALSE]

SetUp == [Unguarded(2) EXCEPT !.guard = TRUE, !.moduleGuard = TRUE,
                              !.modules = {Controller}]

Init ==
    /\ account \in {Unguarded(1), Unguarded(2), SetUp}
    /\ pending = None
    /\ clock = 0
    /\ requestedAt = 0

Next ==
    \/ \E tx \in Transaction : Executes(tx) \/ ModuleCalls(tx)
    \/ \E rotation \in Rotation : RequestRecovery(rotation)
    \/ ExecuteRecovery
    \/ Tick

Spec == Init /\ [][Next]_vars

-----------------------------------------------------------------------------
\* Every variable holds what the contracts' types allow.
TypeOK ==
    /\ account \in Account
    /\ pending \in Pending \cup {None}
    /\ clock \in 0..MaxClock
    /\ requestedAt \in 0..MaxClock

Guarded == account.guard /\ account.moduleGuard

\* "So the module set is frozen once the guards are installed", and with it the
\* threshold, the guards, the handler and the number of owners, whoever signs and
\* whichever module was enabled before.
GuardedIsFrozen ==
    [][Guarded =>
          /\ account' = [account EXCEPT !.owners = account'.owners]
          /\ Len(account'.owners) = Len(account.owners)]_vars

\* With the controller as the sole module, owners change only by the recorded
\* rotation, a full delay after it was recorded, and a request rotates once.
RotationIsRecorded ==
    [][Guarded /\ account.modules = {Controller} /\ account'.owners # account.owners =>
          /\ pending # None
          /\ requestedAt + Delay <= clock
          /\ RotationFits(account.owners, pending.rotation)
          /\ account'.owners = Rotated(account.owners, pending.rotation)
          /\ pending' = None]_vars

\* The delay after the request is over and the Safe would accept the rotation.
RotationIsDue ==
    /\ Guarded
    /\ Controller \in account.modules
    /\ pending # None
    /\ requestedAt + Delay <= clock
    /\ RotationFits(account.owners, pending.rotation)

\* "A lost SecondSign key can be replaced": once the delay is over, nothing stands
\* in the way of a rotation the Safe would accept.
LostKeyIsReplaceable == RotationIsDue => ENABLED ExecuteRecovery

\* "In the hostile case ... the 2-of-2 vetoes the attacker's request during the
\* delay": while a rotation the Safe would accept is pending, the owners can
\* cancel it.
VetoIsAvailable ==
    LET veto == [to |-> Controller, operation |-> "call",
                 selector |-> "cancelRecovery"]
    IN  Guarded /\ pending # None /\ RotationFits(account.owners, pending.rotation) =>
            Signed(veto) /\ ~TransactionGuardRefuses(veto)
=============================================================================
