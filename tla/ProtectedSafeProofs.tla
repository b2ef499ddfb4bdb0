-------------------------- MODULE ProtectedSafeProofs --------------------------
(***************************************************************************)
(* What TLAPS proves of a guarded Safe, for every set of keys and modules, *)
(* every delay, and a co-signer that signs by the policy or anything.      *)
(***************************************************************************)
EXTENDS ProtectedSafe, FiniteSetTheorems, SequenceTheorems, TLAPS

USE OnchainPolicyAssumption, ProtectedSafeAssumption

\* readyAt was not truncated: it is the delay after the request.
ReadyInv == pending # None => pending.readyAt = requestedAt + Delay

SafeInv == TypeOK /\ ReadyInv

-----------------------------------------------------------------------------
\* A self-call leaves an account.
LEMMA ReconfiguredType ==
    ASSUME NEW a \in Account, NEW selector \in Selectors,
           NEW b \in Reconfigured(a)[selector]
    PROVE  b \in Account
  <1> DEFINE n == Len(a.owners)
             Fresh == Keys \ Range(a.owners)
  <1>1. a.owners \in Seq(Keys) /\ n \in Nat
    BY DEF Account
  <1>0. \A owners \in Seq(Keys), t \in Nat : Resized(a, owners, t) \in Account
    BY DEF Resized, Account
  <1>2. CASE selector = "setGuard"
    BY <1>2 DEF Reconfigured, Account
  <1>3. CASE selector = "setModuleGuard"
    BY <1>3 DEF Reconfigured, Account
  <1>4. CASE selector = "changeThreshold"
    BY <1>1, <1>4 DEF Reconfigured, Account
  <1>5. CASE selector = "addOwnerWithThreshold"
    <2>1. PICK k \in Fresh, t \in 1..(n + 1) : b = Resized(a, Cons(k, a.owners), t)
      BY <1>5 DEF Reconfigured
    <2>2. Cons(k, a.owners) \in Seq(Keys)
      BY <1>1 DEF Cons
    <2> QED BY <1>1, <1>0, <2>1, <2>2
  <1>6. CASE selector = "removeOwner"
    <2>1. PICK i \in 1..n, t \in 1..(n - 1) :
             b = Resized(a, RemoveAt(a.owners, i), t)
      BY <1>6 DEF Reconfigured
    <2>2. RemoveAt(a.owners, i) \in Seq(Keys)
      <3>1. /\ SubSeq(a.owners, 1, i - 1) \in Seq(Keys)
            /\ SubSeq(a.owners, i + 1, Len(a.owners)) \in Seq(Keys)
        BY <1>1
      <3> QED BY <3>1 DEF RemoveAt
    <2> QED BY <1>1, <1>0, <2>1, <2>2
  <1>7. CASE selector = "swapOwner"
    <2>1. PICK i \in 1..n, k \in Fresh : b = [a EXCEPT !.owners[i] = k]
      BY <1>7 DEF Reconfigured
    <2>2. [a.owners EXCEPT ![i] = k] \in Seq(Keys)
      BY <1>1
    <2> QED BY <2>1, <2>2 DEF Account
  <1>8. CASE selector = "enableModule"
    BY <1>8 DEF Reconfigured, Account
  <1>9. CASE selector = "disableModule"
    BY <1>9 DEF Reconfigured, Account
  <1>10. CASE selector = "setFallbackHandler"
    BY <1>10 DEF Reconfigured, Account
  <1> QED BY <1>2, <1>3, <1>4, <1>5, <1>6, <1>7, <1>8, <1>9, <1>10 DEF Selectors

\* A rotation that fits puts another key in one owner's place.
LEMMA RotatedOwners ==
    ASSUME NEW owners \in Seq(Keys), NEW r \in Rotation
    PROVE  /\ Rotated(owners, r) \in Seq(Keys)
           /\ Len(Rotated(owners, r)) = Len(owners)
  <1>1. \A i \in 1..Len(owners) : owners[i] \in Keys
    OBVIOUS
  <1>2. r.new \in Keys
    BY DEF Rotation
  <1>3. Rotated(owners, r) \in [1..Len(owners) -> Keys]
    BY <1>1, <1>2 DEF Rotated
  <1> QED BY <1>3

\* The truncation to Width loses nothing.
LEMMA ReadyAtIsExact ==
    ASSUME clock \in 0..MaxClock
    PROVE  ReadyAt = clock + Delay /\ ReadyAt \in 0..(Width - 1)
  <1>1. clock + Delay \in 0..(Width - 1)
    OBVIOUS
  <1>2. \A x \in Nat, w \in Nat : x < w => x % w = x
    OBVIOUS
  <1> QED BY <1>1, <1>2 DEF ReadyAt

-----------------------------------------------------------------------------
\* Every state has its types, and its timelock is the one that was started.
THEOREM SafeInvariant == Spec => []SafeInv
  <1>1. Init => SafeInv
    <2> SUFFICES ASSUME Init PROVE SafeInv
      OBVIOUS
    <2>1. <<Agent, Cosigner>> \in Seq(Keys)
      OBVIOUS
    <2>2. account \in Account
      <3>1. \A t \in Nat : Unguarded(t) \in Account
        BY <2>1 DEF Unguarded, Account
      <3>2. SetUp \in Account
        <4>1. Unguarded(2) \in Account
          BY <3>1
        <4> QED BY <4>1 DEF SetUp, Account
      <3> QED BY <3>1, <3>2 DEF Init
    <2> QED BY <2>2 DEF Init, SafeInv, TypeOK, ReadyInv
  <1>2. SafeInv /\ [Next]_vars => SafeInv'
    <2> SUFFICES ASSUME SafeInv, [Next]_vars
                 PROVE  SafeInv'
      OBVIOUS
    <2> USE DEF SafeInv
    <2>1. ASSUME NEW tx \in Transaction, Executes(tx) \/ ModuleCalls(tx)
          PROVE  SafeInv'
      <3>1. Runs(tx)
        BY <2>1 DEF Executes, ModuleCalls
      <3>2. account' \in Account
        BY <3>1, ReconfiguredType DEF Runs, TypeOK
      <3> QED BY <3>1, <3>2 DEF Runs, TypeOK, ReadyInv
    <2>2. ASSUME NEW rotation \in Rotation, RequestRecovery(rotation)
          PROVE  SafeInv'
      BY <2>2, ReadyAtIsExact DEF RequestRecovery, TypeOK, ReadyInv, Pending
    <2>3. CASE ExecuteRecovery
      <3>1. account.owners \in Seq(Keys) /\ pending.rotation \in Rotation
        BY <2>3 DEF ExecuteRecovery, RotationIsReady, TypeOK, Account, Pending
      <3>2. Rotated(account.owners, pending.rotation) \in Seq(Keys)
        BY <3>1, RotatedOwners
      <3>3. account' \in Account
        BY <2>3, <3>2 DEF ExecuteRecovery, RotationIsReady, TypeOK, Account
      <3> QED BY <2>3, <3>3 DEF ExecuteRecovery, RotationIsReady, TypeOK, ReadyInv
    <2>4. CASE Tick
      BY <2>4 DEF Tick, TypeOK, ReadyInv
    <2>5. CASE UNCHANGED vars
      BY <2>5 DEF vars, TypeOK, ReadyInv
    <2> QED BY <2>1, <2>2, <2>3, <2>4, <2>5 DEF Next
  <1> QED BY <1>1, <1>2, PTL DEF Spec

\* Every variable keeps its type.
THEOREM TypeCorrect == Spec => []TypeOK
  BY SafeInvariant, PTL DEF SafeInv

-----------------------------------------------------------------------------
\* What a step may do to a guarded account.

\* Behind the guard, an owners' transaction reconfigures nothing.
LEMMA GuardedTransaction ==
    ASSUME Guarded, NEW tx \in Transaction, Executes(tx)
    PROVE  account' = account
  BY DEF Guarded, Executes, TransactionGuardRefuses, Runs

\* Behind the module guard, a module can only put one key in another's place.
LEMMA GuardedModule ==
    ASSUME TypeOK, Guarded, NEW tx \in Transaction, ModuleCalls(tx)
    PROVE  /\ account' = [account EXCEPT !.owners = account'.owners]
           /\ Len(account'.owners) = Len(account.owners)
  <1>1. CASE account' = account
    BY <1>1 DEF TypeOK, Account
  <1>2. CASE account' # account
    <2>1. account' \in Reconfigured(account)["swapOwner"]
      BY <1>2 DEF Guarded, ModuleCalls, ModuleGuardRefuses, Runs
    <2>2. PICK i \in 1..Len(account.owners), k \in Keys :
             account' = [account EXCEPT !.owners[i] = k]
      BY <2>1 DEF Reconfigured
    <2>3. account'.owners = [account.owners EXCEPT ![i] = k]
      BY <2>2 DEF TypeOK, Account
    <2>4. Len(account'.owners) = Len(account.owners)
      BY <2>3 DEF TypeOK, Account
    <2> QED BY <2>2, <2>3, <2>4 DEF TypeOK, Account
  <1> QED BY <1>1, <1>2

\* Once both guards are installed, threshold, guards, modules, handler and the
\* number of owners are fixed for good, whoever signs.
THEOREM GuardsFreezeTheAccount == Spec => GuardedIsFrozen
  <1> DEFINE Frozen == /\ account' = [account EXCEPT !.owners = account'.owners]
                       /\ Len(account'.owners) = Len(account.owners)
  <1>1. TypeOK /\ [Next]_vars => [Guarded => Frozen]_vars
    <2> SUFFICES ASSUME TypeOK, Next, Guarded
                 PROVE  Frozen
      OBVIOUS
    <2>1. CASE account' = account
      BY <2>1 DEF TypeOK, Account
    <2>2. ASSUME NEW tx \in Transaction, Executes(tx)
          PROVE  Frozen
      BY <2>1, <2>2, GuardedTransaction
    <2>3. ASSUME NEW tx \in Transaction, ModuleCalls(tx)
          PROVE  Frozen
      BY <2>3, GuardedModule
    <2>4. CASE ExecuteRecovery
      <3>1. account.owners \in Seq(Keys) /\ pending.rotation \in Rotation
        BY <2>4 DEF ExecuteRecovery, RotationIsReady, TypeOK, Account, Pending
      <3>2. account'.owners = Rotated(account.owners, pending.rotation)
        BY <2>4 DEF ExecuteRecovery, RotationIsReady, TypeOK, Account
      <3>3. Len(account'.owners) = Len(account.owners)
        BY <3>1, <3>2, RotatedOwners
      <3> QED BY <2>4, <3>2, <3>3 DEF ExecuteRecovery, RotationIsReady, TypeOK, Account
    <2>5. ASSUME NEW rotation \in Rotation, RequestRecovery(rotation)
          PROVE  Frozen
      BY <2>1, <2>5 DEF RequestRecovery
    <2>6. CASE Tick
      BY <2>1, <2>6 DEF Tick
    <2> QED BY <2>2, <2>3, <2>4, <2>5, <2>6 DEF Next
  <1> QED BY <1>1, TypeCorrect, PTL DEF Spec, GuardedIsFrozen

\* With the controller as the sole module, the only owners' change is the recorded
\* rotation, a full delay after its request.
THEOREM OnlyTheRecordedRotation == Spec => RotationIsRecorded
  <1> DEFINE Changes == /\ Guarded
                        /\ account.modules = {Controller}
                        /\ account'.owners # account.owners
             Recorded == /\ pending # None
                         /\ requestedAt + Delay <= clock
                         /\ RotationFits(account.owners, pending.rotation)
                         /\ account'.owners = Rotated(account.owners, pending.rotation)
                         /\ pending' = None
  <1>1. SafeInv /\ [Next]_vars => [Changes => Recorded]_vars
    <2> SUFFICES ASSUME SafeInv, Next, Changes
                 PROVE  Recorded
      OBVIOUS
    <2>1. ASSUME NEW tx \in Transaction, Executes(tx)
          PROVE  FALSE
      BY <2>1, GuardedTransaction
    <2>2. ASSUME NEW tx \in Transaction, ModuleCalls(tx)
          PROVE  FALSE
      BY <2>2 DEF ModuleCalls
    <2>3. CASE ExecuteRecovery
      <3>1. account'.owners = Rotated(account.owners, pending.rotation)
        BY <2>3 DEF ExecuteRecovery, RotationIsReady, SafeInv, TypeOK, Account
      <3> QED BY <2>3, <3>1 DEF ExecuteRecovery, RotationIsReady, SafeInv, ReadyInv
    <2>4. ~Tick /\ \A rotation \in Rotation : ~RequestRecovery(rotation)
      BY DEF Tick, RequestRecovery
    <2> QED BY <2>1, <2>2, <2>3, <2>4 DEF Next
  <1> QED BY <1>1, SafeInvariant, PTL DEF Spec, RotationIsRecorded

-----------------------------------------------------------------------------
\* Replacing a lost key.

\* What LostKeyIsReplaceable asks for but ENABLED: every check on the way of a
\* due rotation passes -- the controller's timelock, the module list, the module
\* guard and the Safe's own -- for every delay, and whoever holds the keys.
THEOREM DueRotationIsReady == Spec => [](RotationIsDue => RotationIsReady)
  <1>1. SafeInv /\ RotationIsDue => RotationIsReady
    <2> SUFFICES ASSUME SafeInv, RotationIsDue
                 PROVE  RotationIsReady
      OBVIOUS
    <2>1. ~ModuleGuardRefuses(Swap)
      BY DEF ModuleGuardRefuses, Swap
    <2>2. clock >= pending.readyAt
      <3>1. clock \in Int /\ requestedAt \in Int
        BY DEF SafeInv, TypeOK
      <3>2. pending.readyAt = requestedAt + Delay /\ requestedAt + Delay <= clock
        BY DEF SafeInv, ReadyInv, RotationIsDue
      <3> QED BY <3>1, <3>2
    <2> QED BY <2>1, <2>2 DEF RotationIsDue, RotationIsReady
  <1> QED BY <1>1, SafeInvariant, PTL

\* And it stays due: neither time nor any signature takes it out of reach, only
\* what the controller records or an owner's place being taken.
THEOREM DueRotationStays ==
    Spec => [][RotationIsDue => \/ RotationIsDue'
                                \/ pending' # pending
                                \/ account'.owners # account.owners]_vars
  <1> DEFINE Stays == RotationIsDue => \/ RotationIsDue'
                                       \/ pending' # pending
                                       \/ account'.owners # account.owners
             Frozen == Guarded =>
                         /\ account' = [account EXCEPT !.owners = account'.owners]
                         /\ Len(account'.owners) = Len(account.owners)
  <1>1. SafeInv /\ [Next]_vars /\ [Frozen]_vars => [Stays]_vars
    <2> SUFFICES ASSUME SafeInv, Next, [Frozen]_vars, RotationIsDue,
                        pending' = pending, account'.owners = account.owners
                 PROVE  RotationIsDue'
      BY DEF vars
    <2>1. clock' >= clock /\ requestedAt' = requestedAt
      <3>1. ASSUME NEW tx \in Transaction, Executes(tx) \/ ModuleCalls(tx)
            PROVE  clock' = clock /\ requestedAt' = requestedAt
        BY <3>1 DEF Executes, ModuleCalls, Runs
      <3>2. ASSUME NEW rotation \in Rotation, RequestRecovery(rotation)
            PROVE  clock' = clock /\ requestedAt' = requestedAt
        <4>1. pending.readyAt = requestedAt + Delay
          BY DEF RotationIsDue, SafeInv, ReadyInv
        <4>2. pending'.readyAt = clock + Delay
          <5>1. pending'.readyAt = ReadyAt
            BY <3>2 DEF RequestRecovery
          <5> QED BY <5>1, ReadyAtIsExact DEF SafeInv, TypeOK
        <4>3. clock \in Int /\ requestedAt \in Int
          BY DEF SafeInv, TypeOK
        <4>4. requestedAt = clock
          BY <4>1, <4>2, <4>3
        <4> QED BY <3>2, <4>4 DEF RequestRecovery
      <3>3. CASE ExecuteRecovery
        BY <3>3 DEF ExecuteRecovery, RotationIsReady
      <3>4. CASE Tick
        BY <3>4 DEF Tick, SafeInv, TypeOK
      <3>5. clock >= clock
        BY DEF SafeInv, TypeOK
      <3> QED BY <3>1, <3>2, <3>3, <3>4, <3>5 DEF Next
    <2>2. account' = account
      BY DEF RotationIsDue, SafeInv, TypeOK, Account, vars
    <2>3. clock \in Int /\ clock' \in Int
      BY DEF Next, Executes, ModuleCalls, Runs, RequestRecovery, ExecuteRecovery, Tick,
             SafeInv, TypeOK
    <2> QED BY <2>1, <2>2, <2>3 DEF RotationIsDue, Guarded, SafeInv, TypeOK
  <1> QED BY <1>1, SafeInvariant, GuardsFreezeTheAccount, PTL DEF Spec, GuardedIsFrozen
=============================================================================
