---------------------- MODULE AuthorizationServiceProofs ----------------------
(***************************************************************************)
(* What TLAPS proves of AuthorizationService for every set of workers,     *)
(* handles and requests, every limit and every window.                     *)
(***************************************************************************)
EXTENDS AuthorizationService, FiniteSetTheorems, TLAPS

-----------------------------------------------------------------------------
\* Sums over finite sets, which the window's aggregate is.  The library's
\* induction theorems take a predicate; these take a set, and rest on a
\* well-founded ordering having minimal elements.

\* Induction over a finite set, by removing one element: a family that holds
\* every subset of U whose one-smaller subsets it holds, holds them all.
LEMMA SubsetInduction ==
    ASSUME NEW U, IsFiniteSet(U), NEW F,
           \A T \in SUBSET U : (\A x \in T : T \ {x} \in F) => T \in F
    PROVE  \A T \in SUBSET U : T \in F
  <1> DEFINE bad == {T \in SUBSET U : T \notin F}
  <1>1. SUFFICES ASSUME bad # {} PROVE FALSE
    OBVIOUS
  <1>2. IsWellFoundedOn(StrictSubsetOrdering(U), SUBSET U)
    BY FS_StrictSubsetOrderingWellFounded, FS_FiniteSubsetsOfFinite
  <1>3. PICK B \in bad : \A y \in bad : ~ (<<y, B>> \in StrictSubsetOrdering(U))
    <2>1. bad \subseteq SUBSET U
      OBVIOUS
    <2> HIDE DEF bad
    <2> QED BY <1>1, <1>2, <2>1, WFMin
  <1>4. ASSUME NEW x \in B
        PROVE  B \ {x} \in F
    <2>1. B \ {x} \in SUBSET U /\ B \in SUBSET U /\ B \ {x} # B /\ B \ {x} \subseteq B
      BY <1>3
    <2>2. <<B \ {x}, B>> \in StrictSubsetOrdering(U)
      BY <2>1 DEF StrictSubsetOrdering
    <2> QED BY <1>3, <2>1, <2>2
  <1> QED BY <1>3, <1>4

\* Induction over the numbers, for a set of them.
LEMMA NatSetInduction ==
    ASSUME NEW A, 0 \in A, \A n \in Nat : n \in A => n + 1 \in A
    PROVE  Nat \subseteq A
  <1> DEFINE bad == Nat \ A
             less == {ss \in Nat \X Nat : ss[1] < ss[2]}
  <1>1. SUFFICES ASSUME bad # {} PROVE FALSE
    OBVIOUS
  <1>2. IsWellFoundedOn(less, Nat)
    BY NatLessThanWellFounded, Zenon DEF OpToRel
  <1>3. PICK b \in bad : \A y \in bad : ~ (<<y, b>> \in less)
    <2>1. bad \subseteq Nat
      OBVIOUS
    <2> HIDE DEF bad, less
    <2> QED BY <1>1, <1>2, <2>1, WFMin
  <1>4. b \in Nat /\ b # 0
    BY <1>3
  <1>5. b - 1 \in Nat /\ (b - 1) + 1 = b /\ <<b - 1, b>> \in less
    BY <1>4
  <1>6. b - 1 \in A
    BY <1>3, <1>5
  <1> HIDE DEF bad, less
  <1>7. b \in A
    BY <1>5, <1>6
  <1> QED BY <1>3, <1>7 DEF bad

\* The element a fold takes first, and the sums of f over the sets in F that
\* a fold computes by taking it.
Chosen(s) == CHOOSE x \in s : TRUE
SumsOver(f, F, g) ==
    /\ g \in [F -> Nat]
    /\ \A s \in F : g[s] = IF s = {} THEN 0 ELSE f[Chosen(s)] + g[s \ {Chosen(s)}]

\* Such sums exist over the subsets of a finite set: those of at most n + 1
\* elements are built from those of at most n.
LEMMA SumFunctionExists ==
    ASSUME NEW f, NEW U, IsFiniteSet(U), \A x \in U : f[x] \in Nat
    PROVE  \E g : SumsOver(f, SUBSET U, g)
  <1> DEFINE Small(n) == {s \in SUBSET U : Cardinality(s) <= n}
             A == {n \in Nat : \E g : SumsOver(f, Small(n), g)}
  <1>a. \A s \in SUBSET U : IsFiniteSet(s) /\ Cardinality(s) \in Nat
                             /\ Cardinality(s) <= Cardinality(U)
    BY FS_Subset, FS_CardinalityType
  <1>b. \A s \in SUBSET U : s # {} => 
           /\ Chosen(s) \in s /\ f[Chosen(s)] \in Nat
           /\ s \ {Chosen(s)} \in SUBSET U
           /\ Cardinality(s \ {Chosen(s)}) = Cardinality(s) - 1
    <2> TAKE s \in SUBSET U
    <2> HAVE s # {}
    <2>1. Chosen(s) \in s
      BY DEF Chosen
    <2> QED BY <2>1, <1>a, FS_RemoveElement
  <1>1. 0 \in A
    <2> DEFINE g == [s \in Small(0) |-> 0]
    <2>1. \A s \in Small(0) : s = {}
      BY <1>a, FS_EmptySet
    <2>2. SumsOver(f, Small(0), g)
      BY <2>1 DEF SumsOver
    <2> QED BY <2>2
  <1>2. ASSUME NEW n \in Nat, n \in A
        PROVE  n + 1 \in A
    <2>1. PICK g : SumsOver(f, Small(n), g)
      BY <1>2
    <2> DEFINE h == [s \in Small(n + 1) |->
                       IF s = {} THEN 0 ELSE f[Chosen(s)] + g[s \ {Chosen(s)}]]
    <2>2. \A s \in Small(n + 1) : s # {} => s \ {Chosen(s)} \in Small(n)
      BY <1>a, <1>b
    <2>3. h \in [Small(n + 1) -> Nat]
      BY <2>1, <2>2, <1>b DEF SumsOver
    <2>4. \A s \in Small(n) : s \in Small(n + 1) /\ h[s] = g[s]
      BY <1>a, <2>1 DEF SumsOver
    <2>5. SumsOver(f, Small(n + 1), h)
      <3> HIDE DEF Small
      <3>1. \A s \in Small(n + 1) :
              h[s] = IF s = {} THEN 0 ELSE f[Chosen(s)] + h[s \ {Chosen(s)}]
        BY <2>2, <2>4
      <3> HIDE DEF h
      <3> QED BY <2>3, <3>1 DEF SumsOver
    <2>6. \E k : SumsOver(f, Small(n + 1), k)
      BY <2>5
    <2> HIDE DEF h, Small
    <2> QED BY <2>6
  <1>3. Cardinality(U) \in A
    <2> HIDE DEF A
    <2> QED BY <1>1, <1>2, <1>a, NatSetInduction
  <1>4. Small(Cardinality(U)) = SUBSET U
    BY <1>a
  <1> QED BY <1>3, <1>4

\* What SumFunctionOnSet, a fold of the community modules, computes.
LEMMA SumUnfolds ==
    ASSUME NEW f, NEW U, IsFiniteSet(U), \A x \in U : f[x] \in Nat
    PROVE  \E g : SumsOver(f, SUBSET U, g) /\ SumFunctionOnSet(f, U) = g[U]
  <1> DEFINE c(s) == CHOOSE x \in s : TRUE
             Step(g) == [s \in SUBSET U |-> IF s = {} THEN 0 ELSE f[c(s)] + g[s \ {c(s)}]]
             it == CHOOSE g : g = Step(g)
  <1>1. SumFunctionOnSet(f, U) = it[U]
    BY Zenon DEF SumFunctionOnSet, FoldFunctionOnSet, MapThenFoldSet
  <1>2. \E g : g = Step(g)
    <2>1. PICK g : SumsOver(f, SUBSET U, g)
      BY SumFunctionExists
    <2>2. g = Step(g)
      BY <2>1 DEF SumsOver, Chosen
    <2> QED BY <2>2
  <1>3. it = Step(it)
    <2> HIDE DEF Step
    <2> QED BY <1>2
  <1> HIDE DEF it
  <1>4. \A s \in SUBSET U : it[s] = IF s = {} THEN 0 ELSE f[Chosen(s)] + it[s \ {Chosen(s)}]
    BY <1>3 DEF Chosen
  <1>5. \A s \in SUBSET U : it[s] \in Nat
    <2> DEFINE F == {s \in SUBSET U : it[s] \in Nat}
    <2>1. {} \in F
      BY <1>4
    <2>2. ASSUME NEW T \in SUBSET U, \A x \in T : T \ {x} \in F
          PROVE  T \in F
      <3>1. T # {} => Chosen(T) \in T /\ T \ {Chosen(T)} \in F
        BY <2>2 DEF Chosen
      <3>2. T # {} => it[T \ {Chosen(T)}] \in Nat
        BY <3>1
      <3>3. it[T] \in Nat
        BY <1>4, <3>1, <3>2
      <3> QED BY <3>3
    <2> HIDE DEF F
    <2>3. \A T \in SUBSET U : T \in F
      BY <2>2, SubsetInduction
    <2> QED BY <2>3 DEF F
  <1>6. it \in [SUBSET U -> Nat]
    <2>1. it = [s \in SUBSET U |-> Step(it)[s]]
      BY <1>3
    <2> QED BY <1>3, <1>5
  <1>7. SumsOver(f, SUBSET U, it)
    BY <1>4, <1>6 DEF SumsOver
  <1> QED BY <1>1, <1>7

\* Two such sums agree on a finite set, whatever larger set each is over.
LEMMA SumsAgree ==
    ASSUME NEW f, NEW U, IsFiniteSet(U), NEW g, NEW h, NEW V, NEW W,
           U \subseteq V, U \subseteq W,
           SumsOver(f, SUBSET V, g), SumsOver(f, SUBSET W, h)
    PROVE  g[U] = h[U]
  <1> DEFINE F == {T \in SUBSET U : g[T] = h[T]}
  <1>1. ASSUME NEW T \in SUBSET U, \A x \in T : T \ {x} \in F
        PROVE  T \in F
    <2>1. T # {} => Chosen(T) \in T
      BY DEF Chosen
    <2>2. T # {} => g[T \ {Chosen(T)}] = h[T \ {Chosen(T)}]
      BY <1>1, <2>1
    <2>3. T \in SUBSET V /\ T \in SUBSET W
      OBVIOUS
    <2>4. g[T] = h[T]
      BY <2>2, <2>3 DEF SumsOver
    <2> QED BY <2>4
  <1> HIDE DEF F
  <1>2. \A T \in SUBSET U : T \in F
    BY <1>1, SubsetInduction
  <1> QED BY <1>2 DEF F

\* A sum of naturals is a natural, 0 over no element, and otherwise one
\* element and the sum of the rest.
LEMMA SumStep ==
    ASSUME NEW f, NEW U, IsFiniteSet(U), \A x \in U : f[x] \in Nat
    PROVE  /\ SumFunctionOnSet(f, U) \in Nat
           /\ U = {} => SumFunctionOnSet(f, U) = 0
           /\ U # {} => /\ Chosen(U) \in U
                        /\ SumFunctionOnSet(f, U) =
                              f[Chosen(U)] + SumFunctionOnSet(f, U \ {Chosen(U)})
  <1>1. PICK g : SumsOver(f, SUBSET U, g) /\ SumFunctionOnSet(f, U) = g[U]
    BY SumUnfolds
  <1>2. CASE U = {}
    BY <1>1, <1>2 DEF SumsOver
  <1>3. CASE U # {}
    <2> DEFINE x == Chosen(U)
               T == U \ {x}
    <2>1. x \in U
      BY <1>3 DEF Chosen
    <2> HIDE DEF x
    <2>2. IsFiniteSet(T) /\ T \subseteq U /\ \A y \in T : f[y] \in Nat
      BY FS_Subset
    <2>3. PICK h : SumsOver(f, SUBSET T, h) /\ SumFunctionOnSet(f, T) = h[T]
      BY <2>2, SumUnfolds
    <2>4. h[T] = g[T]
      BY <1>1, <2>2, <2>3, SumsAgree
    <2>5. U \in SUBSET U /\ g[U] = f[x] + g[T]
      BY <1>1, <1>3 DEF SumsOver, x
    <2>6. g[U] \in Nat
      BY <1>1 DEF SumsOver
    <2> QED BY <1>1, <1>3, <2>1, <2>3, <2>4, <2>5, <2>6 DEF x
  <1> QED BY <1>2, <1>3

\* The one element may be any: the ledger's aggregate does not depend on the
\* order in which WindowLedger walks its entries.
LEMMA SumRemove ==
    ASSUME NEW f, NEW U, IsFiniteSet(U), \A x \in U : f[x] \in Nat
    PROVE  \A x \in U : SumFunctionOnSet(f, U) = f[x] + SumFunctionOnSet(f, U \ {x})
  <1> DEFINE total == [T \in SUBSET U |-> SumFunctionOnSet(f, T)]
             F == {T \in SUBSET U : \A x \in T : total[T] = f[x] + total[T \ {x}]}
  <1>1. ASSUME NEW T \in SUBSET U
        PROVE  /\ total[T] \in Nat
               /\ T # {} => /\ Chosen(T) \in T
                            /\ total[T] = f[Chosen(T)] + total[T \ {Chosen(T)}]
    <2>1. IsFiniteSet(T) /\ \A x \in T : f[x] \in Nat
      BY FS_Subset
    <2>2. total[T] = SumFunctionOnSet(f, T)
      OBVIOUS
    <2>3. total[T \ {Chosen(T)}] = SumFunctionOnSet(f, T \ {Chosen(T)})
      OBVIOUS
    <2> HIDE DEF total
    <2> QED BY <2>1, <2>2, <2>3, SumStep
  <1>2. total[U] = SumFunctionOnSet(f, U)
           /\ \A x \in U : total[U \ {x}] = SumFunctionOnSet(f, U \ {x})
    OBVIOUS
  <1> HIDE DEF total
  <1>3. ASSUME NEW T \in SUBSET U, \A x \in T : T \ {x} \in F
        PROVE  T \in F
    <2> SUFFICES ASSUME NEW x \in T
                 PROVE  total[T] = f[x] + total[T \ {x}]
      OBVIOUS
    <2> DEFINE c == Chosen(T)
    <2>1. c \in T /\ total[T] = f[c] + total[T \ {c}]
      BY <1>1
    <2> HIDE DEF c
    <2>2. CASE x # c
      <3>1. total[T \ {c}] = f[x] + total[(T \ {c}) \ {x}]
        BY <1>3, <2>1, <2>2
      <3>2. total[T \ {x}] = f[c] + total[(T \ {x}) \ {c}]
        BY <1>3, <2>1, <2>2
      <3>3. (T \ {c}) \ {x} = (T \ {x}) \ {c}
        OBVIOUS
      <3>4. f[x] \in Nat /\ f[c] \in Nat
        BY <2>1
      <3>5. total[(T \ {x}) \ {c}] \in Nat
        BY <1>1
      <3> QED BY <2>1, <3>1, <3>2, <3>3, <3>4, <3>5
    <2> QED BY <2>1, <2>2
  <1> HIDE DEF F
  <1>4. \A T \in SUBSET U : T \in F
    BY <1>3, SubsetInduction
  <1> QED BY <1>2, <1>4 DEF F

\* A sum depends on the values at its elements alone.
LEMMA SumCongruent ==
    ASSUME NEW f, NEW g, NEW U, IsFiniteSet(U),
           \A x \in U : f[x] \in Nat /\ g[x] = f[x]
    PROVE  SumFunctionOnSet(g, U) = SumFunctionOnSet(f, U)
  <1> DEFINE F == {T \in SUBSET U : SumFunctionOnSet(g, T) = SumFunctionOnSet(f, T)}
  <1>1. ASSUME NEW T \in SUBSET U, \A x \in T : T \ {x} \in F
        PROVE  T \in F
    <2>1. IsFiniteSet(T)
      BY FS_Subset
    <2>2. CASE T = {}
      BY <2>1, <2>2, SumStep
    <2>3. CASE T # {}
      <3>1. PICK x \in T : TRUE
        BY <2>3
      <3>2. SumFunctionOnSet(g, T \ {x}) = SumFunctionOnSet(f, T \ {x})
        BY <1>1
      <3>3. SumFunctionOnSet(f, T) = f[x] + SumFunctionOnSet(f, T \ {x})
        BY <2>1, SumRemove
      <3>4. SumFunctionOnSet(g, T) = g[x] + SumFunctionOnSet(g, T \ {x})
        BY <2>1, SumRemove
      <3> QED BY <3>2, <3>3, <3>4
    <2> QED BY <2>2, <2>3
  <1> HIDE DEF F
  <1>2. \A T \in SUBSET U : T \in F
    BY <1>1, SubsetInduction
  <1> QED BY <1>2 DEF F

\* A sum of naturals over fewer elements is at most the whole sum.
LEMMA SumMonotone ==
    ASSUME NEW f, NEW U, IsFiniteSet(U), \A x \in U : f[x] \in Nat, NEW S \in SUBSET U
    PROVE  SumFunctionOnSet(f, S) <= SumFunctionOnSet(f, U)
  <1> DEFINE Sum(T) == SumFunctionOnSet(f, T)
             F == {T \in SUBSET U : S \subseteq T => Sum(S) <= Sum(T)}
  <1>1. ASSUME NEW T \in SUBSET U, \A x \in T : T \ {x} \in F
        PROVE  T \in F
    <2>1. IsFiniteSet(T)
      BY FS_Subset
    <2>a. Sum(T) \in Nat /\ \A x \in T : Sum(T \ {x}) \in Nat
      BY <2>1, FS_Subset, SumStep
    <2>b. Sum(S) \in Nat
      BY FS_Subset, SumStep
    <2>2. ASSUME S \subseteq T, S # T
          PROVE  Sum(S) <= Sum(T)
      <3>1. PICK x \in T : x \notin S
        BY <2>2
      <3>2. Sum(T) = f[x] + Sum(T \ {x})
        BY <2>1, SumRemove
      <3> HIDE DEF Sum
      <3>3. Sum(S) <= Sum(T \ {x})
        BY <1>1, <2>2, <3>1
      <3> QED BY <2>a, <2>b, <3>2, <3>3
    <2> HIDE DEF Sum
    <2> QED BY <2>2, <2>b
  <1> HIDE DEF F
  <1>2. \A T \in SUBSET U : T \in F
    BY <1>1, SubsetInduction
  <1> QED BY <1>2 DEF F, Sum

-----------------------------------------------------------------------------
USE DecisionPathAssumption, AuthorizationAssumption

-----------------------------------------------------------------------------
\* The data.

\* What complete_intent builds from a known request under a known handle is
\* a proposal of this deployment.
LEMMA ProposalType ==
    ASSUME NEW h \in Handles, NEW r \in Requests
    PROVE  ProposalOf(h, r) \in Proposals
  BY DEF Proposals

\* The fields of a proposal that the window is keyed on and counts are those
\* of a wire request.
LEMMA ProposalFields ==
    ASSUME NEW p \in Proposals
    PROVE  /\ AggregateKey(p) \in Currencies \X Accounts \X RailClasses
           /\ p.amount \in Nat
           /\ p.handle \in Handles
  BY DEF Proposals, ProposalOf, AggregateKey, WireRequest

\* A request being handled is an agent's or a checker's, told by its verb.
LEMMA CallByVerb ==
    ASSUME TypeOK, NEW w \in Workers, handler[w] # Idle
    PROVE  /\ handler[w].verb = "authorize" => handler[w] \in AuthorizeCall
           /\ handler[w].verb = "resolve" => handler[w] \in ResolveCall
           /\ handler[w].handle \in Handles
           /\ handler[w].stamp \in 0..MaxClock
           /\ Now(w) \in 0..MaxClock
           /\ Now(w) >= floor
  <1>1. handler[w] \in AuthorizeCall \cup ResolveCall
    BY DEF TypeOK
  <1>2. floor \in 0..MaxClock
    BY DEF TypeOK
  <1>3. handler[w].handle \in Handles /\ handler[w].stamp \in 0..MaxClock
    BY <1>1 DEF AuthorizeCall, ResolveCall
  <1>4. Now(w) \in 0..MaxClock /\ Now(w) >= floor
    BY <1>2, <1>3 DEF Now, Later
  <1>5. /\ handler[w].verb = "authorize" => handler[w] \in AuthorizeCall
        /\ handler[w].verb = "resolve" => handler[w] \in ResolveCall
    BY <1>1 DEF AuthorizeCall, ResolveCall
  <1> QED BY <1>3, <1>4, <1>5

-----------------------------------------------------------------------------
\* What the shared pieces of the section do to the types.

\* Every receipt the service records has the shape AuditReceipt declares.
LEMMA ReceiptType ==
    ASSUME NEW h \in Handles, NEW p \in Proposals, NEW verdict \in Verdicts,
           NEW status \in Statuses \cup {"none"}, NEW approval \in BOOLEAN
    PROVE  ReceiptFor(h, p, verdict, status, approval) \in Receipt
  BY DEF ReceiptFor, Receipt

\* _settle keeps the reservations, the queue, the receipts and the answers
\* well typed, whether or not the receipt's write raises.
LEMMA SettleTypes ==
    ASSUME TypeOK, NEW w \in Workers, NEW h \in Handles, NEW p \in Proposals,
           NEW verdict \in Verdicts, NEW status \in Statuses \cup {"none"},
           NEW granted \in BOOLEAN, NEW held,
           DOMAIN held \subseteq Handles,
           \A x \in DOMAIN held : held[x] \in Approval,
           ~granted => handler[w] \in AuthorizeCall,
           Settle(w, h, p, verdict, status, granted, held)
    PROVE  /\ handler' \in [Workers -> {Idle} \cup AuthorizeCall \cup ResolveCall]
           /\ lock' = Free
           /\ DOMAIN reservations' \subseteq Handles
           /\ \A x \in DOMAIN reservations' : reservations'[x] \in Reservation
           /\ DOMAIN pending' \subseteq Handles
           /\ \A x \in DOMAIN pending' : pending'[x] \in Approval
           /\ receipts' \subseteq Receipt
           /\ told' \subseteq Told
  <1>1. /\ handler' \in [Workers -> {Idle} \cup AuthorizeCall \cup ResolveCall]
        /\ lock' = Free
    BY DEF Settle, Leave, TypeOK
  <1>2. AgentStatus(verdict, status, granted) \in AgentStatuses
    BY DEF AgentStatus, AgentStatuses
  <1>3. DOMAIN pending' \subseteq Handles /\ \A x \in DOMAIN pending' : pending'[x] \in Approval
    BY DEF Settle, Release, Drop
  <1>4. /\ DOMAIN reservations' \subseteq Handles
        /\ \A x \in DOMAIN reservations' : reservations'[x] \in Reservation
    BY <1>2 DEF Settle, Put, Reservation, TypeOK
  <1>5. receipts' \subseteq Receipt
    BY ReceiptType DEF Settle, TypeOK
  <1>6. told' \subseteq Told
    <2>1. CASE UNCHANGED told
      BY <2>1 DEF TypeOK
    <2>2. CASE ~granted /\ Tell(h, handler[w].request, AgentStatus(verdict, status, granted))
      <3>1. handler[w].request \in Requests
        BY <2>2 DEF AuthorizeCall
      <3> QED BY <2>2, <3>1, <1>2 DEF Tell, Told, TypeOK
    <2> QED BY <2>1, <2>2 DEF Settle
  <1> QED BY <1>1, <1>3, <1>4, <1>5, <1>6

\* Recording a spend leaves the ledger a sequence of entries.
LEMMA SpendType ==
    ASSUME TypeOK, NEW p \in Proposals, NEW status, NEW now \in 0..MaxClock,
           RecordSpend(p, status, now)
    PROVE  ledger' \in Seq(Entry)
  <1>1. [key |-> AggregateKey(p), amount |-> p.amount, at |-> now] \in Entry
    BY ProposalFields DEF Entry
  <1> QED BY <1>1 DEF RecordSpend, TypeOK

\* ExecutionGateway.execute keeps every store well typed, on the path that
\* calls the rail and on the path that reports what the key already holds.
LEMMA ExecuteTypes ==
    ASSUME TypeOK, NEW w \in Workers, NEW h \in Handles, NEW p \in Proposals,
           NEW start \in 0..MaxClock, NEW verdict \in Verdicts,
           NEW granted \in BOOLEAN, NEW now \in 0..MaxClock,
           ~granted => handler[w] \in AuthorizeCall,
           Execute(w, h, IntentOf(p, start), verdict, granted, now)
    PROVE  /\ handler' \in [Workers -> {Idle} \cup AuthorizeCall \cup ResolveCall]
           /\ lock' \in {Free} \cup Dispatching
           /\ DOMAIN reservations' \subseteq Handles
           /\ \A x \in DOMAIN reservations' : reservations'[x] \in Reservation
           /\ DOMAIN pending' \subseteq Handles
           /\ \A x \in DOMAIN pending' : pending'[x] \in Approval
           /\ ledger' \in Seq(Entry)
           /\ DOMAIN outcomes' \subseteq Handles
           /\ \A x \in DOMAIN outcomes' : outcomes'[x] \in Statuses \cup {"inflight"}
           /\ receipts' \subseteq Receipt
           /\ rail' \in [Handles -> Seq(RailCall)]
           /\ told' \subseteq Told
  <1> DEFINE intent == IntentOf(p, start)
             sent == [proposal |-> p, verdict |-> verdict, at |-> now,
                      answer |-> "inflight", moved |-> FALSE]
             status == IF outcomes[h] = "inflight" THEN "unknown" ELSE outcomes[h]
  <1>1. intent.proposal = p
    BY DEF IntentOf
  <1>2. CASE /\ outcomes' = Put(outcomes, h, "inflight")
             /\ rail' = [rail EXCEPT ![h] = Append(@, sent)]
             /\ lock' = [worker |-> w, handle |-> h, proposal |-> p,
                         verdict |-> verdict, granted |-> granted]
             /\ UNCHANGED <<handler, reservations, pending, ledger, receipts, told>>
    <2>1. sent \in RailCall
      BY <1>1 DEF RailCall, TypeOK
    <2>2. rail' \in [Handles -> Seq(RailCall)]
      BY <1>2, <2>1 DEF TypeOK
    <2>3. lock' \in Dispatching
      BY <1>2 DEF Dispatching
    <2>4. /\ DOMAIN outcomes' \subseteq Handles
          /\ \A x \in DOMAIN outcomes' : outcomes'[x] \in Statuses \cup {"inflight"}
      BY <1>2 DEF Put, TypeOK
    <2> QED BY <1>2, <2>2, <2>3, <2>4 DEF TypeOK
  <1>3. CASE /\ h \in DOMAIN outcomes
             /\ RecordSpend(p, status, now)
             /\ Settle(w, h, p, verdict, status, granted, pending)
             /\ UNCHANGED <<outcomes, rail>>
    <2>1. status \in Statuses
      BY <1>3 DEF TypeOK, Statuses
    <2>2. ledger' \in Seq(Entry)
      BY <1>3, SpendType
    <2>3. DOMAIN pending \subseteq Handles /\ \A x \in DOMAIN pending : pending[x] \in Approval
      BY DEF TypeOK
    <2>4. /\ handler' \in [Workers -> {Idle} \cup AuthorizeCall \cup ResolveCall]
          /\ lock' = Free
          /\ DOMAIN reservations' \subseteq Handles
          /\ \A x \in DOMAIN reservations' : reservations'[x] \in Reservation
          /\ DOMAIN pending' \subseteq Handles
          /\ \A x \in DOMAIN pending' : pending'[x] \in Approval
          /\ receipts' \subseteq Receipt
          /\ told' \subseteq Told
      BY <1>3, <2>1, <2>3, SettleTypes
    <2> QED BY <1>3, <2>2, <2>4 DEF TypeOK
  <1> QED BY <1>1, <1>2, <1>3 DEF Execute, Reserves

-----------------------------------------------------------------------------
\* Type correctness, one step per action.

\* An arriving request stamps a thread with the clock and touches no store.
LEMMA ArrivalTypes ==
    ASSUME TypeOK, NEW w \in Workers, Arrives(w)
    PROVE  TypeOK'
  <1>1. ASSUME NEW h \in Handles, NEW r \in Requests, AgentCalls(w, h, r)
        PROVE  TypeOK'
    <2>1. [verb |-> "authorize", handle |-> h, request |-> r, stamp |-> clock]
             \in AuthorizeCall
      BY DEF AuthorizeCall, TypeOK
    <2> QED BY <1>1, <2>1 DEF AgentCalls, TypeOK, stores
  <1>2. ASSUME NEW h \in Handles, NEW r \in Requests, RefuseUnmappable(w, h, r)
        PROVE  TypeOK'
    BY <1>2 DEF RefuseUnmappable, TypeOK, stores, Tell, Told, AgentStatuses
  <1>3. ASSUME NEW h \in Handles, NEW p \in Proposals, NEW approved \in Answers,
               CheckerCalls(w, h, p, approved)
        PROVE  TypeOK'
    <2>1. [verb |-> "resolve", handle |-> h, proposal |-> p, approved |-> approved,
           stamp |-> clock] \in ResolveCall
      BY DEF ResolveCall, TypeOK
    <2> QED BY <1>3, <2>1 DEF CheckerCalls, TypeOK, stores
  <1> QED BY <1>1, <1>2, <1>3 DEF Arrives

\* Every path through authorize keeps the types.
LEMMA AuthorizeTypes ==
    ASSUME TypeOK, NEW w \in Workers, Authorizes(w)
    PROVE  TypeOK'
  <1> DEFINE h == handler[w].handle
             r == handler[w].request
             p == ProposalOf(h, r)
  <1>1. /\ Enter(w, "authorize")
        /\ UNCHANGED <<clock, consumed, declined>>
    BY DEF Authorizes, RepeatAnswer, AuthorizeDenied, AuthorizeHeld, AuthorizeAllowed,
           Decided, stores
  <1>2. handler[w] \in AuthorizeCall /\ h \in Handles /\ Now(w) \in 0..MaxClock
    BY <1>1, CallByVerb DEF Enter
  <1>3. r \in Requests /\ handler[w].stamp \in 0..MaxClock
    BY <1>2 DEF AuthorizeCall
  <1>4. p \in Proposals
    BY <1>2, <1>3, ProposalType
  <1>5. floor' \in 0..MaxClock
    BY <1>1, <1>2 DEF Enter
  <1>6. DOMAIN pending \subseteq Handles /\ \A x \in DOMAIN pending : pending[x] \in Approval
    BY DEF TypeOK
  <1>7. CASE RepeatAnswer(w)
    <2>1. (IF reservations[h].proposal = p THEN reservations[h].answer ELSE "refused")
             \in AgentStatuses
      BY <1>7 DEF RepeatAnswer, Spent, TypeOK, Reservation, AgentStatuses
    <2>2. told' \subseteq Told
      BY <1>7, <2>1, <1>2, <1>3 DEF RepeatAnswer, Tell, Told, TypeOK
    <2> QED BY <1>7, <2>2, <1>5 DEF RepeatAnswer, Leave, stores, TypeOK
  <1>8. CASE AuthorizeDenied(w)
    BY <1>8, <1>2, <1>4, <1>5, <1>6, SettleTypes
       DEF AuthorizeDenied, Verdicts, TypeOK
  <1>9. CASE AuthorizeHeld(w)
    <2> DEFINE held == Put(pending, h, [proposal |-> p, expires |-> Now(w) + ReviewTTL])
    <2>1. DOMAIN held \subseteq Handles /\ \A x \in DOMAIN held : held[x] \in Approval
      BY <1>2, <1>4, <1>6 DEF Put, Approval
    <2>2. Settle(w, h, p, REVIEW, "none", FALSE, held)
      BY <1>9 DEF AuthorizeHeld
    <2> HIDE DEF held
    <2> QED BY <1>9, <2>1, <2>2, <1>2, <1>4, <1>5, SettleTypes
            DEF AuthorizeHeld, Verdicts, TypeOK
  <1>10. CASE AuthorizeAllowed(w)
    <2>1. CASE /\ Settle(w, h, p, ALLOW, "none", FALSE, pending)
               /\ UNCHANGED <<ledger, outcomes, rail>>
      BY <1>1, <2>1, <1>2, <1>4, <1>5, <1>6, SettleTypes DEF Verdicts, TypeOK
    <2>2. CASE Execute(w, h, IntentOf(p, handler[w].stamp), ALLOW, FALSE, Now(w))
      BY <1>1, <2>2, <1>2, <1>3, <1>4, <1>5, ExecuteTypes DEF Verdicts, TypeOK
    <2> QED BY <1>10, <2>1, <2>2 DEF AuthorizeAllowed, IntentOf
  <1> QED BY <1>7, <1>8, <1>9, <1>10 DEF Authorizes

\* Every path through resolve keeps the types.
LEMMA ResolveTypes ==
    ASSUME TypeOK, NEW w \in Workers, Resolves(w)
    PROVE  TypeOK'
  <1> DEFINE h == handler[w].handle
             p == pending[h].proposal
  <1>1. Enter(w, "resolve") /\ clock' = clock
    BY DEF Resolves, ResolveUnknown, ResolveDenied, ResolveMisdirected, ResolveEnded,
           ResolveGranted, Redecided
  <1>2. handler[w] \in ResolveCall /\ h \in Handles /\ Now(w) \in 0..MaxClock
    BY <1>1, CallByVerb DEF Enter
  <1>3. floor' \in 0..MaxClock
    BY <1>1, <1>2 DEF Enter
  <1>4. CASE ResolveUnknown(w)
    BY <1>3, <1>4 DEF ResolveUnknown, Leave, stores, TypeOK
  <1>5. ASSUME NEW vs, Redecided(w, vs)
        PROVE  p \in Proposals /\ declined' \subseteq Handles
    BY <1>2, <1>5 DEF Redecided, NoteDecline, TypeOK, Approval
  <1>6. CASE ResolveDenied(w)
    <2>1. p \in Proposals /\ declined' \subseteq Handles
      BY <1>5, <1>6 DEF ResolveDenied
    <2>2. receipts' \subseteq Receipt
      <3>1. ReceiptFor(h, p, DENY, "none", FALSE) \in Receipt
        BY <1>2, <2>1, ReceiptType DEF Verdicts
      <3> QED BY <1>6, <3>1 DEF ResolveDenied, TypeOK
    <2> QED BY <1>3, <1>6, <2>1, <2>2 DEF ResolveDenied, Leave, TypeOK
  <1>7. CASE ResolveMisdirected(w)
    <2>1. declined' \subseteq Handles
      BY <1>5, <1>7 DEF ResolveMisdirected
    <2> QED BY <1>3, <1>7, <2>1 DEF ResolveMisdirected, Leave, stores, TypeOK
  <1>8. CASE ResolveEnded(w)
    <2>1. p \in Proposals /\ declined' \subseteq Handles
      BY <1>5, <1>8 DEF ResolveEnded
    <2>2. DecideAt(ledger, p, Now(w)) \in Verdicts
      BY <1>8 DEF ResolveEnded, Redecided, Verdicts
    <2>3. receipts' \subseteq Receipt
      <3>1. ReceiptFor(h, p, DecideAt(ledger, p, Now(w)), "none", TRUE) \in Receipt
        BY <1>2, <2>1, <2>2, ReceiptType
      <3> QED BY <1>8, <3>1 DEF ResolveEnded, TypeOK
    <2>4. /\ DOMAIN reservations' \subseteq Handles
          /\ \A x \in DOMAIN reservations' : reservations'[x] \in Reservation
      <3>1. [proposal |-> p, answer |-> "refused"] \in Reservation
        BY <2>1 DEF Reservation, AgentStatuses
      <3> QED BY <1>2, <1>8, <3>1 DEF ResolveEnded, Put, TypeOK
    <2>5. /\ DOMAIN pending' \subseteq Handles
          /\ \A x \in DOMAIN pending' : pending'[x] \in Approval
      BY <1>8 DEF ResolveEnded, Release, Drop, TypeOK
    <2> QED BY <1>3, <1>8, <2>1, <2>3, <2>4, <2>5 DEF ResolveEnded, Leave, TypeOK
  <1>9. CASE ResolveGranted(w)
    <2> DEFINE verdict == DecideAt(ledger, p, Now(w))
    <2>1. p \in Proposals /\ declined' \subseteq Handles
      BY <1>5, <1>9 DEF ResolveGranted
    <2>2. verdict \in Verdicts
      BY <1>9 DEF ResolveGranted, Redecided, Verdicts
    <2>3. /\ Execute(w, h, IntentOf(p, Now(w)), verdict, TRUE, Now(w))
          /\ consumed' = consumed \cup {h}
      BY <1>9 DEF ResolveGranted
    <2> HIDE DEF verdict
    <2> QED BY <1>1, <1>2, <1>3, <2>1, <2>2, <2>3, ExecuteTypes DEF TypeOK
  <1> QED BY <1>4, <1>6, <1>7, <1>8, <1>9 DEF Resolves

\* The rail's answer, and the settlement behind it, keep the types.
LEMMA RailTypes ==
    ASSUME SafeInv, NEW w \in Workers, RailReturns(w)
    PROVE  TypeOK'
  <1> USE DEF SafeInv
  <1>1. PICK status \in Statuses, moved \in BOOLEAN : RailAnswers(w, status, moved)
    BY DEF RailReturns
  <1> DEFINE h == lock.handle
             p == lock.proposal
             n == Len(rail[h])
  <1>3. lock \in Dispatching /\ lock.worker = w
    BY <1>1 DEF RailAnswers, TypeOK
  <1>4. h \in Handles /\ p \in Proposals /\ lock.verdict \in Verdicts
           /\ lock.granted \in BOOLEAN
    BY <1>3 DEF Dispatching
  <1>5. n \in DOMAIN rail[h] /\ rail[h][n] \in RailCall
    BY <1>1, <1>4 DEF RailAnswers, LockHolder, KeysDescribeRail, TypeOK
  <1>6. rail' \in [Handles -> Seq(RailCall)]
    <2>1. [rail[h][n] EXCEPT !.answer = status] \in RailCall
      BY <1>5 DEF RailCall
    <2> DEFINE one == [rail EXCEPT ![h][n].answer = status]
    <2>2. one \in [Handles -> Seq(RailCall)] /\ DOMAIN one[h] = DOMAIN rail[h]
      BY <1>4, <1>5, <2>1 DEF TypeOK
    <2>a. rail' = [one EXCEPT ![h][n].moved = moved]
      BY <1>1 DEF RailAnswers
    <2> HIDE DEF one
    <2>b. one[h][n] \in RailCall
      BY <1>4, <1>5, <2>2
    <2>3. [one[h][n] EXCEPT !.moved = moved] \in RailCall
      BY <2>b DEF RailCall
    <2> QED BY <1>4, <1>5, <2>2, <2>3, <2>a
  <1>7. /\ DOMAIN outcomes' \subseteq Handles
        /\ \A x \in DOMAIN outcomes' : outcomes'[x] \in Statuses \cup {"inflight"}
    BY <1>1, <1>4 DEF RailAnswers, Put, TypeOK
  <1>8. ledger' \in Seq(Entry)
    BY <1>1, <1>4, SpendType DEF RailAnswers, TypeOK
  <1>9. ~lock.granted => handler[w] \in AuthorizeCall
    BY <1>1, <1>3 DEF RailAnswers, LockHolder
  <1>10. DOMAIN pending \subseteq Handles /\ \A x \in DOMAIN pending : pending[x] \in Approval
    BY DEF TypeOK
  <1>11. Settle(w, h, p, lock.verdict, status, lock.granted, pending)
    BY <1>1 DEF RailAnswers
  <1>12. /\ handler' \in [Workers -> {Idle} \cup AuthorizeCall \cup ResolveCall]
         /\ lock' = Free
         /\ DOMAIN reservations' \subseteq Handles
         /\ \A x \in DOMAIN reservations' : reservations'[x] \in Reservation
         /\ DOMAIN pending' \subseteq Handles
         /\ \A x \in DOMAIN pending' : pending'[x] \in Approval
         /\ receipts' \subseteq Receipt
         /\ told' \subseteq Told
    BY <1>4, <1>9, <1>10, <1>11, SettleTypes
  <1>13. UNCHANGED <<clock, floor, consumed, declined>>
    BY <1>1 DEF RailAnswers
  <1> QED BY <1>6, <1>7, <1>8, <1>12, <1>13 DEF TypeOK

-----------------------------------------------------------------------------
\* The lock's holder and the keys, one step per way through the section.

\* A step that changes neither the lock, nor what it covers, nor the rail.
LEMMA QuietStep ==
    ASSUME SafeInv, UNCHANGED <<lock, outcomes, rail>>,
           \A v \in Workers : handler[v] # Idle => handler'[v] = handler[v]
    PROVE  LockHolder' /\ KeysDescribeRail'
  <1>1. LockHolder'
    <2> SUFFICES ASSUME lock # Free
                 PROVE  LockHolder'
      BY DEF LockHolder
    <2>1. lock \in Dispatching
      BY DEF SafeInv, TypeOK
    <2>2. lock.worker \in Workers
      BY <2>1 DEF Dispatching
    <2>3. handler[lock.worker] \in AuthorizeCall \cup ResolveCall
      BY DEF SafeInv, LockHolder
    <2>4. handler'[lock.worker] = handler[lock.worker]
      BY <2>2, <2>3
    <2> QED BY <2>4 DEF SafeInv, LockHolder
  <1>2. KeysDescribeRail'
    BY DEF SafeInv, KeysDescribeRail
  <1> QED BY <1>1, <1>2

\* A section that ends without calling the rail.
LEMMA EndedSection ==
    ASSUME SafeInv, lock = Free, lock' = Free, UNCHANGED <<outcomes, rail>>
    PROVE  LockHolder' /\ KeysDescribeRail'
  BY DEF SafeInv, LockHolder, KeysDescribeRail

\* A section that executes: a reserved key is never dispatched again.
LEMMA ExecuteSafe ==
    ASSUME SafeInv, lock = Free, NEW w \in Workers, NEW h \in Handles,
           NEW intent, NEW verdict \in Verdicts, NEW granted \in BOOLEAN, NEW now,
           intent.proposal \in Proposals,
           handler[w] \in IF granted THEN ResolveCall ELSE AuthorizeCall,
           handler[w].handle = h,
           Execute(w, h, intent, verdict, granted, now)
    PROVE  LockHolder' /\ KeysDescribeRail'
  <1> USE DEF SafeInv
  <1> DEFINE sent == [proposal |-> intent.proposal, verdict |-> verdict,
                      at |-> now,
                      answer |-> "inflight", moved |-> FALSE]
  <1>1. CASE /\ h \notin DOMAIN outcomes
             /\ outcomes' = Put(outcomes, h, "inflight")
             /\ rail' = [rail EXCEPT ![h] = Append(@, sent)]
             /\ lock' = [worker |-> w, handle |-> h, proposal |-> intent.proposal,
                         verdict |-> verdict, granted |-> granted]
             /\ UNCHANGED handler
    <2>1. /\ DOMAIN outcomes' = DOMAIN outcomes \cup {h}
          /\ outcomes'[h] = "inflight"
          /\ \A x \in DOMAIN outcomes : outcomes'[x] = outcomes[x]
      BY <1>1 DEF Put
    <2>2. rail[h] = << >>
      BY <1>1 DEF KeysDescribeRail
    <2>3. rail'[h] = <<sent>> /\ \A x \in Handles \ {h} : rail'[x] = rail[x]
      <3>1. rail' = [rail EXCEPT ![h] = Append(@, sent)] /\ rail \in [Handles -> Seq(RailCall)]
        BY <1>1 DEF TypeOK
      <3> HIDE DEF sent, SafeInv
      <3>2. rail'[h] = Append(<< >>, sent)
        BY <2>2, <3>1
      <3> QED BY <3>1, <3>2
    <2>4. /\ <<sent>> # << >> /\ Len(<<sent>>) = 1
          /\ <<sent>>[1].answer = "inflight"
      OBVIOUS
    <2>5. LockHolder'
      <3>1. /\ lock'.worker = w
            /\ lock'.handle = h
            /\ lock'.granted = granted
            /\ handler' = handler
        BY <1>1
      <3> QED BY <2>1, <3>1 DEF LockHolder
    <2>6. lock'.handle = h
      BY <1>1
    <2>7. ASSUME NEW x \in Handles
          PROVE  /\ x \in DOMAIN outcomes' <=> rail'[x] # << >>
                 /\ x \in DOMAIN outcomes' =>
                       Len(rail'[x]) = 1 /\ rail'[x][1].answer = outcomes'[x]
                 /\ x \in DOMAIN outcomes' /\ outcomes'[x] = "inflight" => x = h
      <3> HIDE DEF sent
      <3>1. CASE x = h
        <4>1. rail'[x] = <<sent>> /\ x \in DOMAIN outcomes' /\ outcomes'[x] = "inflight"
          BY <2>1, <2>3, <3>1
        <4> HIDE DEF SafeInv
        <4> QED BY <2>4, <3>1, <4>1
      <3>2. CASE x # h
        BY <2>1, <2>3, <3>2 DEF KeysDescribeRail
      <3> QED BY <3>1, <3>2
    <2>8. lock' # Free
      <3>1. lock' \in Dispatching
        BY <1>1 DEF Dispatching
      <3> QED BY <3>1
    <2> QED BY <2>5, <2>6, <2>7, <2>8 DEF KeysDescribeRail
  <1>2. CASE UNCHANGED <<outcomes, rail>> /\ lock' = Free
    BY <1>2, EndedSection
  <1> QED BY <1>1, <1>2 DEF Execute, Reserves, Settle, Leave

\* A freshly built service satisfies the invariant.
LEMMA InitSafe == Init => SafeInv
  <1> SUFFICES ASSUME Init PROVE SafeInv
    OBVIOUS
  <1>1. TypeOK
    BY DEF Init, TypeOK
  <1>2. LockHolder /\ KeysDescribeRail
    BY DEF Init, LockHolder, KeysDescribeRail
  <1> QED BY <1>1, <1>2 DEF SafeInv

\* An arriving request disturbs neither the lock nor the rail.
LEMMA ArrivalSafe ==
    ASSUME SafeInv, NEW w \in Workers, Arrives(w)
    PROVE  SafeInv'
  <1>1. TypeOK'
    BY ArrivalTypes DEF SafeInv
  <1>2. /\ UNCHANGED <<lock, outcomes, rail>>
        /\ \A v \in Workers : handler[v] # Idle => handler'[v] = handler[v]
    BY DEF Arrives, AgentCalls, RefuseUnmappable, CheckerCalls, stores, SafeInv, TypeOK
  <1> QED BY <1>1, <1>2, QuietStep DEF SafeInv

\* Every path through authorize reserves a key before it calls the rail and
\* calls it for no key that is reserved.
LEMMA AuthorizeSafe ==
    ASSUME SafeInv, NEW w \in Workers, Authorizes(w)
    PROVE  SafeInv'
  <1> DEFINE h == handler[w].handle
             p == ProposalOf(h, handler[w].request)
             intent == IntentOf(p, handler[w].stamp)
  <1>1. TypeOK'
    BY AuthorizeTypes DEF SafeInv
  <1>2. Enter(w, "authorize")
    BY DEF Authorizes, RepeatAnswer, AuthorizeDenied, AuthorizeHeld, AuthorizeAllowed,
           Decided
  <1>3. handler[w] \in AuthorizeCall /\ lock = Free
    BY <1>2, CallByVerb DEF Enter, SafeInv
  <1>4. CASE lock' = Free /\ UNCHANGED <<outcomes, rail>>
    BY <1>1, <1>3, <1>4, EndedSection DEF SafeInv
  <1>5. CASE Execute(w, h, intent, ALLOW, FALSE, Now(w))
    <2>1. h \in Handles /\ intent.proposal \in Proposals /\ ALLOW \in Verdicts
      BY <1>3, ProposalType DEF AuthorizeCall, IntentOf, Verdicts
    <2> QED BY <1>1, <1>3, <1>5, <2>1, ExecuteSafe DEF SafeInv
  <1> QED BY <1>4, <1>5 DEF Authorizes, RepeatAnswer, AuthorizeDenied, AuthorizeHeld,
             AuthorizeAllowed, Settle, Leave, stores

\* Every path through resolve does the same: a checker's answer cannot reach
\* a key that is already reserved.
LEMMA ResolveSafe ==
    ASSUME SafeInv, NEW w \in Workers, Resolves(w)
    PROVE  SafeInv'
  <1> DEFINE h == handler[w].handle
             p == pending[h].proposal
             verdict == DecideAt(ledger, p, Now(w))
             intent == IntentOf(p, Now(w))
  <1>1. TypeOK'
    BY ResolveTypes DEF SafeInv
  <1>2. Enter(w, "resolve")
    BY DEF Resolves, ResolveUnknown, ResolveDenied, ResolveMisdirected, ResolveEnded,
           ResolveGranted, Redecided
  <1>3. handler[w] \in ResolveCall /\ h \in Handles /\ lock = Free
    BY <1>2, CallByVerb DEF Enter, SafeInv
  <1>4. CASE lock' = Free /\ UNCHANGED <<outcomes, rail>>
    BY <1>1, <1>3, <1>4, EndedSection DEF SafeInv
  <1>5. CASE ResolveGranted(w)
    <2>1. /\ Execute(w, h, intent, verdict, TRUE, Now(w))
          /\ verdict \in Verdicts
          /\ h \in DOMAIN pending
      BY <1>5 DEF ResolveGranted, Redecided, Verdicts
    <2>2. intent.proposal \in Proposals
      BY <2>1 DEF IntentOf, SafeInv, TypeOK, Approval
    <2> HIDE DEF verdict, intent
    <2> QED BY <1>1, <1>3, <2>1, <2>2, ExecuteSafe DEF SafeInv
  <1> QED BY <1>4, <1>5 DEF Resolves, ResolveUnknown, ResolveDenied, ResolveMisdirected,
             ResolveEnded, Leave, stores

\* The rail's answer finalizes the key its call reserved and frees the lock.
LEMMA RailSafe ==
    ASSUME SafeInv, NEW w \in Workers, RailReturns(w)
    PROVE  SafeInv'
  <1> DEFINE h == lock.handle
             n == Len(rail[h])
  <1>1. TypeOK'
    BY RailTypes
  <1>2. PICK status \in Statuses, moved \in BOOLEAN : RailAnswers(w, status, moved)
    BY DEF RailReturns
  <1>3. /\ lock' = Free
        /\ outcomes' = Put(outcomes, h, status)
        /\ rail' = [rail EXCEPT ![h][n].answer = status, ![h][n].moved = moved]
    BY <1>2 DEF RailAnswers, Settle, Leave
  <1>4. lock # Free /\ h \in Handles /\ h \in DOMAIN outcomes
    BY <1>2 DEF RailAnswers, SafeInv, TypeOK, LockHolder, Dispatching
  <1>5. n = 1 /\ rail[h] # << >>
    BY <1>4 DEF SafeInv, KeysDescribeRail
  <1>6. LockHolder'
    BY <1>3 DEF LockHolder
  <1>7. ASSUME NEW x \in Handles
        PROVE  /\ x \in DOMAIN outcomes' <=> rail'[x] # << >>
               /\ x \in DOMAIN outcomes' =>
                     Len(rail'[x]) = 1 /\ rail'[x][1].answer = outcomes'[x]
               /\ x \in DOMAIN outcomes' => outcomes'[x] # "inflight"
    <2>1. rail[x] \in Seq(RailCall) /\ rail \in [Handles -> Seq(RailCall)]
      BY DEF SafeInv, TypeOK
    <2>2. CASE x = h
      <3> DEFINE call == [[rail[h][1] EXCEPT !.answer = status] EXCEPT !.moved = moved]
      <3>1. rail'[h] = [rail[h] EXCEPT ![1] = call]
        BY <1>3, <1>4, <1>5, <2>1, <2>2
      <3>2. rail[h][1] \in RailCall /\ Len(rail[h]) = 1
        BY <1>5, <2>1, <2>2
      <3>3. call.answer = status
        BY <3>2 DEF RailCall
      <3> HIDE DEF call
      <3>4. Len(rail'[h]) = 1 /\ rail'[h][1] = call /\ rail'[h] # << >>
        BY <2>1, <2>2, <3>1, <3>2
      <3>5. h \in DOMAIN outcomes' /\ outcomes'[h] = status /\ status # "inflight"
        BY <1>3 DEF Put, Statuses
      <3> QED BY <2>2, <3>3, <3>4, <3>5
    <2>3. CASE x # h
      <3>1. rail'[x] = rail[x]
        BY <1>3, <2>1, <2>3
      <3>2. /\ x \in DOMAIN outcomes' <=> x \in DOMAIN outcomes
            /\ x \in DOMAIN outcomes => outcomes'[x] = outcomes[x]
        BY <1>3, <2>3 DEF Put
      <3> QED BY <2>3, <3>1, <3>2, <1>4 DEF SafeInv, KeysDescribeRail
    <2> QED BY <2>2, <2>3
  <1> QED BY <1>1, <1>6, <1>7 DEF SafeInv, KeysDescribeRail

\* Every step of the service keeps the invariant.
LEMMA SafeStep == SafeInv /\ [Next]_vars => SafeInv'
  <1> SUFFICES ASSUME SafeInv, [Next]_vars PROVE SafeInv'
    OBVIOUS
  <1>1. CASE Tick
    <2>1. TypeOK'
      BY <1>1 DEF Tick, stores, SafeInv, TypeOK
    <2>2. UNCHANGED <<lock, outcomes, rail, handler>>
      BY <1>1 DEF Tick, stores
    <2> QED BY <2>1, <2>2, QuietStep DEF SafeInv
  <1>2. CASE UNCHANGED vars
    BY <1>2 DEF vars, stores, SafeInv, TypeOK, LockHolder, KeysDescribeRail
  <1>3. ASSUME NEW w \in Workers,
               Arrives(w) \/ Authorizes(w) \/ Resolves(w) \/ RailReturns(w)
        PROVE  SafeInv'
    BY <1>3, ArrivalSafe, AuthorizeSafe, ResolveSafe, RailSafe
  <1> QED BY <1>1, <1>2, <1>3 DEF Next

\* At every moment a key is reserved exactly when the rail was called under
\* it, once, and the thread that holds the lock across a rail call is the one
\* that reserved it -- whatever the audit sink does.
THEOREM SafeInvariant == Spec => []SafeInv
  BY InitSafe, SafeStep, PTL DEF Spec

\* Every variable always holds what the code's types allow.
THEOREM TypeCorrect == Spec => []TypeOK
  <1>1. SafeInv => TypeOK
    BY DEF SafeInv
  <1> QED BY <1>1, SafeInvariant, PTL

\* For any number of threads, handles and requests, and with an audit sink
\* that may fail at any write, the rail is called at most once per handle.
THEOREM OneDispatch == Spec => []AtMostOnce
  <1>1. ASSUME SafeInv, NEW h \in Handles
        PROVE  Len(rail[h]) <= 1
    <2>1. CASE h \in DOMAIN outcomes
      <3>1. Len(rail[h]) = 1
        BY <1>1, <2>1, Zenon DEF SafeInv, KeysDescribeRail
      <3> QED BY <3>1
    <2>2. CASE rail[h] = << >>
      BY <2>2
    <2> QED BY <1>1, <2>1, <2>2 DEF SafeInv, KeysDescribeRail
  <1>2. SafeInv => AtMostOnce
    BY <1>1 DEF AtMostOnce
  <1> QED BY <1>2, SafeInvariant, PTL

-----------------------------------------------------------------------------
\* Authority.

\* What DispatchIsAuthorized asks of a step that sends h's payment.
Authorized(h) ==
    LET sent == rail'[h][Len(rail'[h])]
        spent == Aggregate(ledger, AggregateKey(sent.proposal), floor')
    IN  \/ Decide(sent.proposal, spent) = ALLOW
        \/ /\ Decide(sent.proposal, spent) = REVIEW
           /\ h \in DOMAIN pending
           /\ h \notin consumed
           /\ floor' < pending[h].expires
           /\ \E w \in Workers :
                 /\ handler[w] \in ResolveCall
                 /\ handler[w].approved
                 /\ handler[w].handle = h
                 /\ handler[w].proposal = sent.proposal

\* Only an execution sends, only its own handle's payment, and what it sends
\* is the intent it was given.
LEMMA ExecuteSends ==
    ASSUME SafeInv, NEW w, NEW h \in Handles, NEW intent, NEW verdict, NEW granted,
           NEW now, Execute(w, h, intent, verdict, granted, now),
           NEW x \in Handles, Sends(x)
    PROVE  x = h /\ rail'[h][Len(rail'[h])].proposal = intent.proposal
  <1> DEFINE sent == [proposal |-> intent.proposal, verdict |-> verdict,
                      at |-> now,
                      answer |-> "inflight", moved |-> FALSE]
  <1>1. rail \in [Handles -> Seq(RailCall)]
    BY DEF SafeInv, TypeOK
  <1>2. rail' # rail
    BY <1>1 DEF Sends
  <1>3. rail' = [rail EXCEPT ![h] = Append(@, sent)] /\ Reserves(h)
    BY <1>2 DEF Execute
  <1>4. rail[h] = << >>
    BY <1>3 DEF Reserves, SafeInv, KeysDescribeRail
  <1>5. sent.proposal = intent.proposal
    OBVIOUS
  <1> HIDE DEF sent
  <1>6. rail'[h] = Append(<< >>, sent) /\ \A y \in Handles \ {h} : rail'[y] = rail[y]
    BY <1>1, <1>3, <1>4
  <1>7. x = h
    BY <1>1, <1>6 DEF Sends
  <1>8. Len(rail'[h]) = 1 /\ rail'[h][1] = sent
    BY <1>6
  <1> QED BY <1>5, <1>7, <1>8

\* What authorize dispatches the policies allow without a human.
LEMMA AuthorizeAuthorized ==
    ASSUME SafeInv, NEW w \in Workers, Authorizes(w), NEW x \in Handles, Sends(x)
    PROVE  Authorized(x)
  <1> DEFINE h == handler[w].handle
             p == ProposalOf(h, handler[w].request)
             intent == IntentOf(p, handler[w].stamp)
  <1>1. rail' # rail
    BY DEF Sends, SafeInv, TypeOK
  <1>2. /\ Execute(w, h, intent, ALLOW, FALSE, Now(w))
        /\ Decided(w, ALLOW)
    BY <1>1 DEF Authorizes, RepeatAnswer, AuthorizeDenied, AuthorizeHeld,
       AuthorizeAllowed, stores
  <1>3. /\ Enter(w, "authorize")
        /\ DecideAt(ledger, p, Now(w)) = ALLOW
    BY <1>2 DEF Decided
  <1>4. h \in Handles /\ floor' = Now(w)
    BY <1>3, CallByVerb DEF Enter, SafeInv
  <1>5. intent.proposal = p
    BY DEF IntentOf
  <1> HIDE DEF h, p, intent
  <1>6. x = h /\ rail'[h][Len(rail'[h])].proposal = p
    BY <1>2, <1>4, <1>5, ExecuteSends
  <1> QED BY <1>3, <1>4, <1>6 DEF DecideAt, Authorized

\* What resolve dispatches a checker approved in time, under an approval not
\* spent before, and the policies do not deny.
LEMMA ResolveAuthorized ==
    ASSUME SafeInv, NEW w \in Workers, Resolves(w), NEW x \in Handles, Sends(x)
    PROVE  Authorized(x)
  <1> DEFINE h == handler[w].handle
             p == pending[h].proposal
             verdict == DecideAt(ledger, p, Now(w))
             intent == IntentOf(p, Now(w))
  <1>1. rail' # rail
    BY DEF Sends, SafeInv, TypeOK
  <1>2. ResolveGranted(w)
    BY <1>1 DEF Resolves, ResolveUnknown, ResolveDenied, ResolveMisdirected,
       ResolveEnded, stores
  <1>3. /\ Enter(w, "resolve")
        /\ h \in DOMAIN pending
        /\ verdict \in {ALLOW, REVIEW}
        /\ ConsumeResult(pending[h], handler[w].proposal, FALSE, handler[w].approved,
                         h \in consumed, Now(w)) = "granted"
        /\ Execute(w, h, intent, verdict, TRUE, Now(w))
    BY <1>2 DEF ResolveGranted, Redecided, Consumes
  <1>4. /\ h \notin consumed
        /\ ~(Now(w) >= pending[h].expires)
        /\ handler[w].proposal = p
        /\ handler[w].approved
    BY <1>3 DEF ConsumeResult
  <1>5. h \in Handles /\ floor' = Now(w) /\ handler[w] \in ResolveCall
           /\ Now(w) \in 0..MaxClock
    BY <1>3, CallByVerb DEF Enter, SafeInv
  <1>6. Now(w) < pending[h].expires
    BY <1>3, <1>4, <1>5 DEF SafeInv, TypeOK, Approval
  <1>7. intent.proposal = p /\ handler[w].handle = h
    BY DEF IntentOf
  <1>8. p = pending[h].proposal /\ verdict = Decide(p, Aggregate(ledger, AggregateKey(p), Now(w)))
    BY DEF DecideAt
  <1> HIDE DEF h, p, verdict, intent
  <1>9. x = h /\ rail'[h][Len(rail'[h])].proposal = p
    BY <1>3, <1>5, <1>7, ExecuteSends
  <1> QED BY <1>3, <1>4, <1>5, <1>6, <1>7, <1>8, <1>9 DEF Authorized

\* Every dispatch the service ever makes is within the machine's authority or
\* covered by one live, unspent approval of that very proposal.
THEOREM AuthorityToDispatch == Spec => DispatchIsAuthorized
  <1> DEFINE Always == \A h \in Handles : Sends(h) => Authorized(h)
  <1>1. ASSUME SafeInv, [Next]_vars, NEW h \in Handles, Sends(h)
        PROVE  Authorized(h)
    <2>1. rail' # rail
      BY <1>1 DEF Sends, SafeInv, TypeOK
    <2>2. CASE Tick \/ UNCHANGED vars
      BY <2>1, <2>2 DEF Tick, vars
    <2>3. ASSUME NEW w \in Workers, Arrives(w)
          PROVE  FALSE
      BY <2>1, <2>3 DEF Arrives, AgentCalls, RefuseUnmappable, CheckerCalls
    <2>4. ASSUME NEW w \in Workers, RailReturns(w)
          PROVE  FALSE
      <3>1. PICK status \in Statuses, moved \in BOOLEAN : RailAnswers(w, status, moved)
        BY <2>4 DEF RailReturns
      <3>2. rail \in [Handles -> Seq(RailCall)]
        BY <1>1 DEF SafeInv, TypeOK
      <3>3. Len(rail'[h]) = Len(rail[h])
        BY <3>1, <3>2 DEF RailAnswers
      <3> QED BY <1>1, <3>2, <3>3 DEF Sends
    <2> QED BY <1>1, <2>2, <2>3, <2>4, AuthorizeAuthorized, ResolveAuthorized DEF Next
  <1>2. SafeInv /\ [Next]_vars => Always
    BY <1>1
  <1>3. Spec => [][Always]_vars
    BY <1>2, SafeInvariant, PTL DEF Spec
  <1> QED BY <1>3 DEF DispatchIsAuthorized, Authorized
-----------------------------------------------------------------------------
\* The window.

\* A window of the ledger is finite and its entries' amounts are naturals.
LEMMA WindowIsFinite ==
    ASSUME NEW L \in Seq(Entry), NEW key, NEW t
    PROVE  /\ IsFiniteSet(InWindow(L, key, t))
           /\ \A i \in DOMAIN L : /\ Amounts(L)[i] = L[i].amount
                                  /\ L[i].amount \in Nat
                                  /\ L[i].at \in Int
           /\ Aggregate(L, key, t) \in Nat
  <1>1. \A i \in DOMAIN L : L[i] \in Entry
    OBVIOUS
  <1>2. \A i \in DOMAIN L : /\ Amounts(L)[i] = L[i].amount
                            /\ L[i].amount \in Nat
                            /\ L[i].at \in Int
    BY <1>1 DEF Amounts, Entry
  <1>3. IsFiniteSet(InWindow(L, key, t)) /\ InWindow(L, key, t) \subseteq DOMAIN L
    <2>1. DOMAIN L = 1..Len(L) /\ InWindow(L, key, t) \subseteq DOMAIN L
      BY DEF InWindow
    <2>2. IsFiniteSet(1..Len(L))
      BY FS_Interval
    <2> QED BY <2>1, <2>2, FS_Subset
  <1>4. Aggregate(L, key, t) \in Nat
    BY <1>2, <1>3, SumStep DEF Aggregate
  <1> QED BY <1>2, <1>3, <1>4

\* An entry of another key, or a later one, is not in the window, and the
\* window of a key no entry has is empty.
LEMMA WindowUndisturbed ==
    ASSUME NEW L \in Seq(Entry), NEW e \in Entry, NEW key, NEW t \in Int,
           e.key # key \/ t < e.at
    PROVE  Aggregate(Append(L, e), key, t) = Aggregate(L, key, t)
  <1> DEFINE L2 == Append(L, e)
  <1>1. /\ DOMAIN L2 = DOMAIN L \cup {Len(L) + 1}
        /\ L2[Len(L) + 1] = e
        /\ \A i \in DOMAIN L : L2[i] = L[i]
    OBVIOUS
  <1>2. e.at \in Int
    BY DEF Entry
  <1> HIDE DEF L2
  <1>3. InWindow(L2, key, t) = InWindow(L, key, t)
    BY <1>1, <1>2 DEF InWindow
  <1>4. \A i \in InWindow(L, key, t) :
           Amounts(L)[i] \in Nat /\ Amounts(L2)[i] = Amounts(L)[i]
    BY <1>1, WindowIsFinite DEF InWindow, Amounts
  <1>5. IsFiniteSet(InWindow(L, key, t))
    BY WindowIsFinite
  <1>6. SumFunctionOnSet(Amounts(L2), InWindow(L, key, t))
          = SumFunctionOnSet(Amounts(L), InWindow(L, key, t))
    BY <1>4, <1>5, SumCongruent
  <1> QED BY <1>3, <1>6 DEF Aggregate, L2

\* A window that holds the newest entry holds, of the others, no more than
\* the window the decision read: the floor keeps entries in order of time.
LEMMA WindowGrows ==
    ASSUME NEW L \in Seq(Entry), NEW e \in Entry, NEW t \in Int, e.at <= t,
           \A i \in DOMAIN L : L[i].at <= e.at
    PROVE  Aggregate(Append(L, e), e.key, t) <= Aggregate(L, e.key, e.at) + e.amount
  <1> DEFINE L2 == Append(L, e)
             n == Len(L) + 1
             W == InWindow(L, e.key, e.at)
             U == W \cup {n}
  <1>1. /\ DOMAIN L2 = DOMAIN L \cup {n}
        /\ L2[n] = e
        /\ \A i \in DOMAIN L : L2[i] = L[i]
        /\ n \notin DOMAIN L
    OBVIOUS
  <1>2. e.at \in Int /\ e.amount \in Nat
    BY DEF Entry
  <1>3. IsFiniteSet(W) /\ W \subseteq DOMAIN L
    <2>1. IsFiniteSet(W)
      BY WindowIsFinite
    <2> QED BY <2>1 DEF InWindow
  <1>4. /\ \A i \in DOMAIN L : /\ Amounts(L)[i] \in Nat
                               /\ Amounts(L2)[i] = Amounts(L)[i]
                               /\ L[i].at \in Int
        /\ Amounts(L2)[n] = e.amount
    <2>1. \A i \in DOMAIN L : /\ Amounts(L)[i] = L[i].amount
                              /\ L[i].amount \in Nat
                              /\ L[i].at \in Int
      BY WindowIsFinite
    <2> HIDE DEF L2, n
    <2> QED BY <1>1, <2>1 DEF Amounts
  <1> HIDE DEF L2, n
  <1>5. InWindow(L2, e.key, t) \subseteq U
    BY <1>1, <1>2, <1>4, DecisionPathAssumption DEF InWindow
  <1>6. IsFiniteSet(U) /\ U \ {n} = W /\ n \in U
    BY <1>1, <1>3, FS_AddElement
  <1>7. \A i \in U : Amounts(L2)[i] \in Nat
    BY <1>2, <1>3, <1>4
  <1> HIDE DEF U, W
  <1>8. SumFunctionOnSet(Amounts(L2), InWindow(L2, e.key, t))
          <= SumFunctionOnSet(Amounts(L2), U)
    BY <1>5, <1>6, <1>7, SumMonotone
  <1>9. SumFunctionOnSet(Amounts(L2), U) = e.amount + SumFunctionOnSet(Amounts(L2), W)
    <2>1. SumFunctionOnSet(Amounts(L2), U)
            = Amounts(L2)[n] + SumFunctionOnSet(Amounts(L2), U \ {n})
      BY <1>6, <1>7, SumRemove
    <2> QED BY <1>4, <1>6, <2>1
  <1>10. SumFunctionOnSet(Amounts(L2), W) = SumFunctionOnSet(Amounts(L), W)
    BY <1>3, <1>4, SumCongruent
  <1>11. Aggregate(L, e.key, e.at) = SumFunctionOnSet(Amounts(L), W)
           /\ Aggregate(L2, e.key, t) = SumFunctionOnSet(Amounts(L2), InWindow(L2, e.key, t))
    BY DEF Aggregate, W
  <1>12. L2 = Append(L, e)
    BY DEF L2
  <1>13. Aggregate(L, e.key, e.at) \in Nat
    BY WindowIsFinite
  <1> HIDE DEF Aggregate
  <1> DEFINE big == SumFunctionOnSet(Amounts(L2), U)
             now == SumFunctionOnSet(Amounts(L2), InWindow(L2, e.key, t))
             was == SumFunctionOnSet(Amounts(L), W)
  <1>14. now <= big /\ big = e.amount + was /\ was \in Nat
    BY <1>8, <1>9, <1>10, <1>11, <1>13
  <1>15. /\ Aggregate(L, e.key, e.at) = was
         /\ Aggregate(Append(L, e), e.key, t) = now
    BY <1>11, <1>12
  <1> HIDE DEF big, now, was
  <1>16. now <= was + e.amount
    BY <1>2, <1>14
  <1> QED BY <1>15, <1>16

\* What the policies do not deny fits every cap on its currency: the engine
\* takes the strictest judgement, so one DENY among them is enough.
LEMMA NotDeniedFits ==
    ASSUME NEW p, NEW spent, Decide(p, spent) # DENY,
           NEW l \in Limits, p.currency = l.currency
    PROVE  ~ (spent + p.amount > l.cap)
  <1> DEFINE S == {CurrencyCoverage(p)} \cup {AmountWindow(m, p, spent) : m \in Limits}
  <1>1. S \subseteq {0, 1, 2}
    BY DEF CurrencyCoverage, AmountWindow, ALLOW, REVIEW, DENY
  <1>2. ASSUME spent + p.amount > l.cap
        PROVE  DENY \in S
    BY <1>2 DEF AmountWindow
  <1> HIDE DEF S
  <1>3. ASSUME DENY \in S
        PROVE  Max(S) = DENY
    <2>1. \E x \in S : \A y \in S : x >= y
      BY <1>1, <1>3 DEF DENY
    <2>2. Max(S) \in S /\ \A y \in S : Max(S) >= y
      BY <2>1 DEF Max
    <2> QED BY <1>1, <1>3, <2>2 DEF DENY
  <1> QED BY <1>2, <1>3 DEF Decide, S

\* The inductive invariant behind WithinCap.  What is recorded was decided at
\* the floor, which no entry is later than, and against the ledger it is
\* recorded in: nothing is recorded while the rail works.
WindowInv ==
    /\ SafeInv
    /\ \A i \in DOMAIN ledger : ledger[i].at <= floor
    /\ lock # Free => DecideAt(ledger, lock.proposal, floor) # DENY
    /\ WithinCap

\* A spend that was not denied leaves every window within every cap.
LEMMA SpendFits ==
    ASSUME TypeOK, WithinCap, NEW p \in Proposals, NEW status, NEW now \in 0..MaxClock,
           \A i \in DOMAIN ledger : ledger[i].at <= now,
           DecideAt(ledger, p, now) # DENY,
           RecordSpend(p, status, now)
    PROVE  WithinCap' /\ \A i \in DOMAIN ledger' : ledger'[i].at <= now
  <1> DEFINE e == [key |-> AggregateKey(p), amount |-> p.amount, at |-> now]
  <1>1. ledger \in Seq(Entry)
    BY DEF TypeOK
  <1>2. e \in Entry /\ e.key = AggregateKey(p) /\ e.at = now /\ e.amount = p.amount
    BY ProposalFields DEF Entry
  <1>3. e.key[1] = p.currency
    BY DEF AggregateKey
  <1>4. CASE ledger' = ledger
    BY <1>4 DEF WithinCap
  <1>5. CASE ledger' = Append(ledger, e)
    <2> HIDE DEF e
    <2>1. /\ DOMAIN ledger' = DOMAIN ledger \cup {Len(ledger) + 1}
          /\ ledger'[Len(ledger) + 1] = e
          /\ \A i \in DOMAIN ledger : ledger'[i] = ledger[i]
      BY <1>1, <1>5
    <2>2. ASSUME NEW l \in Limits, NEW i \in DOMAIN ledger', NEW t \in 0..MaxClock,
                 ledger'[i].key[1] = l.currency
          PROVE  Aggregate(ledger', ledger'[i].key, t) <= l.cap
      <3> DEFINE key == ledger'[i].key
      <3>1. l.cap \in Nat
        BY DecisionPathAssumption DEF AmountLimit
      <3>2. CASE e.key # key \/ t < now
        <4>1. Aggregate(ledger', key, t) = Aggregate(ledger, key, t)
          BY <1>1, <1>2, <1>5, <3>2, WindowUndisturbed
        <4>2. CASE \E j \in DOMAIN ledger : ledger[j].key = key
          BY <2>2, <4>1, <4>2 DEF WithinCap
        <4>3. CASE ~ \E j \in DOMAIN ledger : ledger[j].key = key
          <5>1. InWindow(ledger, key, t) = {}
            BY <4>3 DEF InWindow
          <5>2. Aggregate(ledger, key, t) = 0
            BY <5>1, FS_EmptySet, SumStep DEF Aggregate
          <5> QED BY <3>1, <4>1, <5>2
        <4> QED BY <4>2, <4>3
      <3>3. CASE e.key = key /\ t >= now
        <4>1. Aggregate(ledger', key, t) <= Aggregate(ledger, key, now) + p.amount
          BY <1>1, <1>2, <1>5, <3>3, WindowGrows
        <4>2. ~ (Aggregate(ledger, key, now) + p.amount > l.cap)
          BY <1>2, <1>3, <2>2, <3>3, NotDeniedFits DEF DecideAt
        <4>3. Aggregate(ledger, key, now) \in Nat /\ Aggregate(ledger', key, t) \in Nat
          <5>1. ledger' \in Seq(Entry)
            BY <1>1, <1>2, <1>5
          <5> QED BY <1>1, <5>1, WindowIsFinite
        <4>4. p.amount \in Nat
          BY ProposalFields
        <4> QED BY <3>1, <4>1, <4>2, <4>3, <4>4
      <3> QED BY <3>2, <3>3
    <2>3. WithinCap'
      BY <2>2 DEF WithinCap
    <2> QED BY <1>2, <2>1, <2>3
  <1> QED BY <1>4, <1>5 DEF RecordSpend
\* What a step can do to the spend: nothing, send a payment the policies do
\* not deny, count one again whose key is already reserved, or conclude the
\* one in flight.
Rests ==
    /\ UNCHANGED <<ledger, outcomes, rail>>
    /\ lock' = Free \/ UNCHANGED <<lock, floor>>
SendsPayment(h, call) ==
    /\ h \notin DOMAIN outcomes
    /\ ~call.moved
    /\ outcomes' = Put(outcomes, h, "inflight")
    /\ rail' = [rail EXCEPT ![h] = Append(@, call)]
    /\ lock'.handle = h
    /\ lock'.proposal = call.proposal
    /\ call.at = floor'
    /\ ledger' = ledger
    /\ DecideAt(ledger, lock'.proposal, floor') # DENY
Recounts(p, status) ==
    /\ lock' = Free
    /\ UNCHANGED <<outcomes, rail>>
    /\ RecordSpend(p, status, floor')
    /\ DecideAt(ledger, p, floor') # DENY
EndsPayment(status, moved) ==
    LET h == lock.handle
    IN  /\ lock # Free
        /\ lock' = Free
        /\ floor' = floor
        /\ moved => Counts(status)
        /\ status = "success" => moved
        /\ outcomes' = Put(outcomes, h, status)
        /\ rail' = [rail EXCEPT ![h][1].answer = status, ![h][1].moved = moved]
        /\ RecordSpend(lock.proposal, status, floor)
Spends ==
    \/ Rests
    \/ \E h \in Handles, call \in RailCall : SendsPayment(h, call)
    \/ \E p \in Proposals, status \in Statuses : Recounts(p, status)
    \/ \E status \in Statuses, moved \in BOOLEAN : EndsPayment(status, moved)

\* An execution sends, or counts again what its key already holds.
LEMMA ExecuteSpends ==
    ASSUME SafeInv, NEW w, NEW h \in Handles, NEW p \in Proposals,
           NEW start \in 0..MaxClock, NEW verdict \in Verdicts, NEW granted,
           Execute(w, h, IntentOf(p, start), verdict, granted, floor'),
           floor' \in 0..MaxClock,
           DecideAt(ledger, p, floor') # DENY
    PROVE  Spends
  <1> DEFINE intent == IntentOf(p, start)
             call == [proposal |-> p, verdict |-> verdict, at |-> floor',
                      answer |-> "inflight", moved |-> FALSE]
             status == IF outcomes[h] = "inflight" THEN "unknown" ELSE outcomes[h]
  <1>1. intent.proposal = p
    BY DEF IntentOf
  <1>2. call \in RailCall /\ ~call.moved
    BY DEF RailCall
  <1>3. CASE /\ h \notin DOMAIN outcomes
             /\ outcomes' = Put(outcomes, h, "inflight")
             /\ rail' = [rail EXCEPT ![h] = Append(@, call)]
             /\ lock' = [worker |-> w, handle |-> h, proposal |-> p,
                         verdict |-> verdict, granted |-> granted]
             /\ ledger' = ledger
    <2>1. lock'.handle = h /\ lock'.proposal = p /\ call.proposal = p /\ call.at = floor'
      BY <1>3
    <2> HIDE DEF call
    <2> QED BY <1>2, <1>3, <2>1 DEF SendsPayment, Spends
  <1>4. CASE /\ h \in DOMAIN outcomes
             /\ RecordSpend(p, status, floor')
             /\ lock' = Free
             /\ UNCHANGED <<outcomes, rail>>
    <2>1. status \in Statuses
      BY <1>4 DEF SafeInv, TypeOK, Statuses
    <2> HIDE DEF status
    <2> QED BY <1>4, <2>1 DEF Recounts, Spends
  <1> QED BY <1>1, <1>3, <1>4 DEF Execute, Reserves, Settle, Leave

\* Every path through authorize has one of these effects.
LEMMA AuthorizeSpends ==
    ASSUME SafeInv, NEW w \in Workers, Authorizes(w)
    PROVE  floor' >= floor /\ Spends
  <1> DEFINE h == handler[w].handle
             p == ProposalOf(h, handler[w].request)
  <1>1. Enter(w, "authorize")
    BY DEF Authorizes, RepeatAnswer, AuthorizeDenied, AuthorizeHeld, AuthorizeAllowed,
           Decided
  <1>2. /\ handler[w] \in AuthorizeCall
        /\ floor' = Now(w)
        /\ floor' >= floor
        /\ floor' \in 0..MaxClock
    BY <1>1, CallByVerb DEF Enter, SafeInv
  <1>3. CASE lock' = Free /\ UNCHANGED <<ledger, outcomes, rail>>
    BY <1>2, <1>3 DEF Rests, Spends
  <1>4. CASE /\ Execute(w, h, IntentOf(p, handler[w].stamp), ALLOW, FALSE, Now(w))
             /\ Decided(w, ALLOW)
    <2>1. /\ h \in Handles
          /\ p \in Proposals
          /\ handler[w].stamp \in 0..MaxClock
          /\ ALLOW \in Verdicts
      BY <1>2, ProposalType DEF AuthorizeCall, Verdicts
    <2>2. DecideAt(ledger, p, floor') # DENY
      BY <1>2, <1>4 DEF Decided, ALLOW, DENY
    <2> HIDE DEF h, p
    <2> QED BY <1>2, <1>4, <2>1, <2>2, ExecuteSpends
  <1> QED BY <1>3, <1>4 DEF Authorizes, RepeatAnswer, AuthorizeDenied, AuthorizeHeld,
             AuthorizeAllowed, Settle, Leave, stores

\* So has every path through resolve: it decides the review again, and
\* executes none that the policies deny now.
LEMMA ResolveSpends ==
    ASSUME SafeInv, NEW w \in Workers, Resolves(w)
    PROVE  floor' >= floor /\ Spends
  <1> DEFINE h == handler[w].handle
             p == pending[h].proposal
             verdict == DecideAt(ledger, p, Now(w))
  <1>1. Enter(w, "resolve")
    BY DEF Resolves, ResolveUnknown, ResolveDenied, ResolveMisdirected, ResolveEnded,
           ResolveGranted, Redecided
  <1>2. /\ h \in Handles
        /\ Now(w) \in 0..MaxClock
        /\ floor' = Now(w)
        /\ floor' >= floor
    BY <1>1, CallByVerb DEF Enter, SafeInv
  <1>3. CASE lock' = Free /\ UNCHANGED <<ledger, outcomes, rail>>
    BY <1>2, <1>3 DEF Rests, Spends
  <1>4. CASE ResolveGranted(w)
    <2>1. /\ Execute(w, h, IntentOf(p, Now(w)), verdict, TRUE, Now(w))
          /\ verdict \in {ALLOW, REVIEW}
          /\ h \in DOMAIN pending
      BY <1>4 DEF ResolveGranted, Redecided
    <2>2. p \in Proposals
      BY <2>1 DEF SafeInv, TypeOK, Approval
    <2>3. verdict \in Verdicts /\ verdict # DENY
      BY <2>1 DEF Verdicts, ALLOW, REVIEW, DENY
    <2>4. DecideAt(ledger, p, floor') # DENY
      BY <1>2, <2>3
    <2> HIDE DEF h, p, verdict
    <2> QED BY <1>2, <2>1, <2>2, <2>3, <2>4, ExecuteSpends
  <1> QED BY <1>3, <1>4 DEF Resolves, ResolveUnknown, ResolveDenied, ResolveMisdirected,
             ResolveEnded, Leave, stores

\* So has every step, and the floor never runs backwards.
LEMMA StepSpends ==
    ASSUME SafeInv, [Next]_vars
    PROVE  floor' >= floor /\ Spends
  <1>1. floor \in 0..MaxClock
    BY DEF SafeInv, TypeOK
  <1>2. CASE UNCHANGED <<ledger, outcomes, rail, lock, floor>>
    BY <1>1, <1>2 DEF Rests, Spends
  <1>3. ASSUME NEW w \in Workers, Arrives(w)
        PROVE  UNCHANGED <<ledger, outcomes, rail, lock, floor>>
    BY <1>3 DEF Arrives, AgentCalls, RefuseUnmappable, CheckerCalls, stores
  <1>4. ASSUME NEW w \in Workers, RailReturns(w)
        PROVE  floor' >= floor /\ Spends
    <2>1. PICK status \in Statuses, moved \in BOOLEAN :
                 /\ status = "success" => moved
                 /\ status = "failure" => ~moved
                 /\ RailAnswers(w, status, moved)
      BY <1>4 DEF RailReturns
    <2>2. lock # Free /\ lock.handle \in Handles /\ lock.handle \in DOMAIN outcomes
      BY <2>1 DEF RailAnswers, SafeInv, TypeOK, LockHolder, Dispatching
    <2>3. Len(rail[lock.handle]) = 1
      BY <2>2, Zenon DEF SafeInv, KeysDescribeRail
    <2>4. moved => Counts(status)
      BY <2>1 DEF Counts
    <2>5. EndsPayment(status, moved)
      BY <2>1, <2>3, <2>4, Zenon DEF RailAnswers, EndsPayment, Settle, Leave
    <2>6. floor' >= floor
      BY <1>1, <2>1 DEF RailAnswers
    <2> QED BY <2>5, <2>6 DEF Spends
  <1>5. Tick \/ UNCHANGED vars => UNCHANGED <<ledger, outcomes, rail, lock, floor>>
    BY DEF Tick, vars, stores
  <1> QED BY <1>2, <1>3, <1>4, <1>5, AuthorizeSpends, ResolveSpends DEF Next

\* Every step keeps the windows within the caps.
LEMMA WindowStep == WindowInv /\ [Next]_vars => WindowInv'
  <1> SUFFICES ASSUME WindowInv, [Next]_vars PROVE WindowInv'
    OBVIOUS
  <1> DEFINE Past == \A i \in DOMAIN ledger : ledger[i].at <= floor
             Fits == lock # Free => DecideAt(ledger, lock.proposal, floor) # DENY
  <1>1. SafeInv /\ Past /\ Fits /\ WithinCap
    BY DEF WindowInv
  <1>2. SafeInv'
    BY <1>1, SafeStep
  <1>3. floor \in 0..MaxClock /\ floor' \in 0..MaxClock /\ ledger \in Seq(Entry)
    BY <1>1, <1>2 DEF SafeInv, TypeOK
  <1>4. floor' >= floor /\ Spends
    BY <1>1, StepSpends
  <1>5. \A i \in DOMAIN ledger : ledger[i].at <= floor'
    <2>1. \A i \in DOMAIN ledger : ledger[i].at \in Int
      BY <1>3, WindowIsFinite
    <2> QED BY <1>1, <1>3, <1>4, <2>1
  <1>6. CASE ledger' = ledger
    <2>1. Past' /\ WithinCap'
      BY <1>1, <1>5, <1>6 DEF WithinCap
    <2>2. Fits' => WindowInv'
      BY <1>2, <2>1 DEF WindowInv
    <2>3. CASE Rests
      <3>1. Fits'
        BY <1>1, <1>6, <2>3 DEF Rests, DecideAt, Aggregate
      <3> QED BY <2>2, <3>1
    <2>4. ASSUME NEW h \in Handles, NEW call \in RailCall, SendsPayment(h, call)
          PROVE  Fits'
      BY <1>6, <2>4 DEF SendsPayment
    <2>5. ASSUME NEW p, NEW status, Recounts(p, status)
          PROVE  Fits'
      BY <2>5 DEF Recounts
    <2>6. ASSUME NEW status, NEW moved, EndsPayment(status, moved)
          PROVE  Fits'
      BY <2>6 DEF EndsPayment
    <2> HIDE DEF Fits
    <2> QED BY <1>4, <2>2, <2>3, <2>4, <2>5, <2>6 DEF Spends
  <1>7. ASSUME NEW p \in Proposals, NEW status, RecordSpend(p, status, floor'),
               DecideAt(ledger, p, floor') # DENY, lock' = Free
        PROVE  WindowInv'
    <2>1. WithinCap' /\ Past'
      BY <1>1, <1>3, <1>5, <1>7, SpendFits DEF SafeInv
    <2> QED BY <1>2, <1>7, <2>1 DEF WindowInv
  <1>8. ASSUME NEW status \in Statuses, NEW moved \in BOOLEAN, EndsPayment(status, moved)
        PROVE  WindowInv'
    <2>1. /\ lock' = Free
          /\ floor' = floor
          /\ RecordSpend(lock.proposal, status, floor')
          /\ DecideAt(ledger, lock.proposal, floor') # DENY
      BY <1>1, <1>8 DEF EndsPayment
    <2>2. lock.proposal \in Proposals
      BY <1>1, <1>8 DEF EndsPayment, SafeInv, TypeOK, Dispatching
    <2> QED BY <1>7, <2>1, <2>2
  <1> HIDE DEF Past, Fits
  <1> QED BY <1>4, <1>6, <1>7, <1>8 DEF Spends, Rests, SendsPayment, Recounts

\* For any number of threads and requests, any limits and any window, and
\* however late a stamp enters the section: no trailing window ever holds
\* more spend than a limit on its currency allows.
THEOREM SpendWithinCap == Spec => []WithinCap
  <1>1. Init => WindowInv
    <2> SUFFICES ASSUME Init PROVE WindowInv
      OBVIOUS
    <2>1. lock = Free /\ ledger = << >>
      BY DEF Init
    <2> QED BY <2>1, InitSafe DEF WindowInv, WithinCap
  <1>2. WindowInv => WithinCap
    BY DEF WindowInv
  <1> QED BY <1>1, <1>2, WindowStep, PTL DEF Spec
-----------------------------------------------------------------------------
\* The spend.

\* The amounts of L's entries of a key at some times, together.
Booked(L, key, times) ==
    SumFunctionOnSet(Amounts(L), {i \in DOMAIN L : L[i].key = key /\ L[i].at \in times})

\* A new entry adds its amount to the totals of its own key and time, and to
\* no other.
LEMMA BookedGrows ==
    ASSUME NEW L \in Seq(Entry), NEW e \in Entry, NEW key, NEW times
    PROVE  /\ Booked(L, key, times) \in Nat
           /\ Booked(Append(L, e), key, times)
                = Booked(L, key, times)
                  + (IF e.key = key /\ e.at \in times THEN e.amount ELSE 0)
  <1> DEFINE L2 == Append(L, e)
             n == Len(L) + 1
             E == {i \in DOMAIN L : L[i].key = key /\ L[i].at \in times}
             E2 == {i \in DOMAIN L2 : L2[i].key = key /\ L2[i].at \in times}
  <1>1. /\ DOMAIN L2 = DOMAIN L \cup {n}
        /\ L2[n] = e
        /\ \A i \in DOMAIN L : L2[i] = L[i]
        /\ n \notin DOMAIN L
    OBVIOUS
  <1>2. \A i \in DOMAIN L : L[i].amount \in Nat
    <2>1. \A i \in DOMAIN L : L[i] \in Entry
      OBVIOUS
    <2> QED BY <2>1 DEF Entry
  <1>3. e.amount \in Nat
    BY DEF Entry
  <1>4. IsFiniteSet(DOMAIN L)
    <2>1. DOMAIN L = 1..Len(L)
      OBVIOUS
    <2> QED BY <2>1, FS_Interval
  <1>5. E2 = IF e.key = key /\ e.at \in times THEN E \cup {n} ELSE E
    <2> HIDE DEF L2, n
    <2> QED BY <1>1
  <1> DEFINE f == Amounts(L)
             g == Amounts(L2)
  <1>6. \A i \in E : f[i] \in Nat /\ g[i] = f[i]
    <2> HIDE DEF L2, n
    <2> QED BY <1>1, <1>2 DEF Amounts
  <1>7. g[n] = e.amount
    <2> HIDE DEF L2, n
    <2> QED BY <1>1 DEF Amounts
  <1>8. IsFiniteSet(E) /\ n \notin E
    BY <1>1, <1>4, FS_Subset
  <1>9. /\ Booked(L, key, times) = SumFunctionOnSet(f, E)
        /\ Booked(L2, key, times) = SumFunctionOnSet(g, E2)
    BY DEF Booked
  <1> HIDE DEF L2, n, E, E2, f, g
  <1>10. SumFunctionOnSet(f, E) \in Nat /\ SumFunctionOnSet(g, E) = SumFunctionOnSet(f, E)
    <2>1. SumFunctionOnSet(f, E) \in Nat
      BY <1>6, <1>8, SumStep
    <2>2. SumFunctionOnSet(g, E) = SumFunctionOnSet(f, E)
      BY <1>6, <1>8, SumCongruent
    <2> QED BY <2>1, <2>2
  <1>11. SumFunctionOnSet(g, E \cup {n}) = e.amount + SumFunctionOnSet(g, E)
    <2> DEFINE U == E \cup {n}
    <2>1. IsFiniteSet(U) /\ n \in U /\ U \ {n} = E
      BY <1>8, FS_AddElement
    <2>2. \A x \in U : g[x] \in Nat
      BY <1>3, <1>6, <1>7
    <2> HIDE DEF U
    <2>3. SumFunctionOnSet(g, U) = g[n] + SumFunctionOnSet(g, U \ {n})
      BY <2>1, <2>2, SumRemove
    <2> QED BY <1>7, <2>1, <2>3 DEF U
  <1>12. Booked(L2, key, times)
           = Booked(L, key, times) + (IF e.key = key /\ e.at \in times THEN e.amount ELSE 0)
    BY <1>3, <1>5, <1>9, <1>10, <1>11
  <1> QED BY <1>9, <1>10, <1>12 DEF L2

\* Recording a spend never lowers a key's total, and raises its own by the
\* amount whenever the money may have moved.
LEMMA SpendBooked ==
    ASSUME TypeOK, NEW p \in Proposals, NEW status, NEW now \in 0..MaxClock,
           RecordSpend(p, status, now), NEW key, NEW times
    PROVE  /\ Booked(ledger, key, times) \in Nat
           /\ Booked(ledger', key, times) \in Nat
           /\ Booked(ledger', key, times) >= Booked(ledger, key, times)
           /\ Counts(status) /\ key = AggregateKey(p) /\ now \in times
                => Booked(ledger', key, times) = Booked(ledger, key, times) + p.amount
  <1> DEFINE e == [key |-> AggregateKey(p), amount |-> p.amount, at |-> now]
  <1>1. /\ e \in Entry
        /\ e.key = AggregateKey(p)
        /\ e.amount = p.amount
        /\ e.at = now
        /\ p.amount \in Nat
    BY ProposalFields DEF Entry
  <1>2. ledger' = IF Counts(status) THEN Append(ledger, e) ELSE ledger
    BY DEF RecordSpend
  <1> HIDE DEF e
  <1>3. /\ Booked(ledger, key, times) \in Nat
        /\ Booked(Append(ledger, e), key, times)
             = Booked(ledger, key, times)
               + (IF e.key = key /\ e.at \in times THEN e.amount ELSE 0)
    BY <1>1, BookedGrows DEF TypeOK
  <1> QED BY <1>1, <1>2, <1>3

\* What the rail moved of a key at some times, payment by payment.
MovedAmounts(key, times) ==
    [h \in MovedAt(key, times) |-> rail[h][1].proposal.amount]

\* The inductive invariant behind SpendIsCounted.  A rail call that has not
\* been answered has moved nothing yet, the lock holds the proposal its answer
\* will be counted under, and the floor is still the time it was dispatched.
SpendInv ==
    /\ SafeInv
    /\ IsFiniteSet(DOMAIN outcomes)
    /\ \A h \in Handles :
          rail[h] # << >> /\ rail[h][1].moved => outcomes[h] # "inflight"
    /\ lock # Free => /\ rail[lock.handle][1].proposal = lock.proposal
                      /\ rail[lock.handle][1].at = floor
    /\ SpendIsCounted

\* Only keys that were reserved moved money, so there are finitely many.
LEMMA MovedIsFinite ==
    ASSUME SpendInv, NEW key, NEW times
    PROVE  /\ IsFiniteSet(MovedAt(key, times))
           /\ \A h \in MovedAt(key, times) : /\ h \in Handles
                                    /\ outcomes[h] # "inflight"
                                    /\ rail[h][1].proposal.amount \in Nat
           /\ SumFunction(MovedAmounts(key, times))
                = SumFunctionOnSet(MovedAmounts(key, times), MovedAt(key, times))
           /\ SumFunction(MovedAmounts(key, times)) \in Nat
  <1>1. MovedAt(key, times) \subseteq DOMAIN outcomes
    BY DEF MovedAt, SpendInv, SafeInv, KeysDescribeRail
  <1>2. IsFiniteSet(MovedAt(key, times))
    BY <1>1, FS_Subset DEF SpendInv
  <1>3. ASSUME NEW h \in MovedAt(key, times)
        PROVE  /\ h \in Handles
               /\ outcomes[h] # "inflight"
               /\ rail[h][1].proposal.amount \in Nat
    <2>1. h \in Handles /\ rail[h] # << >> /\ rail[h][1].moved
      BY <1>3 DEF MovedAt
    <2>2. rail[h] \in Seq(RailCall)
      BY <2>1 DEF SpendInv, SafeInv, TypeOK
    <2>3. rail[h][1] \in RailCall
      BY <2>1, <2>2
    <2>4. rail[h][1].proposal \in Proposals
      BY <2>3 DEF RailCall
    <2> QED BY <2>1, <2>4, ProposalFields DEF SpendInv
  <1>4. DOMAIN MovedAmounts(key, times) = MovedAt(key, times)
           /\ \A h \in MovedAt(key, times) : MovedAmounts(key, times)[h] \in Nat
    BY <1>3 DEF MovedAmounts
  <1>5. SumFunction(MovedAmounts(key, times))
          = SumFunctionOnSet(MovedAmounts(key, times), MovedAt(key, times))
    BY <1>4 DEF SumFunction
  <1>6. SumFunctionOnSet(MovedAmounts(key, times), MovedAt(key, times)) \in Nat
    BY <1>2, <1>4, SumStep
  <1> QED BY <1>2, <1>3, <1>5, <1>6
\* SpendIsCounted compares these two totals.
LEMMA CountedMeans ==
    SpendIsCounted <=>
        \A key \in {AggregateKey(p) : p \in Proposals}, times \in SUBSET (0..MaxClock) :
            SumFunction(MovedAmounts(key, times)) <= Booked(ledger, key, times)
  BY DEF SpendIsCounted, MovedMoney, MovedAmounts, Booked, EntriesAt

\* A step moves the money of at most the handle whose rail call it concludes.
LEMMA ConcludedMoves ==
    ASSUME SpendInv, NEW status \in Statuses, NEW moved \in BOOLEAN,
           EndsPayment(status, moved), NEW key, NEW times
    PROVE  LET h == lock.handle
               p == lock.proposal
           IN  /\ h \in Handles /\ h \notin MovedAt(key, times)
               /\ MovedAt(key, times)' = IF moved /\ AggregateKey(p) = key /\ floor \in times
                                  THEN MovedAt(key, times) \cup {h} ELSE MovedAt(key, times)
               /\ \A x \in Handles \ {h} : rail'[x] = rail[x]
               /\ rail'[h] # << >>
               /\ rail'[h][1].proposal = p
               /\ rail'[h][1].moved = moved
  <1> DEFINE h == lock.handle
             p == lock.proposal
             call == [[rail[h][1] EXCEPT !.answer = status] EXCEPT !.moved = moved]
  <1>1. /\ lock # Free
        /\ h \in Handles
        /\ h \in DOMAIN outcomes
        /\ outcomes[h] = "inflight"
    BY DEF EndsPayment, SpendInv, SafeInv, TypeOK, LockHolder, Dispatching
  <1>2. h \notin MovedAt(key, times)
    BY <1>1 DEF MovedAt, SpendInv
  <1>3. rail \in [Handles -> Seq(RailCall)] /\ rail[h] # << >> /\ Len(rail[h]) = 1
    BY <1>1, Zenon DEF SpendInv, SafeInv, TypeOK, KeysDescribeRail
  <1>4. rail[h][1] \in RailCall /\ rail[h] \in Seq(RailCall)
    BY <1>1, <1>3
  <1>5. rail[h][1].proposal = p /\ rail[h][1].at = floor
    BY <1>1 DEF SpendInv
  <1>6. /\ rail'[h] = [rail[h] EXCEPT ![1] = call]
        /\ \A x \in Handles \ {h} : rail'[x] = rail[x]
    BY <1>1, <1>3 DEF EndsPayment
  <1>7. call.proposal = p /\ call.at = floor /\ call.moved = moved
    BY <1>4, <1>5 DEF RailCall
  <1> HIDE DEF call
  <1>8. rail'[h] # << >> /\ rail'[h][1] = call
    BY <1>3, <1>4, <1>6
  <1>9. /\ rail'[h][1].proposal = p
        /\ rail'[h][1].at = floor
        /\ rail'[h][1].moved = moved
    BY <1>7, <1>8
  <1> HIDE DEF h, p
  <1>10. MovedAt(key, times)' = IF moved /\ AggregateKey(p) = key /\ floor \in times
                         THEN MovedAt(key, times) \cup {h} ELSE MovedAt(key, times)
    BY <1>1, <1>2, <1>6, <1>8, <1>9 DEF MovedAt
  <1> QED BY <1>1, <1>2, <1>6, <1>8, <1>9, <1>10 DEF h, p

\* Every step keeps the ledger at or above what the rail moved.
LEMMA SpendStep == SpendInv /\ [Next]_vars => SpendInv'
  <1> SUFFICES ASSUME SpendInv, [Next]_vars PROVE SpendInv'
    OBVIOUS
  <1> DEFINE Ended == \A h \in Handles :
                        rail[h] # << >> /\ rail[h][1].moved => outcomes[h] # "inflight"
             Held == lock # Free => /\ rail[lock.handle][1].proposal = lock.proposal
                                    /\ rail[lock.handle][1].at = floor
             Keys == {AggregateKey(p) : p \in Proposals}
             Times == SUBSET (0..MaxClock)
             Enough == \A key \in Keys, times \in Times :
                          SumFunction(MovedAmounts(key, times)) <= Booked(ledger, key, times)
  <1>1. /\ SafeInv
        /\ IsFiniteSet(DOMAIN outcomes)
        /\ Ended
        /\ Held
        /\ Enough
    BY CountedMeans DEF SpendInv
  <1>2. SafeInv' /\ Spends /\ floor' \in 0..MaxClock
    <2>1. SafeInv'
      BY <1>1, SafeStep
    <2> QED BY <1>1, <2>1, StepSpends DEF SafeInv, TypeOK
  <1>3. TypeOK /\ rail \in [Handles -> Seq(RailCall)] /\ ledger \in Seq(Entry)
    BY <1>1 DEF SafeInv, TypeOK
  <1>4. SUFFICES /\ IsFiniteSet(DOMAIN outcomes')
                 /\ Ended'
                 /\ Held'
                 /\ Enough'
    BY <1>2 DEF SpendInv, SpendIsCounted, MovedMoney, MovedAmounts, Booked, EntriesAt
  <1>5. ASSUME NEW key, NEW times, MovedAt(key, times)' = MovedAt(key, times),
               \A x \in MovedAt(key, times) : rail'[x][1].proposal = rail[x][1].proposal
        PROVE  MovedAmounts(key, times)' = MovedAmounts(key, times)
    BY <1>5 DEF MovedAmounts
  <1>6. CASE Rests
    <2>1. Ended' /\ Held' /\ IsFiniteSet(DOMAIN outcomes')
      BY <1>1, <1>6 DEF Rests
    <2>2. \A key, times : MovedAmounts(key, times)' = MovedAmounts(key, times)
      BY <1>6 DEF Rests, MovedAmounts, MovedAt
    <2> QED BY <1>1, <1>6, <2>1, <2>2 DEF Rests
  <1>7. ASSUME NEW h \in Handles, NEW call \in RailCall, SendsPayment(h, call)
        PROVE  /\ IsFiniteSet(DOMAIN outcomes')
               /\ Ended'
               /\ Held'
               /\ Enough'
    <2>1. /\ DOMAIN outcomes' = DOMAIN outcomes \cup {h}
          /\ \A x \in DOMAIN outcomes : outcomes'[x] = outcomes[x]
      BY <1>7 DEF SendsPayment, Put
    <2>2. rail[h] = << >>
      BY <1>1, <1>7 DEF SendsPayment, SafeInv, KeysDescribeRail
    <2>3. rail'[h] = <<call>> /\ \A x \in Handles \ {h} : rail'[x] = rail[x]
      <3>1. rail' = [rail EXCEPT ![h] = Append(@, call)]
        BY <1>7 DEF SendsPayment
      <3>2. rail'[h] = Append(<< >>, call)
        BY <1>3, <2>2, <3>1
      <3> QED BY <1>3, <3>1, <3>2
    <2>4. /\ ~rail'[h][1].moved
          /\ rail'[h][1].proposal = call.proposal
          /\ rail'[h][1].at = call.at
      BY <1>7, <2>3 DEF SendsPayment
    <2>5. IsFiniteSet(DOMAIN outcomes')
      BY <1>1, <2>1, FS_AddElement
    <2>6. Ended'
      <3>1. ASSUME NEW x \in Handles, x # h, rail'[x] # << >>, rail'[x][1].moved
            PROVE  outcomes'[x] # "inflight"
        BY <1>1, <2>1, <2>3, <3>1 DEF SafeInv, KeysDescribeRail
      <3> QED BY <2>4, <3>1
    <2>7. Held'
      BY <1>7, <2>4 DEF SendsPayment
    <2>8. ASSUME NEW key, NEW times
          PROVE  MovedAmounts(key, times)' = MovedAmounts(key, times)
      <3>1. MovedAt(key, times)' = MovedAt(key, times)
        BY <2>2, <2>3, <2>4 DEF MovedAt
      <3>2. \A x \in MovedAt(key, times) : rail'[x] = rail[x]
        BY <2>2, <2>3 DEF MovedAt
      <3> QED BY <1>5, <3>1, <3>2
    <2> QED BY <1>1, <1>7, <2>5, <2>6, <2>7, <2>8 DEF SendsPayment
  <1>8. ASSUME NEW p \in Proposals, NEW status \in Statuses, Recounts(p, status)
        PROVE  /\ IsFiniteSet(DOMAIN outcomes')
               /\ Ended'
               /\ Held'
               /\ Enough'
    <2>1. Ended' /\ Held' /\ IsFiniteSet(DOMAIN outcomes')
      BY <1>1, <1>8 DEF Recounts
    <2>2. ASSUME NEW key \in Keys, NEW times \in Times
          PROVE  SumFunction(MovedAmounts(key, times)') <= Booked(ledger', key, times)
      <3>1. MovedAmounts(key, times)' = MovedAmounts(key, times)
        BY <1>8 DEF Recounts, MovedAmounts, MovedAt
      <3>2. /\ Booked(ledger, key, times) \in Nat
            /\ Booked(ledger', key, times) \in Nat
            /\ Booked(ledger', key, times) >= Booked(ledger, key, times)
        BY <1>2, <1>3, <1>8, SpendBooked DEF Recounts
      <3>3. SumFunction(MovedAmounts(key, times)) \in Nat
        BY MovedIsFinite
      <3>4. SumFunction(MovedAmounts(key, times)) <= Booked(ledger, key, times)
        BY <1>1
      <3> QED BY <3>1, <3>2, <3>3, <3>4
    <2> QED BY <2>1, <2>2
  <1>9. ASSUME NEW status \in Statuses, NEW moved \in BOOLEAN, EndsPayment(status, moved)
        PROVE  /\ IsFiniteSet(DOMAIN outcomes')
               /\ Ended'
               /\ Held'
               /\ Enough'
    <2> DEFINE h == lock.handle
               p == lock.proposal
    <2>1. /\ lock # Free
          /\ lock' = Free
          /\ floor' = floor
          /\ outcomes' = Put(outcomes, h, status)
          /\ RecordSpend(p, status, floor')
          /\ moved => Counts(status)
      BY <1>9 DEF EndsPayment
    <2>2. p \in Proposals
      BY <1>3, <2>1 DEF TypeOK, Dispatching
    <2>3. /\ DOMAIN outcomes' = DOMAIN outcomes \cup {h}
          /\ outcomes'[h] = status
          /\ \A x \in DOMAIN outcomes \ {h} : outcomes'[x] = outcomes[x]
      BY <2>1 DEF Put
    <2>4. IsFiniteSet(DOMAIN outcomes')
      BY <1>1, <2>3, FS_AddElement
    <2>5. h \in Handles /\ \A x \in Handles \ {h} : rail'[x] = rail[x]
      BY <1>9, ConcludedMoves
    <2>6. Ended'
      <3>1. ASSUME NEW x \in Handles, x # h, rail'[x] # << >>, rail'[x][1].moved
            PROVE  outcomes'[x] # "inflight"
        BY <1>1, <2>3, <2>5, <3>1 DEF SafeInv, KeysDescribeRail
      <3> QED BY <2>3, <3>1 DEF Statuses
    <2>7. Held'
      BY <2>1
    <2>8. ASSUME NEW key \in Keys, NEW times \in Times
          PROVE  SumFunction(MovedAmounts(key, times)') <= Booked(ledger', key, times)
      <3> DEFINE M == MovedAt(key, times)
                 f == MovedAmounts(key, times)
                 g == MovedAmounts(key, times)'
                 was == SumFunctionOnSet(f, M)
      <3>1. /\ IsFiniteSet(M)
            /\ \A x \in M : x \in Handles /\ rail[x][1].proposal.amount \in Nat
            /\ SumFunction(f) = was
            /\ was \in Nat
        <4>1. /\ IsFiniteSet(MovedAt(key, times))
              /\ \A x \in MovedAt(key, times) :
                    x \in Handles /\ rail[x][1].proposal.amount \in Nat
              /\ SumFunction(MovedAmounts(key, times))
                    = SumFunctionOnSet(MovedAmounts(key, times), MovedAt(key, times))
              /\ SumFunction(MovedAmounts(key, times)) \in Nat
          BY MovedIsFinite
        <4> QED BY <4>1
      <3>2. /\ h \notin M
            /\ M' = IF moved /\ AggregateKey(p) = key /\ floor \in times THEN M \cup {h} ELSE M
            /\ rail'[h][1].proposal = p
        BY <1>9, ConcludedMoves
      <3>3. /\ Booked(ledger, key, times) \in Nat
            /\ Booked(ledger', key, times) \in Nat
            /\ Booked(ledger', key, times) >= Booked(ledger, key, times)
            /\ Counts(status) /\ key = AggregateKey(p) /\ floor' \in times
                 => Booked(ledger', key, times) = Booked(ledger, key, times) + p.amount
        BY <1>2, <1>3, <2>1, <2>2, SpendBooked
      <3>4. was <= Booked(ledger, key, times)
        BY <1>1, <3>1
      <3>5. CASE M' = M
        <4>1. g = f
          BY <1>5, <2>5, <3>1, <3>2, <3>5
        <4> HIDE DEF was
        <4> QED BY <3>1, <3>3, <3>4, <4>1
      <3>6. CASE moved /\ AggregateKey(p) = key /\ floor \in times
        <4> DEFINE U == M \cup {h}
        <4>1. M' = U
          BY <3>2, <3>6
        <4>2. /\ DOMAIN g = U
              /\ g[h] = p.amount
              /\ \A x \in M : g[x] = f[x] /\ f[x] \in Nat
          <5>1. g = [x \in M' |-> rail'[x][1].proposal.amount]
                   /\ f = [x \in M |-> rail[x][1].proposal.amount]
            BY DEF MovedAmounts
          <5> HIDE DEF M, f, g
          <5> QED BY <2>5, <3>1, <3>2, <4>1, <5>1
        <4>3. p.amount \in Nat
          BY <2>2, ProposalFields
        <4>4. IsFiniteSet(U) /\ h \in U /\ U \ {h} = M
          BY <3>1, <3>2, FS_AddElement
        <4>5. \A x \in U : g[x] \in Nat
          BY <4>2, <4>3
        <4>6. SumFunction(g) = SumFunctionOnSet(g, U)
          BY <4>2 DEF SumFunction
        <4> HIDE DEF U, M, f, g
        <4>7. SumFunctionOnSet(g, U) = g[h] + SumFunctionOnSet(g, U \ {h})
          BY <4>4, <4>5, SumRemove
        <4>8. SumFunctionOnSet(g, M) = was
          BY <3>1, <4>2, SumCongruent
        <4>9. SumFunction(g) = p.amount + was
          BY <4>2, <4>4, <4>6, <4>7, <4>8
        <4> HIDE DEF was
        <4>10. SumFunction(g) <= Booked(ledger', key, times)
          BY <2>1, <3>1, <3>3, <3>4, <3>6, <4>3, <4>9
        <4> QED BY <4>10 DEF g
      <3> QED BY <3>2, <3>5, <3>6
    <2> QED BY <2>4, <2>6, <2>7, <2>8
  <1> HIDE DEF Ended, Held
  <1> QED BY <1>2, <1>6, <1>7, <1>8, <1>9 DEF Spends

\* The invariant holds at every state the service reaches.
THEOREM SpendInvariant == Spec => []SpendInv
  <1>1. Init => SpendInv
    <2> SUFFICES ASSUME Init PROVE SpendInv
      OBVIOUS
    <2>1. /\ lock = Free
          /\ outcomes = << >>
          /\ ledger = << >>
          /\ rail = [h \in Handles |-> << >>]
      BY DEF Init
    <2>2. IsFiniteSet(DOMAIN outcomes)
      BY <2>1, FS_EmptySet
    <2>3. \A key, times : MovedAt(key, times) = {} /\ Booked(ledger, key, times) = 0
      <3>1. \A key, times : MovedAt(key, times) = {}
        BY <2>1 DEF MovedAt
      <3>2. ASSUME NEW key, NEW times
            PROVE  Booked(ledger, key, times) = 0
        <4>1. {i \in DOMAIN ledger : ledger[i].key = key /\ ledger[i].at \in times} = {}
          BY <2>1
        <4> QED BY <4>1, FS_EmptySet, SumStep DEF Booked
      <3> QED BY <3>1, <3>2
    <2>4. ASSUME NEW key, NEW times
          PROVE  SumFunction(MovedAmounts(key, times)) = 0
      <3>1. DOMAIN MovedAmounts(key, times) = {}
        BY <2>3 DEF MovedAmounts
      <3> QED BY <3>1, FS_EmptySet, SumStep DEF SumFunction
    <2>5. SpendIsCounted
      BY <2>3, <2>4, CountedMeans
    <2> QED BY <2>1, <2>2, <2>5, InitSafe DEF SpendInv
  <1> QED BY <1>1, SpendStep, PTL DEF Spec

\* For any number of threads and handles, and with an audit sink that may
\* fail at any write: the ledger holds, for every key, at least what the rail
\* moved under it, whether the rail's answer said so or was lost.
THEOREM MovedIsCounted == Spec => []SpendIsCounted
  <1>1. SpendInv => SpendIsCounted
    BY DEF SpendInv
  <1> QED BY <1>1, SpendInvariant, PTL

\* A trailing window of the ledger is its entries at the instants the window
\* spans, and so is what the rail moved in it.
LEMMA WindowIsCounted ==
    ASSUME SafeInv, SpendIsCounted, NEW p \in Proposals, NEW t \in 0..MaxClock
    PROVE  MovedMoney(AggregateKey(p), (t - WindowSeconds)..t)
             <= Aggregate(ledger, AggregateKey(p), t)
  <1> DEFINE key == AggregateKey(p)
             W == (t - WindowSeconds)..t
             times == W \cap (0..MaxClock)
  <1>1. t \in Int /\ t - WindowSeconds \in Int
    BY DecisionPathAssumption
  <1>2. MovedAt(key, W) = MovedAt(key, times)
    <2>1. ASSUME NEW h \in Handles, rail[h] # << >>
          PROVE  rail[h][1].at \in 0..MaxClock
      <3>1. rail[h] \in Seq(RailCall)
        BY DEF SafeInv, TypeOK
      <3>2. rail[h][1] \in RailCall
        BY <2>1, <3>1
      <3> QED BY <3>2 DEF RailCall
    <2> QED BY <2>1 DEF MovedAt
  <1>3. MovedMoney(key, W) = MovedMoney(key, times)
    BY <1>2 DEF MovedMoney
  <1>4. MovedMoney(key, times) <= SumFunctionOnSet(Amounts(ledger), EntriesAt(key, times))
    BY DEF SpendIsCounted
  <1>5. EntriesAt(key, times) = InWindow(ledger, key, t)
    <2>1. \A i \in DOMAIN ledger : ledger[i].at \in 0..MaxClock
      <3>1. ledger \in Seq(Entry)
        BY DEF SafeInv, TypeOK
      <3>2. \A i \in DOMAIN ledger : ledger[i] \in Entry
        BY <3>1
      <3> QED BY <3>2 DEF Entry
    <2>2. \A i \in DOMAIN ledger :
             ledger[i].at \in times <=> /\ t - WindowSeconds <= ledger[i].at
                                        /\ ledger[i].at <= t
      BY <1>1, <2>1
    <2> HIDE DEF times
    <2> QED BY <2>2 DEF EntriesAt, InWindow
  <1> HIDE DEF key, W, times
  <1>6. MovedMoney(key, W) <= Aggregate(ledger, key, t)
    BY <1>3, <1>4, <1>5 DEF Aggregate
  <1> QED BY <1>6 DEF key, W

\* For any number of threads, handles, retries and checkers, any limits and
\* any window, with a rail that may keep silent and a sink that may fail at
\* any write: in no trailing window does the rail move more under one key
\* than a limit on its currency allows.
THEOREM TheRailKeepsToTheCap == Spec => []MovedWithinCap
  <1>1. WithinCap /\ SpendInv => MovedWithinCap
    <2> SUFFICES ASSUME WithinCap, SpendInv,
                        NEW l \in Limits, NEW p \in Proposals, NEW t \in 0..MaxClock,
                        p.currency = l.currency
                 PROVE  MovedMoney(AggregateKey(p), (t - WindowSeconds)..t) <= l.cap
      BY DEF MovedWithinCap
    <2> DEFINE key == AggregateKey(p)
               spent == Aggregate(ledger, key, t)
               money == MovedMoney(key, (t - WindowSeconds)..t)
    <2>1. money <= spent
      BY WindowIsCounted DEF SpendInv
    <2>2. l.cap \in Nat
      BY DecisionPathAssumption DEF AmountLimit
    <2>3. spent <= l.cap
      <3>1. CASE \E i \in DOMAIN ledger : ledger[i].key = key
        BY <3>1 DEF WithinCap, AggregateKey
      <3>2. CASE ~ \E i \in DOMAIN ledger : ledger[i].key = key
        <4>1. InWindow(ledger, key, t) = {}
          BY <3>2 DEF InWindow
        <4>2. spent = 0
          BY <4>1, FS_EmptySet, SumStep DEF Aggregate
        <4> HIDE DEF spent
        <4> QED BY <2>2, <4>2
      <3> QED BY <3>1, <3>2
    <2>4. spent \in Nat
      BY WindowIsFinite DEF SpendInv, SafeInv, TypeOK
    <2>5. money \in Nat
      BY MovedIsFinite DEF MovedMoney, MovedAmounts
    <2> HIDE DEF key, spent, money
    <2>6. money <= l.cap
      BY <2>1, <2>2, <2>3, <2>4, <2>5
    <2> QED BY <2>6 DEF key, money
  <1> QED BY <1>1, SpendWithinCap, SpendInvariant, PTL

-----------------------------------------------------------------------------
\* A key that reads success is of a payment the rail moved.
ConfirmedHasMoved ==
    \A h \in DOMAIN outcomes : outcomes[h] = "success" => rail[h][1].moved

\* The rail's answer is the only step that makes a key read success.
LEMMA ConfirmedStep ==
    ASSUME SpendInv, ConfirmedHasMoved, [Next]_vars
    PROVE  ConfirmedHasMoved'
  <1>1. Spends /\ SafeInv
    BY StepSpends DEF SpendInv
  <1>2. DOMAIN outcomes \subseteq Handles /\ rail \in [Handles -> Seq(RailCall)]
    BY <1>1 DEF SafeInv, TypeOK
  <1>3. CASE UNCHANGED <<outcomes, rail>>
    BY <1>3 DEF ConfirmedHasMoved
  <1>4. ASSUME NEW h \in Handles, NEW call \in RailCall, SendsPayment(h, call)
        PROVE  ConfirmedHasMoved'
    <2>1. /\ DOMAIN outcomes' = DOMAIN outcomes \cup {h}
          /\ outcomes'[h] = "inflight"
          /\ \A x \in DOMAIN outcomes : x # h /\ outcomes'[x] = outcomes[x]
      BY <1>4 DEF SendsPayment, Put
    <2>2. \A x \in Handles \ {h} : rail'[x] = rail[x]
      BY <1>2, <1>4 DEF SendsPayment
    <2> QED BY <1>2, <2>1, <2>2 DEF ConfirmedHasMoved
  <1>5. ASSUME NEW status \in Statuses, NEW moved \in BOOLEAN, EndsPayment(status, moved)
        PROVE  ConfirmedHasMoved'
    <2> DEFINE h == lock.handle
    <2>1. /\ h \in Handles
          /\ \A x \in Handles \ {h} : rail'[x] = rail[x]
          /\ rail'[h][1].moved = moved
      BY <1>5, ConcludedMoves
    <2>2. /\ DOMAIN outcomes' = DOMAIN outcomes \cup {h}
          /\ outcomes'[h] = status
          /\ \A x \in DOMAIN outcomes \ {h} : outcomes'[x] = outcomes[x]
      BY <1>5 DEF EndsPayment, Put
    <2>3. status = "success" => moved
      BY <1>5 DEF EndsPayment
    <2> HIDE DEF h
    <2> QED BY <1>2, <2>1, <2>2, <2>3 DEF ConfirmedHasMoved
  <1> QED BY <1>1, <1>3, <1>4, <1>5 DEF Spends, Rests, Recounts

LEMMA ConfirmedMoves == Spec => []ConfirmedHasMoved
  <1>1. Init => ConfirmedHasMoved
    BY DEF Init, ConfirmedHasMoved
  <1> QED BY <1>1, ConfirmedStep, SpendInvariant, PTL DEF Spec

-----------------------------------------------------------------------------
\* The safety half of Drains.

\* Whatever the policies say, the strictest judgement is one of theirs and a
\* verdict.
Judgements(p, spent) ==
    {CurrencyCoverage(p)} \cup {AmountWindow(l, p, spent) : l \in Limits}

LEMMA DecisionType ==
    ASSUME NEW p, NEW spent
    PROVE  /\ Judgements(p, spent) \subseteq {0, 1, 2}
           /\ Decide(p, spent) \in Judgements(p, spent)
           /\ Decide(p, spent) \in Verdicts
           /\ \A y \in Judgements(p, spent) : y <= Decide(p, spent)
  <1> DEFINE S == {CurrencyCoverage(p)} \cup {AmountWindow(l, p, spent) : l \in Limits}
  <1>1. S \subseteq {0, 1, 2} /\ S # {}
    BY DEF CurrencyCoverage, AmountWindow, ALLOW, REVIEW, DENY
  <1> HIDE DEF S
  <1>2. \E x \in S : \A y \in S : x >= y
    <2>1. CASE 2 \in S
      BY <1>1, <2>1
    <2>2. CASE 2 \notin S /\ 1 \in S
      BY <1>1, <2>2
    <2>3. CASE 2 \notin S /\ 1 \notin S
      <3>1. S = {0}
        BY <1>1, <2>3
      <3> QED BY <3>1
    <2> QED BY <2>1, <2>2, <2>3
  <1>3. Max(S) \in S /\ \A y \in S : Max(S) >= y
    BY <1>2 DEF Max
  <1>4. Max(S) \in {0, 1, 2} /\ \A y \in S : y <= Max(S)
    BY <1>1, <1>3
  <1>5. Decide(p, spent) = Max(S)
    BY DEF Decide, S
  <1>6. Judgements(p, spent) = S
    BY DEF Judgements, S
  <1> QED BY <1>1, <1>3, <1>4, <1>5, <1>6 DEF Verdicts, ALLOW, REVIEW, DENY

\* For any workers, requests, limits and policies: a request that waits finds a
\* way through the section whenever the lock is free, and a lock that is taken
\* is held by a thread whose one rail call is still out.
THEOREM SomebodyCanGoOn == Spec => []NobodyIsStuck
  <1>1. ASSUME SafeInv, NEW w \in Workers, handler[w] # Idle
        PROVE  HasAWay(w)
    <2> DEFINE p == pending[handler[w].handle].proposal
               verdict == DecideAt(ledger, p, Now(w))
               intent == IntentOf(p, Now(w))
    <2>1. /\ verdict \in Verdicts
          /\ DecideAt(ledger, ProposalOf(handler[w].handle, handler[w].request), Now(w))
                \in Verdicts
      BY DecisionType DEF DecideAt
    <2>2. handler[w].verb = "authorize" \/ handler[w].verb = "resolve"
      BY <1>1 DEF SafeInv, TypeOK, AuthorizeCall, ResolveCall
    <2>3. Now(w) \in 0..MaxClock
      BY <1>1, CallByVerb DEF SafeInv
    <2>4. ASSUME verdict # DENY
          PROVE  ~GatewayRefuses(intent, intent, verdict, {p}, Now(w))
      <3>1. /\ intent.proposal = p
            /\ intent.not_before = Now(w)
            /\ intent.not_after = Now(w) + IntentTTL
        BY DEF IntentOf
      <3>2. Now(w) \in Nat /\ MaxClock \in Nat /\ IntentTTL \in Nat \ {0}
        BY <2>3, AuthorizationAssumption, DecisionPathAssumption
      <3>3. ~(Now(w) < intent.not_before) /\ ~(Now(w) >= intent.not_after)
        BY <3>1, <3>2
      <3> HIDE DEF intent, verdict, p
      <3> QED BY <2>4, <3>1, <3>3 DEF GatewayRefuses
    <2>5. verdict # DENY => verdict \in {ALLOW, REVIEW}
      BY <2>1 DEF Verdicts
    <2> HIDE DEF p, verdict, intent
    <2>6. verdict = DENY \/ /\ verdict \in {ALLOW, REVIEW}
                            /\ ~GatewayRefuses(intent, intent, verdict, {p}, Now(w))
      BY <2>4, <2>5
    <2> QED BY <2>1, <2>2, <2>6 DEF HasAWay, p, verdict, intent
  <1>2. ASSUME SafeInv, lock # Free
        PROVE  /\ lock.worker \in Workers
               /\ handler[lock.worker] # Idle
               /\ outcomes[lock.handle] = "inflight"
               /\ Len(rail[lock.handle]) = 1
    <2>1. lock.worker \in Workers /\ lock.handle \in Handles
      BY <1>2 DEF SafeInv, TypeOK, Dispatching
    <2>2. /\ handler[lock.worker] \in AuthorizeCall \cup ResolveCall
          /\ lock.handle \in DOMAIN outcomes
          /\ outcomes[lock.handle] = "inflight"
      BY <1>2 DEF SafeInv, LockHolder
    <2>3. Len(rail[lock.handle]) = 1
      BY <1>2, <2>1, <2>2 DEF SafeInv, KeysDescribeRail
    <2> QED BY <2>1, <2>2, <2>3, AuthorizationAssumption
  <1>3. SafeInv => NobodyIsStuck
    BY <1>1, <1>2 DEF NobodyIsStuck
  <1> QED BY <1>3, SafeInvariant, PTL

\* What EverySectionEnds asks of a worker's own section and of any step.
Ends(w) ==
    \/ lock' = Free /\ handler'[w] = Idle
    \/ lock = Free /\ lock' # Free /\ lock'.worker = w

\* A section frees the lock or keeps it for its own rail call, and answers no
\* request but its own.
LEMMA SectionEnds ==
    ASSUME SafeInv, NEW w \in Workers,
           Authorizes(w) \/ Resolves(w) \/ RailReturns(w)
    PROVE  /\ Ends(w)
           /\ handler' = handler \/ handler' = [handler EXCEPT ![w] = Idle]
  <1>1. handler \in [Workers -> {Idle} \cup AuthorizeCall \cup ResolveCall]
    BY DEF SafeInv, TypeOK
  <1>2. CASE Leave(w)
    BY <1>1, <1>2 DEF Leave, Ends
  <1>3. ASSUME lock = Free, NEW h \in Handles, NEW verdict \in Verdicts,
               NEW granted \in BOOLEAN, NEW intent, NEW now,
               intent.proposal \in Proposals,
               Execute(w, h, intent, verdict, granted, now)
        PROVE  Ends(w) /\ (handler' = handler \/ handler' = [handler EXCEPT ![w] = Idle])
    <2>1. CASE Leave(w)
      BY <1>2, <2>1
    <2>2. CASE /\ lock' = [worker |-> w, handle |-> h, proposal |-> intent.proposal,
                           verdict |-> verdict, granted |-> granted]
               /\ UNCHANGED handler
      <3>1. lock' \in Dispatching /\ lock'.worker = w
        BY <1>3, <2>2 DEF Dispatching
      <3> QED BY <1>3, <2>2, <3>1, AuthorizationAssumption DEF Ends
    <2> QED BY <1>3, <2>1, <2>2 DEF Execute, Settle
  <1>4. CASE Authorizes(w)
    <2> DEFINE h == handler[w].handle
               intent == IntentOf(ProposalOf(h, handler[w].request), handler[w].stamp)
    <2>1. CASE Execute(w, h, intent, ALLOW, FALSE, Now(w))
      <3>1. lock = Free /\ handler[w] \in AuthorizeCall
        BY <1>4, CallByVerb DEF Authorizes, RepeatAnswer, AuthorizeDenied,
           AuthorizeHeld, AuthorizeAllowed, Decided, Enter, SafeInv
      <3>2. h \in Handles /\ intent.proposal \in Proposals /\ ALLOW \in Verdicts
        BY <3>1, ProposalType DEF AuthorizeCall, IntentOf, Verdicts
      <3> QED BY <1>3, <2>1, <3>1, <3>2
    <2> QED BY <1>2, <1>4, <2>1 DEF Authorizes, RepeatAnswer, AuthorizeDenied,
               AuthorizeHeld, AuthorizeAllowed, Settle
  <1>5. CASE Resolves(w)
    <2> DEFINE h == handler[w].handle
               p == pending[h].proposal
               verdict == DecideAt(ledger, p, Now(w))
               intent == IntentOf(p, Now(w))
    <2>1. CASE ResolveGranted(w)
      <3>1. /\ Execute(w, h, intent, verdict, TRUE, Now(w))
            /\ Enter(w, "resolve")
            /\ verdict \in {ALLOW, REVIEW}
            /\ h \in DOMAIN pending
        BY <2>1 DEF ResolveGranted, Redecided
      <3>2. lock = Free /\ verdict \in Verdicts /\ h \in Handles
        BY <3>1, CallByVerb DEF Enter, Verdicts, SafeInv
      <3>3. intent.proposal \in Proposals
        BY <3>1 DEF IntentOf, SafeInv, TypeOK, Approval
      <3> HIDE DEF verdict, intent
      <3> QED BY <1>3, <3>1, <3>2, <3>3
    <2> QED BY <1>2, <1>5, <2>1 DEF Resolves, ResolveUnknown, ResolveDenied,
               ResolveMisdirected, ResolveEnded
  <1>6. CASE RailReturns(w)
    BY <1>2, <1>6 DEF RailReturns, RailAnswers, Settle
  <1> QED BY <1>4, <1>5, <1>6

\* No section ends with the lock taken unless its own rail call is out, and no
\* step answers another's request or starts one over: with SomebodyCanGoOn, all
\* of Drains but the fairness of the lock and the rail's timeout.
THEOREM SectionsEnd == Spec => EverySectionEnds
  <1> DEFINE Always == \A w \in Workers :
                 /\ Authorizes(w) \/ Resolves(w) \/ RailReturns(w) => Ends(w)
                 /\ handler[w] # Idle => handler'[w] \in {handler[w], Idle}
  <1>1. ASSUME SafeInv, [Next]_vars, NEW w \in Workers
        PROVE  handler[w] # Idle => handler'[w] \in {handler[w], Idle}
    <2>1. handler \in [Workers -> {Idle} \cup AuthorizeCall \cup ResolveCall]
      BY <1>1 DEF SafeInv, TypeOK
    <2>2. CASE handler' = handler
      BY <2>2
    <2>3. ASSUME NEW v \in Workers, Arrives(v)
          PROVE  handler[w] # Idle => handler'[w] = handler[w]
      BY <2>1, <2>3 DEF Arrives, AgentCalls, RefuseUnmappable, CheckerCalls
    <2>4. ASSUME NEW v \in Workers, Authorizes(v) \/ Resolves(v) \/ RailReturns(v)
          PROVE  handler'[w] \in {handler[w], Idle}
      <3>1. handler' = handler \/ handler' = [handler EXCEPT ![v] = Idle]
        BY <1>1, <2>4, SectionEnds
      <3> QED BY <2>1, <3>1
    <2> QED BY <1>1, <2>2, <2>3, <2>4 DEF Next, Tick, vars
  <1>2. SafeInv /\ [Next]_vars => [Always]_vars
    BY <1>1, SectionEnds
  <1>3. Spec => [][Always]_vars
    BY <1>2, SafeInvariant, PTL DEF Spec
  <1> QED BY <1>3 DEF EverySectionEnds, Ends

-----------------------------------------------------------------------------
\* Decisions against a window that only fills.

\* More spend in the window is never judged more leniently.
LEMMA MoreSpendIsNeverLaxer ==
    ASSUME NEW p \in Proposals, NEW m \in Nat, NEW n \in Nat, m <= n
    PROVE  Decide(p, m) <= Decide(p, n)
  <1>1. ASSUME NEW l \in Limits
        PROVE  AmountWindow(l, p, m) <= AmountWindow(l, p, n)
    <2>1. l.cap \in Nat /\ l.review \in Nat /\ l.review <= l.cap
      BY DecisionPathAssumption DEF AmountLimit
    <2>2. p.amount \in Nat
      BY ProposalFields
    <2> QED BY <2>1, <2>2 DEF AmountWindow, ALLOW, REVIEW, DENY
  <1>2. ASSUME NEW x \in Judgements(p, m)
        PROVE  x <= Decide(p, n)
    <2>1. /\ Decide(p, n) \in {0, 1, 2}
          /\ Judgements(p, m) \subseteq {0, 1, 2} /\ Judgements(p, n) \subseteq {0, 1, 2}
          /\ \A y \in Judgements(p, n) : y <= Decide(p, n)
      <3>1. Decide(p, n) \in Judgements(p, n)
        BY DecisionType
      <3> QED BY <3>1, DecisionType
    <2>2. \E y \in Judgements(p, n) : x <= y
      <3>1. CASE x = CurrencyCoverage(p)
        <4>1. x \in Judgements(p, n) /\ x \in {0, 1, 2}
          BY <2>1, <3>1 DEF Judgements
        <4> QED BY <4>1
      <3>2. CASE \E l \in Limits : x = AmountWindow(l, p, m)
        BY <1>1, <3>2 DEF Judgements
      <3> QED BY <1>2, <3>1, <3>2 DEF Judgements
    <2> QED BY <2>1, <2>2
  <1>3. Decide(p, m) \in Judgements(p, m)
    BY DecisionType
  <1> QED BY <1>2, <1>3

\* An entry that is added leaves no window with less in it.
LEMMA WindowNeverShrinks ==
    ASSUME NEW L \in Seq(Entry), NEW e \in Entry, NEW key, NEW t
    PROVE  Aggregate(L, key, t) <= Aggregate(Append(L, e), key, t)
  <1> DEFINE L2 == Append(L, e)
             W == InWindow(L, key, t)
             U == InWindow(L2, key, t)
  <1>1. L2 \in Seq(Entry) /\ DOMAIN L \subseteq DOMAIN L2 /\ \A i \in DOMAIN L : L2[i] = L[i]
    OBVIOUS
  <1> HIDE DEF L2
  <1>2. IsFiniteSet(U) /\ IsFiniteSet(W) /\ W \subseteq U
    <2>1. IsFiniteSet(InWindow(L2, key, t)) /\ IsFiniteSet(InWindow(L, key, t))
      BY <1>1, WindowIsFinite
    <2>2. W \subseteq U
      BY <1>1 DEF InWindow
    <2> QED BY <2>1, <2>2
  <1>3. \A i \in U : Amounts(L2)[i] \in Nat
    <2>1. \A i \in DOMAIN L2 : Amounts(L2)[i] = L2[i].amount /\ L2[i].amount \in Nat
      BY <1>1, WindowIsFinite
    <2>2. U \subseteq DOMAIN L2
      BY DEF InWindow
    <2> HIDE DEF U
    <2> QED BY <2>1, <2>2
  <1>4. \A i \in W : Amounts(L)[i] \in Nat /\ Amounts(L2)[i] = Amounts(L)[i]
    BY <1>1, WindowIsFinite DEF InWindow, Amounts
  <1> HIDE DEF W, U
  <1>5. SumFunctionOnSet(Amounts(L2), W) <= SumFunctionOnSet(Amounts(L2), U)
    BY <1>2, <1>3, SumMonotone
  <1>6. SumFunctionOnSet(Amounts(L2), W) = SumFunctionOnSet(Amounts(L), W)
    BY <1>2, <1>4, SumCongruent
  <1> QED BY <1>5, <1>6 DEF Aggregate, W, U, L2

\* For any limits, threads, reviews and answers: whatever is decided as of some
\* time is decided no more leniently as of that time ever after.
THEOREM DecisionsOnlyTighten == Spec => VerdictsOnlyTighten
  <1>1. ASSUME SafeInv, [Next]_vars, NEW p \in Proposals, NEW t \in 0..MaxClock
        PROVE  DecideAt(ledger, p, t) <= DecideAt(ledger', p, t)
    <2> DEFINE key == AggregateKey(p)
    <2>1. ledger \in Seq(Entry) /\ ledger' \in Seq(Entry)
      BY <1>1, SafeStep DEF SafeInv, TypeOK
    <2>2. ledger' = ledger \/ \E e \in Entry : ledger' = Append(ledger, e)
      <3>1. CASE ledger' = ledger
        BY <3>1
      <3>2. CASE ledger' # ledger
        <4>1. PICK e : ledger' = Append(ledger, e)
          BY <1>1, <3>2, StepSpends DEF Spends, Rests, SendsPayment, Recounts, EndsPayment,
             RecordSpend
        <4>2. e = ledger'[Len(ledger) + 1] /\ Len(ledger) + 1 \in DOMAIN ledger'
          BY <2>1, <4>1
        <4>3. e \in Entry
          BY <2>1, <4>2
        <4> QED BY <4>1, <4>3
      <3> QED BY <3>1, <3>2
    <2>3. /\ Aggregate(ledger, key, t) \in Nat /\ Aggregate(ledger', key, t) \in Nat
          /\ Aggregate(ledger, key, t) <= Aggregate(ledger', key, t)
      <3> HIDE DEF key
      <3>1. Aggregate(ledger, key, t) \in Nat /\ Aggregate(ledger', key, t) \in Nat
        BY <2>1, WindowIsFinite
      <3>2. Aggregate(ledger, key, t) <= Aggregate(ledger', key, t)
        <4>1. CASE ledger' = ledger
          BY <3>1, <4>1
        <4>2. ASSUME NEW e \in Entry, ledger' = Append(ledger, e)
              PROVE  Aggregate(ledger, key, t) <= Aggregate(ledger', key, t)
          BY <2>1, <4>2, WindowNeverShrinks
        <4> QED BY <2>2, <4>1, <4>2
      <3> QED BY <3>1, <3>2
    <2> QED BY <2>3, MoreSpendIsNeverLaxer DEF DecideAt
  <1>2. SafeInv /\ [Next]_vars
            => [ledger' # ledger
                => \A p \in Proposals, t \in 0..MaxClock :
                     DecideAt(ledger, p, t) <= DecideAt(ledger', p, t)]_vars
    BY <1>1
  <1> QED BY <1>2, SafeInvariant, PTL DEF Spec, VerdictsOnlyTighten
=============================================================================
