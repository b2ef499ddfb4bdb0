------------------------------- MODULE AuditLog -------------------------------
(***************************************************************************)
(* The hash-chained audit trail: AuditLog.record over an append-only sink, *)
(* and verify_chain.                                                       *)
(*                                                                         *)
(* `record` reads the tail of the sink, builds the next receipt and        *)
(* appends it, under a lock that belongs to the AuditLog object.  Several  *)
(* objects may write to one sink.  The append may raise; a durable sink    *)
(* may by then have persisted the receipt or not.                          *)
(*                                                                         *)
(* SHA-256 is injective, so a hash is what it was computed from: the       *)
(* previous hash, extended by the sequence number and the content.         *)
(***************************************************************************)
EXTENDS Integers, SequencesExt

CONSTANTS
    Callers,        \* threads that record
    Logs,           \* AuditLog objects over the sink
    LogOf,          \* caller -> the object it records with
    Contents,       \* digest, verdict, reasons, outcome, approval, principal
    AppendMayFail,
    Idle, Free      \* a thread that is not recording; a lock with no holder

Hashes  == Seq(Nat \X Contents)
Receipt == [sequence: Nat, prev_hash: Hashes, content: Contents,
            receipt_hash: Hashes]

ASSUME AuditLogAssumption ==
    /\ LogOf \in [Callers -> Logs]
    /\ AppendMayFail \in BOOLEAN
    /\ Idle \notin Receipt
    /\ Free \notin Callers

VARIABLES
    entries,    \* what the sink holds
    lock,       \* log -> the caller in its critical section, or Free
    caller,     \* caller -> the receipt it has built and not yet appended
    returned    \* history: receipts that `record` returned

vars == <<entries, lock, caller, returned>>

-----------------------------------------------------------------------------
\* The chain.

GENESIS_HASH == << >>

\* _content_hash.  The Wrong... operators are plausible mistakes.
WrongContentHash(sequence, prev_hash, content) == Append(prev_hash, sequence)
ContentHash(sequence, prev_hash, content) ==
    Append(prev_hash, <<sequence, content>>)

HeadOf(chain) ==
    IF chain = << >> THEN GENESIS_HASH ELSE chain[Len(chain)].receipt_hash

NextReceipt(chain, content) ==
    [sequence |-> Len(chain), prev_hash |-> HeadOf(chain), content |-> content,
     receipt_hash |-> ContentHash(Len(chain), HeadOf(chain), content)]

\* verify_chain, link by link.
VerifyChain(chain) ==
    \A i \in DOMAIN chain :
        /\ chain[i].sequence = i - 1
        /\ chain[i].prev_hash =
              IF i = 1 THEN GENESIS_HASH ELSE chain[i - 1].receipt_hash
        /\ chain[i].receipt_hash =
              ContentHash(chain[i].sequence, chain[i].prev_hash, chain[i].content)

-----------------------------------------------------------------------------
Init ==
    /\ entries = << >>
    /\ lock = [l \in Logs |-> Free]
    /\ caller = [c \in Callers |-> Idle]
    /\ returned = {}

\* A caller enters its log's section and reads the tail it will extend.
WrongMayEnter(c) == TRUE
MayEnter(c) == lock[LogOf[c]] = Free

Derives(c, content) ==
    /\ caller[c] = Idle
    /\ MayEnter(c)
    /\ lock' = [lock EXCEPT ![LogOf[c]] = c]
    /\ caller' = [caller EXCEPT ![c] = NextReceipt(entries, content)]
    /\ UNCHANGED <<entries, returned>>

Leaves(c) ==
    /\ caller[c] # Idle
    /\ caller' = [caller EXCEPT ![c] = Idle]
    /\ lock' = [lock EXCEPT ![LogOf[c]] = Free]

Appends(c) ==
    /\ Leaves(c)
    /\ entries' = Append(entries, caller[c])
    /\ returned' = returned \cup {caller[c]}

\* The exception propagates; the sink may have kept the receipt.
AppendRaises(c) ==
    /\ AppendMayFail
    /\ Leaves(c)
    /\ entries' \in {entries, Append(entries, caller[c])}
    /\ UNCHANGED returned

Next ==
    \E c \in Callers :
        \/ \E content \in Contents : Derives(c, content)
        \/ Appends(c)
        \/ AppendRaises(c)

Spec == Init /\ [][Next]_vars

-----------------------------------------------------------------------------
\* Every variable holds what the code's types allow.
TypeOK ==
    /\ entries \in Seq(Receipt)
    /\ lock \in [Logs -> Callers \cup {Free}]
    /\ caller \in [Callers -> Receipt \cup {Idle}]
    /\ returned \subseteq Receipt

\* However many threads record and whichever append raises, before or after it
\* persisted, the sink holds an intact chain: no fork and no gap.
ChainVerifies == VerifyChain(entries)

\* A receipt that `record` returned is in the sink, at its place, for good.
ReturnedIsKept ==
    \A r \in returned :
        /\ r.sequence + 1 \in DOMAIN entries
        /\ entries[r.sequence + 1] = r

\* "A mid-chain removed, reordered, or edited receipt fails one of three checks",
\* the edited one even if its hash was computed anew.  What is left to whoever
\* holds the head is the tail: to drop it, or to write it again.
TamperIsDetected ==
    LET n == Len(entries)
        Edited(k, content) == [entries EXCEPT ![k].content = content]
        Rehashed(k, content) ==
            [entries EXCEPT ![k] = [@ EXCEPT !.content = content,
                !.receipt_hash =
                    ContentHash(entries[k].sequence, entries[k].prev_hash, content)]]
        Swapped(j, k) == [entries EXCEPT ![j] = entries[k], ![k] = entries[j]]
    IN  /\ \A i \in 1..(n - 1) : ~VerifyChain(RemoveAt(entries, i))
        /\ \A i, j \in 1..n : i # j => ~VerifyChain(Swapped(i, j))
        /\ \A i \in 1..n : \A content \in Contents \ {entries[i].content} :
              /\ ~VerifyChain(Edited(i, content))
              /\ i < n => ~VerifyChain(Rehashed(i, content))
=============================================================================
