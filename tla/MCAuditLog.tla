------------------------------ MODULE MCAuditLog ------------------------------
(***************************************************************************)
(* Small instances of AuditLog over JsonlAuditSink for TLC.                *)
(***************************************************************************)
EXTENDS JsonlAuditSink, TLC

\* Every thread records with the one log object over the sink.
SameLog == [c \in Callers |-> CHOOSE l \in Logs : TRUE]

\* Bound on the length of the chain.
MaxEntries == 5
ShortChain == Len(entries) <= MaxEntries

\* The first receipts of a chain, for the kit.
Chain(n) == FoldLeft(LAMBDA chain, i : Append(chain, NextReceipt(chain, CHOOSE x \in Contents : TRUE)),
                     << >>, [i \in 1..n |-> i])

\* The sink passes the conformance kit.
ASSUME SinkIsCertified == \A n \in 0..3 : AuditSinkConformance(Chain(n))

\* A receipt that lost only its newline is read back; the next one, written with
\* success, joins its line: two receipts on one, which does not parse.
ASSUME LostNewlineSilences ==
    LET torn  == Written(Stored(Chain(1)), Chain(2)[2], FALSE)
        later == Written(torn, Chain(3)[3], TRUE)
    IN  /\ Readable(torn) /\ Entries(torn) = Chain(2)
        /\ Last(later).text = <<Chain(2)[2], Chain(3)[3]>>

Symmetry == Permutations(Callers) \cup Permutations(Contents)
=============================================================================
