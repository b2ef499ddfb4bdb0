---------------------------- MODULE AuditLogProofs ----------------------------
(***************************************************************************)
(* What TLAPS proves of one AuditLog over a sink, for every set of threads *)
(* and contents, every length of the chain, and a sink that may raise; and *)
(* of the file a JsonlAuditSink writes, for any number of AuditLogs.       *)
(***************************************************************************)
EXTENDS JsonlAuditSink, SequenceTheorems, TLAPS

USE AuditLogAssumption

\* Every thread records through the same AuditLog object.
OneLog == \A c, d \in Callers : LogOf[c] = LogOf[d]

\* A thread that has built a receipt holds the lock, and what it built is the
\* next link of the chain as it still is.
BuiltIsNext ==
    \A c \in Callers : caller[c] # Idle =>
        /\ lock[LogOf[c]] = c
        /\ \E content \in Contents : caller[c] = NextReceipt(entries, content)

ChainInv == TypeOK /\ BuiltIsNext /\ ChainVerifies /\ ReturnedIsKept

-----------------------------------------------------------------------------
\* The next link of a chain has the shape of a receipt.
LEMMA NextReceiptType ==
    ASSUME NEW chain \in Seq(Receipt), NEW content \in Contents
    PROVE  NextReceipt(chain, content) \in Receipt
  <1>1. HeadOf(chain) \in Hashes
    <2>1. CASE chain = << >>
      BY <2>1 DEF HeadOf, GENESIS_HASH, Hashes
    <2>2. CASE chain # << >>
      <3>1. chain[Len(chain)] \in Receipt
        BY <2>2
      <3> QED BY <2>2, <3>1 DEF HeadOf, Receipt
    <2> QED BY <2>1, <2>2
  <1>2. Len(chain) \in Nat
    OBVIOUS
  <1>3. ContentHash(Len(chain), HeadOf(chain), content) \in Hashes
    BY <1>1, <1>2 DEF ContentHash, Hashes
  <1> QED BY <1>1, <1>2, <1>3 DEF NextReceipt, Receipt

\* Appending the next link to an intact chain leaves an intact chain.
LEMMA AppendVerifies ==
    ASSUME NEW chain \in Seq(Receipt), VerifyChain(chain), NEW content \in Contents
    PROVE  VerifyChain(Append(chain, NextReceipt(chain, content)))
  <1> DEFINE r == NextReceipt(chain, content)
             longer == Append(chain, r)
             n == Len(chain)
  <1>1. /\ DOMAIN longer = 1..(n + 1)
        /\ \A i \in 1..n : longer[i] = chain[i]
        /\ longer[n + 1] = r
    BY NextReceiptType
  <1>2. ASSUME NEW i \in 1..n
        PROVE  /\ longer[i].sequence = i - 1
               /\ longer[i].prev_hash =
                     IF i = 1 THEN GENESIS_HASH ELSE longer[i - 1].receipt_hash
               /\ longer[i].receipt_hash =
                     ContentHash(longer[i].sequence, longer[i].prev_hash, longer[i].content)
    <2>1. i # 1 => i - 1 \in 1..n
      OBVIOUS
    <2>2. longer[i] = chain[i] /\ (i # 1 => longer[i - 1] = chain[i - 1])
      BY <1>1, <2>1
    <2> HIDE DEF longer
    <2> QED BY <2>2 DEF VerifyChain
  <1>3. /\ r.sequence = n
        /\ r.prev_hash = IF n + 1 = 1 THEN GENESIS_HASH ELSE longer[n].receipt_hash
        /\ r.receipt_hash = ContentHash(r.sequence, r.prev_hash, r.content)
    <2>1. n = 0 <=> chain = << >>
      OBVIOUS
    <2>2. n # 0 => longer[n] = chain[n]
      BY <1>1
    <2> QED BY <2>1, <2>2 DEF NextReceipt, HeadOf
  <1>4. n \in Nat
    OBVIOUS
  <1>5. VerifyChain(longer)
    <2> HIDE DEF longer, r
    <2> SUFFICES ASSUME NEW i \in 1..(n + 1)
                 PROVE  /\ longer[i].sequence = i - 1
                        /\ longer[i].prev_hash =
                              IF i = 1 THEN GENESIS_HASH ELSE longer[i - 1].receipt_hash
                        /\ longer[i].receipt_hash =
                              ContentHash(longer[i].sequence, longer[i].prev_hash,
                                          longer[i].content)
      BY <1>1 DEF VerifyChain
    <2> HIDE DEF n
    <2>1. CASE i \in 1..n
      BY <1>2, <2>1
    <2>2. CASE i = n + 1
      <3>1. i - 1 = n /\ longer[i] = r
        BY <1>1, <1>4, <2>2
      <3> QED BY <1>3, <2>2, <3>1
    <2> QED BY <1>4, <2>1, <2>2
  <1> QED BY <1>5

-----------------------------------------------------------------------------
\* The chain stays intact, and what was returned stays in it, for one log.
THEOREM ChainInvariant ==
    ASSUME OneLog
    PROVE  Spec => []ChainInv
  <1>1. Init => ChainInv
    BY DEF Init, ChainInv, TypeOK, BuiltIsNext, ChainVerifies, VerifyChain, ReturnedIsKept
  <1>2. ChainInv /\ [Next]_vars => ChainInv'
    <2> SUFFICES ASSUME ChainInv, [Next]_vars
                 PROVE  ChainInv'
      OBVIOUS
    <2> USE DEF ChainInv
    <2>1. ASSUME NEW c \in Callers, NEW content \in Contents, Derives(c, content)
          PROVE  ChainInv'
      <3>1. NextReceipt(entries, content) \in Receipt
        BY NextReceiptType DEF TypeOK
      <3>2. TypeOK'
        BY <2>1, <3>1 DEF Derives, TypeOK
      <3>3. \A d \in Callers \ {c} : caller'[d] = Idle
        BY <2>1 DEF Derives, MayEnter, BuiltIsNext, OneLog, TypeOK
      <3>4. BuiltIsNext'
        BY <2>1, <3>3 DEF Derives, BuiltIsNext, TypeOK
      <3> QED BY <2>1, <3>2, <3>4 DEF Derives, ChainVerifies, ReturnedIsKept
    <2>2. ASSUME NEW c \in Callers, Leaves(c),
                 entries' \in {entries, Append(entries, caller[c])},
                 returned' \subseteq returned \cup {caller[c]},
                 caller[c] \in returned' \ returned
                    => entries' = Append(entries, caller[c])
          PROVE  ChainInv'
      <3>1. caller[c] \in Receipt
        BY <2>2 DEF Leaves, TypeOK
      <3>2. TypeOK'
        BY <2>2, <3>1 DEF Leaves, TypeOK
      <3>3. BuiltIsNext'
        <4>1. \A d \in Callers : caller'[d] = Idle
          BY <2>2 DEF Leaves, BuiltIsNext, OneLog, TypeOK
        <4> QED BY <4>1 DEF BuiltIsNext
      <3>4. PICK content \in Contents : caller[c] = NextReceipt(entries, content)
        BY <2>2 DEF Leaves, BuiltIsNext
      <3>5. ChainVerifies'
        <4>1. VerifyChain(entries) /\ entries \in Seq(Receipt)
          BY DEF ChainVerifies, TypeOK
        <4>2. VerifyChain(Append(entries, caller[c]))
          BY <3>4, <4>1, AppendVerifies
        <4>3. CASE entries' = entries
          BY <4>1, <4>3 DEF ChainVerifies
        <4>4. CASE entries' = Append(entries, caller[c])
          BY <4>2, <4>4 DEF ChainVerifies
        <4> QED BY <2>2, <4>3, <4>4
      <3>6. \A i \in DOMAIN entries : i \in DOMAIN entries' /\ entries'[i] = entries[i]
        BY <2>2, <3>1 DEF TypeOK
      <3>7. caller[c].sequence = Len(entries)
        BY <3>4 DEF NextReceipt
      <3>8. ReturnedIsKept'
        <4> SUFFICES ASSUME NEW r \in returned'
                     PROVE  /\ r.sequence + 1 \in DOMAIN entries'
                            /\ entries'[r.sequence + 1] = r
          BY DEF ReturnedIsKept
        <4>1. CASE r \in returned
          BY <3>6, <4>1 DEF ReturnedIsKept
        <4>2. CASE r \notin returned
          <5>1. r = caller[c] /\ entries' = Append(entries, caller[c])
            BY <2>2, <4>2
          <5> QED BY <5>1, <3>1, <3>7 DEF TypeOK
        <4> QED BY <4>1, <4>2
      <3> QED BY <3>2, <3>3, <3>5, <3>8
    <2>3. ASSUME NEW c \in Callers, Appends(c) \/ AppendRaises(c)
          PROVE  ChainInv'
      BY <2>2, <2>3 DEF Appends, AppendRaises
    <2>4. CASE UNCHANGED vars
      BY <2>4 DEF vars, TypeOK, BuiltIsNext, ChainVerifies, VerifyChain, ReturnedIsKept
    <2> QED BY <2>1, <2>3, <2>4 DEF Next
  <1> QED BY <1>1, <1>2, PTL DEF Spec

\* Every variable keeps its type.
THEOREM TypeCorrect == ASSUME OneLog PROVE Spec => []TypeOK
  BY ChainInvariant, PTL DEF ChainInv

\* A sink written through one AuditLog holds an intact chain at every moment,
\* whatever its appends do.
THEOREM ChainIsIntact == ASSUME OneLog PROVE Spec => []ChainVerifies
  BY ChainInvariant, PTL DEF ChainInv

\* No receipt that was returned is ever lost or moved.
THEOREM ReturnedStays == ASSUME OneLog PROVE Spec => []ReturnedIsKept
  BY ChainInvariant, PTL DEF ChainInv

-----------------------------------------------------------------------------
\* What a verifying chain rules out, one change at a time.

\* Two contents never have one hash under the same number and predecessor.
LEMMA ContentHashInjective ==
    ASSUME NEW s \in Nat, NEW h \in Hashes,
           NEW a \in Contents, NEW b \in Contents, a # b
    PROVE  ContentHash(s, h, a) # ContentHash(s, h, b)
  <1> DEFINE H(x) == Append(h, <<s, x>>)
  <1>1. \A x \in Contents : H(x)[Len(h) + 1] = <<s, x>>
    BY DEF Hashes
  <1>2. H(a) # H(b)
    BY <1>1
  <1> QED BY <1>2 DEF ContentHash

\* An intact chain detects a removed, reordered or edited receipt.
LEMMA IntactDetects ==
    ASSUME TypeOK, ChainVerifies
    PROVE  TamperIsDetected
  <1> DEFINE n == Len(entries)
  <1>1. /\ entries \in Seq(Receipt)
        /\ n \in Nat
        /\ \A i \in 1..n : entries[i] \in Receipt /\ entries[i].sequence = i - 1
    BY DEF TypeOK, ChainVerifies, VerifyChain
  <1>2. ASSUME NEW i \in 1..(n - 1)
        PROVE  ~VerifyChain(RemoveAt(entries, i))
    <2> DEFINE shorter == RemoveAt(entries, i)
    <2>1. i \in DOMAIN shorter /\ shorter[i] = entries[i + 1]
      BY <1>1 DEF RemoveAt
    <2>2. shorter[i].sequence = i
      BY <1>1, <2>1
    <2> HIDE DEF shorter
    <2>3. ~VerifyChain(shorter)
      BY <2>1, <2>2 DEF VerifyChain
    <2> QED BY <2>3 DEF shorter
  <1>3. ASSUME NEW i \in 1..n, NEW j \in 1..n, i # j
        PROVE  ~VerifyChain([entries EXCEPT ![i] = entries[j], ![j] = entries[i]])
    <2> DEFINE swapped == [entries EXCEPT ![i] = entries[j], ![j] = entries[i]]
    <2>1. i \in DOMAIN swapped /\ swapped[i] = entries[j]
      BY <1>1, <1>3
    <2>2. swapped[i].sequence # i - 1
      BY <1>1, <1>3, <2>1
    <2> HIDE DEF swapped
    <2>3. ~VerifyChain(swapped)
      BY <2>1, <2>2 DEF VerifyChain
    <2> QED BY <2>3 DEF swapped
  <1>4. ASSUME NEW i \in 1..n, NEW content \in Contents \ {entries[i].content}
        PROVE  /\ entries[i].receipt_hash =
                     ContentHash(entries[i].sequence, entries[i].prev_hash,
                                 entries[i].content)
               /\ entries[i].receipt_hash #
                     ContentHash(entries[i].sequence, entries[i].prev_hash, content)
    <2>1. entries[i].receipt_hash =
             ContentHash(entries[i].sequence, entries[i].prev_hash, entries[i].content)
      BY <1>1 DEF ChainVerifies, VerifyChain
    <2>2. /\ entries[i].sequence \in Nat /\ entries[i].prev_hash \in Hashes
          /\ entries[i].content \in Contents
      BY <1>1 DEF Receipt
    <2> QED BY <2>1, <2>2, ContentHashInjective
  <1>5. ASSUME NEW i \in 1..n, NEW content \in Contents \ {entries[i].content}
        PROVE  ~VerifyChain([entries EXCEPT ![i].content = content])
    <2> DEFINE edited == [entries EXCEPT ![i].content = content]
    <2>1. /\ i \in DOMAIN edited
          /\ edited[i] = [entries[i] EXCEPT !.content = content]
      BY <1>1
    <2>2. /\ edited[i].content = content
          /\ edited[i].sequence = entries[i].sequence
          /\ edited[i].prev_hash = entries[i].prev_hash
          /\ edited[i].receipt_hash = entries[i].receipt_hash
      BY <1>1, <2>1 DEF Receipt
    <2> HIDE DEF edited
    <2>3. edited[i].receipt_hash #
             ContentHash(edited[i].sequence, edited[i].prev_hash, edited[i].content)
      <3>1. entries[i].receipt_hash #
               ContentHash(entries[i].sequence, entries[i].prev_hash, content)
        BY <1>4
      <3> QED BY <2>2, <3>1
    <2>4. i \in DOMAIN edited
      BY <2>1
    <2>5. ~VerifyChain(edited)
      BY <2>3, <2>4 DEF VerifyChain
    <2> QED BY <2>5 DEF edited
  <1>6. ASSUME NEW i \in 1..n, NEW content \in Contents \ {entries[i].content}, i < n
        PROVE  ~VerifyChain([entries EXCEPT ![i] = [@ EXCEPT !.content = content,
                   !.receipt_hash = ContentHash(entries[i].sequence,
                                                entries[i].prev_hash, content)]])
    <2> DEFINE hash == ContentHash(entries[i].sequence, entries[i].prev_hash, content)
               rehashed == [entries EXCEPT ![i] =
                   [@ EXCEPT !.content = content, !.receipt_hash = hash]]
    <2>1. /\ i + 1 \in DOMAIN rehashed
          /\ i + 1 # 1 /\ i + 1 - 1 = i
          /\ rehashed[i].receipt_hash = hash
          /\ rehashed[i + 1] = entries[i + 1]
      <3> HIDE DEF hash
      <3> QED BY <1>1, <1>6 DEF Receipt
    <2>2. entries[i + 1].prev_hash = entries[i].receipt_hash
      BY <1>1, <1>6 DEF ChainVerifies, VerifyChain
    <2>3. entries[i].receipt_hash # hash
      BY <1>4
    <2> HIDE DEF rehashed, hash
    <2>4. ~VerifyChain(rehashed)
      BY <2>1, <2>2, <2>3 DEF VerifyChain
    <2> QED BY <2>4 DEF rehashed, hash
  <1> QED BY <1>2, <1>3, <1>5, <1>6 DEF TamperIsDetected

\* Whatever is in the sink, removing, swapping or editing a receipt shows.
THEOREM TamperingShows == ASSUME OneLog PROVE Spec => []TamperIsDetected
  BY ChainInvariant, IntactDetects, PTL DEF ChainInv
-----------------------------------------------------------------------------
\* The file: every line holds some text, and while all of it parses it is the
\* receipts that reached it.
HasLines(f) == f \in Seq(Line) /\ \A i \in DOMAIN f : f[i].text # << >>

Lines == HasLines(file)

FileInv == TypeOK /\ Lines /\ TrailIsWholeOrRefused

\* A write onto a file can leave it readable in one way only: it was readable,
\* the receipt is whole, and it has a line of its own.
LEMMA WrittenReads ==
    ASSUME NEW f, HasLines(f), NEW piece \in Receipt \cup {Part},
           NEW ended \in BOOLEAN
    PROVE  /\ HasLines(Written(f, piece, ended))
           /\ Readable(Written(f, piece, ended)) =>
                 /\ Readable(f) /\ piece # Part
                 /\ Written(f, piece, ended)
                       = Append(f, [text |-> <<piece>>, ended |-> ended])
  <1> DEFINE own == [text |-> <<piece>>, ended |-> ended]
             n == Len(f)
  <1>0. f \in Seq(Line) /\ \A i \in DOMAIN f : f[i].text # << >>
    BY DEF HasLines
  <1>1. CASE f = << >> \/ Last(f).ended
    <2>1. /\ own \in Line
          /\ own.text # << >> /\ Len(own.text) = 1 /\ own.text[1] = piece
      BY DEF Line
    <2>2. Written(f, piece, ended) = Append(f, own)
      BY <1>1 DEF Written
    <2> HIDE DEF own
    <2> DEFINE g == Append(f, own)
    <2>3. /\ g \in Seq(Line) /\ DOMAIN g = 1..(n + 1) /\ DOMAIN f = 1..n
          /\ \A i \in 1..n : g[i] = f[i]
          /\ g[n + 1] = own
      BY <1>0, <2>1
    <2>4. \A i \in DOMAIN g : i \in 1..n \/ i = n + 1
      BY <2>3
    <2>5. n + 1 \in DOMAIN g /\ \A i \in 1..n : i \in DOMAIN g
      BY <2>3
    <2> HIDE DEF g
    <2>6. \A i \in DOMAIN g : g[i].text # << >>
      BY <1>0, <2>1, <2>3, <2>4
    <2>7. Readable(g) => Readable(f) /\ piece # Part
      BY <2>1, <2>3, <2>5 DEF Readable
    <2> QED BY <2>2, <2>3, <2>6, <2>7 DEF g, own, HasLines
  <1>2. CASE ~(f = << >> \/ Last(f).ended)
    <2> DEFINE t == Last(f).text
               joined == [text |-> Append(t, piece), ended |-> ended]
               g == Append(Front(f), joined)
    <2>1. n \in Nat \ {0} /\ n \in DOMAIN f /\ Last(f) = f[n]
      BY <1>0, <1>2 DEF Last
    <2>2. Last(f) \in Line /\ Last(f).text # << >>
      BY <1>0, <2>1
    <2>3. joined \in Line /\ Len(joined.text) # 1 /\ joined.text # << >>
      <3>1. t \in Seq(Receipt \cup {Part}) /\ t # << >>
        BY <2>2 DEF Line
      <3> HIDE DEF t
      <3>2. Len(t) \in Nat \ {0}
        BY <3>1
      <3>3. /\ Append(t, piece) \in Seq(Receipt \cup {Part})
            /\ Len(Append(t, piece)) = Len(t) + 1
        BY <3>1
      <3>4. Append(t, piece) # << >>
        BY <3>1, <3>2, <3>3
      <3> QED BY <3>2, <3>3, <3>4 DEF Line
    <2>4. /\ Front(f) \in Seq(Line) /\ Len(Front(f)) = n - 1
          /\ \A i \in 1..(n - 1) : Front(f)[i] = f[i]
      <3>1. Front(f) = [i \in 1..(n - 1) |-> f[i]]
        BY <1>0, <2>1 DEF Front
      <3>2. \A i \in 1..(n - 1) : f[i] \in Line
        BY <1>0, <2>1
      <3> QED BY <2>1, <3>1, <3>2
    <2> HIDE DEF joined
    <2>5. /\ g \in Seq(Line) /\ DOMAIN g = 1..n /\ g[n] = joined
          /\ \A i \in 1..(n - 1) : g[i] = f[i]
      BY <2>1, <2>3, <2>4
    <2>6. Written(f, piece, ended) = g
      BY <1>2 DEF Written, joined
    <2> HIDE DEF g
    <2>7. ~Readable(g)
      BY <2>1, <2>3, <2>5 DEF Readable
    <2>8. \A i \in DOMAIN g : g[i].text # << >>
      <3>1. \A i \in DOMAIN g : i \in 1..(n - 1) \/ i = n
        BY <2>1, <2>5
      <3>2. \A i \in 1..(n - 1) : i \in DOMAIN f
        BY <1>0, <2>1
      <3> QED BY <1>0, <2>3, <2>5, <3>1, <3>2
    <2> QED BY <2>5, <2>6, <2>7, <2>8 DEF HasLines
  <1> QED BY <1>1, <1>2

\* Intervals from 1 are told apart by their ends.
LEMMA SameInterval ==
    ASSUME NEW m \in Nat, NEW n \in Nat, 1..m = 1..n
    PROVE  m = n
  <1>1. m = 0 \/ m \in 1..n
    BY m \in 1..m \/ m = 0
  <1>2. n = 0 \/ n \in 1..m
    BY n \in 1..n \/ n = 0
  <1> QED BY <1>1, <1>2

\* Whatever a write leaves on disk, a readable file holds what reached it.
LEMMA WriteKeepsTheTrail ==
    ASSUME FileInv, NEW receipt \in Receipt, NEW ended \in BOOLEAN,
           entries' = Append(entries, receipt),
           file' = Written(file, receipt, ended)
    PROVE  Lines' /\ TrailIsWholeOrRefused'
  <1>1. Lines'
    BY WrittenReads DEF FileInv, Lines
  <1>2. ASSUME Readable(file')
        PROVE  Entries(file') = entries'
    <2> DEFINE own == [text |-> <<receipt>>, ended |-> ended]
    <2>1. Readable(file) /\ file' = Append(file, own)
      BY <1>2, WrittenReads DEF FileInv, Lines
    <2>2. Entries(file) = entries
      BY <2>1 DEF FileInv, TrailIsWholeOrRefused
    <2>3. own \in Line /\ own.text[1] = receipt
      BY DEF Line
    <2> HIDE DEF own
    <2>4. /\ DOMAIN file' = 1..(Len(file) + 1) /\ DOMAIN file = 1..Len(file)
          /\ \A i \in 1..Len(file) : file'[i] = file[i]
          /\ file'[Len(file) + 1] = own
      BY <2>1, <2>3 DEF FileInv, Lines, HasLines
    <2>5. /\ DOMAIN entries' = 1..(Len(entries) + 1) /\ DOMAIN entries = 1..Len(entries)
          /\ \A i \in 1..Len(entries) : entries'[i] = entries[i]
          /\ entries'[Len(entries) + 1] = receipt
          /\ entries' = [i \in 1..(Len(entries) + 1) |-> entries'[i]]
      <3>1. entries \in Seq(Receipt) /\ Len(entries) \in Nat
        BY DEF FileInv, TypeOK
      <3>2. entries' \in Seq(Receipt) /\ Len(entries') = Len(entries) + 1
        BY <3>1
      <3>3. entries' = [i \in 1..Len(entries') |-> entries'[i]]
        BY <3>2, LenProperties
      <3> QED BY <3>1, <3>2, <3>3
    <2>6. Len(file) = Len(entries)
      <3>1. DOMAIN Entries(file) = DOMAIN file
        BY DEF Entries
      <3>2. Len(file) \in Nat /\ Len(entries) \in Nat
        BY DEF FileInv, Lines, HasLines, TypeOK
      <3>3. 1..Len(file) = 1..Len(entries)
        BY <2>2, <2>4, <2>5, <3>1
      <3> QED BY <3>2, <3>3, SameInterval
    <2>7. \A i \in 1..Len(file) : file[i].text[1] = entries[i]
      BY <2>2, <2>4 DEF Entries
    <2>8. \A i \in 1..(Len(file) + 1) : file'[i].text[1] = entries'[i]
      <3>1. Len(file) \in Nat
        BY DEF FileInv, Lines, HasLines
      <3> SUFFICES ASSUME NEW i \in 1..(Len(file) + 1)
                   PROVE  file'[i].text[1] = entries'[i]
        OBVIOUS
      <3>2. i \in 1..Len(file) \/ i = Len(file) + 1
        BY <3>1
      <3> QED BY <2>3, <2>4, <2>5, <2>6, <2>7, <3>2
    <2> QED BY <2>4, <2>5, <2>6, <2>8 DEF Entries
  <1> QED BY <1>1, <1>2 DEF TrailIsWholeOrRefused

\* Writing receipts to a file is recording them: every behaviour over the file is
\* one of the log's, a refused read a step that changes nothing.
THEOREM FileIsALog == JsonlSpec => Spec
  <1>1. JsonlInit => Init
    BY DEF JsonlInit
  <1>2. [JsonlNext]_jsonlVars => [Next]_vars
    BY DEF JsonlNext, Reads, Refuses, Writes, Tears, Next, jsonlVars, vars
  <1> QED BY <1>1, <1>2, PTL DEF JsonlSpec, Spec

\* Every line of the file holds some text, and while all parse they are the trail.
LEMMA FileInvariant == JsonlSpec => []FileInv
  <1>1. JsonlInit => FileInv
    BY DEF JsonlInit, Init, FileInv, TypeOK, Lines, HasLines, TrailIsWholeOrRefused, Entries
  <1>2. FileInv /\ [JsonlNext]_jsonlVars => FileInv'
    <2> SUFFICES ASSUME FileInv, [JsonlNext]_jsonlVars
                 PROVE  FileInv'
      OBVIOUS
    <2>1. ASSUME NEW c \in Callers, NEW content \in Contents, Reads(c, content)
          PROVE  FileInv'
      <3>1. NextReceipt(entries, content) \in Receipt
        BY NextReceiptType DEF FileInv, TypeOK
      <3>2. TypeOK'
        BY <2>1, <3>1 DEF Reads, Derives, FileInv, TypeOK
      <3> QED BY <2>1, <3>2 DEF Reads, Derives, FileInv, Lines, TrailIsWholeOrRefused
    <2>2. ASSUME NEW c \in Callers, Leaves(c)
          PROVE  /\ caller[c] \in Receipt
                 /\ lock' \in [Logs -> Callers \cup {Free}]
                 /\ caller' \in [Callers -> Receipt \cup {Idle}]
      BY <2>2 DEF Leaves, FileInv, TypeOK
    <2>3. ASSUME NEW c \in Callers, Leaves(c), NEW ended \in BOOLEAN,
                 returned' \subseteq returned \cup {caller[c]},
                 entries' = Append(entries, caller[c]),
                 file' = Written(file, caller[c], ended)
          PROVE  FileInv'
      <3>1. Lines' /\ TrailIsWholeOrRefused'
        BY <2>2, <2>3, WriteKeepsTheTrail
      <3>2. TypeOK'
        BY <2>2, <2>3 DEF FileInv, TypeOK
      <3> QED BY <3>1, <3>2 DEF FileInv
    <2>4. ASSUME NEW c \in Callers, Writes(c)
          PROVE  FileInv'
      BY <2>3, <2>4 DEF Writes, Appends
    <2>5. ASSUME NEW c \in Callers, Tears(c)
          PROVE  FileInv'
      <3>1. Leaves(c) /\ returned' = returned
        BY <2>5 DEF Tears, AppendRaises
      <3>2. CASE entries' = entries /\ file' = file
        <4>1. TypeOK'
          BY <2>2, <3>1, <3>2 DEF FileInv, TypeOK
        <4> QED BY <3>2, <4>1 DEF FileInv, Lines, TrailIsWholeOrRefused
      <3>3. CASE entries' = entries /\ file' = Written(file, Part, FALSE)
        <4>1. TypeOK'
          BY <2>2, <3>1, <3>3 DEF FileInv, TypeOK
        <4>2. Lines' /\ ~Readable(file')
          BY <3>3, WrittenReads DEF FileInv, Lines
        <4> QED BY <4>1, <4>2 DEF FileInv, TrailIsWholeOrRefused
      <3>4. CASE /\ entries' = Append(entries, caller[c])
                 /\ \E ended \in BOOLEAN : file' = Written(file, caller[c], ended)
        BY <2>3, <3>1, <3>4
      <3> QED BY <2>5, <3>2, <3>3, <3>4 DEF Tears
    <2>6. CASE UNCHANGED jsonlVars
      BY <2>6 DEF jsonlVars, FileInv, TypeOK, Lines, TrailIsWholeOrRefused
    <2> QED BY <2>1, <2>4, <2>5, <2>6 DEF JsonlNext, Refuses
  <1> QED BY <1>1, <1>2, PTL DEF JsonlSpec

\* A reader of the file is given the whole trail or is refused, wherever writes
\* were torn and however many AuditLogs write to it.
THEOREM TrailIsNeverShortened == JsonlSpec => []TrailIsWholeOrRefused
  BY FileInvariant, PTL DEF FileInv

\* With one AuditLog, whatever tears its writes: what a reader is given verifies
\* and holds every receipt that record returned.
THEOREM WhatIsReadIsIntact ==
    ASSUME OneLog
    PROVE  JsonlSpec => []ReadTrailIsIntact
  <1>1. ChainVerifies /\ ReturnedIsKept /\ TrailIsWholeOrRefused => ReadTrailIsIntact
    BY DEF ChainVerifies, ReturnedIsKept, TrailIsWholeOrRefused, ReadTrailIsIntact
  <1> QED BY <1>1, FileIsALog, ChainIsIntact, ReturnedStays, TrailIsNeverShortened, PTL

\* A file that does not parse is never written readable again.
THEOREM TornIsNotMended == JsonlSpec => RefusalIsForever
  <1>1. FileInv /\ FileInv' /\ [JsonlNext]_jsonlVars
            => [~Readable(file) => ~Readable(file')]_jsonlVars
    <2> SUFFICES ASSUME FileInv, [JsonlNext]_jsonlVars, ~Readable(file)
                 PROVE  ~Readable(file')
      OBVIOUS
    <2>1. CASE file' = file
      BY <2>1
    <2>2. ASSUME NEW piece \in Receipt \cup {Part}, NEW ended \in BOOLEAN,
                 file' = Written(file, piece, ended)
          PROVE  ~Readable(file')
      BY <2>2, WrittenReads DEF FileInv, Lines
    <2>3. ASSUME NEW c \in Callers, Writes(c) \/ Tears(c)
          PROVE  ~Readable(file')
      <3>1. caller[c] \in Receipt
        BY <2>3 DEF Writes, Tears, Appends, AppendRaises, Leaves, FileInv, TypeOK
      <3> QED BY <2>1, <2>2, <2>3, <3>1 DEF Writes, Tears
    <2> QED BY <2>1, <2>3 DEF JsonlNext, Reads, Refuses, jsonlVars
  <1> QED BY <1>1, FileInvariant, PTL DEF JsonlSpec, RefusalIsForever
=============================================================================
