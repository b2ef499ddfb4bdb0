---------------------------- MODULE JsonlAuditSink ----------------------------
(***************************************************************************)
(* AuditLog over the file-backed sink of examples/audit_sink: one receipt  *)
(* per line of a file, appended with one write that may be torn anywhere.  *)
(*                                                                         *)
(* A line is the receipts whose text it holds, in order, and whether its   *)
(* newline was written.  A receipt cut short is Part: no proper prefix of  *)
(* a JSON object parses.  Two objects on one line do not parse either.     *)
(*                                                                         *)
(* `entries` stays the receipts whose text is on disk whole; what a reader *)
(* gets is Entries(file), when the file is Readable.  Values _assert_      *)
(* redacted would refuse never reach it: AuditReceipt refuses them first.  *)
(***************************************************************************)
EXTENDS AuditLog

CONSTANT Part

VARIABLE file

jsonlVars == <<entries, lock, caller, returned, file>>

Line == [text : Seq(Receipt \cup {Part}), ended : BOOLEAN]

ASSUME JsonlAssumption == AppendMayFail /\ Part \notin Receipt

\* entries() parses every line, or raises on the first it cannot parse.
WrongReadable(f) == TRUE
Readable(f) == \A i \in DOMAIN f : Len(f[i].text) = 1 /\ f[i].text[1] # Part

Entries(f) == [i \in DOMAIN f |-> f[i].text[1]]

\* One write: on a line of its own, unless the last one lost its newline.
Written(f, piece, ended) ==
    IF f = << >> \/ Last(f).ended
    THEN Append(f, [text |-> <<piece>>, ended |-> ended])
    ELSE Append(Front(f), [text |-> Append(Last(f).text, piece), ended |-> ended])

-----------------------------------------------------------------------------
JsonlInit == Init /\ file = << >>

\* record reads the tail through entries().
Reads(c, content) ==
    /\ Readable(file)
    /\ Derives(c, content)
    /\ UNCHANGED file

\* entries() raised inside the section; record passes the error on.
Refuses(c) ==
    /\ caller[c] = Idle
    /\ MayEnter(c)
    /\ ~Readable(file)
    /\ UNCHANGED jsonlVars

Writes(c) ==
    /\ Appends(c)
    /\ file' = Written(file, caller[c], TRUE)

\* An OSError in open, write or flush: nothing, a part, all but the newline, or
\* the whole line is on disk.
Tears(c) ==
    /\ AppendRaises(c)
    /\ \/ entries' = entries /\ file' \in {file, Written(file, Part, FALSE)}
       \/ /\ entries' = Append(entries, caller[c])
          /\ \E ended \in BOOLEAN : file' = Written(file, caller[c], ended)

JsonlNext ==
    \E c \in Callers :
        \/ \E content \in Contents : Reads(c, content)
        \/ Refuses(c)
        \/ Writes(c)
        \/ Tears(c)

JsonlSpec == JsonlInit /\ [][JsonlNext]_jsonlVars

-----------------------------------------------------------------------------
\* Whatever tore the file, and whatever was appended after, a reader is given
\* every receipt whose text reached the disk, in order, or is refused: entries()
\* never shortens the trail.
TrailIsWholeOrRefused == Readable(file) => Entries(file) = entries

\* So with one AuditLog a reader is given a chain that verifies and holds every
\* receipt `record` returned, or is refused: no torn write, nor what is written
\* after it, reads as a trail that was cut or forged.
ReadTrailIsIntact ==
    Readable(file) =>
        /\ VerifyChain(Entries(file))
        /\ \A r \in returned : /\ r.sequence + 1 \in DOMAIN Entries(file)
                               /\ Entries(file)[r.sequence + 1] = r

\* No later write mends a file that does not parse: the service, which records
\* through the same reader, is refused from then on until somebody looks at it.
RefusalIsForever == [][~Readable(file) => ~Readable(file')]_jsonlVars

\* AuditSinkConformance, for a sink that is not failing: a corpus comes back as it
\* was appended, and a fresh sink is empty.
Stored(corpus) ==
    FoldLeft(LAMBDA f, receipt : Written(f, receipt, TRUE), << >>, corpus)

AuditSinkConformance(corpus) ==
    /\ Readable(Stored(corpus)) /\ Entries(Stored(corpus)) = corpus
    /\ Entries(<< >>) = << >>
=============================================================================
