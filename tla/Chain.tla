-------------------------------- MODULE Chain --------------------------------
(***************************************************************************)
(* The markdown log as bytes on disk, and the hash chain that runs through *)
(* it: how an entry is sealed and appended, what the parser reads back     *)
(* when a write was cut short, where the chain resumes after a restart,    *)
(* and what mem7 verify accepts.                                           *)
(*                                                                         *)
(* An entry is a block of four parts: heading, envelope, body, separator.  *)
(* A block on disk is a prefix of one: `end' is the last part it has whole. *)
(***************************************************************************)
EXTENDS Naturals, Sequences, FiniteSets, SequencesExt

CONSTANTS Writers,      \* processes that append: a server, stdio sessions
          Keys,         \* what headings name
          Attrs,        \* what an envelope may or may not state: ttl, tags, ...
          Bodies,
          Edited,       \* a body written by hand
          Days,         \* the number of daily files
          ClockBack,    \* whether the clock may step back over midnight
          Legacy,       \* whether a block older than the chain may be there
          MaxBlocks, MaxTears, MaxEdits

ASSUME ChainAssumption ==
    /\ Edited \notin Bodies
    /\ Days \in Nat \ {0}
    /\ ClockBack \in BOOLEAN /\ Legacy \in BOOLEAN
    /\ MaxBlocks \in Nat /\ MaxTears \in Nat /\ MaxEdits \in Nat

VARIABLES files,    \* files[d]: the blocks of day d's file
          today,
          head,     \* head[p]: the seal p will chain its next entry to
          acked,    \* auxiliary: the seals of the entries whose append succeeded
          seals,    \* auxiliary: every seal computed
          tears,    \* auxiliary: the writes that returned an error
          edits     \* auxiliary: the kinds of edits made by hand

vars == <<files, today, head, acked, seals, tears, edits>>

-----------------------------------------------------------------------------
(* Entries and seals.                                                       *)

None == <<>>

Content == [key : Keys, attrs : SUBSET Attrs, body : Bodies \cup {Edited}]

\* The hash of the previous seal and of every field.  Two seals are equal only
\* if all that went into them is: a seal is the sequence of what it covers.
Seal(prev, c) == Append(prev, c)

Parts == [nothing |-> 0, heading |-> 1, envelope |-> 2, body |-> 3, whole |-> 4]

Block == [c : Content, prev : Seq(Content), hash : Seq(Content), end : 1..4]

\* The slip: the seal never makes it into the envelope.
SealForgotten(prev, c, end) == [c |-> c, prev |-> prev, hash |-> None, end |-> end]

\* appendSealed: the seal goes last in the envelope.
SealedBlock(prev, c, end) == [c |-> c, prev |-> prev, hash |-> Seal(prev, c), end |-> end]

-----------------------------------------------------------------------------
(* The parser: it reads parts, whatever block they come from.               *)

\* What the entry being read becomes when the parts of b follow.  The next
\* heading is not seen before an envelope is found; an envelope that is still
\* open takes the fields of the next one over its own; an open body takes every
\* line up to a separator.
Continue(at, cur, b) ==
    CASE at = Parts.nothing -> b
      [] at = Parts.heading /\ b.end >= Parts.envelope -> [b EXCEPT !.c.key = cur.c.key]
      [] at = Parts.envelope /\ b.end >= Parts.envelope ->
            [b EXCEPT !.c.key = cur.c.key, !.c.attrs = @ \cup cur.c.attrs]
      [] at = Parts.body -> [cur EXCEPT !.c.body = Edited]
      [] OTHER -> cur

\* The slip: a body left open is never closed.
ParseStuck(s, b) ==
    LET cur == Continue(s.at, s.cur, b)
    IN  IF b.end = Parts.whole /\ s.at # Parts.body
        THEN [at |-> Parts.nothing, cur |-> cur, out |-> Append(s.out, cur)]
        ELSE [at |-> IF b.end > s.at /\ s.at # Parts.body THEN b.end ELSE s.at,
              cur |-> cur, out |-> s.out]

\* s.at: the last part read of the entry s.cur; s.out: the entries read.
Parse(s, b) ==
    LET cur == Continue(s.at, s.cur, b)
    IN  IF b.end = Parts.whole
        THEN [at |-> Parts.nothing, cur |-> cur, out |-> Append(s.out, cur)]
        ELSE [at |-> IF b.end > s.at THEN b.end ELSE s.at, cur |-> cur, out |-> s.out]

\* An entry still open at the end of its file is dropped.
Entries(file) ==
    FoldLeft(Parse, [at |-> Parts.nothing, cur |-> None, out |-> <<>>], file).out

AllEntries == FlattenSeq([d \in 1..Days |-> Entries(files[d])])

\* The slip: only the newest file is looked at.
LastSealToday ==
    LET es == Entries(files[today])
        sealed == {i \in DOMAIN es : es[i].hash # None}
    IN  IF sealed = {} THEN None ELSE es[Max(sealed)].hash

\* loadHead: the last sealed entry, from the newest file back.
LastSeal ==
    LET es == AllEntries
        sealed == {i \in DOMAIN es : es[i].hash # None}
    IN  IF sealed = {} THEN None ELSE es[Max(sealed)].hash

-----------------------------------------------------------------------------
(* mem7 verify.                                                             *)

Started(es, i) == \E j \in 1..(i - 1) : es[j].hash # None

\* The slip: the previous seal is taken as the entry states it.
VouchedAlone(es, i) ==
    LET e == es[i]
    IN  IF e.hash = None
        THEN ~Started(es, i)
        ELSE /\ ~Started(es, i) => e.prev = None
             /\ e.hash = Seal(e.prev, e.c)

\* The slip: the seal is not recomputed.
VouchedByLinks(es, i) ==
    LET e == es[i]
    IN  IF e.hash = None
        THEN ~Started(es, i)
        ELSE e.prev = IF Started(es, i) THEN es[i - 1].hash ELSE None

\* Entry i is vouched for, given that those before it are.
Vouched(es, i) ==
    LET e == es[i]
    IN  IF e.hash = None
        THEN ~Started(es, i)
        ELSE /\ e.prev = IF Started(es, i) THEN es[i - 1].hash ELSE None
             /\ e.hash = Seal(e.prev, e.c)

ChainHolds == LET es == AllEntries IN \A i \in DOMAIN es : Vouched(es, i)

-----------------------------------------------------------------------------

TypeOK ==
    /\ files \in [1..Days -> Seq(Block)]
    /\ today \in 1..Days
    /\ head \in [Writers -> Seq(Content)]
    /\ acked \subseteq seals /\ seals \subseteq Seq(Content) \ {None}
    /\ tears \in 0..MaxTears
    /\ edits \subseteq {"changed", "dropped", "dropped_last", "swapped", "added", "unchained"}

Unsealed(c) == [c |-> c, prev |-> None, hash |-> None, end |-> Parts.whole]

Init ==
    /\ \E c \in {x \in Content : x.body # Edited}, old \in {FALSE, Legacy} :
          files = [d \in 1..Days |-> IF old /\ d = 1 THEN << Unsealed(c) >> ELSE <<>>]
    /\ today = 1
    /\ head = [p \in Writers |-> None]
    /\ acked = {} /\ seals = {}
    /\ tears = 0 /\ edits = {}

Blocks == Len(FlattenSeq(files))

Write(p, b) ==
    /\ Blocks < MaxBlocks
    /\ files' = [files EXCEPT ![today] = Append(@, b)]
    /\ seals' = seals \cup {b.hash}
    /\ UNCHANGED <<today, edits>>

\* The slip: the head moves before the write is known to have succeeded.
HeadAfterTear(p, b) == head' = [head EXCEPT ![p] = b.hash]

\* The head moves only once the write succeeded.
HeadKept(p, b) == UNCHANGED head

AppendEntry(p, c) ==
    LET b == SealedBlock(head[p], c, Parts.whole)
    IN  /\ Write(p, b)
        /\ head' = [head EXCEPT ![p] = b.hash]
        /\ acked' = acked \cup {b.hash}
        /\ UNCHANGED tears

\* The write returns an error, or the process dies in it (Restart comes next),
\* with any part of the block on disk, all of it included.  A heading cut in the
\* middle reads as another key, like a heading of one.
TearEntry(p, c, end) ==
    LET b == SealedBlock(head[p], c, end)
    IN  /\ tears < MaxTears
        /\ Write(p, b)
        /\ HeadKept(p, b)
        /\ tears' = tears + 1
        /\ UNCHANGED acked

Restart(p) ==
    /\ head' = [head EXCEPT ![p] = LastSeal]
    /\ UNCHANGED <<files, today, acked, seals, tears, edits>>

Midnight ==
    /\ \/ today < Days /\ today' = today + 1
       \/ ClockBack /\ today > 1 /\ today' = today - 1
    /\ UNCHANGED <<files, head, acked, seals, tears, edits>>

-----------------------------------------------------------------------------
(* The files are edited by hand.  Edits are only made to whole blocks.      *)

Editable(d, i) ==
    /\ Cardinality(edits) < MaxEdits
    /\ i \in DOMAIN files[d]
    /\ \A j \in DOMAIN files[d] : files[d][j].end = Parts.whole

\* What an edit is that meets no seal: one among the entries older than the chain.
Kind(blocks, kind) == IF \A b \in blocks : b.hash = None THEN "unchained" ELSE kind

HandEdit(d, file, kind) ==
    /\ files' = [files EXCEPT ![d] = file]
    /\ edits' = edits \cup {kind}
    /\ UNCHANGED <<today, head, acked, seals, tears>>

IsLast(d, i) == i = Len(files[d]) /\ \A later \in (d + 1)..Days : files[later] = <<>>

Change(d, i) ==
    /\ Editable(d, i)
    /\ LET c == files[d][i].c
       IN  \E x \in {[c EXCEPT !.key = k] : k \in Keys}
                       \cup {[c EXCEPT !.attrs = a] : a \in SUBSET Attrs}
                       \cup {[c EXCEPT !.body = Edited]} :
              /\ x # c
              /\ HandEdit(d, [files[d] EXCEPT ![i].c = x], Kind({files[d][i]}, "changed"))

Drop(d, i) ==
    /\ Editable(d, i)
    /\ HandEdit(d, RemoveAt(files[d], i),
                Kind({files[d][i]}, IF IsLast(d, i) THEN "dropped_last" ELSE "dropped"))

Swap(d, i) ==
    /\ Editable(d, i) /\ i < Len(files[d])
    /\ HandEdit(d, [files[d] EXCEPT ![i] = files[d][i + 1], ![i + 1] = files[d][i]],
                Kind({files[d][i], files[d][i + 1]}, "swapped"))

Before(d, i) ==
    (UNION {ToSet(files[e]) : e \in 1..(d - 1)}) \cup {files[d][j] : j \in 1..(i - 1)}

Add(d, i, c) ==
    /\ Editable(d, i)
    /\ \E at \in {i, i + 1} :
          HandEdit(d, InsertAt(files[d], at, Unsealed(c)), Kind(Before(d, at), "added"))

Next ==
    \/ \E p \in Writers, c \in {x \in Content : x.body # Edited} :
          \/ AppendEntry(p, c)
          \/ \E end \in 1..4 : TearEntry(p, c, end)
    \/ \E p \in Writers : Restart(p)
    \/ Midnight
    \/ \E d \in 1..Days, i \in 1..MaxBlocks :
          \/ Change(d, i)
          \/ Drop(d, i)
          \/ Swap(d, i)
          \/ \E c \in {x \in Content : x.body = Edited} : Add(d, i, c)

Spec == Init /\ [][Next]_vars

-----------------------------------------------------------------------------
(* Properties.                                                              *)

Collect(s, e) == IF e.hash = None THEN s ELSE Append(s, e)

SealedEntries == FoldLeft(Collect, <<>>, AllEntries)

\* The entries appended with success that are not read back as they were written.
Damaged == acked \ {e.hash : e \in {x \in ToSet(AllEntries) : x.hash = Seal(x.prev, x.c)}}

\* verify accepts what mem7 wrote: across days and restarts, after entries older
\* than the chain, the seal loaded or kept is the one the next entry must name.
WrittenHolds == tears = 0 /\ edits = {} => ChainHolds

\* A write that failed breaks no chain by itself: unless it left an entry on disk
\* or in the way of another, verify still accepts the log, whether the process
\* went on from the seal it holds or restarted.
FailureHarmless ==
    edits = {} /\ Damaged = {} /\ Len(SealedEntries) = Cardinality(acked) => ChainHolds

\* What verify accepts is a history mem7 sealed, entry for entry: nothing
\* changed, nothing missing before an entry, nothing out of order, whatever
\* writes were cut short and whatever was edited by hand.
TamperEvident ==
    ChainHolds => LET es == SealedEntries
                  IN  es = <<>> \/ [i \in DOMAIN es |-> es[i].c] \in seals

\* Every edit by hand is shown by verify, at once and whatever is appended later.
EditsShown == edits # {} => ~ChainHolds

\* ... in a log written without failure, unless it takes the last entry away or
\* meets no seal: the entries before the first sealed one are counted, and may be
\* changed, dropped, moved and added to without a trace.  An edit that puts an
\* older or an added entry after a sealed one is shown.
InnerEditsShown ==
    tears = 0 /\ edits # {} /\ edits \cap {"dropped_last", "unchained"} = {} => ~ChainHolds

\* Every entry whose append succeeded is read back as it was written.
AllIntact == edits = {} => Damaged = {}

\* A write that is cut short damages at most one other entry, the next of its
\* file: the parser finds its way again at the separator that entry ends with.
TearCostsOne == edits = {} => Cardinality(Damaged) <= tears

\* An entry damaged so, which mem7 said was stored, is shown by verify.
DamageShown == edits = {} /\ Damaged # {} => ~ChainHolds
=============================================================================
