# Verification of mem7 (flux7-memory)

TLA+ models of mem7, the TLC configurations that check them and the TLAPS
proofs about them. mem7 is a memory server for agents: every memory is appended
to daily markdown files, the source of truth, sealed in a hash chain, and
applied to an SQLite index that answers reads about two times: when a fact
holds and when mem7 believed it.

## Inventory

| Component (source) | State | Operations | What makes it correct |
|---|---|---|---|
| Bi-temporal index (`internal/memory/sqlite.go`, `storage.go`, `fact.go`) | rows with `valid_from/to`, `tx_from/to`, `deleted_at`, `ttl` | Put, DeleteByEntity, DeleteByTags, PurgeExpired, Reset, the selections of liveWhere | one answer per key and moment; answers about the past do not change; nothing superseded comes back |
| Store (`store.go`, `rescan.go`) | mutex, log, index, ceiling, embedding cache | memory_store, memory_forget, Rescan, Prune | log before index; the index is what a rescan would build; the ceiling holds |
| Markdown log (`markdown.go`) | daily files, append only | AppendStore, AppendDelete, AppendDeleteTags, parse | what was appended with success is read back; a failed write stays contained |
| Hash chain (`chain.go`) | the head in memory, seals on disk | appendSealed, loadHead, VerifyChain | verify accepts what mem7 wrote, and only that |
| Start-up and migration (`sqlite.go` migrate, `store.go` NewStore) | schema, the old unique index | migrate, the rebuild | an old index is rebuilt, however often the start is interrupted |
| Reads (`store.go`, `history.go`, `temporal.go`) | none | recall, list, history, get | they agree with one another on what lives and who sees it |
| Search and the embedding cache (`store.go`, `hybrid.go`, `embed.go`) | vectors by row id, in the index and in a cache | search, context, cosineSearch, mergeRRF | answers hold at the moment asked about, a match is answered |
| Sequential neighbours (`neighbors.go`) | none | neighborCandidates, fetchByEntities, weaveNeighbors | every memory once, turns in order |
| Reranker (`rerank.go`) | none | Rerank | a failed call leaves the order |
| Natural-language queries (`naturalquery.go`) | none | naturalizeFTSQuery | - |
| Callers and scopes (`caller.go`) | scopes file | canRead, scoped, belongsToOther | an agent reads and overwrites only what it may |
| Dispatcher (`dispatcher.go`) | none | Call, toolsCall | the caller comes from the request |
| HTTP and streamable transports (`internal/transport/http.go`, `streamable.go`, `local.go`) | none | one goroutine per request, Serve | every call is answered; the process ends when told |
| SSE sessions (`sse.go`) | sessions with a queue of 64 | create, handleSSE, handleMessages, remove | an accepted call is answered once while its session lives |
| Command line and stdio proxy (`cmd/mem7`) | none | serve, stdio, rescan, prune, verify | one process writes a directory |
| Python SDK (`sdk/python`) | an HTTP client | one call per method | - |

Requests run one goroutine each and meet at `Store.mu`, which every tool holds
from start to end: within a process calls do not interleave. What does
interleave is the clock (read more than once in a call), failures and deaths
between the append and the index, *other processes* on the same directory (two
stdio sessions without a server, `mem7 rescan` or `prune` beside one), and, once
the lock is released, the answers on their way to the clients. What outlives a
call and may be stale in the next is the cache of vectors. The hazards of each
component, at their lines, are in `PROJECT.json`.

## Modules

- `Bitemporal`: rows, the conditions that select them and the statements that
  write them, as operators on a set of rows. A tick is a fraction of a second
  (`Resolution` ticks each): the process clock and the caller's bounds have
  ticks, columns and the log have seconds (`Sec`), as RFC3339 text has. Tick 0
  is Go's zero time and NULL. `line`, the log entry a row was cut from, stands
  for the content; two rows equal in every column but the id are one.
- `Timeline`: what the index promises, without rows: for each key and moment the
  content believed, and the same as of each second that is over.
- `Index` (`MCIndex`): the storage layer as a machine, one action per call of
  the `storage` interface that changes rows, and the refinement to `Timeline`.
  Transaction times do not decrease here: one process stamps them.
- `Store` (`MCStore`): processes running calls against the shared log and index.
  A call is a list of steps (`todo[p]`): the checks, the stamp, the append, the
  index; a rescan is reset, read, one step per replayed entry, end. Between
  steps the clock moves, other processes step, and `Fail` drops the rest: an
  error returned or a death, after which a restart does not rescan. `Written` is
  what the log keeps of an entry. `lost` and `told` are auxiliary: an entry that
  did not reach the index, and the answers given as of each second that ended
  with no call under way.
- `Chain` (`MCChain`): the same log one level down. A file is a sequence of
  blocks, each a prefix (heading, envelope, body, whole) of what a write meant to
  leave; `Parse` reads parts whatever block they come from, so it continues a
  torn block with the next one as `parseEntries` does. A seal is the sequence of
  contents it covers: an injective hash. Actions: append, a write that fails at
  any part, restart (`loadHead`), midnight, edits by hand (change, drop, swap,
  add) to whole blocks, older ones included, that leave the lines of a seal as
  they are. A heading cut in the middle is the heading of another key.
- `Table`: the same statements on rows that have ids, an embedding each, and an
  order: `PutRow` appends the new row after the copies it cuts, which is what
  gives the vector of a store its row. A row has its text (the column `object`),
  and the snapshot and the restoration of vectors around a rescan go by key and
  text.
- `Rebuild` (`MCRebuild`): opening. A process looks for the old unique index,
  drops it, rescans if it was there (snapshot, reset, read, one step per entry,
  restore), and serves; `mem7 rescan` rescans once more and exits. `ReadBack` is
  what becomes of a text on its way through the log: `escapeBody` escapes lines
  that look like the log's own, the parser drops the newlines at both ends, and
  nothing undoes either. `Exit` ends a process anywhere. The server stores, forgets
  and searches between, its cache of vectors filled by the first search. `cut` and
  `had` are auxiliary.
- `Search` (`MCSearch`): memory_search over a `Table` that stores and forgets
  change under the cache. A query is a pair of rankings, of the contents its
  words match and of every content by meaning, chosen anew for each call; from
  there the code decides: the pool and the limits, `MergeRRF` with exact shares
  and ties in any order, ids without a live row dropped after the limit, any
  reordering by the reranker or its failure, the candidates, runs and
  de-duplication of neighbours, with a choice wherever the code walks a map; last,
  after every limit, what the caller may not read is taken out (`Visible`). A store
  holds `valid_to` against one reading of the clock and stamps the row with a later
  one, so a row may end before it begins. `Digits` is `%0*d` for any number.
- `Reads` (`MCReads`): who calls (`CallerFrom`: an identity counts only with the
  bearer token), what scopes let it store and forget, and recall, list (rows of
  the index, hidden one by one) and history (a fold over the log, hidden as a
  whole). `Existing` is the one row the ownership check looks at. A call is one
  step: `Store` takes it apart. In that step the clock goes on: the count, the
  ownership query and the stamp of a store, the stamp and the query of a forget,
  each have a reading of their own, in the order of the code.
- `Serving` (`MCServing`): goroutines. A handler waits for the lock, is inside,
  answers; the answer of a call posted to /messages waits for a place in its
  stream's queue or for the end of the session; the goroutine of the stream
  takes events, writes (which waits for a client that stalls), keeps alive,
  closes. Clients stall, resume and hang up. A stdio session forwards its calls
  one at a time and gives up after its timeout, while the handler goes on. The
  shutdown waits for handlers, five seconds at most, then the process exits,
  whatever is under way (what that leaves of a call inside the store is `Fail` of
  `Store`).
- `BitemporalProofs` (with `Table`), `IndexProofs`, `ServingProofs`, `StoreProofs`,
  `ReadsProofs`, `RebuildProofs`, `SearchProofs`, `ChainProofs`: the proofs.

`Index`, `Store` and `Reads` share `Bitemporal`, and `Table` builds its rows from
the same conditions, so what the proofs say of `Put` is said of the operator the
larger models use. `Chain` abstracts from what entries mean, `Store` from how
they lie on disk, `Serving` from what calls do inside the lock.

Definitions whose comment starts with "The slip" are plausible mistakes in the
definition that follows them; they are used to see that a property notices them.

## Runs

| Run | Question | Bounds |
|---|---|---|
| `Index` | does any mix of validities, forgets, purges break the table or the timeline? | one key, three facts, bounds none/second 2 plus a clock on half seconds (so validities that are open, closed, sub-second, empty or inverted), ttl none/1 s. Three facts let a copy be cut again. |
| `Store_crash` | is the index the log's replay, through failures and rescans, present and past? | one server, three entries, a tag, half-second bounds |
| `Store_limits` | do ceiling, expiry, prune and rescan agree? | two keys, one place, ttl none/1 s |
| `Store_processes` | what survives several processes that fail anywhere? | two sessions, one command-line rescan, one key, three entries |
| `Chain` | does verify accept and reject the right logs? | four blocks in two days, one torn write, one edit, two keys, one optional field |
| `Rebuild` | what is left of index and vectors when starts and rescans are cut? | one key, two texts, of which the log gives one back as the other, four old logs (empty, one memory, two values, a forgotten key), three entries in all: one old value and two calls are enough for a copy, a superseded row and a vector out of place |
| `Search` | do stale vectors, limits, ties, the reranker or neighbours spoil an answer? | turns t9, t10, t11 (the width changes), three entries by two agents, three kinds of store (for good, with a vector; for the first second, its embedding having failed; until the second second, which may pass before the stamp), four searches (limit 1 and 2, radius 0 to 2, now, as of the first second and of what holds at the second one, by callers who read both agents or one), clock to second 3, with nothing, an embedder, or both services configured |
| `Reads` | do the three reads agree, under scopes, and does a caller end only its own? | two keys, two agents of which one reads the other, an administrator, strangers; three entries, one place |
| `Serving` | is every call answered once, and does the process end? | one stream with room for one event and two calls (so the queue fills), one of which does not enter the store, two calls on requests of their own forwarded by a stdio session. Streams share nothing but the lock, and calls on their own requests share that too: they stand for the other streams, which the proofs have in any number |

What they show. With one process and calls that are not cut short, the index
answers exactly as a rescan would, as of every second (`HistoryReconstructible`),
although the calls compare at clock precision in arrival order and the replay
compares seconds in sorted order. With failures and several processes the index
still holds nothing the log does not say (`WriteAhead`) and never two contents
(`OneBelief`). A failed write leaves the chain usable (`FailureHarmless`), costs
at most the next entry (`TearCostsOne`), which verify shows (`DamageShown`). A
rescan that is not cut leaves the log's replay (`RebuiltUnlessCut`), a vector on
every row of a key and text that had one (`VectorsKept`), and none with a text it
was not computed from (`VectorsTrue`). A
search ranks dead rows and misses live ones, but never answers one that does not
hold (`MomentHonoured`), nor nothing to a match when it may answer two
(`WordMatchAnswered`; with a limit of one a dead id may take the only place), and
fills its limit as long as its vectors are current (`FilledWhenFresh`). Both speak
of a caller who may read what there is (`AllReadable`): other agents' memories take
places in the limit before they are taken out, so a scoped caller gets fewer, or
nothing. A search by words gives matches and turns in order, each once
(`TurnsInOrder`), to scoped callers as far as they may read, while no row is
inverted (`Straight`) and for turns written in one style (`SameStyle`). The
history, which keeps one flag and the tags of one entry per key, ends on a life
exactly when the last store is still believed (`HistoryLive`); recall, list and
history agree on it caller by caller (`RecallAgrees`) while a key has open-ended
stores. The ownership check reads one row, at a moment of its own, and yet a
scoped call touches no version of a key, past or future, if another agent's
memory is what holds of it as long as the call lasts (`OthersLiveKept`). An answer
acknowledged with 202 is in exactly one place (`AcceptedAnswered`), and clients that do not read
keep nobody else waiting (`Served`).

Three runs check statements of the repository the code does not keep; they are the
findings in `PROJECT.json`:

- `Search_promises`: memory_search documents filters, moments and adjacent turns.
  The last answer of the run breaks all three. t9 and t10 are stored in the first
  second, t11 in the second one; a search for a tag, as of the first second, with
  radius 1, answers t10, which is near in meaning and has no such tag, since what is
  found by meaning is fetched by id and moment only (`FiltersHonoured`,
  `store.go:713`); with it t11, which mem7 did not believe then, since neighbours are
  fetched with the usual read (`ReadsTheMoment`, `neighbors.go:110`); and not t9,
  since around t10 the key looked for is t09 (`EveryTurn`, `neighbors.go:49`).
- `Rebuild_interrupted`: the rebuild's only trigger is dropped before the rebuild,
  so a start that is cut short leaves an index the next start takes for good.
- `Chain_two_writers`: two processes fork the chain; so does a clock that steps
  back over midnight (`ClockBack = TRUE`, `Days = 2`).

Other constants show more of the same kind, for who changes this code:

- `Store`, `OneRow` with the constants of `Store_crash`: `valid_to` is checked
  against one reading of the clock and the fact stamped with a later one; an
  inverted validity gets in and Put leaves two believed rows for one moment.
  (`OrderedOneRow`: without such an entry it does not; `OneAnswer`: even then both
  rows say the same.)
- `Store`, `Reconstructible` with `TTLs = {0, 1}`: a rescan leaves out an expired
  fact and brings back what it had replaced (`RescanKeepsAnswers`: it takes
  nothing away). With `TTLs <- MCNegative`: a negative ttl is dead in the index
  and permanent in the log, and the ceiling is passed when a rescan brings it back.
  With `Writers = {s}`, `Maintainers = {c}`, or with two writers: `mem7 rescan` beside
  a server, and two sessions without one, leave index and log apart.
- `Store`, the ceiling: `SoftCeiling` excludes what it has to. A memory with a start
  later than its own time is not counted when stored, and holds later. A forget by
  tags of a version with an end leaves the older version of the key on both sides of
  it: not counted now, it holds again later. With `MayFail = TRUE`, an entry that
  missed the index is not counted either, until a rescan.
- `Chain`, `EditsShown`: dropping the last entry is not shown, nor is any edit
  that stays among the entries older than the chain: they are counted
  (`chain.go:172`), and one may be changed, dropped, moved or added, up to the
  first sealed entry. `InnerEditsShown` leaves out these two kinds (`dropped_last`,
  `unchained`) and no other. `AllIntact` with a torn write: the entry stored after
  a failed write is read back wrong.
- `Search`, `WordMatchAnswered` without `AllReadable`: b stores two memories that
  match a query before a's; a, who reads only its own, asks for two, the limit is
  filled by b's, and nothing is left when they are taken out (`store.go:386`).
  `FilledWhenFresh` the same. `TurnsInOrder` without `Straight`: a store with
  `valid_to` in between its two readings of the clock leaves two rows of a key.
- `Rebuild`, `VectorsTrue` with `Together = TRUE`: `mem7 rescan` starts the ids
  again under the cache of a server.
- `Rebuild`, `NoVectorLost`: store a text that begins with a newline, with an
  embedder; the rescan reads it back without (`markdown.go:317`), looks for a vector
  of that text, and the one put aside belongs to no row any more, although
  `rescan.go:22` says of embeddings "keep them across the rebuild". With
  `ReadBack <- MCFaithful`, a log that changes no text, it holds.
- `Reads`, `OthersKept`: a key of which another agent's memory does not hold now is
  open to scoped callers. b stores k1 from second 2 on; at second 1 nothing of k1
  holds, the check (`store.go:149`, LIMIT 1, no `as_of`) meets no row, and a's store
  of k1 supersedes b's version; a forget does the same. `src/README.md:253` says that
  "only administrators overwrite or forget another agent's memory".
- The history shows no deletion of an older version that outlives a later
  deletion by other tags, although `history.go:17` speaks of every deletion.

All counters are bounded: `MaxTick` (clock), `MaxLines`, `MaxLog` (entries; a
call starts only if it has room), `MaxBlocks`, `MaxTears`, `MaxEdits`, `Days`,
`Capacity`. The clock starts at the first second, never zero, as a real one
does, and a moment a caller names is of the first second or later (`Bounds`). Rows
of keys do not meet in any statement but the ceiling and tags, so one
key is enough elsewhere. `Chain` and `Reads` use symmetry over keys, which they
only compare, and state no liveness. Deadlock is not checked: a bounded model
stops when its bounds are used up, a server that has exited takes no step, and
idle processes may stay idle.

### Fairness

Only `Serving` states any. Strong fairness of a handler's steps together: Go's
mutex hands itself to a waiter that has starved for a millisecond, and a sender
blocked on a channel gets its turn in order, so who is enabled again and again
goes on. Work inside the lock ends because the calls it makes to services have
timeouts (30 seconds to embed, `embed.go:28`; 60 to rerank, `rerank.go:26`).
Strong fairness of a stream's goroutine: where several cases of its select are
ready Go chooses at random, and a write goes through when the client reads again.
Weak fairness of the exit: the five seconds of the shutdown's context pass
(`http.go`, Serve). Clients are given none: they may stall for good, which is why
`Served` speaks of those that read again and again.

## Proofs

For every value of the constants:

1. `BitemporalProofs` (from `ResolutionAssumption`: a positive number of ticks per
   second): `Sec` rounds down and is monotone; from it `PutBelief`, for every set of
   well-formed rows and every call: after Put the content believed about a moment
   is the new one inside its validity and the old one elsewhere. The two cases
   that need care are the pieces: the start of the new version and the end of
   the piece before it round to the same second, so there is neither gap nor
   overlap. `PutPast`: no answer as of an earlier second changes. The same for
   forgets.
2. `IndexProofs` (and `IndexAssumption`: moments are whole seconds, bounds are
   absent or at least one second): `IInv == TypeOK /\ TableShape /\ OneAnswer` is
   inductive. `OneAnswer` alone is not: a step needs that rows are stamped no later
   than the clock (else a new row would appear in the past), that bounds are whole
   seconds (else closing and opening would not meet), and that forgotten rows are
   not believed: that is `TableShape`. From it `TypeCorrect`, `ShapeAlways`,
   `OneAnswerAlways`, `PastFrozenAlways`, `NoResurrectionEver`, and `Implements`:
   every step of `Index` is a step of `Timeline` or a stutter.
3. `ServingProofs` (`ServingAssumption`: whose stream a posted call belongs to, two
   kinds of calls, a queue with some room): for any number of streams, calls and
   places, `AcceptedAnswered` as `AnswersKept`.
   `AcceptedAnswered` is not inductive: the step that queues an answer needs that
   it is nowhere yet (`NotBefore`), and that a handler that queues nothing has a
   client that left (`StreamsFollow`: only a client's leaving closes its stream).

4. `StoreProofs` (`StoreAssumption`, `ResolutionAssumption`): for any number of
   writers and maintainers, `TypeCorrect`, `WriteAheadAlways`, `OneBeliefAlways` and
   `OrderedOneRowAlways`. None of these is inductive: a call under way carries
   entries it has still to apply, so the invariant also says that every such
   entry is in the log already or comes after the step that appends it
   (`GoodCalls`), that the log and the rows are well-formed (`GoodLog`,
   `GoodRows`), and that the rows say only what the log says about every moment.
   Unlike in `Index` no order of stamps is assumed, since two processes
   interleave. `OrderedOneRow` needs `RowInv`: an inverted entry is in the log, or
   the believed rows of a key never meet; it survives a step because the entries of
   calls under way reach the log first, and only grow it.
   With one process (`OneProcess`): two invariants more.
   `OrderInv`: time orders everything, the log by its stamps, the rows and the log
   before the entries still to be written, the entries of a replay among themselves;
   hence `OneAnswerAlways`, about past seconds too, through failures and rescans.
   `HistoryInv` compares the index with the fold of the whole log (`Replayed`): a
   process is about to read the log, or has replayed the first n entries of it, or
   has an index that answers as the replay does once the entry under way is applied,
   unless an entry was lost (`Shape`). A call compares bounds at clock precision and
   in the order of arrival, the replay in whole seconds and sorted: `PutBelief`, which
   says what both do to answers, is why they agree. From it `HistoryReconstructibleAlways`
   and `HistoryKeptAlways`, which speak of logs without a time to live (`Timeless`): with
   one, or with a second process, TLC refutes `Reconstructible` (see above).
   `KeepInv` is what is left of this with times to live: what the index believes about a
   moment is struck by no later entry of the log, except one that has expired or one
   that the call or rescan under way has still to apply (`Standing`). Unlike a comparison
   with the replay, this survives a prune and a rescan that leaves expired facts out. A
   rescan, which replays all but what has expired, then keeps each live answer: it applies
   the entry of that answer, and nothing it applies after strikes it. From it
   `RescanKeepsAnswersAlways`, which also needs that there is an order of replay at all
   (`Replay` is not empty, whatever has expired): `Listing` sorts any set of places.
   `SoftCeilingAlways` also assumes that calls do not fail half-way (`~MayFail`: an entry
   that did not reach the index is not counted, and a rescan brings it back) and that no
   ttl is negative (the index holds such a fact expired and the log keeps it for ever).
   The number of live rows is not what is invariant: it is the set of keys of which
   something is believed (`Held`), a row to each (`LiveHeld`). `CeilingInv`: it is within the
   limit now and at each later second (`RoomIn`), in every part of the log a rescan may
   have replayed (`Within`); nothing in the log is waiting to begin (`Fading`); and a store
   that has passed its check still fits when it reaches the log, however late
   (`Admitted`).

5. `ReadsProofs` (`ReadsAssumption`, `ResolutionAssumption`): for any agents and scopes,
   `TypeCorrect` and `OthersLiveKept` as `OthersLiveKeptAlways`. A call is checked
   against one row of its key, taken by LIMIT 1, and its Put or its forget reaches all:
   the invariant says that what holds of a key at a moment comes of one entry
   (`OneIn`, from `PutBelief`), hence of one agent (`ExistingSpeaks`), whichever moment
   of the call the check's is; it also needs a finite table, or LIMIT 1 might select
   nothing. A key of which another's versions hold only at other moments is not covered:
   the code does not look at them (`OthersKept`, above).
   `HistoryLiveAlways` and `RecallAgreesAlways` compare the rows with `Life`, a fold over
   the log, by one more invariant (`AccountAlways`): every row comes of a store of its key
   (`Sourced`); what the fold tells of a key is its last store and whether it goes on
   (`Tells`); and the open rows of a key are of that store and there are some exactly if it
   does (`OpenRows`). A forget writes up to two tombstones and cuts rows
   once for each; the proof takes one entry at a time.
6. `RebuildProofs` (`RebuildAssumption`): `TypeCorrect`; that a vector in the index
   belongs to the text of its row, whatever runs together and is cut short
   (`IndexVectorsAlways`); and `VectorsTrue` with the cache, from `~Together`
   (`VectorsTrueAlways`; with `Together` TLC refutes it, see above). The invariant
   adds what a rescan has put aside (each vector with its own text), the entries it
   has still to apply, and that whoever has steps left is alone, so that no cache
   exists when ids start again. Put appends the pieces in some order
   (`SetToSeq`); `PutRowTrue` shows that no older id changes its text under any.
   `VectorsKept` (`VectorsKeptAlways`, from `~Together`) needs a second invariant,
   `KInv` (and nothing of what the log gives back for a text), over where a rescan
   stands: the order steps follow each other in
   (`Follows`), that what was put aside covers `had` from the first drop to the
   giving back (`Covered`), and that an end in between is seen as a cut.
   `RebuiltUnlessCut` (`RebuiltUnlessCutAlways`, from `~Together`) compares the table with
   the replay of the log, a fold, by what a row says without its id and vector (`Bare`;
   ids depend on the order pieces come in): `PutRowPut` shows that the statements of
   `Table` are then `Put` of `Bitemporal`, so one more entry does the same to both
   (`PlaceNext`). The invariant is `BInv`: a rescan applies entries one after another
   to the last (`Steady`), the table holds exactly those applied (`Stands`), an index made
   before versions is still looked for, or not dropped before its rebuild is decided on
   (`Opening`), and with no rebuild under way or cut the table is the replay.

7. `SearchProofs` (`SearchAssumption`, `ResolutionAssumption`): `TypeCorrect`,
   `MomentHonouredAlways`, `WordMatchAnsweredAlways`, `FilledWhenFreshAlways` and
   `TurnsInOrderAlways`, for any keys, rankings, limits, radius and number of calls. The
   invariant `Inv` adds to the five that a row comes of an entry of the log and its
   vector of that or an earlier one (`RowsOK`), and that of a key one row at most is
   believed about a moment, now and as of any other, while no row is inverted
   (`TableOK`). Nothing is assumed of the cache but that its ids are ids of rows: it may
   rank rows superseded and forgotten, and they are dropped only after the merge. Most of
   the proof is what each stage does to a sequence of ids: what it keeps, that it
   repeats nothing, when it is empty (`FullTextIs`, `NearestIs`, `MergeIs`, `RerankIs`,
   `WeaveIs`, `ExpandIs`). `WordMatchAnswered` is a matter of scores (`WordAmongTwo`): the
   first match by words has 1/61 at least, and of rows ranked by meaning alone only the
   first has as much, so two dead rows cannot both come before it. A share is rounded
   down to a whole number of units; the proof needs no more than that the share of the first rank is
   above all others, which holds of the code's floats too. `FilledWhenFresh` is a count
   (`EnoughMerged`): rankings cut at twice the limit leave enough to fill it. What the
   caller may not read is taken out of what these lemmas give: nothing, if all may be
   read (`VisibleIs`, `SeenIs`), and otherwise an order of what stays.
   `TurnsInOrder` rests on the table: without one row of a key at a moment, dropping
   the later rows of a key (`OncePerKey`) could drop a hit. `RowOrigin` names, for
   each row believed about a moment after a store, the row it was, the row it was cut
   from or the call itself, and `PutRowOne` that no two of a key remain if the bounds of
   the call are in order (`Ordered`). The two readings of the clock let others in, whose
   row then stays inverted for good (`StraightRows`), so the invariant speaks of a table
   without one (`Straight`). `OneRowOfKeyAlways` states it of the table, ids and all,
   as `OneAnswer` of `Index` does of contents. A read then selects one row of a key (`SelectedApart`), whatever
   moments it names. The rest is order in a sequence: `Ahead(w, x, y)` holds when x
   stands in w before any y; it survives what
   is appended (`AheadJoin`, `AheadFlatten`) and the dropping of later rows of a key
   (`OnceKeeps`), and becomes an order of places at the end (`PlacesAhead`).

8. `ChainProofs` (`ChainAssumption`): `TypeCorrect`, `TamperEvidentAlways`,
   `TearCostsOneAlways` and `DamageShownAlways` for any number of writers, days, entries
   and edits, whatever the clock does. For the first, `Inv`: every seal in a file is a
   seal mem7 gave, and verify's own fold leaves the seal of what it has covered so far.
   For the others, `TearInv`: damaged entries and files that end inside a block are
   together no more than the writes cut short; a block that completes an open file
   closes it as it is damaged. `WrittenHoldsAlways` and `FailureHarmlessAlways` assume one
   process (`OneWriter`) and a clock that does not step back over midnight (`Forward`), since
   `Chain_two_writers` shows that the chain forks without the first, and without
   the second files are read in another order than they were written in; then nothing
   lies in files of days to come (`Ahead`) and a head is the last seal of all files
   (`WrittenInv`, `HarmlessInv`). `InnerEditsShownAlways` also assumes one edit (`OneEdit`),
   as a second one can undo the first: the files before it are whole
   (`WholeInv`), and changing, dropping or swapping a sealed block inside them leaves
   a seal that does not fit what precedes it, and an added or older block after a sealed
   one is not accepted (`Loose`), wherever in the log that is (`Around`); no later append
   mends it (`EditInv`).

The replay, the parser, verify's list and the history are folds. What
a fold gives for a sequence of any length is proved without induction theorems:
the function under a fold is unfolded at each place (`Folding`, `FoldingStep`), and
a property of all places has no least place where it fails (`Least`, from the
well-foundedness of the naturals). That is also why verify's count of
sealed entries is written as a fold.

Only model-checked: liveness, since fairness and ENABLED are out of this prover's
reach. Every invariant and action property that a passing run checks is proved too.

## Plan

Left: a search by words and meaning in `TurnsInOrder`, which now speaks of words
alone (a merged ranking orders its hits by score, and rows of one score in any order).

## Not modelled

Which words match and which meaning is near (a query is any ranking), how a query
is rewritten (`naturalquery.go`), rendering, the parsing of dates, memory_get
(which reads one file), access counters (which no read uses), HTTP decoding and
the Python client: pure functions of their input or pure I/O. What the log does
to the characters of bodies is `ReadBack` in `Rebuild` and left out elsewhere,
where a content is the entry it came from; tags with commas and keys with spaces
around them are left out everywhere: a question for tests. The statements
of a search ask SQLite for the time one by one; here they share one reading. The
key of the chain: a seal stands for SHA-256 and HMAC alike, and no one forges seals
here. The probe of a running server is its outcome: a session is a writer of its own (`Store`) or a proxy (`Serving`).
