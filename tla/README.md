# oxpinyin in TLA+

oxpinyin is a Rust implementation of libpinyin: an engine that turns typed
pinyin into Chinese text, remembers what the user chose, and keeps what it
learnt in a directory that libpinyin itself can read. This directory holds
specifications of the parts of it whose state is hard to get right, TLC models
of them, and TLAPS proofs about them. Paths below are relative to `crates/`.

## The system

| Part | State | Operations | What makes it hard |
|---|---|---|---|
| Constraint store (`oxpinyin-engine/src/constraint.rs`) | an array of cells, one per letter plus a tail | `resize`, `add`, `diff_result`, `clear_by_offset`, `validate`, `clear` | runs that overlap, are truncated, or are dropped midway by an error |
| Session (`oxpinyin-engine/src/session/`) | input, selection record, constraint store, sentence rows, candidate list | parses, typing, erasing, choosing, un-choosing, guessing, resetting | five pieces of state that must agree and are brought up to date at different times; every dictionary read may fail |
| Instance (`oxpinyin-facade`, `oxpinyin-capi`) | parse mode, parsed length, anchored window, snapshot of rows, a session | the C functions of a frontend | two coordinate systems, windows and offsets kept across calls, options that change under the instance |
| Grams (`oxpinyin-core/src/single_gram.rs`, `oxpinyin-user/src/store.rs`) | raw gram values, the gate, a memo | train, predicted selections, mask, decode-time reads | 32-bit wraps under different guards, malformed values from disk, two locks and two atomics |
| User libraries (`oxpinyin-user`) | items, totals, offsets, phrase table, pinyin index | add, promote, train, remove, mask, load, unload, save | five structures updated by one call, entries reused between keys |
| System libraries (`oxpinyin-user/src/replay.rs`) | shipped chunk, live buffer, provenance, journal | replay, train, import, save, mask, load, unload | what a journal's records, read one by one, say about what was shipped |
| User profile (`oxpinyin-user/src/persistence.rs`, `oxpinyin-data/src/user_files.rs`) | the files, their `.tmp` siblings, `user.conf` | check, wipe, load, save, fini | several processes, deaths between any two file operations, failing writes |
| Parsers, tables, backends, tools | tables | pure functions and I/O | sizes, not states |

The C libraries call the facade, which owns a session per instance and a user
store per context. A parse replaces the session's input; a guess re-validates
the forcings and decodes; a choose appends to the selection record and writes a
forcing; a train reads the record's tokens into the grams and the libraries; a
save writes the store's files.

## Modules

| Module | Models |
|---|---|
| `ConstraintCells` | the operations of `constraint.rs` as operators on a store value |
| `ConstraintStore`, `ForcedRuns` | the store as a state machine, and its abstract specification: a set of forced runs |
| `Session` | one composition, built on `ConstraintCells` |
| `Offsets` | the matrix columns, the two offset maps and the cursor laws |
| `Instance` | one instance of the C ABI and its frontend, built on `Offsets` |
| `SingleGram`, `UserGrams` | one raw gram value; the user bigram under training and masks |
| `CountCache` | the memo of decode-time counts and the locks around it |
| `UserIndex`, `UserPhraseTable`, `UserLibraries` | the pinyin index, the phrase table, and the user libraries they name |
| `SubIndexJournal` | system libraries: replay, live buffers, diff and mask |
| `UserProfile` | the user directory: marker, wipe, load, save, deaths |
| `ConstraintCellsProofs`, `ConstraintStoreProofs` | proofs about the operators of the store, and about the store |
| `SessionLemmas`, `SessionProofs` | proofs about the operators of the session (text, rebuild, walk), its shapes and its list; and about its forcings, text and tokens |
| `InstanceProofs` | proofs about the offset laws and the instance |
| `CountCacheProofs`, `SubIndexJournalProofs`, `UserProfileProofs` | proofs about those modules |
| `MC...` | the instances TLC checks |

A definition has the name of the function it models where there is one. An
operator `X` that a comment calls "mutant of Y", or that stands right before `Y`
and is used nowhere, is a plausible mistake in `Y`; it shows that a property can
fail.

### ConstraintStore

`store` is the `Vec<Cell>`. A `OneStep` cell forces a phrase over a span, and
the cells inside the span are `NoSearch` cells that point back at it. The text
in a cell is a function of its token and is left out. The array only shrinks
through `validate`, as its documentation asks; `Session` uses the operators
without that discipline. The answer of the spelling probe is any subset of the
positions. `ForcedRuns` is what a caller wants: forcing removes overlapped runs
whole, un-forcing removes one, re-validation removes and never alters.
`ImplementsForcedRuns` states the refinement with `forced <- runs(store)`.

### Session

| Variable | Code |
|---|---|
| `raw` | `InputBuffer` |
| `rec` | `SelectionRecord`: the pieces of text, offset, tokens, committed |
| `store` | `ConstraintStore` |
| `sent` | `SentenceState`: rows, history snapshot, prefix |
| `list` | `Lookup`: where and over which rows the list was built, and whether it is stale |
| `phase` | the frontend: whether a guess stands |

Letters in `Keys` are keys and any other letter ends the parse. `Spelling` gives
the letters of each phrase. A piece of text is a phrase or raw letters, so that
text, tokens and letters can be compared. `rebuild_from_constraints` is the code's
loop over the forcings, cell by cell, with the gap of raw letters before each.
`Walk` is the constrained walk from each position on, and `Segmentations` is the set of rows the
constrained walk can build; which of them are best is left open (`RowLists`).
A guess has the paths of the code: no input, no keys, the remaining input when
nothing is forced, else the whole input around the forcings. With `Faults` a
dictionary read may fail inside validation, decode or list build, and the
action then leaves exactly what the code leaves.

`Disciplined` is the frontend that follows every change with a guess before the
next, as the input method frontends do. After a choose that reports an error it
may choose again. What the code promises between a parse and its guess is little,
so most properties are stated "while a guess stands".

### Offsets and Instance

| Variable | Code |
|---|---|
| `live` | `LiveOptions` of the context (`facade/src/context.rs`) |
| `parse`, `plen` | the stored parse of a transformed mode and `parsed_len` (`InstanceState`) |
| `sess` | the session as `Session` promises it: its input with the columns of the matrix, option word, offset, forced runs, span of the sentence rows |
| `window` | `anchored_window` |
| `shown` | the snapshot of rows handed to C, each with its index in the window |
| `front` | the frontend's cursor and its last choose |
| `aborted` | whether a call has aborted the process |

Plain full pinyin drives the session with the typed bytes. Index schemes, double
pinyin and zhuyin drive it with syllables joined by apostrophes, so a caller's
offset is mapped into the session (`session_column`) and an answer is mapped
back (`original_offset`). A column holds the keys that start there; a separator,
or the place behind the parse, holds a zero key, and the cursor functions refuse
an offset behind a column with only that. The C functions then abort, as
libpinyin's assertions do.

`ParseMore`, `SetOptions`, `GuessSentence`, `GuessCandidates`, `Choose`,
`ClearConstraint`, `LookupOffset`, `MoveLeft`, `MoveRight` and `Reset` are the C
functions of those names; `ParseFails` and `GuessSentenceFails`, and disjuncts of
the others, are their endings when a dictionary read fails. `Choose` rewrites an
addon row of the snapshot before it selects, as `try_promote_addon` does.

The frontend chooses only from rows of its last guess, goes on from the offset
the last call answered, moves only while the parse has keys, and right only while
a key lies ahead. The choose of a sentence row answers the parsed length, and is
taken as a commit. Without sentence rows in the sort word it guesses at 0 only,
which the code asserts. The dictionary has a phrase for every path of keys and
an addon phrase for the longest path. The best sentence row is the only one,
and it constrains nothing.

### Grams and their memo

`UserGrams` trains a sentence in the code's two passes: `CheckTraining` replays
every step on copies, `ObserveSelection` then stores them one by one. A gram is
a total and its items in stored order, never sorted, with a length that may fall
short of its total or end in half an item, as a file on disk can. The
`accepted` answer of the phrase index and whether items are left are inputs.

`CountCache` splits the readers and writers of the store at every lock and atomic
access. A reader takes the cache lock and then the offsets lock; a writer
publishes the gate and the generation, drops the offsets lock and only then
takes the cache lock. At this commit none of this overlaps but readers with
readers: a `UserStore` is not `Clone`, its `Arc<StoreInner>` is never cloned, and
every mutation takes `&mut self`, so "the two never overlap" (`store.rs:4424-4425`).
`CountCache.Next` over-approximates: it interleaves readers and writers freely.
Every order the code can take is among its behaviours, so what holds of it holds
of the code, and it goes on holding if a handle is ever shared, as the locks and
`store_libpinyin.rs:835-842` provide for. No lock cycle or lost write is claimed
as a danger of today's code.

### User and system libraries

`UserLibraries` has the user items by library and slot, each library's total and
the offset its chunk came with, the facade's own total, the phrase table and the
pinyin index. Every operation updates all of them, in the code's order, with its
refusals. A save, the end of an import and a mask end with `compact_libraries`. The
mask walk of Kyoto Cabinet and tkrzw reuses one entry per key
length that never shrinks; `UserIndex` keeps those entries. An open finds an
empty, a saved, a torn or a full profile.

`SubIndexJournal` replays a journal one record at a time (`ApplyRecord`), with
each kind of record, mismatch, short payload and ending, then publishes the
buffers. The provenance of a slot is the two sets `absent` and `present` that
the code fills only once a journal turns exceptional. A save writes the
difference between the live buffer and the chunk on disk at that moment, which
`ReplaceChunk` may have changed; `ChangeFile` takes a chunk away or brings it
back. An item is its unigram and its readings, and its stored length is the
number of readings: items never share bytes, a MODIFY of an absent item never
matches, an open meets only chunks it can map, and the dirty flag is left out.

### UserProfile

A save rewrites every file of the profile, so a file is the number of the save
it comes from, and whether it is torn. A session is one open of the directory
with its own program counter: `check_format`, the marker write (open, which
truncates, then write), the wipe file by file, the load, and so on. `Law`
chooses libpinyin (counter raised at open, written before the wipe, lowered at
fini) or libzhuyin (no counter, no marker at open, each file renamed as it is
written). `Reporting` chooses the C libraries' save, which carries on past a
failed file, or the strict save of the Rust interface. With `IOFaults`:

* a chunk may fail to open (its old `.tmp` stays), to encode, in its header or
  in its payload; a DBM may fail after its `.tmp` was unlinked;
* a rename or an unlink may fail;
* the marker may fail to open, or be left empty, torn or without its format line.

`Die` is possible at every step. It also stands for an open that fails after
its marker was written, which by design leaves the counter raised.
`raised` counts the opens since the counter began anew that no fini undid; it is
a history variable.

## What the runs show

| Run | Instance | Shows |
|---|---|---|
| `constraint_store` | 4 cells, 2 tokens, 4 rows | runs stay whole; the cells implement the abstract runs |
| `session` | inputs of up to 3 letters over 2 keys, 5 phrases, 2 rows, disciplined | the session properties below |
| `session_free` | 4 inputs of up to 2 letters, 2 phrases, any order of calls, deferred lists, faults, rows at any anchor | the offset stays in the input |
| `instance` | 7 buffers in 4 modes, 2 option words, 2 events, 1 forced run (77,110 states) | the instance properties below |
| `count_cache` | 2 readers, 2 writers, 2 predecessors, 2 writes (337,850 states) | locks, gate and memo |
| `user_grams` | 3 tokens, 2 predecessors, words of 4 bits, sentences of 2 steps, 3 writes (28,109 states) | grams under training and masks |
| `user_libraries` | 2 libraries of 2 slots, 4 disks, 3 operations (26,316 states) | libraries, tables and totals in step |
| `journal` | 1 library of 4 slots, 2 chunks, 26 journals, 2 operations (1,804,450 states) | provenance, diff and mask |
| `profile_strict` | 3 files, 1 session at a time, limit 2, 2 further saves, faults | strict save under libpinyin's law |
| `profile_zhuyin` | 3 files, 2 overlapping sessions, no faults | reporting save under libzhuyin's law |
| `user_libraries_unloaded`, `profile_short_write` | as `user_libraries`, `profile_strict` | two disagreements, below |

Session:

* `CursorInInput`: the offset every `raw[consumed..]` slice relies on.
* `SelectedTextWhenGuessed`: the selected text spells the selected letters.
* `TrainsWhatIsShown`: text and tokens never part.
* `ForcedRunsWhole`: although `select` only resizes the store.
* `ForcingsAreSelected`: every forcing lies within the selection and spells its
  letters, so that the decoder is held to nothing the selected text does not show.
* `RowsHonourForcings`: a row carries every forcing. Only one of a single letter
  may be missing, and then a phrase of the row begins before it and covers it.
* `GuessKeepsSelection`: what the parse made of the record on a copy of the
  store, the guess makes of it on the store.

Instance:

* `ChoosesWhatIsShown`: a choose takes the phrase the frontend named, whatever
  was cleared, decoded or moved since the rows were listed.
* `AnswerResumes`: the next guess at the offset a choose answered starts where
  the chosen phrase ends.
* `AnsweredNeverAborts`: an offset the library answered never aborts the process,
  unless an option change has had plain input parsed again.
* `RowsOfThisInput`: no row outlives its buffer. While the parse stands, or the rows
  are those of the last guess, each spells letters of the input.

Grams and memo:

* `CheckedStepsCommit`: a sentence whose steps were checked is stored whole.
* `OwnGramsLeaveNoResidue`: a gram that was loaded ordered and balanced, or made
  here, is never left by a mask with a total and no item.
* `MaskLeavesNoTrace`: no masked token stays, as predecessor or as item.
* `GateSound`, `ClosedGateMeansNoGram`: the gate is never closed over a gram.
* `MergedReadsExact`: on rows that were loaded in order, a read of two grams at
  once answers what their merge would.
* `LockOrder`, `CacheInv`, `ReadsCurrentGram`: no lock cycle; every memo of the
  current generation agrees with the container; no decode reads an old gram.

Libraries:

* `TotalIsItemsPlusOffset`, `FacadeFollowsLibraries`, `FacadeTotalExact`: totals
  that part only by what the code lets them part by.
* `ItemsAreFound`, `MaskTakesExactlyTheMasked`: items and the two tables that
  name them. An item of a library that was once unloaded is exempt.
* `RemovedIsNotFound`: only for a backend that keeps no entry between
  operations; with the reused entries it is not claimed.
* `RemovedExactly`, `AddedExactly`: what was shipped is known exactly, whatever
  the journal says in whatever order.
* `SavedItemsComeBack`, `MaskRestores`: save and mask against the journal, over
  the chunk the save was taken against.

Profile: `NoTornProfile`, `MixedInOrder`, `SavedMeansOnDisk`,
`WipeOnlyAfterDeaths`, `OtherVersionNeverRead`, `SaveEnds`.

### Disagreements

Two runs end in a violation: the code and a line of its comments or docs
disagree. The lines are quoted under "findings" in `PROJECT.json`.

1. `profile_short_write`: a short write reaches the profile in a reporting save.
2. `user_libraries_unloaded`: an import into an unloaded library makes an item
   there, which the next save or load loses.

Others have no run. TLC violated each of the first six when it was stated as a
property; the last three are exceptions written into a property.

* With a letter that is no key in the input, `SelectedTextWhenGuessed` fails: a
  sentence row's span is added to an offset that is not 0. The `session` run
  has keys only.
* Under libpinyin's law `OtherVersionNeverRead` fails: a death between the
  marker and the wipe leaves the old version's files under a marker that vouches
  for them. The run checks it under libzhuyin's law, which writes no marker then.
* A forcing of one letter can be stepped over by the decode, which
  `RowsHonourForcings` allows.
* Selected text of a replaced input survives until the guess, which is why the
  session properties speak of a standing guess.
* A stopped save leaves its `.tmp` files behind.
* `mask_out` that meets a faulty journal replaces no library at all, although the
  comment at `oxpinyin-facade/src/context.rs:624-626` says the libraries before
  the faulty one are reloaded. The C functions abort on that answer.
* In an index scheme a phrase may end inside a divided key. The answer is then
  the end of the whole key, which `AnswerResumes` allows.
* An addon row promoted by a choose that then failed is taken, when chosen again,
  with the addon's token, which `ChoosesWhatIsShown` allows.
* A guess after an option change has plain input parsed again. If it then fails,
  the rows of the old reading are still listed, even where the new one has no
  key. They are not the rows of the last guess, and `RowsOfThisInput` leaves them
  out.

### Bounds

* `Session`: three letters and phrases of one, two and three letters are enough
  for runs next to each other, a gap before or between runs, a run truncated in
  its middle, and a phrase that contains a whole run. Two phrases share a
  spelling, so two rows can differ in a token only. `MaxParts` bounds the pieces
  of a selection; without it an undisciplined frontend can choose for ever.
  `session_free` uses few inputs, since its order of calls is free; it contains
  an empty input, an unparsable one and one that extends another.
* `Instance`: the buffers have a separator alone, inside and before an unparsed
  tail, a divided key, a parse without keys, one that has a key under
  one option word only, and keys whose joined spelling is
  longer or shorter than what was typed. Letters that no offset falls between
  stand as one. `MaxEvents` bounds parses, option changes and failed reads
  together: two are enough for a parse and a change under it, a second parse,
  or a failure. Guesses, chooses, clears and moves are unbounded. The
  properties were also checked once with `MaxEvents` 3 (436,645 states) and once
  with `MaxForced` 2 (117,505 states).
* `UserGrams`: words of 4 bits wrap within three writes; the seeds 1, 2 and 4 stand
  for the code's initial seed, factor and ceiling. Profiles contain short, partial and
  unsorted grams.
* `UserLibraries`: totals are modulo 16, so that counts of 4 under the import
  factor of 3 wrap them at the second import. Entries include two readings of one text and a reading that
  begins another. Three operations are enough for add, mask and search.
* `SubIndexJournal`: the 26 journals are the empty one, thirteen of a single record, sequences
  that write a slot again, empty and refill it, or turn exceptional after a plain
  MODIFY, and five with a bad ending. A behaviour has two operations besides the
  steps of its replays. One library, and libpinyin's order of renames only.
* `UserProfile`: three files put two renames between the first and the last; a
  limit of 2 needs three unfinished opens, the same arithmetic as the code's 6.
  `MaxSaves` allows two saves after the profile found, enough for the leavings of
  a first, stopped save to meet a second.

Deadlock is not checked where a bound on operations ends every behaviour
(`user_grams`, `user_libraries`, `journal`), where the process may abort
(`instance`), and where a marker without its format line makes every later open
fail (`profile_strict`).

### Fairness

Only a running save is fair (`WF` on `SaveStep`): it is one synchronous call,
and it takes its next step unless its process dies. No fairness is assumed of
frontends, of opens, or of deaths. Every other operation is one call that ends.

## What is proved

TLAPS checks these for every value of the constants allowed by the named
assumptions in the modules. The assumptions are types (`Spelling` maps tokens
to non-empty sequences of keys, inputs are sequences of letters, bounds are
numbers), in `UserProfile` that the order of renames names no file twice
(`DistinctAssumption`), and in `Instance` what a parser answers
(`ParsesAssumption`).

### Constraint store

* `TypeCorrect`, `RunsStayWhole` (`ConstraintStoreProofs`). The inductive
  invariant is `TypeOK /\ WellFormed`. `add` is a loop of clears followed by a
  write, so `ConstraintCellsProofs` first shows what one `clear_by_offset` does to
  a store with whole runs, then carries two facts through the loop by induction
  on its index: runs stay whole, and no cell already visited is part of a run.
  The write then cannot cut a run. `diff_result` is a loop of adds. `WellFormed`
  needs no bound on the array.
* `StoreImplementsForcedRuns`: the refinement `ImplementsForcedRuns`. For each
  operation a lemma says which runs it leaves (`ClearRuns`, `AddRuns`, `GrowRuns`,
  `DiffRuns`, `ValidateRuns`), and each step is then a step of `ForcedRuns` or
  changes no run.

### Session

The theorems differ in how much of the frontend they need:

| Theorem | Shows | Assumes |
|---|---|---|
| `SessionTypeCorrect` | every variable keeps its shape | nothing |
| `CursorStaysInInput` | `CursorInInput` | nothing |
| `TrainsWhatTheTextShows` | `TrainsWhatIsShown` | `Disciplined` |
| `RunsStayWhole` | `ForcedRunsWhole` | `Disciplined` |
| `GuessHonoursForcings` | `RowsHonourForcings` | `Disciplined` |
| `SelectedTextIsLetters` | `SelectedTextWhenGuessed` | `Disciplined`, no failing reads, sentence rows chosen from the list, inputs of keys |
| `ForcingsStaySelected` | `ForcingsAreSelected` | the same |
| `GuessLeavesSelection` | `GuessKeepsSelection` | the same |

"Nothing" means any order of calls with failing reads, deferred lists and rows
at any anchor. None of the properties but the first two is inductive:

* `Shape` is the type invariant, with the cursor within the input, and every
  `OneStep` cell ending past its start with a token (`Sound`). The rebuild loop
  and the walk are recursive functions; `SessionLemmas` shows they are well
  defined and carries facts through them by induction on the cell and on the
  position.
* `Listed` says that under a standing guess the list is the one a build would
  give now, and that it is empty after a choose that failed, since the frontend
  may then choose again.
* `Told` adds the same equation for the prefix and history of the sentence, and
  that each row's text is the prefix followed by its phrases: a chosen row's text
  and tokens become the record's.
* `Forced` says how much of whole runs is left in each phase. A validation that
  fails half way leaves the store cut at its end, with runs that point past it
  (`RunsCut`). The next validation mends it, because it asks for no more cells
  than there are; an edit in between, which could ask for more, is excluded by
  the discipline. While a guess stands the store has at most one cell per letter
  and the tail, so that the resize of a choose only grows it.
* `TextKept` is the invariant for the text. While a guess stands every run ends
  behind the cursor and spells its letters (`Fits`), and every row is the whole
  input, phrase by phrase over its own letters (`FullRows`). After an edit the
  runs may no longer spell. Then the record is the one that a rebuild from the
  validated store would give, and the guess gives exactly that. The walk is
  shown to cover the input (`WalkCovers`) and to put each phrase over letters it
  spells (`WalkSplits`), so the forcings that `diff_result` takes from a row spell.

The last four assumptions are used where the code needs them. Without the
discipline the record outlives its input until the guess. With a letter that is
no key, or a row at an anchor of its own, a row's span is added to an offset it
was not made for. A failed choose or guess leaves the selection of a list that
was never built.

### Instance

`RowsStayOfThisInput` (`RowsOfThisInput`) and `ChoosesShown` (`ChoosesWhatIsShown`)
hold for any parses, option words and bounds. Of the parsers they assume what
`ParsesAssumption` says: a parse is a record of bytes, keys and columns, a parse
without keys has empty columns, every input is answered under every option word,
and the word changes the reading but not the bytes. Neither property is
inductive. `Held` adds three things:

* The session's text is a plain parse, or the joined text of keys, or none
  (`IsSession`). `set_options` may read it again, and then the bytes are the
  same. This is what keeps the letters of a listed row in the input when the
  options change.
* The window's rows end at offsets, and an addon row has an addon token
  (`IsWindow`).
* While the rows are fresh, each is the window's row with its number, or that
  addon row promoted (`ShownFrom`). A choose looks its row up in the window, so
  the phrase taken is the one shown.

The lemmas carry facts through the recursive functions of the model: the columns,
the joined text, the ends a scan visits and the snapshot are well defined, and
`candidates_at` makes only rows over keys past its offset (`CandidatesShape`).

### The others

* `CacheCoherent`, `LocksInOrder`, `ClosedGateSound`, `MemoNeverStale`
  (`CountCacheProofs`), for any number of threads. `CacheInv` is inductive: who
  holds which lock, that every copy of the memo agrees with the container at its
  own generation, and that the gate closes only over an empty container. The step
  that matters is the generation: a writer raises it while it holds the offsets
  lock, and a reader reads it under that lock before it trusts the memo.
* `ProvenanceInvariant`, `RemovalsAnswered`, `AdditionsAnswered`
  (`SubIndexJournalProofs`), for any libraries, chunks and journals.
  `RemovedExactly` alone is not inductive, since a replay in progress must not
  lose what it will publish. `Inv` adds: `absent` and `present` hold only slots
  without and with a shipped item; before the first exceptional record no slot
  has gained or lost an item; from then on every slot that did is among those
  touched; a library still to be replayed is as it was mapped.
* `JournalInvariant`, `SavedComeBack` (`SavedItemsComeBack`), `MaskingRestores`
  (`MaskRestores`), in the same module and as general. Both speak of one step,
  the publication of a replay, and of a save any number of sessions earlier.
  `JournalInv` ties the two together. On disk, the journal of a save is a header
  that fits the chunk's total, then one record for each slot in which the chunk
  and the saved items differ (`CarriesAll`), and nothing after it. During a
  replay, the records left are that difference between the buffer so far and the
  saved items (`Restoring`), so no record of a save can mismatch, fault or be
  rolled back. Under a mask the same holds inside the kept slots (`Scope`), and
  outside them the buffer holds what the chunk ships, also for a journal that no
  save stands behind. `DiffCarries` and `MaskedCarries` establish the relation
  for the journal a save writes and for what a mask leaves of it, by induction
  over the loop that picks the records (`PickedPositions`). `JournalAssumption`
  says that chunks and journals name slots. `JournalInv` itself was checked with
  TLC on the `journal` instance with one operation before it was proved.
* `AnswerMapsBack`, `WalkPassesCheck`, `LeftwardNeverAborts` (`InstanceProofs`), for
  parses of any length. The first is the transformed half of `AnswerResumes`: for
  keys in order, mapping an answer back gives the end of the key the phrase ends
  in. The others are the leftward half of `AnsweredNeverAborts`: the walk over
  separators stops only at a column whose predecessor holds a real key, or at 1,
  where the assumption that column 0 is no lone zero key is used. That a
  parse with keys satisfies it is read off `zero_end` and is not itself proved.
  The argument takes the least element of the walked columns.
* `ProfileTypeCorrect`, `SaveNeverTears`, `SavesMixInOrder`, `SavedIsOnDisk`
  (`UserProfileProofs`). `NoTornProfile` is not inductive: a rename is harmless
  only if its `.tmp` is whole. `SaveInv` adds that at most one session is saving
  (`OneSave`), that the `.tmp` files it has staged are whole and of its own save,
  that all are once it renames, and which files it has renamed. The theorems
  assume a save that is not reporting, or no failing file operation. With
  `Reporting` and failures `NoTornProfile` fails (`profile_short_write`), which is
  where the assumption is used. `SavedIsOnDisk` also assumes one session at a
  time: another one's wipe may take the files away again.
* `WipeCostsDeaths`: the counter on disk is at most one above the opens that no
  fini undid, and not above them while nobody is open, which is what an open
  judges (`CounterInv`). For libpinyin's law and one session at a time.
* `ZhuyinNeverReadsOtherVersion`: while files of another version are there, no
  marker vouches for them, no `.tmp` holds one, and every session is closed or
  still wiping, with those it has passed gone (`VersionInv`). It assumes that
  file operations succeed.

### Only model-checked

Every property of `UserGrams` and `UserLibraries`, `AnswerResumes` and
`AnsweredNeverAborts` of `Instance` (the theorems about `Offsets` cover parts of
both), `FacadeTotalExact` of `SubIndexJournal`,
and liveness (`SaveEnds`), which the prover cannot express under fairness.

## What is not modelled

* In the session: promoted addon tokens (they are in `Instance`), the window
  before the cursor, the fallback without frequencies, multi-byte characters, and
  removal of duplicate texts among rows (the model allows the duplicates).
* In the instance: resplit and fuzzy keys, predictions, guesses with a prefix,
  removal of user candidates, the strings of the getters, and the aborts over a
  facade total of zero or a malformed gram during a lookup.
* Training: which steps the spans of a sentence make, and the choice among the
  readings of a span.
* In the libraries: tones, content bytes and a library whose slots run out; in
  the journal, items that overlap in the buffer.
* In the profile: libraries that are not loaded and so are skipped, two roles
  that share a file name, a context without a user directory, and two saves at
  once. The last is an assumption (`save` waits for the other): sessions share
  the `.tmp` names and nothing in the code keeps two saves apart.
* The libzhuyin functions over an instance: their save and marker are in
  `UserProfile`, the engine under them is the one modelled.
* Parsers, tables, key-value backends, marshalling and offline tools: pure
  functions over large data, or I/O. They are most of the repository's lines.

## Plan

1. The libzhuyin instance: before-cursor windows and direction-dependent offsets
   (`zhuyin_lookup_session_offset`) over `Offsets`.
2. Pure algorithms: k-best search and the fewest-keys parse against a
   definition by enumeration.
3. Proofs: `CheckedStepsCommit` and `GateSound` of the grams,
   `AnsweredNeverAborts` of the instance.
