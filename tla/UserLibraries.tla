---------------------------- MODULE UserLibraries ----------------------------
(***************************************************************************)
(* The USER_FILE phrase libraries of a session: their items, totals and    *)
(* offsets, the facade's total, the phrase table and the pinyin index that *)
(* name the items, and what a save, an unload and a load do to each        *)
(* (crates/oxpinyin-user/src/store_arena.rs, store.rs, user_library.rs).   *)
(*                                                                         *)
(* Frequencies are numbers modulo Word (2^32 in the code).  Whether a user *)
(* bigram row would fault a mask is an input; module UserGrams says when   *)
(* it does.  Content bytes are left out: an item is what its slot names.   *)
(***************************************************************************)
EXTENDS Naturals, FiniteSets, SequencesExt

CONSTANTS
    Libs,               \* USER_FILE nibbles
    Addon,              \* ADDON_DICTIONARY, the one promotions go to
    Unloadable,         \* those the C ABI lets through to an unload
    MaxSlot,            \* bound on allocated slots; no library is ever full
    Entries,            \* [text, keys] pairs a caller may add
    AddonItems,         \* [text, readings] of the addon items to promote
    Deltas,             \* counts and frequency increments
    Word, PronWrap,     \* 2^32, and 2^8 readings of an item
    UnigramFactor,      \* ADD_PHRASE_UNIGRAM_FACTOR
    Disks,              \* the chunks a session may find on disk
    MaxOps,             \* bound on the operations of a behaviour
    MaxPhraseLength, KeyOrder, ReadingOrder, TextOrder

ASSUME LibrariesAssumption ==
    /\ Libs \subseteq Nat \ {0} /\ Addon \in Libs /\ Unloadable \subseteq Libs
    /\ Word \in Nat \ {0, 1} /\ PronWrap \in Nat \ {0, 1} /\ Deltas \subseteq Nat

VARIABLES
    libraries,          \* SessionPhrases.libraries: nibble -> [items, total]
    unloaded,           \* SessionPhrases.unloaded
    offsets,            \* StoreInner.offsets; 0 is no entry
    facade_extra,       \* SystemItems.facade_extra, modulo Word
    table, index,       \* the user phrase table and pinyin index
    entry_per_length,   \* ENTRY_PER_LENGTH of the build
    disk,               \* what the last save left: chunks, table and index
    result,             \* what the last operation answered
    ops,
    disturbed           \* tokens of libraries that were unloaded, and of
                        \* items whose reading count wrapped (history)

vars == <<libraries, unloaded, offsets, facade_extra, table, index,
          entry_per_length, disk, result, ops, disturbed>>

Index == INSTANCE UserIndex
Table == INSTANCE UserPhraseTable

-----------------------------------------------------------------------------
SlotBase == MaxSlot + 1
Token(l, slot) == l * SlotBase + slot
LibraryOf(token) == token \div SlotBase
SlotOf(token) == token % SlotBase
TokensOf(l) == {Token(l, slot) : slot \in 1..MaxSlot}
Tokens == UNION {TokensOf(l) : l \in Libs}
Masks == {{t} : t \in Tokens} \cup {TokensOf(l) : l \in Libs}

add32(a, b) == (a + b) % Word
sub32(a, b) == (a + Word - b) % Word

NoLibrary == [items |-> <<>>, total |-> 0]
empty_with_total(total) == [NoLibrary EXCEPT !.total = total]
Sum(items) == FoldLeft(LAMBDA sum, slot : add32(sum, items[slot].unigram), 0,
                       SetToSeq(DOMAIN items))
HasItem(token) == /\ LibraryOf(token) \in DOMAIN libraries
                  /\ SlotOf(token) \in DOMAIN libraries[LibraryOf(token)].items
ItemOf(token) == libraries[LibraryOf(token)].items[SlotOf(token)]

\* UserLibrary::token_end
token_end(library) ==
    IF DOMAIN library.items = {} THEN 1
    ELSE 1 + CHOOSE s \in DOMAIN library.items :
               \A t \in DOMAIN library.items : t <= s

\* apply_replacement without removes_old: the slot takes the item, the total
\* its unigram.
PutItem(library, slot, item) ==
    [items |-> [s \in DOMAIN library.items \cup {slot} |->
                  IF s = slot THEN item ELSE library.items[s]],
     total |-> add32(library.total, item.unigram)]

KeepsTotal(library, slot) ==
    [library EXCEPT !.items = [s \in DOMAIN @ \ {slot} |-> @[s]]]

\* remove_body
remove_body(library, slot) ==
    [items |-> [s \in DOMAIN library.items \ {slot} |-> library.items[s]],
     total |-> sub32(library.total, library.items[slot].unigram)]

\* remove_matching
remove_matching(library, slots) ==
    FoldLeft(LAMBDA x, slot : remove_body(x, slot), library, SetToSeq(slots))

\* SessionPhrases::arena: an absent library starts from its retained total.
arena(l) == IF l \in DOMAIN libraries THEN libraries[l]
            ELSE empty_with_total(offsets[l])
WithLibrary(l, library) ==
    [n \in DOMAIN libraries \cup {l} |-> IF n = l THEN library ELSE libraries[n]]

library_total_of(l) ==
    IF l \in DOMAIN libraries THEN libraries[l].total ELSE offsets[l]

-----------------------------------------------------------------------------
Step(r) == ops < MaxOps /\ ops' = ops + 1 /\ result' = r
Refuse(r) == /\ ops < MaxOps /\ result' = r
             /\ UNCHANGED <<libraries, unloaded, offsets, facade_extra, table,
                            index, entry_per_length, disk, ops, disturbed>>

SumBefore(prons, n) ==
    FoldLeft(LAMBDA sum, pron : add32(sum, pron.freq), 0, SubSeq(prons, 1, n))

\* add_reading: an existing reading takes delta unless the running total of
\* the readings up to it overflows; a new one is appended, and the count
\* byte that wraps to zero hides every reading.
add_reading(item, keys, delta) ==
    LET hits == {n \in DOMAIN item.prons : item.prons[n].keys = keys}
        at == CHOOSE n \in hits : \A m \in hits : n <= m
    IN  IF hits # {}
          THEN IF SumBefore(item.prons, at) + delta < Word
                 THEN [item EXCEPT !.prons[at].freq = add32(@, delta)]
                 ELSE item
        ELSE IF Len(item.prons) + 1 = PronWrap THEN [item EXCEPT !.prons = <<>>]
        ELSE [item EXCEPT !.prons = Append(@, [keys |-> keys, freq |-> delta])]

\* The tokens of this library in the phrase's row.
SameLibrary(l, text) ==
    SelectSeq(Table!tokens(table, text), LAMBDA t : LibraryOf(t) = l)

\* arena_add_phrase, the phrase the library already holds: the reading is
\* merged into the item and not indexed.
AddReading(l, text, keys, delta) ==
    LET token == SameLibrary(l, text)[1]
        slot == SlotOf(token)
    IN  /\ Table!check_add(table, text)
        /\ Len(SameLibrary(l, text)) = 1
        /\ HasItem(token) /\ ItemOf(token).text = text
        /\ libraries' = [libraries EXCEPT ![l].items[slot] =
                           add_reading(@, keys, delta)]
        /\ disturbed' = IF libraries'[l].items[slot].prons = <<>>
                          THEN disturbed \cup {token} ELSE disturbed
        /\ Step("ok")
        /\ UNCHANGED <<unloaded, offsets, facade_extra, table, index,
                       entry_per_length, disk>>

\* arena_add_phrase, a new phrase: the facade takes the increment either way,
\* the item only when its library's total can.  Nothing here asks whether
\* the library is unloaded.
AddPhrase(l, text, keys, delta) ==
    LET slot == token_end(arena(l))
        increment == (delta * UnigramFactor) % Word
        accepted == library_total_of(l) + increment < Word
        item == [text |-> text, unigram |-> IF accepted THEN increment ELSE 0,
                 prons |-> <<[keys |-> keys, freq |-> delta]>>]
    IN  /\ Table!check_add(table, text)
        /\ SameLibrary(l, text) = <<>>
        /\ slot <= MaxSlot
        /\ facade_extra' = add32(facade_extra, increment)
        /\ libraries' = WithLibrary(l, PutItem(arena(l), slot, item))
        /\ table' = Table!add(table, text, Token(l, slot))
        /\ index' = Index!add(index, keys, Token(l, slot))
        /\ Step(IF accepted THEN "ok" ELSE "refused")
        /\ UNCHANGED <<unloaded, offsets, entry_per_length, disk, disturbed>>

\* arena_add_phrase's refusals, before any change.
AddRefused(l, text) ==
    LET same == SameLibrary(l, text)
    IN  /\ \/ ~Table!check_add(table, text)
           \/ Len(same) > 1
           \/ Len(same) = 1 /\ ~HasItem(same[1])
           \/ Len(same) = 1 /\ HasItem(same[1]) /\ ItemOf(same[1]).text # text
        /\ Refuse("error")

\* arena_promote: an addon item goes to ADDON_DICTIONARY's next slot with its
\* unigram, and every reading is indexed.
Promote(text, readings, unigram) ==
    LET slot == token_end(arena(Addon))
        token == Token(Addon, slot)
        item == [text |-> text, unigram |-> unigram,
                 prons |-> [n \in DOMAIN readings |->
                              [keys |-> readings[n], freq |-> unigram]]]
    IN  /\ Table!check_add(table, text)
        /\ slot <= MaxSlot
        /\ facade_extra' = add32(facade_extra, unigram)
        /\ libraries' = WithLibrary(Addon, PutItem(arena(Addon), slot, item))
        /\ table' = Table!add(table, text, token)
        /\ index' = FoldLeft(LAMBDA x, keys : Index!add(x, keys, token), index,
                             readings)
        /\ Step("ok")
        /\ UNCHANGED <<unloaded, offsets, entry_per_length, disk, disturbed>>

-----------------------------------------------------------------------------
\* arena_add_unigram_outcome: the facade's total takes delta first; the
\* library takes it only with an item to give it to and room in its total.
AddUnigram(token, delta) ==
    LET l == LibraryOf(token)
        slot == SlotOf(token)
        room == library_total_of(l) + delta < Word
    IN  /\ l \notin unloaded
        /\ facade_extra' = add32(facade_extra, delta)
        /\ libraries' = IF ~room \/ ~HasItem(token) THEN libraries
                        ELSE [libraries EXCEPT
                                ![l].items[slot].unigram = add32(@, delta),
                                ![l].total = add32(@, delta)]
        /\ Step(IF ~room THEN "refused"
                ELSE IF HasItem(token) THEN "ok" ELSE "missing")
        /\ UNCHANGED <<unloaded, offsets, table, index, entry_per_length, disk,
                       disturbed>>

\* UserLibrary::train over one reading: every match takes delta until the
\* running total overflows.
train(item, keys, delta) ==
    LET step(x, pron) ==
          LET total == add32(x.total, pron.freq)
              takes == ~x.stopped /\ pron.keys = keys /\ total + delta < Word
          IN  [total |-> IF takes THEN total + delta ELSE total,
               stopped |-> x.stopped \/ (pron.keys = keys /\ ~takes),
               prons |-> Append(x.prons, IF takes
                           THEN [pron EXCEPT !.freq = add32(@, delta)] ELSE pron)]
    IN  [item EXCEPT !.prons =
           FoldLeft(step, [total |-> 0, stopped |-> FALSE, prons |-> <<>>], @).prons]

\* arena_train on a user item; an unloaded library trains nothing.
Train(token, keys, delta) ==
    /\ LibraryOf(token) \notin unloaded
    /\ HasItem(token)
    /\ libraries' = [libraries EXCEPT
                       ![LibraryOf(token)].items[SlotOf(token)] =
                         train(@, keys, delta)]
    /\ Step("ok")
    /\ UNCHANGED <<unloaded, offsets, facade_extra, table, index,
                   entry_per_length, disk, disturbed>>

TrainsNothing(token) ==
    /\ LibraryOf(token) \in unloaded \/ ~HasItem(token)
    /\ Refuse("missing")

-----------------------------------------------------------------------------
\* The ordered removals of every reading: [index, done].
RemoveReadings(item, token) ==
    FoldLeft(LAMBDA x, pron : IF x.done THEN Index!remove(x.index, pron.keys, token)
                              ELSE x,
             [index |-> index, done |-> TRUE], item.prons)

ForgetsFacade(token) ==
    LET l == LibraryOf(token)
        item == ItemOf(token)
    IN  /\ HasItem(token)
        /\ token \in ToSet(Table!tokens(table, item.text))
        /\ RemoveReadings(item, token).done
        /\ table' = Table!remove(table, item.text, token)
        /\ index' = RemoveReadings(item, token).index
        /\ libraries' = [libraries EXCEPT ![l] = remove_body(@, SlotOf(token))]
        /\ Step("ok")
        /\ UNCHANGED <<facade_extra, unloaded, offsets, entry_per_length, disk,
                       disturbed>>

\* arena_remove: every reading's removal is tried on a copy first.
RemovePhrase(token) ==
    LET l == LibraryOf(token)
        item == ItemOf(token)
    IN  /\ HasItem(token)
        /\ token \in ToSet(Table!tokens(table, item.text))
        /\ RemoveReadings(item, token).done
        /\ facade_extra' = sub32(facade_extra, item.unigram)
        /\ table' = Table!remove(table, item.text, token)
        /\ index' = RemoveReadings(item, token).index
        /\ libraries' = [libraries EXCEPT ![l] = remove_body(@, SlotOf(token))]
        /\ Step("removed")
        /\ UNCHANGED <<unloaded, offsets, entry_per_length, disk, disturbed>>

\* No item, no row, a reading the index does not hold, or a bigram fault.
RemoveRefused(token, bigram_fault) ==
    LET item == ItemOf(token)
        listed == HasItem(token) /\ token \in ToSet(Table!tokens(table, item.text))
    IN  /\ \/ ~listed
           \/ listed /\ (bigram_fault \/ ~RemoveReadings(item, token).done)
        /\ Refuse(IF listed THEN "error" ELSE "false")

SelectedSlots(l, masked) ==
    {slot \in DOMAIN libraries[l].items : Token(l, slot) \in masked}

\* UserLibrary::compact: the same items, the total their sum.
compact(library) == [library EXCEPT !.total = Sum(library.items)]

\* compact_libraries over `present`: every library compacted, no offset left, not
\* even of a library without an arena; the facade's total stays.
compact_libraries(present) ==
    /\ libraries' = [l \in DOMAIN present |-> compact(present[l])]
    /\ offsets' = [l \in Libs |-> 0]

\* mask_arena: what leaves each library leaves the facade's total too.
mask_arena(masked) ==
    [l \in DOMAIN libraries |->
       remove_matching(libraries[l], SelectedSlots(l, masked))]
MaskedFacade(masked) ==
    LET gone(l) == Sum([s \in SelectedSlots(l, masked) |-> libraries[l].items[s]])
    IN  FoldLeft(LAMBDA x, l : sub32(x, gone(l)), facade_extra,
                 SetToSeq(DOMAIN libraries))

\* UserStore::mask_out: the index, the phrase table and the facade's total; its
\* libraries are mask_arena(masked).
mask_out(masked) ==
    /\ Table!check_mask(table)
    /\ index' = Index!mask(index, masked, entry_per_length)
    /\ table' = Table!mask(table, masked, entry_per_length)
    /\ facade_extra' = MaskedFacade(masked)

\* The facade's mask_out, on the user's side: the store masked, then compacted.
MaskOut(masked) ==
    /\ mask_out(masked)
    /\ compact_libraries(mask_arena(masked))
    /\ Step("masked")
    /\ UNCHANGED <<unloaded, entry_per_length, disk, disturbed>>

\* check_mask_out's refusals: a torn phrase record or a bigram fault.
MaskRefused(bigram_fault) ==
    /\ bigram_fault \/ ~Table!check_mask(table)
    /\ Refuse("error")

-----------------------------------------------------------------------------
\* replace_user_arena: `library` in, or none with present = FALSE; the facade
\* gives the old share and takes the new one.
replace_user_arena(l, present, library) ==
    LET before == IF l \in DOMAIN libraries THEN Sum(libraries[l].items) ELSE 0
        after == IF present THEN Sum(library.items) ELSE 0
        offset == IF present THEN sub32(library.total, after) ELSE 0
        moved == sub32(offset, offsets[l])
    IN  /\ offsets' = [offsets EXCEPT ![l] = offset]
        /\ facade_extra' = add32(facade_extra, add32(sub32(after, before), moved))
        /\ libraries' = IF present THEN WithLibrary(l, library)
                        ELSE [n \in DOMAIN libraries \ {l} |-> libraries[n]]
        /\ unloaded' = IF present THEN unloaded \ {l} ELSE unloaded \cup {l}

\* unload_phrase_library of a visible USER_FILE library.
Unload(l) ==
    /\ l \in Unloadable \ unloaded
    /\ replace_user_arena(l, FALSE, NoLibrary)
    /\ disturbed' = disturbed \cup TokensOf(l)
    /\ Step("ok")
    /\ UNCHANGED <<table, index, entry_per_length, disk>>

\* load_phrase_library of one that is not: the saved chunk, or empty.
Load(l) ==
    /\ l \in unloaded
    /\ replace_user_arena(l, TRUE, disk.chunks[l])
    /\ Step("ok")
    /\ UNCHANGED <<table, index, entry_per_length, disk, disturbed>>

\* The end of an import: compact_libraries, and the store to be saved.
end_add_phrases ==
    /\ compact_libraries(libraries)
    /\ Step("ok")
    /\ UNCHANGED <<unloaded, facade_extra, table, index, entry_per_length, disk,
                   disturbed>>

\* save of a modified store: compact_libraries, then every file but those of
\* unloaded libraries.
Save ==
    /\ compact_libraries(libraries)
    /\ disk' = [chunks |-> [l \in Libs |->
                   IF l \in unloaded THEN disk.chunks[l]
                   ELSE IF l \in DOMAIN libraries THEN compact(libraries[l])
                   ELSE NoLibrary],
                table |-> table, rows |-> index.rows]
    /\ Step("ok")
    /\ UNCHANGED <<unloaded, facade_extra, table, index, entry_per_length,
                   disturbed>>

\* seed_totals over the chunks: offsets and the facade's total.
seed_totals(chunks) ==
    [offsets |-> [l \in Libs |-> sub32(chunks[l].total, Sum(chunks[l].items))],
     facade_extra |-> FoldLeft(LAMBDA x, l : add32(x, chunks[l].total), 0,
                               SetToSeq(Libs))]
\* open_session: a library without items has no arena, only its total.
opened_libraries(chunks) ==
    [l \in {l \in Libs : DOMAIN chunks[l].items # {}} |-> chunks[l]]
opened_index(rows) == [Index!new_index EXCEPT !.rows = rows]

\* The session ends, unsaved changes with it, and a new one opens.
Reopen ==
    /\ libraries' = opened_libraries(disk.chunks)
    /\ offsets' = seed_totals(disk.chunks).offsets
    /\ facade_extra' = seed_totals(disk.chunks).facade_extra
    /\ unloaded' = {}
    /\ table' = disk.table /\ index' = opened_index(disk.rows)
    /\ Step("ok")
    /\ UNCHANGED <<entry_per_length, disk, disturbed>>

\* A candidate search and a longer-phrase search load or empty the entries.
Search(keys) ==
    /\ entry_per_length
    /\ index' \in {Index!note_search(index, keys), Index!note_suggestion(index, keys)}
    /\ index' # index
    /\ Step("ok")
    /\ UNCHANGED <<libraries, unloaded, offsets, facade_extra, table,
                   entry_per_length, disk, disturbed>>

Init ==
    /\ disk \in Disks
    /\ libraries = opened_libraries(disk.chunks)
    /\ offsets = seed_totals(disk.chunks).offsets
    /\ facade_extra = seed_totals(disk.chunks).facade_extra
    /\ unloaded = {}
    /\ table = disk.table /\ index = opened_index(disk.rows)
    /\ entry_per_length \in BOOLEAN
    /\ result = "ok" /\ ops = 0 /\ disturbed = {}

Next ==
    \/ \E l \in Libs, e \in Entries, delta \in Deltas :
         \/ AddPhrase(l, e.text, e.keys, delta)
         \/ AddReading(l, e.text, e.keys, delta)
    \/ \E l \in Libs, e \in Entries : AddRefused(l, e.text)
    \/ \E a \in AddonItems, unigram \in Deltas :
         Promote(a.text, a.readings, unigram)
    \/ \E token \in Tokens, delta \in Deltas :
         \/ AddUnigram(token, delta)
         \/ \E e \in Entries : Train(token, e.keys, delta)
    \/ \E token \in Tokens :
         \/ TrainsNothing(token)
         \/ RemovePhrase(token)
         \/ \E fault \in BOOLEAN : RemoveRefused(token, fault)
    \/ \E masked \in Masks : MaskOut(masked)
    \/ \E fault \in BOOLEAN : MaskRefused(fault)
    \/ \E l \in Libs : Unload(l) \/ Load(l)
    \/ end_add_phrases
    \/ Save
    \/ Reopen
    \/ \E e \in Entries : Search(e.keys)

Spec == Init /\ [][Next]_vars

-----------------------------------------------------------------------------
RowTokens(rows) == UNION {ToSet(rows[key]) : key \in DOMAIN rows}
IndexTokens(x) == {item.token : item \in RowTokens(x.rows)}
Holds(library) == DOMAIN library.items

\* A library's running total is the sum of its items plus the offset its
\* chunk came with, whatever was added, trained, removed, masked, unloaded
\* and loaded: UserLibrary.total against Offsets (library_total_of).
TotalIsItemsPlusOffset ==
    \A l \in DOMAIN libraries :
      libraries[l].total = add32(Sum(libraries[l].items), offsets[l])

\* What the facade's total holds beyond the libraries' own totals.
SumOver(f) == FoldLeft(LAMBDA x, l : add32(x, f[l]), 0, SetToSeq(Libs))
Excess == sub32(facade_extra, SumOver([l \in Libs |-> library_total_of(l)]))

\* Adding, promoting, training, removing, masking, unloading and loading move
\* the facade's total by exactly what they move a library's: the two drift
\* apart only by an increment a library did not take, and by the offsets a
\* compaction drops; a new session starts level.
FacadeFollowsLibraries ==
    [][\/ Excess' = Excess
       \/ result' \in {"refused", "missing"}
       \/ offsets' # offsets /\ Excess' = add32(Excess, SumOver(offsets))
       \/ Excess' = 0 /\ Reopen]_vars

\* mask_out leaves the masked tokens in no row of either table and in no
\* library, though entries are written back with older tails, and takes no
\* other token out of any row or library.
MaskTakesExactlyTheMasked ==
    [][\A masked \in Masks : result' = "masked" /\ MaskOut(masked) =>
         /\ (RowTokens(table'.rows) \cup IndexTokens(index')) \cap masked = {}
         /\ \A text \in DOMAIN table.rows :
              ToSet(table.rows[text]) \ masked \subseteq ToSet(table'.rows[text])
         /\ \A key \in DOMAIN index.rows :
              {item \in ToSet(index.rows[key]) : item.token \notin masked}
                \subseteq ToSet(index'.rows[key])
         /\ \A token \in Tokens :
              HasItem(token)' <=> (HasItem(token) /\ token \notin masked)]_vars

\* A phrase remove_user_phrase took out is found no more, by its text or by
\* any reading it held, when the backend keeps no entry between operations.
RemovedIsNotFound ==
    [][\A token \in Tokens :
         ~entry_per_length /\ result' = "removed" /\ RemovePhrase(token) =>
         /\ token \notin ToSet(Table!tokens(table', ItemOf(token).text))
         /\ \A pron \in ToSet(ItemOf(token).prons) :
              token \notin Index!search(index', pron.keys)]_vars

\* Every item whose library was never unloaded stays listed under its text
\* and indexed under its first reading, whatever is removed, masked, saved
\* and opened around it: nothing else takes its rows away.
ItemsAreFound ==
    \A token \in Tokens \ disturbed :
      HasItem(token) =>
        /\ token \in ToSet(Table!tokens(table, ItemOf(token).text))
        /\ ItemOf(token).prons # <<>>
        /\ token \in Index!search(index, ItemOf(token).prons[1].keys)

\* "The unloaded sub-index owns no item."
UnloadedOwnsNoItem ==
    \A l \in unloaded : l \in DOMAIN libraries => Holds(libraries[l]) = {}
=============================================================================
