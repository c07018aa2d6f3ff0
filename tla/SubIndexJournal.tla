--------------------------- MODULE SubIndexJournal ---------------------------
(***************************************************************************)
(* The SYSTEM_FILE phrase libraries of a session: the chunk a library      *)
(* ships, the live buffer the session trains and imports into, and the     *)
(* journal that carries the difference from one session to the next        *)
(* (crates/oxpinyin-user/src/replay.rs, system_items.rs, persistence.rs,   *)
(* store.rs; mask_out, load and unload of oxpinyin-facade/src/context.rs). *)
(*                                                                         *)
(* A replay is taken one record at a time; no other operation can run      *)
(* before it ends.  An item is its unigram and its readings: its stored    *)
(* length is its number of readings, and two items never share bytes.  A   *)
(* MODIFY of an item that is not there compares its old bytes with the     *)
(* item the merge last read; here it never matches.                        *)
(***************************************************************************)
EXTENDS Naturals, FiniteSets, Sequences, Functions

CONSTANTS
    Libs,               \* SYSTEM_FILE nibbles, 1..n
    MaxSlot,            \* bound on the slots of a library
    Chunks,             \* library chunks that may be installed
    Logs,               \* journals an earlier session, or another program, left
    Readings, Deltas,   \* readings and counts of an operation
    Masks,              \* [libs, slots] a mask_out selects
    Word, PronWrap,     \* 2^32, and 2^8 readings of an item
    UnigramFactor,      \* ADD_PHRASE_UNIGRAM_FACTOR
    Interleaved,        \* zhuyin: each file is renamed as it is written
    MaxOps              \* bound on the operations of a behaviour

Slots == 1..MaxSlot

\* A chunk covers the slots below its number of offset words; a record of a
\* journal other than a header names a slot.
ASSUME JournalAssumption ==
    /\ MaxSlot \in Nat /\ Libs \subseteq Nat
    /\ \A c \in Chunks : /\ c.words \in Nat
                         /\ c.items = [s \in DOMAIN c.items |-> c.items[s]]
                         /\ \A s \in DOMAIN c.items : s \in Slots /\ s < c.words
    /\ \A g \in Logs : /\ g.records \in Seq(Range(g.records))
                       /\ \A r \in Range(g.records) :
                            r.kind # "HEADER" => r.slot \in Slots

VARIABLES
    chunk,      \* the library chunks on disk
    file,       \* whether each can be mapped: "ok", "gone", "directory"
    log,        \* the journals on disk
    live,       \* SystemItems.replayed: nibble -> buffer; none when unloaded
    has_removed_system_items,
    facade_extra,
    replay,     \* the replay in progress, or NoReplay
    open,       \* whether there is a session
    result,     \* what the last operation answered
    ops,
    saved       \* the items each journal stands for, or NoItems (history)

vars == <<chunk, file, log, live, has_removed_system_items, facade_extra,
          replay, open, result, ops, saved>>
disk == <<chunk, file, log, saved>>
session == <<live, has_removed_system_items, facade_extra>>

-----------------------------------------------------------------------------
add32(a, b) == (a + b) % Word
sub32(a, b) == (a + Word - b) % Word

Put(f, s, v) == [x \in DOMAIN f \cup {s} |-> IF x = s THEN v ELSE f[x]]
Without(f, s) == [x \in DOMAIN f \ {s} |-> f[x]]
SlotSeq == [s \in 1..MaxSlot |-> s]
\* The elements of a sequence at the given positions, in order.
Picked(seq, at) ==
    LET upto[n \in 0..Len(seq)] ==
          IF n = 0 THEN <<>>
          ELSE IF n \in at THEN Append(upto[n - 1], seq[n]) ELSE upto[n - 1]
    IN  upto[Len(seq)]
\* A sequence taken from the left into one value.
Folded(op(_, _), base, seq) ==
    LET upto[n \in 0..Len(seq)] ==
          IF n = 0 THEN base ELSE op(upto[n - 1], seq[n])
    IN  upto[Len(seq)]
LibSeq(S) == SelectSeq([l \in 1..Cardinality(Libs) |-> l], LAMBDA l : l \in S)
Smallest(S) == CHOOSE x \in S : \A y \in S : x <= y

size(item) == Len(item.prons)
Sum(items) ==
    Folded(LAMBDA sum, s : add32(sum, IF s \in DOMAIN items
                                          THEN items[s].unigram ELSE 0),
             0, SlotSeq)

\* ReplayedLibrary::range_end: one past the last slot with an item.
range_end(b) == 1 + CHOOSE n \in 0..MaxSlot :
                      /\ n = 0 \/ n \in DOMAIN b.items
                      /\ \A s \in DOMAIN b.items : s <= n

\* ReplayedLibrary::from_mapping
from_mapping(c) ==
    [items |-> c.items, total |-> c.total, words |-> c.words,
     absent |-> {}, present |-> {}, has_added_items |-> FALSE,
     removed |-> FALSE, shipped |-> c.items]

\* Provenance: only the first classification of a loaded slot is recorded.
loaded(b, s) == s < b.words
Classified(b, s) == ~loaded(b, s) \/ s \in b.absent \/ s \in b.present
note_absent(b, s) ==
    IF Classified(b, s) THEN b ELSE [b EXCEPT !.absent = @ \cup {s}]
NotesNothing(b, s) == b
note_present(b, s) ==
    IF Classified(b, s) THEN b ELSE [b EXCEPT !.present = @ \cup {s}]

originally_held(b, s) ==
    /\ loaded(b, s) /\ s \notin b.absent
    /\ s \in b.present \/ s \in DOMAIN b.items
is_added_slot(b, s) == ~loaded(b, s) \/ s \in b.absent

\* SystemItems::is_removed behind the session's one flag.
system_item_removed(l, s) ==
    /\ has_removed_system_items
    /\ l \in DOMAIN live
    /\ originally_held(live[l], s) /\ s \notin DOMAIN live[l].items
is_added(l, s) == l \in DOMAIN live /\ is_added_slot(live[l], s)

-----------------------------------------------------------------------------
\* Merge, over the buffer `b` it owns.  `modified` holds the slots of the
\* MODIFY records so far, which the first exceptional record asks back.
from_live(b) ==
    [b |-> b, exceptional |-> FALSE, modified |-> {}, touched |-> {},
     stop |-> "none"]

begin_exceptional(m) ==
    IF m.exceptional THEN m
    ELSE [m EXCEPT !.exceptional = TRUE,
                   !.touched = @ \cup m.modified,
                   !.b.present = @ \cup {s \in m.modified :
                                           loaded(m.b, s) /\ s \notin m.b.absent}]

Mismatch(m) == [m EXCEPT !.stop = "mismatch"]

\* add: the slot is not looked at beyond its provenance, nothing is freed.
AddRecord(m, r) ==
    LET e == begin_exceptional(m)
        n == IF r.slot \in DOMAIN e.b.items THEN e.b ELSE note_absent(e.b, r.slot)
    IN  IF r.short THEN [m EXCEPT !.stop = "short_add"]
        ELSE [e EXCEPT !.touched = @ \cup {r.slot},
                       !.b = [n EXCEPT !.items = Put(@, r.slot, r.new),
                                       !.total = add32(@, r.new.unigram)]]

\* remove: the item leaves before it is compared.
RemoveRecord(m, r) ==
    LET e == begin_exceptional(m)
        n == note_present(e.b, r.slot)
        old == m.b.items[r.slot]
    IN  IF r.slot \notin DOMAIN m.b.items
          THEN IF r.short THEN Mismatch(m)
               ELSE [e EXCEPT !.touched = @ \cup {r.slot},
                              !.b = note_absent(@, r.slot)]
        ELSE [e EXCEPT !.touched = @ \cup {r.slot},
                       !.b = [n EXCEPT !.items = Without(@, r.slot),
                                       !.total = sub32(@, old.unigram)],
                       !.stop = IF old = r.old THEN "none" ELSE "mismatch"]

\* modify: a longer item is appended and moves the total; a shorter one is
\* written in place, and so is one with the same header.
ModifyRecord(m, r) ==
    LET e == IF size(r.new) = size(r.old) THEN m ELSE begin_exceptional(m)
        n == IF e.exceptional THEN note_present(e.b, r.slot) ELSE e.b
        t == IF e.exceptional THEN {r.slot} ELSE {}
        total == IF size(r.new) > size(r.old)
                   THEN add32(sub32(n.total, r.old.unigram), r.new.unigram)
                   ELSE n.total
    IN  IF r.slot \notin DOMAIN m.b.items THEN Mismatch(m)
        ELSE IF m.b.items[r.slot] # r.old THEN Mismatch(m)
        ELSE [e EXCEPT !.touched = @ \cup t,
                       !.modified = @ \cup {r.slot},
                       !.b = [n EXCEPT !.items[r.slot] = r.new,
                                       !.total = total]]

HeaderRecord(m, r) ==
    IF m.b.total # r.old THEN Mismatch(m) ELSE [m EXCEPT !.b.total = r.new]

\* apply_backfilling
apply_backfilling(m, r) ==
    CASE r.kind = "ADD" -> AddRecord(m, r)
      [] r.kind = "REMOVE" -> RemoveRecord(m, r)
      [] r.kind = "MODIFY" -> ModifyRecord(m, r)
      [] OTHER -> HeaderRecord(m, r)

\* finish_live_owner: only the touched slots are classified.
finish_live_owner(m) ==
    LET original(s) == loaded(m.b, s) /\ s \notin m.b.absent
    IN  [m.b EXCEPT
          !.removed = \E s \in m.touched : s \notin DOMAIN m.b.items /\ original(s),
          !.has_added_items =
              \E s \in m.touched : s \in DOMAIN m.b.items /\ ~original(s)]

-----------------------------------------------------------------------------
\* masked_log: what mask_out_phrase_index_logger makes of a journal, or the
\* fault it dies on.
Headers(g) ==
    Picked(g.records, {n \in DOMAIN g.records : g.records[n].kind = "HEADER"})
Kept(g, mask) ==
    Picked(g.records, {n \in DOMAIN g.records : /\ g.records[n].kind # "HEADER"
                                                /\ g.records[n].slot \notin mask.slots})
KeptTotal(g, mask) ==
    Folded(LAMBDA t, r :
               add32(IF r.kind = "ADD" THEN t ELSE sub32(t, r.old.unigram),
                     IF r.kind = "REMOVE" THEN 0 ELSE r.new.unigram),
             Headers(g)[1].old, Kept(g, mask))
HeaderTo(g, total) == [kind |-> "HEADER", old |-> Headers(g)[1].old, new |-> total]

masked_log_kind(g, mask) ==
    IF g.end = "header_token" THEN "fault"
    ELSE IF Headers(g) = <<>> THEN "empty"
    ELSE IF Len(Headers(g)) > 1 THEN "fault"
    ELSE IF g.end = "unknown" THEN "log"
    ELSE IF \E i \in DOMAIN Kept(g, mask) :
              Kept(g, mask)[i].short \/ Kept(g, mask)[i].kind # "MODIFY"
           THEN "fault"
    ELSE "log"

KeepsMaskedRecords(g, mask) ==
    <<HeaderTo(g, Headers(g)[1].new)>>
      \o SelectSeq(g.records, LAMBDA r : r.kind = "MODIFY")
masked_records(g, mask) ==
    IF g.end = "unknown" THEN <<HeaderTo(g, Headers(g)[1].old)>>
    ELSE <<HeaderTo(g, KeptTotal(g, mask))>> \o Kept(g, mask)

\* diff_live_records: the header, then the slots in order.
Differs(a, b, s) == \/ (s \in DOMAIN a) # (s \in DOMAIN b)
                    \/ s \in DOMAIN a /\ s \in DOMAIN b /\ a[s] # b[s]
DiffRecord(old, new, s) ==
    CASE s \notin DOMAIN old ->
           [kind |-> "ADD", slot |-> s, new |-> new[s], short |-> FALSE]
      [] s \notin DOMAIN new ->
           [kind |-> "REMOVE", slot |-> s, old |-> old[s], short |-> FALSE]
      [] OTHER -> [kind |-> "MODIFY", slot |-> s, old |-> old[s],
                   new |-> new[s], short |-> FALSE]
DiffRecords(items, c) ==
    LET at == Picked(SlotSeq, {s \in Slots : Differs(c.items, items, s)})
    IN  [i \in DOMAIN at |-> DiffRecord(c.items, items, at[i])]
SkipsRemoved(items, total, c) ==
    [records |-> <<[kind |-> "HEADER", old |-> c.total, new |-> total]>>
                 \o SelectSeq(DiffRecords(items, c), LAMBDA r : r.kind # "REMOVE"),
     end |-> "clean"]
diff_live_records(items, total, c) ==
    [records |-> <<[kind |-> "HEADER", old |-> c.total, new |-> total]>>
                 \o DiffRecords(items, c),
     end |-> "clean"]

-----------------------------------------------------------------------------
NoReplay == [kind |-> "none"]
NoItems == [known |-> FALSE, items |-> <<>>]
Idle == replay = NoReplay
Answer(r) == result' = r
Count == ops < MaxOps /\ ops' = ops + 1

Init ==
    /\ chunk \in [Libs -> Chunks] /\ file = [l \in Libs |-> "ok"]
    /\ log \in [Libs -> Logs]
    /\ live = <<>> /\ has_removed_system_items = FALSE /\ facade_extra = 0
    /\ replay = NoReplay /\ open = FALSE /\ result = <<"none">> /\ ops = 0
    /\ saved = [l \in Libs |-> NoItems]

\* replay_logs over `libs`, whose chunks are freshly mapped
\* (take_live_libraries); `stop` is what mask_out's walk met after them.
Replaying(kind, libs, mask, stop) ==
    [kind |-> kind, todo |-> libs, mask |-> mask, stop |-> stop, at |-> 0,
     merging |-> FALSE, m |-> <<>>, records |-> <<>>, end |-> "clean",
     replayed |-> [l \in libs |-> from_mapping(chunk[l])]]

AnyRemoved(buffers) == \E l \in DOMAIN buffers : buffers[l].removed

\* The mappings are dropped with the replay: nothing was replaced.
Fault(l) ==
    /\ replay' = NoReplay /\ Answer(<<"journal", l>>)
    /\ UNCHANGED <<disk, session, open, ops>>

\* replay_log up to the merge, library by library: an unselected library,
\* and a masked journal without a header, leave the chunk as it was mapped.
TakeLog(l) ==
    LET g == log[l]
        masked == replay.kind = "mask"
        kind == IF ~masked THEN "log"
                ELSE IF l \notin replay.mask.libs THEN "empty"
                ELSE masked_log_kind(g, replay.mask)
    IN  /\ ~Idle /\ ~replay.merging
        /\ l \in replay.todo /\ \A k \in replay.todo : l <= k
        /\ \/ kind = "fault" /\ Fault(l)
           \/ /\ kind = "empty"
              /\ replay' = [replay EXCEPT !.todo = @ \ {l}]
              /\ UNCHANGED <<disk, session, open, result, ops>>
           \/ /\ kind = "log"
              /\ replay' = [replay EXCEPT
                   !.todo = @ \ {l}, !.at = l,
                   !.merging = TRUE, !.m = from_live(replay.replayed[l]),
                   !.records = IF masked THEN masked_records(g, replay.mask)
                                         ELSE g.records,
                   !.end = IF masked THEN "clean" ELSE g.end]
              /\ UNCHANGED <<disk, session, open, result, ops>>

\* merge_log's loop
ApplyRecord ==
    /\ ~Idle /\ replay.merging /\ replay.m.stop = "none" /\ replay.records # <<>>
    /\ replay' = [replay EXCEPT !.m = apply_backfilling(@, Head(replay.records)),
                                !.records = Tail(@)]
    /\ UNCHANGED <<disk, session, open, result, ops>>

\* merge_log's end: a mismatch keeps the records before it, a payload past
\* the journal's end takes them all back (rollback).
FinishLog ==
    LET stop == IF replay.m.stop # "none" THEN replay.m.stop ELSE replay.end
        b == IF stop = "over_read" THEN replay.replayed[replay.at]
             ELSE finish_live_owner(replay.m)
    IN  /\ ~Idle /\ replay.merging
        /\ replay.m.stop # "none" \/ replay.records = <<>>
        /\ \/ stop \in {"short_add", "header_token"} /\ Fault(replay.at)
           \/ /\ stop \notin {"short_add", "header_token"}
              /\ replay' = [replay EXCEPT !.merging = FALSE, !.m = <<>>,
                                          !.records = <<>>,
                                          !.replayed[replay.at] = b]
              /\ UNCHANGED <<disk, session, open, result, ops>>

\* compact_libraries: each total becomes the sum of the items, and the
\* facade keeps the difference.
Compacted(buffers) ==
    [l \in DOMAIN buffers |-> [buffers[l] EXCEPT !.total = Sum(buffers[l].items)]]
LosesExtra(buffers) == facade_extra
CompactedExtra(buffers) ==
    Folded(LAMBDA x, l : add32(x, sub32(buffers[l].total, Sum(buffers[l].items))),
             facade_extra, LibSeq(DOMAIN buffers))

\* replace_system_libraries, with mask_out's compact after it.
Publish ==
    LET all == [l \in DOMAIN live \cup DOMAIN replay.replayed |->
                  IF l \in DOMAIN replay.replayed THEN replay.replayed[l]
                  ELSE live[l]]
        compacts == replay.kind = "mask" /\ replay.stop = "none"
    IN  /\ ~Idle /\ ~replay.merging /\ replay.todo = {}
        /\ live' = IF compacts THEN Compacted(all) ELSE all
        /\ facade_extra' = IF compacts THEN CompactedExtra(all) ELSE facade_extra
        /\ has_removed_system_items' = AnyRemoved(all)
        /\ replay' = NoReplay /\ open' = TRUE
        /\ Answer(IF replay.stop = "none" THEN <<"done">> ELSE <<"chunk_header">>)
        /\ UNCHANGED <<disk, ops>>

-----------------------------------------------------------------------------
\* A session opens over libraries that can be mapped.
Open ==
    /\ Idle /\ ~open /\ \A l \in Libs : file[l] = "ok"
    /\ replay' = Replaying("open", Libs, [libs |-> {}, slots |-> {}], "none")
    /\ UNCHANGED <<disk, session, open, result, ops>>

\* The session ends, by a close or by a crash.
Close ==
    /\ Idle /\ open /\ open' = FALSE /\ live' = <<>>
    /\ has_removed_system_items' = FALSE /\ facade_extra' = 0
    /\ UNCHANGED <<disk, replay, result, ops>>

\* load_phrase_library of an unloaded library
Load(l) ==
    /\ Idle /\ open /\ l \notin DOMAIN live
    /\ replay' = IF file[l] = "ok"
                   THEN Replaying("load", {l}, [libs |-> {}, slots |-> {}], "none")
                   ELSE NoReplay
    /\ Answer(IF file[l] = "directory" THEN <<"chunk_header">> ELSE <<"done">>)
    /\ UNCHANGED <<disk, session, open, ops>>

\* unload_phrase_library, reset_system_library
Unload(l) ==
    /\ Idle /\ l \in DOMAIN live
    /\ live' = Without(live, l)
    /\ has_removed_system_items' = AnyRemoved(Without(live, l))
    /\ Answer(<<"done">>)
    /\ UNCHANGED <<disk, facade_extra, replay, open, ops>>

\* ContextShared::mask_out once the user tables are found sound: the walk
\* maps library after library, and the first it cannot map, or whose journal
\* faults, ends it.
MaskOut(mask) ==
    LET faults(l) == l \in mask.libs /\ masked_log_kind(log[l], mask) = "fault"
        stops == {l \in DOMAIN live : file[l] # "ok" \/ faults(l)}
        first == Smallest(stops)
        mapped == IF stops = {} THEN DOMAIN live
                  ELSE {l \in DOMAIN live : l < first \/ (l = first /\ file[l] = "ok")}
        gone == stops # {} /\ file[first] = "gone"
        directory == stops # {} /\ file[first] = "directory"
    IN  /\ Idle /\ open
        /\ \/ /\ gone
              /\ Answer(<<"unmapped">>) /\ UNCHANGED replay
           \/ /\ ~gone
              /\ replay' = Replaying("mask", mapped, mask,
                                     IF directory THEN "directory" ELSE "none")
              /\ UNCHANGED result
        /\ UNCHANGED <<disk, session, open, ops>>

\* save_user, for the journals: compact, then the diff of every loaded
\* library with the chunk on disk now, in order, up to one that cannot be
\* mapped.
Save ==
    LET compacted == Compacted(live)
        stops == {l \in DOMAIN live : file[l] # "ok"}
        written == IF stops = {} THEN DOMAIN live
                   ELSE IF Interleaved
                     THEN {l \in DOMAIN live : \A s \in stops : l < s}
                   ELSE {}
    IN  /\ Idle /\ open
        /\ live' = compacted /\ facade_extra' = CompactedExtra(live)
        /\ log' = [l \in Libs |-> IF l \in written
                     THEN diff_live_records(compacted[l].items, compacted[l].total,
                                            chunk[l])
                     ELSE log[l]]
        /\ saved' = [l \in Libs |-> IF l \in written
                       THEN [known |-> TRUE, items |-> live[l].items]
                       ELSE saved[l]]
        /\ Answer(IF stops = {} THEN <<"saved">> ELSE <<"not_saved">>)
        /\ UNCHANGED <<chunk, file, has_removed_system_items, replay, open, ops>>

-----------------------------------------------------------------------------
\* train: every match takes delta until the running total would overflow.
Trained(item, keys, delta) ==
    LET step(x, pron) ==
          LET total == add32(x.total, pron.freq)
              takes == ~x.stopped /\ pron.keys = keys /\ total + delta < Word
          IN  [total |-> IF takes THEN total + delta ELSE total,
               stopped |-> x.stopped \/ (pron.keys = keys /\ ~takes),
               prons |-> Append(x.prons, IF takes
                           THEN [pron EXCEPT !.freq = add32(@, delta)] ELSE pron)]
    IN  [item EXCEPT !.prons =
           Folded(step, [total |-> 0, stopped |-> FALSE, prons |-> <<>>], @).prons]

\* train_live
Train(l, s, keys, delta) ==
    /\ Idle /\ Count /\ l \in DOMAIN live /\ s \in DOMAIN live[l].items
    /\ live' = [live EXCEPT ![l].items[s] = Trained(@, keys, delta),
                            ![l].removed = TRUE]
    /\ has_removed_system_items' = TRUE
    /\ Answer(<<"done">>)
    /\ UNCHANGED <<disk, facade_extra, replay, open>>

\* add_unigram over a buffer
Takes(b, s, delta) == s \in DOMAIN b.items /\ b.total + delta < Word
WithUnigram(b, s, delta) ==
    [b EXCEPT !.items[s].unigram = add32(@, delta), !.total = @ + delta]

\* arena_add_unigram_outcome: what the sub-index refuses, the facade keeps.
AddUnigram(l, s, delta) ==
    /\ Idle /\ Count /\ l \in DOMAIN live
    /\ \/ /\ Takes(live[l], s, delta)
          /\ live' = [live EXCEPT ![l] = WithUnigram(@, s, delta)]
          /\ UNCHANGED facade_extra
       \/ /\ ~Takes(live[l], s, delta)
          /\ facade_extra' = add32(facade_extra, delta)
          /\ UNCHANGED live
    /\ Answer(<<"unigram", delta>>)
    /\ UNCHANGED <<disk, has_removed_system_items, replay, open>>

\* add_item over a buffer
KeepsProvenance(b, s, item) ==
    [b EXCEPT !.items = Put(@, s, item), !.total = add32(@, item.unigram),
              !.has_added_items = TRUE]
add_item(b, s, item) ==
    LET n == IF s \in DOMAIN b.items THEN b ELSE note_absent(b, s)
    IN  [n EXCEPT !.items = Put(@, s, item), !.total = add32(@, item.unigram),
                  !.has_added_items = TRUE]
\* remove_item over a buffer
remove_item(b, s) ==
    [note_present(b, s) EXCEPT !.items = Without(@, s),
                               !.total = sub32(@, b.items[s].unigram)]

\* buffer_add_phrase, a phrase the library lacks: after the range's end,
\* with no unigram, which it takes next.
AddPhrase(l, keys, delta) ==
    LET s == range_end(live[l])
        item == [unigram |-> 0, prons |-> <<[keys |-> keys, freq |-> delta]>>]
        b == add_item(live[l], s, item)
        increment == (delta * UnigramFactor) % Word
    IN  /\ Idle /\ Count /\ l \in DOMAIN live /\ s <= MaxSlot
        /\ \/ /\ Takes(b, s, increment)
              /\ live' = [live EXCEPT ![l] = WithUnigram(b, s, increment)]
              /\ UNCHANGED facade_extra
           \/ /\ ~Takes(b, s, increment)
              /\ live' = [live EXCEPT ![l] = b]
              /\ facade_extra' = add32(facade_extra, increment)
        /\ Answer(<<"unigram", increment>>)
        /\ UNCHANGED <<disk, has_removed_system_items, replay, open>>

SumBefore(prons, n) ==
    Folded(LAMBDA sum, pron : add32(sum, pron.freq), 0, SubSeq(prons, 1, n))

\* plan_system_reading, apply_system_reading
WithReading(item, keys, delta) ==
    LET hits == {n \in DOMAIN item.prons : item.prons[n].keys = keys}
        at == Smallest(hits)
    IN  IF hits # {}
          THEN IF delta = 0 \/ SumBefore(item.prons, at) + delta < Word
                 THEN [item EXCEPT !.prons[at].freq = add32(@, delta)]
                 ELSE item
        ELSE IF Len(item.prons) + 1 = PronWrap THEN [item EXCEPT !.prons = <<>>]
        ELSE [item EXCEPT !.prons = Append(@, [keys |-> keys, freq |-> delta])]

\* add_system_phrase_in, and buffer_add_phrase of an added item: the item is
\* removed, takes the reading and is added back.
MergeReading(l, s, keys, delta) ==
    /\ Idle /\ Count /\ l \in DOMAIN live /\ s \in DOMAIN live[l].items
    /\ live' = [live EXCEPT ![l] =
                  add_item(remove_item(@, s), s, WithReading(@.items[s], keys, delta))]
    /\ Answer(<<"done">>)
    /\ UNCHANGED <<disk, has_removed_system_items, facade_extra, replay, open>>

-----------------------------------------------------------------------------
\* The system package is upgraded, or a chunk goes missing, at any time.
ReplaceChunk(l, c) ==
    /\ Idle /\ Count /\ c # chunk[l]
    /\ chunk' = [chunk EXCEPT ![l] = c]
    /\ saved' = [saved EXCEPT ![l] = NoItems]
    /\ Answer(<<"none">>)
    /\ UNCHANGED <<file, log, session, replay, open>>

ChangeFile(l, state) ==
    /\ Idle /\ Count /\ file[l] # state
    /\ file' = [file EXCEPT ![l] = state]
    /\ Answer(<<"none">>)
    /\ UNCHANGED <<chunk, log, saved, session, replay, open>>

Next ==
    \/ ApplyRecord \/ FinishLog \/ Publish
    \/ Open \/ Close \/ Save
    \/ \E l \in Libs :
         \/ TakeLog(l) \/ Load(l) \/ Unload(l)
         \/ \E s \in Slots, d \in Deltas : AddUnigram(l, s, d)
         \/ \E s \in Slots, r \in Readings, d \in Deltas :
              Train(l, s, r, d) \/ MergeReading(l, s, r, d)
         \/ \E r \in Readings, d \in Deltas : AddPhrase(l, r, d)
         \/ \E c \in Chunks : ReplaceChunk(l, c)
         \/ \E state \in {"ok", "gone", "directory"} : ChangeFile(l, state)
    \/ \E mask \in Masks : MaskOut(mask)

Spec == Init /\ [][Next]_vars

-----------------------------------------------------------------------------
\* An item the shipped chunk holds and the session does not is answered as
\* removed, and no other: the flag that gates the per-token check and the
\* first-write record of each slot lose no removal, whatever records the
\* journal holds and in whatever order (has_removed_system_items, is_removed).
RemovedExactly ==
    \A l \in DOMAIN live, s \in Slots :
        system_item_removed(l, s)
          <=> s \in DOMAIN live[l].shipped \ DOMAIN live[l].items

\* An item counts as added exactly when the loaded chunk had none in its
\* slot, and a library with an added item says so (is_added, has_added):
\* lookups and the import's merge choose their path by it.
AddedExactly ==
    \A l \in DOMAIN live : \A s \in DOMAIN live[l].items :
        /\ is_added(l, s) <=> s \notin DOMAIN live[l].shipped
        /\ is_added(l, s) => live[l].has_added_items

\* A library that comes back, by a new session or by a load, over the chunk
\* its last save was taken against holds the items that save held: what was
\* trained, imported and removed, in a session over any chunk
\* (diff_live_records, merge_log).
SavedItemsComeBack ==
    [][\A l \in DOMAIN live' \ DOMAIN live :
         saved[l].known => live'[l].items = saved[l].items]_vars

Agree(f, g, s) == /\ s \in DOMAIN f <=> s \in DOMAIN g
                  /\ s \in DOMAIN f => f[s] = g[s]

\* A mask_out that ends gives every masked slot, and every slot of a library
\* it does not select, the item the chunk ships, and leaves the other slots
\* of a selected library as the last save had them (masked_log).
MaskRestores ==
    [][(~Idle /\ replay.kind = "mask" /\ result' = <<"done">> /\ replay' = NoReplay)
         => \A l \in DOMAIN replay.replayed, s \in Slots :
              IF l \notin replay.mask.libs \/ s \in replay.mask.slots
                THEN Agree(live'[l].items, chunk[l].items, s)
              ELSE saved[l].known => Agree(live'[l].items, saved[l].items, s)]_vars

FacadeTotal ==
    Folded(LAMBDA t, l : add32(t, live[l].total), facade_extra,
             LibSeq(DOMAIN live))

\* The facade's total moves by what an operation adds and by nothing else:
\* a save's compact, which rewrites every library's total, keeps it, and so
\* does an increment the sub-index refuses (compact_libraries,
\* arena_add_unigram_outcome).
FacadeTotalExact ==
    [][(Idle /\ Idle' /\ DOMAIN live = DOMAIN live' /\ open = open')
         => FacadeTotal' = IF ops' # ops /\ result'[1] = "unigram"
                             THEN add32(FacadeTotal, result'[2] % Word)
                             ELSE FacadeTotal]_vars
=============================================================================
