------------------------------ MODULE UserIndex ------------------------------
(***************************************************************************)
(* The user pinyin index: ChewingLargeTable2 over one session              *)
(* (crates/oxpinyin-user/src/user_index.rs).                               *)
(*                                                                         *)
(* A reading is a sequence of keys [i |-> initial, f |-> final]; tones are *)
(* left out.  A record is the sequence of its items.  Kyoto Cabinet and    *)
(* tkrzw keep one entry per key length between operations (`slots`), and   *)
(* their mask walk writes that whole entry back, so a short record can     *)
(* take the tail of the one before it; Berkeley DB does not.               *)
(***************************************************************************)
LOCAL INSTANCE Naturals
LOCAL INSTANCE SequencesExt

CONSTANTS
    MaxPhraseLength,
    KeyOrder,           \* every record key, in the byte order of the walk
    ReadingOrder        \* every reading, in pinyin_exact_compare2's order

Rank(keys) == CHOOSE n \in DOMAIN ReadingOrder : ReadingOrder[n] = keys
IndexItem(keys, token) == [keys |-> keys, token |-> token]

\* encode_incomplete_key and encode_complete_key, incomplete space first.
incomplete_key(keys) == [n \in DOMAIN keys |-> [i |-> keys[n].i, f |-> 0]]
index_keys(keys) == <<incomplete_key(keys), keys>>

\* The key a search probes: initials alone once any key has no final.
query_key(keys) ==
    IF \E n \in DOMAIN keys : keys[n].f = 0 THEN incomplete_key(keys) ELSE keys

EmptySlot == [kind |-> "empty", key |-> <<>>, bytes |-> <<>>]
RecordSlot(key) == [EmptySlot EXCEPT !.kind = "record", !.key = key]
BytesSlot(bytes) == [EmptySlot EXCEPT !.kind = "bytes", !.bytes = bytes]

new_index == [rows |-> <<>>, slots |-> [n \in 1..MaxPhraseLength |-> EmptySlot]]

contains_key(index, key) == key \in DOMAIN index.rows
record(index, key) == IF contains_key(index, key) THEN index.rows[key] ELSE <<>>
SetRow(index, key, row) ==
    [index EXCEPT !.rows = [k \in DOMAIN @ \cup {key} |->
                              IF k = key THEN row ELSE @[k]]]
SetSlot(index, n, slot) == [index EXCEPT !.slots[n] = slot]

\* slice::partition_point for "the rank is below bound", on row[from + 1..].
partition_point(row, from, bound) ==
    LET below(n) == Rank(row[from + n + 1].keys) < bound
        size == Len(row) - from
        at[base \in 0..size, left \in 0..size] ==
          IF left = 0 THEN 0
          ELSE IF left = 1 THEN IF below(base) THEN base + 1 ELSE base
          ELSE LET half == left \div 2
               IN  at[IF below(base + half) THEN base + half ELSE base,
                      left - half]
    IN  at[0, size]

\* Positions before the first and at the last item with exactly these keys.
equal_range(row, keys) ==
    LET first == partition_point(row, 0, Rank(keys))
    IN  <<first, first + partition_point(row, first, Rank(keys) + 1)>>

\* Entry::add_index: [row, done].
add_index(row, keys, token) ==
    LET range == equal_range(row, keys)
        stops == {n \in range[1]..range[2] :
                    n = range[2] \/ row[n + 1].token >= token}
        at == CHOOSE n \in stops : \A m \in stops : n <= m
    IN  IF at < range[2] /\ row[at + 1].token = token
          THEN [row |-> row, done |-> FALSE]
          ELSE [row |-> InsertAt(row, at + 1, IndexItem(keys, token)),
                done |-> TRUE]

\* Entry::remove_index: the first item of these keys and this token.
remove_index(row, keys, token) ==
    LET range == equal_range(row, keys)
        hits == {n \in range[1] + 1..range[2] : row[n].token = token}
        at == CHOOSE n \in hits : \A m \in hits : n <= m
    IN  IF hits = {} THEN [row |-> row, done |-> FALSE]
        ELSE [row |-> RemoveAt(row, at), done |-> TRUE]

ClobbersPrefixes(index, key) ==
    LET new == {SubSeq(key, 1, n) : n \in 1..Len(key) - 1}
    IN  [index EXCEPT !.rows = [k \in DOMAIN @ \cup new |->
                                  IF k \in new THEN <<>> ELSE @[k]]]

\* Empty markers for the shorter prefixes, down to the first one held.
create_prefixes(index, key) ==
    LET held == {n \in 1..Len(key) - 1 : contains_key(index, SubSeq(key, 1, n))}
        down == IF held = {} THEN 1
                ELSE 1 + CHOOSE n \in held : \A m \in held : m <= n
        new == {SubSeq(key, 1, n) : n \in down..Len(key) - 1}
    IN  [index EXCEPT !.rows = [k \in DOMAIN @ \cup new |->
                                  IF k \in new THEN <<>> ELSE @[k]]]

AddUnder(index, key, keys, token) ==
    LET added == add_index(record(index, key), keys, token)
    IN  IF contains_key(index, key)
          THEN SetSlot(SetRow(index, key, added.row), Len(keys), RecordSlot(key))
          ELSE create_prefixes(SetRow(index, key, added.row), key)

\* ChewingLargeTable2::add_index under both projections.
add(index, keys, token) ==
    FoldLeft(LAMBDA x, key : AddUnder(x, key, keys, token), index,
             index_keys(keys))

\* ChewingLargeTable2::remove_index: [index, done]; it stops at the first
\* projection that misses.
remove(index, keys, token) ==
    LET step(x, key) ==
          LET removed == remove_index(record(x.index, key), keys, token)
          IN  IF ~x.done \/ ~contains_key(x.index, key)
                THEN [x EXCEPT !.done = FALSE]
                ELSE [index |-> SetSlot(SetRow(x.index, key, removed.row),
                                        Len(keys), RecordSlot(key)),
                      done |-> removed.done]
    IN  FoldLeft(step, [index |-> index, done |-> TRUE], index_keys(keys))

\* A search loads a record that is not empty into its length's entry.
note_search(index, keys) ==
    IF record(index, query_key(keys)) = <<>> THEN index
    ELSE SetSlot(index, Len(keys), RecordSlot(query_key(keys)))

\* A suggestion empties the entry of every longer length it visits.
note_suggestion(index, keys) ==
    LET prefix == query_key(keys)
        visited == {Len(k) : k \in {k \in DOMAIN index.rows :
                               Len(k) > Len(prefix) /\ IsPrefix(prefix, k)}}
    IN  IF ~contains_key(index, prefix) THEN index
        ELSE [index EXCEPT !.slots = [n \in DOMAIN @ |->
                 IF n \in visited THEN EmptySlot ELSE @[n]]]

slot_bytes(index, n) ==
    LET slot == index.slots[n]
    IN  CASE slot.kind = "empty" -> <<>>
          [] slot.kind = "bytes" -> slot.bytes
          [] slot.kind = "record" -> record(index, slot.key)

\* A record copied over the entry's chunk, which never shrinks.
Over(row, chunk) == row \o SubSeq(chunk, Len(row) + 1, Len(chunk))

MaskFirstItem(row, masked) ==
    IF row # <<>> /\ row[1].token \in masked THEN Tail(row) ELSE row

\* Entry::mask_out; `masked` is the set of tokens with token & mask = value.
mask_out(row, masked) == SelectSeq(row, LAMBDA item : item.token \notin masked)

\* The walk over every record in key order.
mask(index, masked, entry_per_length) ==
    LET order == SelectSeq(KeyOrder, LAMBDA key : contains_key(index, key))
        step(x, key) ==
          LET chunk == IF entry_per_length THEN x.chunks[Len(key)] ELSE <<>>
              row == mask_out(Over(record(index, key), chunk), masked)
          IN  [x EXCEPT !.rows[key] = row, !.chunks[Len(key)] = row]
        walk == FoldLeft(step,
                  [rows |-> index.rows,
                   chunks |-> [n \in DOMAIN index.slots |-> slot_bytes(index, n)]],
                  order)
    IN  [rows |-> walk.rows,
         slots |-> IF ~entry_per_length THEN index.slots
                   ELSE [n \in DOMAIN index.slots |->
                           IF walk.chunks[n] = <<>> THEN EmptySlot
                           ELSE BytesSlot(walk.chunks[n])]]

\* Tokens a search of a complete reading answers.
search(index, keys) ==
    {item.token : item \in {x \in ToSet(record(index, query_key(keys))) :
        \A n \in DOMAIN keys : /\ x.keys[n].i = keys[n].i
                               /\ keys[n].f \in {0, x.keys[n].f}}}
=============================================================================
