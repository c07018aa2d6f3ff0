----------------------------- MODULE SingleGram -----------------------------
(***************************************************************************)
(* The operations on one raw gram value                                    *)
(* (crates/oxpinyin-core/src/single_gram.rs).                              *)
(*                                                                         *)
(* A gram is a total and a sequence of items, in stored order, which the   *)
(* code never sorts or cleans.  `len` says how the value's length falls:   *)
(* "short" of its total, "whole", or with a "partial" item after the last  *)
(* whole one.  The total and the frequencies are u32: arithmetic is modulo *)
(* Word.  A mask/value pair is the set of tokens it selects.               *)
(***************************************************************************)
EXTENDS Integers, Sequences, SequencesExt

CONSTANT Word       \* 2^32 at full width

ASSUME WordAssumption == Word \in Nat \ {0, 1}

\* A Rust `None`, for a gram and for a frequency.
NoGram == [len |-> "none", total |-> 0, items |-> <<>>]
NoFreq == -1

WrappingAdd(a, b) == (a + b) % Word
WrappingSub(a, b) == (a - b) % Word

Item(token, freq) == [token |-> token, freq |-> freq]

new_gram == [len |-> "whole", total |-> 0, items |-> <<>>]

has_partial_tail(gram) == gram.len = "partial"
get_length(gram) == Len(gram.items)
get_total_freq(gram) == IF gram.len = "short" THEN NoFreq ELSE gram.total
set_total_freq(gram, total) ==
    [gram EXCEPT !.total = total,
                 !.len = IF @ = "short" THEN "whole" ELSE @]

\* slice::partition_point: a binary search, so on items that are not sorted
\* it answers some boundary of the probes it made.
partition_point(items, token) ==
    LET below(i) == items[i + 1].token < token
        at[base \in 0..Len(items), size \in 0..Len(items)] ==
          IF size = 0 THEN 0
          ELSE IF size = 1 THEN IF below(base) THEN base + 1 ELSE base
          ELSE LET half == size \div 2
               IN  at[IF below(base + half) THEN base + half ELSE base,
                      size - half]
    IN  at[0, Len(items)]

\* The index (from 1) of the first item the walks start at.
lower_bound(items, token) == 1 + partition_point(items, token)

\* The walk shared by get_freq, set_freq and remove_freq: to the first equal
\* item unless a larger one comes first; 0 on a miss.
find(items, token) ==
    LET from == lower_bound(items, token)
        stops == {i \in from..Len(items) : items[i].token >= token}
        first == CHOOSE i \in stops : \A j \in stops : i <= j
    IN  IF stops # {} /\ items[first].token = token THEN first ELSE 0

get_freq(gram, token) ==
    LET i == find(gram.items, token)
    IN  IF i = 0 THEN NoFreq ELSE gram.items[i].freq

\* NoGram on a miss.
set_freq(gram, token, freq) ==
    LET i == find(gram.items, token)
    IN  IF i = 0 THEN NoGram ELSE [gram EXCEPT !.items[i].freq = freq]

AppendsAlways(gram, token, freq) ==
    IF find(gram.items, token) # 0 THEN NoGram
    ELSE [gram EXCEPT !.items = Append(@, Item(token, freq))]

\* Before the first larger item, or at the end; NoGram when an equal one comes
\* first.
insert_freq(gram, token, freq) ==
    LET from  == lower_bound(gram.items, token)
        stops == {i \in from..get_length(gram) : gram.items[i].token >= token}
        first == CHOOSE i \in stops : \A j \in stops : i <= j
    IN  IF stops = {}
          THEN [gram EXCEPT !.items = Append(@, Item(token, freq))]
        ELSE IF gram.items[first].token = token THEN NoGram
        ELSE [gram EXCEPT !.items = InsertAt(@, first, Item(token, freq))]

\* The gram without its first match; NoGram on a miss.
remove_freq(gram, token) ==
    LET i == find(gram.items, token)
    IN  IF i = 0 THEN NoGram ELSE [gram EXCEPT !.items = RemoveAt(@, i)]

\* Every item in `masked` goes, its frequency out of the stored total with
\* wrap.  A short value is left alone.
FreqSum(items) == FoldLeft(LAMBDA sum, item : sum + item.freq, 0, items)
mask_out(gram, masked) ==
    LET gone == SelectSeq(gram.items, LAMBDA item : item.token \in masked)
        left == SelectSeq(gram.items, LAMBDA item : item.token \notin masked)
    IN  IF gram.len = "short" THEN gram
        ELSE [gram EXCEPT !.items = left,
                          !.total = WrappingSub(@, FreqSum(gone))]
removes(gram, masked) ==
    gram.len # "short" /\ \E i \in DOMAIN gram.items : gram.items[i].token \in masked

is_strictly_ordered(gram) ==
    \A i \in 1..(get_length(gram) - 1) :
        gram.items[i].token < gram.items[i + 1].token

\* The two arrays merged linearly, equal tokens summed.
MergeItems(left, right) ==
    LET m[i \in 1..(Len(left) + 1), j \in 1..(Len(right) + 1)] ==
          IF i > Len(left) THEN SubSeq(right, j, Len(right))
          ELSE IF j > Len(right) THEN SubSeq(left, i, Len(left))
          ELSE IF left[i].token < right[j].token
                 THEN <<left[i]>> \o m[i + 1, j]
          ELSE IF left[i].token > right[j].token
                 THEN <<right[j]>> \o m[i, j + 1]
          ELSE <<Item(left[i].token, WrappingAdd(left[i].freq, right[j].freq))>>
                 \o m[i + 1, j + 1]
    IN  m[1, 1]

merge_single_gram(system, user) ==
    IF system = NoGram THEN user
    ELSE IF user = NoGram THEN system
    ELSE [len |-> "whole",
          total |-> WrappingAdd(IF system.len = "short" THEN 0 ELSE system.total,
                                IF user.len = "short" THEN 0 ELSE user.total),
          items |-> MergeItems(system.items, user.items)]

\* search: from lower_bound(begin) until the first item at or past `end`.
From(items, begin) == SubSeq(items, lower_bound(items, begin), Len(items))
Until(items, end) ==
    LET past == {i \in DOMAIN items : items[i].token >= end}
    IN  IF past = {} THEN items
        ELSE SubSeq(items, 1, (CHOOSE i \in past : \A j \in past : i <= j) - 1)
search(gram, begin, end) == Until(From(gram.items, begin), end)

\* The two reads that stand for a merge the code never builds.
get_freq_merged(system, user, token) ==
    LET s == get_freq(system, token)
        u == get_freq(user, token)
    IN  IF s # NoFreq /\ u # NoFreq THEN WrappingAdd(s, u)
        ELSE IF u = NoFreq THEN s ELSE u
search_merged(system, user, begin, end) ==
    Until(MergeItems(From(system.items, begin), From(user.items, begin)), end)
=============================================================================
