-------------------------------- MODULE Offsets --------------------------------
(***************************************************************************)
(* The two coordinate systems of an instance, and the laws that move a      *)
(* caller's cursor in them: crates/oxpinyin-facade/src/offsets.rs and       *)
(* cursor.rs over crates/oxpinyin-engine/src/cursor.rs.                     *)
(*                                                                         *)
(* A parse is a record: its mode, the bytes typed, how many of them were    *)
(* parsed, the keys, and the columns of the matrix.  A key has its span     *)
(* [start, end) of the bytes, the letters of its syllable and, if the       *)
(* divided table splits the syllable, the length `cut` of the left half (0  *)
(* if not).  Plain full pinyin drives the session with the bytes            *)
(* themselves; the other modes drive it with the syllables joined by        *)
(* apostrophes, so every offset is mapped both ways.                        *)
(***************************************************************************)
EXTENDS Integers, Sequences, FiniteSetsExt, Functions

Sep == "'"

\* What an offset law answers instead of an offset.
PastSeparator == -1
OutOfRange == -2
ZeroKey == -3
NoKey == -4

Lesser(a, b) == IF a < b THEN a ELSE b

--------------------------------------------------------------------------------
\* The keys of the matrix: those of the parse, then the halves of the divided
\* ones, which only the full-pinyin modes place.
Divides(p) == p.mode \in {"full", "index"} /\ p.divided

matrix_keys(p) ==
  LET Halves(key) ==
        LET split == key.start + key.cut
        IN IF key.cut = 0 \/ split > p.parsed THEN <<>>
           ELSE <<[start |-> key.start, end |-> split],
                  [start |-> split, end |-> key.end]>>
      spans == [k \in DOMAIN p.keys |->
                  [start |-> p.keys[k].start, end |-> p.keys[k].end]]
      halves[k \in 0 .. Len(p.keys)] ==
        IF k = 0 THEN <<>> ELSE halves[k - 1] \o Halves(p.keys[k])
  IN spans \o (IF Divides(p) THEN halves[Len(p.keys)] ELSE <<>>)

ByteAt(bytes, i) == IF i < Len(bytes) THEN bytes[i + 1] ELSE "end"
LeadingRun(bytes) ==
  Max({n \in 0 .. Len(bytes) : \A i \in 0 .. n - 1 : ByteAt(bytes, i) = Sep})

\* Whether an apostrophe is a separator in this mode.
separators(p) == p.mode \in {"full", "index"}

\* Whether a column holds a zero key: past what was parsed, and at a separator,
\* but not in the leading ones unless the parse has no key.
zero_end(p, i) ==
  /\ p.bytes # <<>>
  /\ \/ i >= Lesser(p.parsed, Len(p.bytes))
     \/ /\ separators(p) /\ ByteAt(p.bytes, i) = Sep
        /\ i >= LeadingRun(p.bytes) \/ p.keys = <<>>

\* The ends of the keys that start at column i, in their order.
EndsAt(keys, i) ==
  LET ends[k \in 0 .. Len(keys)] ==
        IF k = 0 THEN <<>>
        ELSE IF keys[k].start = i THEN Append(ends[k - 1], keys[k].end) ELSE ends[k - 1]
  IN ends[Len(keys)]

\* A parse with its columns: the ends of the keys that start there, the ends of
\* the paths of keys that do, over the separators after the first key, and
\* whether a zero key starts there.
Retained(p) ==
  LET keys == matrix_keys(p)
      first == Min({p.keys[k].start : k \in DOMAIN p.keys} \union {p.parsed})
      reach[i \in 0 .. Len(p.bytes)] ==
        IF first <= i /\ i < p.parsed /\ ByteAt(p.bytes, i) = Sep
        THEN reach[i + 1]
        ELSE UNION {{end} \union reach[end] : end \in Range(EndsAt(keys, i))}
  IN [p EXCEPT !.cols = [i \in 0 .. Len(p.bytes) |->
                           [ends |-> EndsAt(keys, i), reach |-> reach[i],
                            zero |-> zero_end(p, i)]]]

Real(p, i) == Range(p.cols[i].ends)
lone_zero(p, i) == p.cols[i].ends = <<>> /\ p.cols[i].zero
is_empty(p, i) == p.cols[i].ends = <<>> /\ ~p.cols[i].zero
ends_with(p, i, end) == end \in Real(p, i) \/ (p.cols[i].zero /\ end = i + 1)

--------------------------------------------------------------------------------
\* The joined text of the first k syllables, and the column where each ends.
JoinedText(keys) ==
  LET text[k \in 0 .. Len(keys)] ==
        IF k = 0 THEN <<>>
        ELSE IF k = 1 THEN keys[1].syl
        ELSE text[k - 1] \o <<Sep>> \o keys[k].syl
  IN text
Boundaries(keys) == [k \in DOMAIN keys |-> Len(JoinedText(keys)[k])]

\* The parse the session holds for the keys of a transformed mode.
exact_input(p) ==
  LET text == JoinedText(p.keys)
      b == Boundaries(p.keys)
      joined == text[Len(p.keys)]
      spans == [k \in DOMAIN p.keys |->
                  [p.keys[k] EXCEPT !.start = b[k] - Len(p.keys[k].syl), !.end = b[k]]]
  IN Retained([p EXCEPT !.bytes = joined, !.parsed = Len(joined), !.keys = spans])

--------------------------------------------------------------------------------
\* The maps, over keys whose syllables end at the columns b of the joined text.

\* Mutant of original_offset: the boundary itself belongs to the next key.
OriginalOffsetNext(keys, b, consumed, offset) ==
  LET reach == {k \in DOMAIN keys : offset < b[k]}
  IN IF reach = {} THEN consumed ELSE keys[Min(reach)].end

\* The end of the key that a column of the joined text lies in.
original_offset(keys, b, consumed, offset) ==
  LET reach == {k \in DOMAIN keys : offset <= b[k]}
  IN IF reach = {} THEN consumed ELSE keys[Min(reach)].end

\* The column of the first key that ends past an offset of the typed bytes: the
\* apostrophe before it, or past every key the end of the text.
session_column(keys, b, offset) ==
  LET past == {k \in DOMAIN keys : offset < keys[k].end}
      passed == IF past = {} THEN Len(keys) ELSE Min(past) - 1
  IN IF passed = 0 THEN 0 ELSE b[passed]

offset_is_mid_key(p, offset) ==
  IF p.mode = "zhuyin"
  THEN offset < p.parsed /\ \A k \in DOMAIN p.keys : p.keys[k].start # offset
  ELSE \E k \in DOMAIN p.keys : p.keys[k].start < offset /\ offset < p.keys[k].end

--------------------------------------------------------------------------------
\* The cursor laws.
check(p, offset) == IF offset > 0 /\ lone_zero(p, offset - 1) THEN ZeroKey ELSE offset

\* Mutant of zero_start_walk: the offset stays behind the separators.
ZeroStartWalkNone(p, offset) == offset

\* The start of the run of lone zero columns before an offset, never column 0.
zero_start_walk(p, offset) ==
  Min({offset} \union
      {i \in 1 .. offset - 1 : \A j \in i .. offset - 1 : lone_zero(p, j)})

\* The lookup offset of a cursor: back to a column that holds a key, and before
\* the separators there.
lookup_offset(p, cursor) ==
  LET bound == Lesser(cursor, Lesser(p.parsed, Len(p.bytes)))
      held == Max({0} \union {i \in 1 .. bound : ~is_empty(p, i)})
  IN check(p, zero_start_walk(p, held))

\* One key to the left.
left_offset(p, offset) ==
  LET left == Max({0} \union {i \in 1 .. offset - 1 : ends_with(p, i, offset)})
  IN IF offset > Len(p.bytes) THEN OutOfRange
     ELSE IF check(p, offset) = ZeroKey THEN ZeroKey
     ELSE check(p, zero_start_walk(p, left))

\* One key to the right, past the separators; NoKey where none starts.
right_offset(p, offset) ==
  LET right == Min({i \in offset .. Len(p.bytes) :
                      i = Len(p.bytes) \/ ~lone_zero(p, i)})
      end == IF Real(p, right) # {} THEN Head(p.cols[right].ends) ELSE right + 1
  IN IF offset > Len(p.bytes) THEN OutOfRange
     ELSE IF check(p, offset) = ZeroKey THEN ZeroKey
     ELSE IF is_empty(p, right) THEN NoKey
     ELSE check(p, end)

--------------------------------------------------------------------------------
\* The lookup offset a guess accepts, over the bytes of the session.
normalize_lookup_offset(bytes, offset) ==
  LET n == Min({offset} \union
               {i \in 1 .. offset - 1 :
                  \A j \in i .. offset - 1 : ByteAt(bytes, j) = Sep})
      leading == LeadingRun(bytes)
  IN CASE offset > Len(bytes) -> OutOfRange
       [] offset <= Len(bytes) /\ n <= leading /\ leading < Len(bytes) -> offset
       [] OTHER -> IF n > 0 /\ bytes[n] = Sep THEN PastSeparator ELSE n

\* The first columns of a leading separator are searched as they are.
LeadingEmpty(p, parsedLen) ==
  /\ ByteAt(p.bytes, 0) = Sep /\ Real(p, 0) = {}
  /\ ~(p.keys # <<>> /\ parsedLen = 0)

validate_lookup_offset(p, parsedLen, offset) ==
  IF offset > parsedLen THEN OutOfRange
  ELSE IF LeadingEmpty(p, parsedLen) THEN offset
  ELSE CASE p.mode \in {"zhuyin", "double"} ->
              IF offset > p.parsed THEN OutOfRange ELSE offset
         [] p.mode = "index" ->
              normalize_lookup_offset(
                SubSeq(p.bytes, 1, Lesser(p.parsed, Len(p.bytes))), offset)
         [] OTHER -> normalize_lookup_offset(p.bytes, offset)

mode_has_keys(p) == p.bytes # <<>> /\ p.keys # <<>>
pin_matrix_columns(p) == IF mode_has_keys(p) THEN p.parsed + 1 ELSE 0

================================================================================
