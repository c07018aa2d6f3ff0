-------------------------------- MODULE Session --------------------------------
(***************************************************************************)
(* One composition of crates/oxpinyin-engine/src/session: the raw input,    *)
(* the selection record, the constraint store, the decoded sentence rows    *)
(* and the cached candidate list, under the operations a frontend calls.    *)
(*                                                                         *)
(* The input is a sequence of letters.  A letter in Keys is a key of the    *)
(* parse; any other stops it, so the matrix covers the longest prefix of    *)
(* keys.  A phrase spells the letters Spelling[token].  Which segmentations *)
(* rank best is the language model's choice and is left open.               *)
(***************************************************************************)
EXTENDS ConstraintCells, Functions

CONSTANTS Keys,         \* the letters the parser accepts
          Inputs,       \* the raw inputs a frontend may send
          Spelling,     \* [Token -> non-empty sequences of keys]
          MaxInput,     \* the longest of them
          MaxParts,     \* bound on the pieces and tokens selected
          MaxRows,      \* bound on the sentence rows of one guess
          Defer,        \* set_defer_list_builds
          Faults,       \* whether a dictionary read may fail
          Disciplined,  \* whether every change is followed by a guess
          AnyAnchorRows \* whether sentence rows are chosen at any anchor

\* The letters an input may have.
Letters == Keys \union UNION {Range(text) : text \in Inputs}

ASSUME InputsAssumption == \A text \in Inputs : text \in Seq(Letters)
ASSUME SpellingAssumption == Spelling \in [Token -> Seq(Keys) \ {<<>>}]
ASSUME MaxRowsAssumption == MaxRows \in Nat

VARIABLES raw,    \* InputBuffer: the letters typed
          rec,    \* SelectionRecord
          store,  \* ConstraintStore
          sent,   \* SentenceState
          list,   \* the cached candidate list: where and over which rows built
          phase   \* the frontend: has it guessed since its last change?

vars == <<raw, rec, store, sent, list, phase>>

--------------------------------------------------------------------------------
\* Pieces of text: a phrase, or raw letters taken as they were typed.
Phrase(token) == [token |-> token, bytes |-> Spelling[token]]
Raw(bytes) == [token |-> NoToken, bytes |-> bytes]

\* The concatenation of the sequences in `seqs`.
Joined(seqs) ==
  LET upto[k \in 0 .. Len(seqs)] == IF k = 0 THEN <<>> ELSE upto[k - 1] \o seqs[k]
  IN upto[Len(seqs)]

BytesOf(parts) == Joined([k \in DOMAIN parts |-> parts[k].bytes])
TokensOf(parts) ==
  Joined([k \in DOMAIN parts |-> IF parts[k].token = NoToken THEN <<>>
                                 ELSE <<parts[k].token>>])

\* raw[from..to), indices from 0.
Slice(text, from, to) == SubSeq(text, from + 1, to)

\* The end of the keys of `text` that begin at `from`: the matrix bound.
BoundFrom(text, from) ==
  CHOOSE b \in from .. Len(text) :
    /\ \A k \in from + 1 .. b : text[k] \in Keys
    /\ b < Len(text) => text[b + 1] \notin Keys
Bound(text) == BoundFrom(text, 0)

\* Whether `token` spells over [start, end) of the parse of `text`.
Spells(text, start, end, token) ==
  end <= Bound(text) /\ Slice(text, start, end) = Spelling[token]

Lesser(a, b) == IF a < b THEN a ELSE b

--------------------------------------------------------------------------------
\* The selection record.
NoRecord ==
  [parts |-> <<>>, consumed |-> 0, history |-> <<>>, committed |-> FALSE]

\* Mutant of GapBefore: the gaps between the runs are lost.
NoGap(text, cursor, start) == <<>>

\* The letters of `text` from the cursor up to the next run.
GapBefore(text, cursor, start) ==
  IF cursor < start /\ start <= Len(text)
  THEN <<Raw(Slice(text, cursor, start))>> ELSE <<>>

\* Mutant of RebuildStep: the rebuild ends at the first gap.
StopAtGap(text, cell, start, done) ==
  IF cell.kind # "OneStep" \/ done.cursor < start THEN done
  ELSE [parts |-> Append(done.parts, Phrase(cell.token)),
        cursor |-> cell.at,
        history |-> Append(done.history, cell.token)]

\* The loop over the forcings of `st` in the order of their cells: what it has
\* put together on reaching each column.
RebuildStep(text, cell, start, done) ==
  IF cell.kind # "OneStep" THEN done
  ELSE [parts |-> done.parts \o GapBefore(text, done.cursor, start)
                             \o <<Phrase(cell.token)>>,
        cursor |-> cell.at,
        history |-> Append(done.history, cell.token)]

RebuildLoop(text, st) ==
  LET loop[i \in 0 .. st.len] ==
        IF i = 0 THEN [parts |-> <<>>, cursor |-> 0, history |-> <<>>]
        ELSE RebuildStep(text, st.cells[i - 1], i - 1, loop[i - 1])
  IN loop

\* The record re-derived from the forcings of `st`.
rebuild_from_constraints(text, st) ==
  LET done == RebuildLoop(text, st)[st.len]
  IN IF done.history = <<>> THEN NoRecord
     ELSE [parts |-> done.parts, consumed |-> Lesser(done.cursor, Len(text)),
           history |-> done.history, committed |-> FALSE]

clamp_consumed(r, text) == [r EXCEPT !.consumed = Lesser(@, Len(text))]

\* The store after validate against the parse of `text`.
Validated(st, text) ==
  validate(st, Bound(text) + 1, LAMBDA s, e, t : Spells(text, s, e, t))
\* The forcings whose spelling decides whether it drops them: a dictionary read.
Probed(st, text) ==
  LET sized == resize(st, Bound(text) + 1)
  IN {s \in 0 .. sized.len - 1 : sized.cells[s].kind = "OneStep"
                                /\ sized.cells[s].at < sized.len}

\* The forcings it drops.
DroppedOver(st, text) ==
  Dropped(resize(st, Bound(text) + 1), LAMBDA s, e, t : Spells(text, s, e, t))

--------------------------------------------------------------------------------
\* Sentence rows: the segmentations of the keys from `from` to `bound` that the
\* constrained walk over the cells of `st` can build.
NoSentence == [rows |-> <<>>, history |-> <<>>, prefix |-> <<>>]

\* The kind of the walk's cell at c: past the store, and without one, it is free.
CellKind(st, c) == IF c < st.len THEN st.cells[c].kind ELSE "None"

\* Of the phrases <<token, end>> at position i, those the keys spell.
Spanning(text, i, bound, phrases) ==
  {f \in phrases : f[2] <= bound /\ Slice(text, i, f[2]) = Spelling[f[1]]}

\* Mutant of widen_free_span: widens over cells that are not searched.
WidenOverForcings(text, st, i, bound) ==
  Spanning(text, i, bound, {<<t, i + Len(Spelling[t])>> : t \in Token})

\* The phrases that start at a free position i: the search widens to the right
\* until a cell that is not searched.
widen_free_span(text, st, i, bound) ==
  {f \in Spanning(text, i, bound, {<<t, i + Len(Spelling[t])>> : t \in Token}) :
     \A c \in i + 1 .. f[2] : CellKind(st, c) # "NoSearch"}

\* The phrases the walk may place at position i.
Steps(text, st, i, bound) ==
  CASE CellKind(st, i) = "NoSearch" -> {}
    [] CellKind(st, i) = "OneStep" ->
         Spanning(text, i, bound, {<<st.cells[i].token, st.cells[i].at>>})
    [] OTHER -> widen_free_span(text, st, i, bound)

\* The walk from each position to the end.
Walk(text, st, from, bound) ==
  LET walk[i \in from .. bound] ==
        IF i = bound THEN {<<>>}
        ELSE UNION {{<<[start |-> i, token |-> f[1]]>> \o rest :
                       rest \in walk[f[2]]} : f \in Steps(text, st, i, bound)}
  IN walk

Segmentations(text, st, from, bound) == Walk(text, st, from, bound)[from]

\* The row of a segmentation; `prefix` is the selected text it is prepended with
\* and `span` the number of letters the walk covered.
Row(prefix, spans, span) ==
  [spans |-> spans,
   text |-> prefix \o [k \in DOMAIN spans |-> Phrase(spans[k].token)],
   span |-> span]

\* Best-first lists of up to MaxRows of these segmentations.
RowLists(prefix, segs, span) ==
  {[k \in DOMAIN l |-> Row(prefix, l[k], span)] :
     l \in {l \in UNION {[1 .. n -> segs] : n \in 0 .. MaxRows} :
              /\ l = <<>> => segs = {}
              /\ \A j, k \in DOMAIN l : l[j] = l[k] => j = k}}

--------------------------------------------------------------------------------
\* A scanned row of the window at `anchor`: a phrase spelled there or, when there
\* is none, the rest of the input as typed.
PhrasesAt(text, anchor) ==
  {t \in Token : Spells(text, anchor, anchor + Len(Spelling[t]), t)}

scan_window(text, anchor) ==
  IF anchor >= Len(text) THEN {}
  ELSE IF PhrasesAt(text, anchor) # {}
  THEN {[token |-> t, piece |-> Phrase(t), advance |-> Len(Spelling[t])] :
          t \in PhrasesAt(text, anchor)}
  ELSE LET rest == Slice(text, anchor, Len(text))
       IN {[token |-> NoToken, piece |-> Raw(rest), advance |-> Len(rest)]}

\* The cached list: the window at the composition offset and the sentence rows.
\* A deferred build leaves it stale, a failed scan leaves it empty.
BuiltList(text, r, s) ==
  [anchor |-> r.consumed, scanned |-> scan_window(text, r.consumed),
   rows |-> s.rows, state |-> "built"]
NoList == [anchor |-> 0, scanned |-> {}, rows |-> <<>>, state |-> "empty"]

refresh(text, r, s) ==
  \/ list' = BuiltList(text, r, s)
  \/ Faults /\ list' = NoList

refresh_after_parse(text, r, s) ==
  IF Defer THEN list' = [NoList EXCEPT !.state = "stale"] ELSE refresh(text, r, s)

\* The list a select reads: a stale one is rebuilt first.
refresh_candidates ==
  IF list.state = "stale" THEN BuiltList(raw, rec, sent) ELSE list

--------------------------------------------------------------------------------
\* A disciplined frontend answers every change with a guess before it makes the
\* next one, and chooses or clears only while a guess stands.
MayEdit == Disciplined => phase \in {"guessed", "keyless"}
MayChoose == Disciplined => phase \in {"guessed", "failed"}

Init ==
  /\ raw = <<>> /\ rec = NoRecord /\ store = EmptyStore
  /\ sent = NoSentence /\ list = NoList /\ phase = "changed"

\* The record after the input becomes `text`: restored from the forcings when
\* the input returns from empty, and clamped.
refill_raw(text) ==
  LET restoring == raw = <<>> /\ text # <<>> /\ is_active(store)
  IN clamp_consumed(IF restoring THEN rebuild_from_constraints(text, store)
                    ELSE rec, text)

\* Mutant of reconcile_replaced_selection: the record of the replaced input stays.
KeepSelection(text, r) == r

\* The record r over `text` re-derived from a validated copy of the store.
reconcile_replaced_selection(text, r) ==
  IF r.consumed = 0 THEN r
  ELSE rebuild_from_constraints(
         text, IF Bound(text) > 0 THEN Validated(store, text) ELSE EmptyStore)

ReplaceRaw(text) ==
  LET continuous == /\ rec.consumed <= Len(text)
                    /\ Slice(text, 0, rec.consumed) = Slice(raw, 0, rec.consumed)
      refilled == refill_raw(text)
  IN /\ MayEdit
     /\ raw' = text
     /\ \/ /\ rec' = IF continuous THEN refilled
                     ELSE reconcile_replaced_selection(text, refilled)
           /\ refresh_after_parse(text, rec', sent)
        \/ \* the validation of the copy fails
           /\ Faults /\ ~continuous /\ refilled.consumed # 0
           /\ Probed(store, text) # {}
           /\ rec' = refilled
           /\ UNCHANGED list
     /\ phase' = "changed"
     /\ UNCHANGED <<store, sent>>

type_pinyin(letter) ==
  /\ MayEdit
  /\ Append(raw, letter) \in Inputs
  /\ raw' = Append(raw, letter)
  /\ refresh(raw', rec, sent)
  /\ phase' = "changed"
  /\ UNCHANGED <<rec, store, sent>>

\* Mutant of erase: removes a letter that is selected.
EraseSelected ==
  /\ MayEdit
  /\ raw # <<>> /\ raw' = Slice(raw, 0, Len(raw) - 1)
  /\ refresh(raw', rec, sent)
  /\ phase' = "changed"
  /\ UNCHANGED <<rec, store, sent>>

\* Remove the last unselected letter, or un-select everything.
erase ==
  /\ MayEdit
  /\ \/ /\ rec.consumed < Len(raw)
        /\ raw' = Slice(raw, 0, Len(raw) - 1)
        /\ UNCHANGED <<rec, store>>
     \/ /\ rec.consumed >= Len(raw) /\ rec.parts # <<>>
        /\ rec' = NoRecord /\ store' = EmptyStore
        /\ UNCHANGED raw
  /\ refresh(raw', rec', sent)
  /\ phase' = "changed"
  /\ UNCHANGED sent

--------------------------------------------------------------------------------
\* What every choose ends with: the list rebuilt at the new offset.  The call
\* fails if that scan does, with the selection already recorded, and the
\* frontend may then choose again from the window it still shows.
Chosen ==
  /\ Len(rec'.parts) <= MaxParts /\ Len(rec'.history) <= MaxParts
  /\ refresh(raw, rec', sent)
  /\ phase' = IF list' = NoList THEN "failed" ELSE "changed"
  /\ UNCHANGED <<raw, sent>>

\* A choose behind the composition offset: the record follows the store.  A row
\* without a token is refused.
select_behind(start, end, token) ==
  /\ token # NoToken
  /\ store' = add(resize(store, Len(raw) + 1), start, end, token)
  /\ rec' = rebuild_from_constraints(raw, store')
  /\ Chosen

\* select_inner with a scanned row that starts at `anchor`.
SelectScanned(anchor, cand) ==
  LET end == Lesser(anchor + cand.advance, Len(raw))
      sized == resize(store, Len(raw) + 1)
      gap == IF rec.consumed < anchor
             THEN <<Raw(Slice(raw, rec.consumed, anchor))>> ELSE <<>>
  IN \/ anchor < rec.consumed /\ select_behind(anchor, end, cand.token)
     \/ /\ anchor >= rec.consumed
        /\ store' = IF cand.token = NoToken THEN store
                    ELSE add(sized, anchor, end, cand.token)
        /\ rec' = [parts |-> rec.parts \o gap \o <<cand.piece>>,
                   consumed |-> end,
                   history |-> rec.history \o TokensOf(<<cand.piece>>),
                   committed |-> end >= Len(raw)]
        /\ Chosen

\* Mutant of SelectRow: the row's tokens follow the tokens selected before.
SelectRowKeepsHistory(anchor, shown, k) ==
  LET end == Lesser(anchor + shown[k].span, Len(raw))
      row == sent.rows[k]
      tokens == [j \in DOMAIN row.spans |-> row.spans[j].token]
  IN /\ k \in DOMAIN sent.rows
     /\ rec' = [parts |-> row.text, consumed |-> end,
                history |-> rec.history \o tokens,
                committed |-> end >= Len(raw)]
     /\ store' = diff_result(resize(store, Len(raw) + 1),
                             sent.rows[1].spans, row.spans, Len(raw))
     /\ Chosen

\* select_inner with the sentence row of rank k among the rows `shown`, which
\* the guess may have dropped since they were shown.
SelectRow(anchor, shown, k) ==
  LET end == Lesser(anchor + shown[k].span, Len(raw))
      row == sent.rows[k]
      tokens == [j \in DOMAIN row.spans |-> row.spans[j].token]
  IN \/ /\ k \notin DOMAIN sent.rows
        /\ rec' = [rec EXCEPT !.parts = shown[k].text, !.consumed = end]
        /\ UNCHANGED store
        /\ Chosen
     \/ /\ k \in DOMAIN sent.rows
        /\ rec' = [parts |-> row.text, consumed |-> end,
                   history |-> sent.history \o tokens,
                   committed |-> end >= Len(raw)]
        /\ store' = diff_result(resize(store, Len(raw) + 1),
                                sent.rows[1].spans, row.spans, Len(raw))
        /\ Chosen

\* select: the row is found where the cached list was built and placed at the
\* composition offset.
Select ==
  LET shown == refresh_candidates
  IN /\ MayChoose
     /\ \/ \E cand \in shown.scanned : SelectScanned(rec.consumed, cand)
        \/ \E k \in DOMAIN shown.rows : SelectRow(rec.consumed, shown.rows, k)

\* select_anchored: the window is scanned at a caller's offset and the row placed
\* there.
SelectAnchored(anchor) ==
  /\ MayChoose
  /\ \/ \E cand \in scan_window(raw, anchor) : SelectScanned(anchor, cand)
     \/ /\ AnyAnchorRows
        /\ \E k \in DOMAIN sent.rows : SelectRow(anchor, sent.rows, k)

\* The record follows the forcings that are left; the list is not rebuilt.
clear_constraint(offset) ==
  /\ MayChoose
  /\ ClearsAt(store, offset)
  /\ store' = clear_by_offset(store, offset)
  /\ rec' = rebuild_from_constraints(raw, store')
  /\ phase' = "changed"
  /\ UNCHANGED <<raw, sent, list>>

--------------------------------------------------------------------------------
\* A guess that finds no keys: the old rows are gone, the list is not rebuilt.
GuessNothing ==
  /\ sent' = NoSentence /\ phase' = "keyless"
  /\ UNCHANGED <<raw, rec, store, list>>

\* A guess that a dictionary read ended: the old rows are gone.
GuessFailed ==
  /\ Faults
  /\ sent' = NoSentence /\ phase' = "changed"
  /\ UNCHANGED <<raw, list>>

\* A guess whose scan fails has its rows but reports the failure.
Guessed(l) == IF l = NoList THEN "changed" ELSE "guessed"

\* validate failed at the forcing `at`: the ones before it are dealt with.
ValidateFailed ==
  /\ \E at \in Probed(store, raw) :
       store' = Revalidated(store, Bound(raw) + 1,
                            {s \in DroppedOver(store, raw) : s < at})
  /\ UNCHANGED rec
  /\ GuessFailed

\* Re-validate the forcings, rebuild the record if one was dropped or the record
\* was emptied under the forcings, and decode the whole input around them.
GuessFull ==
  \/ Bound(raw) = 0 /\ GuessNothing
  \/ Bound(raw) > 0 /\ ValidateFailed
  \/ /\ Bound(raw) > 0
     /\ store' = Validated(store, raw)
     /\ rec' = IF \/ DroppedOver(store, raw) # {}
                  \/ is_active(store') /\ rec.history = <<>>
               THEN rebuild_from_constraints(raw, store') ELSE rec
     /\ \/ GuessFailed
        \/ /\ \E rows \in RowLists(<<>>, Segmentations(raw, store', 0, Bound(raw)),
                                    Bound(raw)) :
                sent' = [rows |-> rows, history |-> <<>>, prefix |-> <<>>]
           /\ refresh_after_parse(raw, rec', sent')
           /\ phase' = Guessed(list')
           /\ UNCHANGED raw

\* Decode what follows the selection, which every row is prepended with.
guess_over_remaining ==
  LET from == rec.consumed
      bound == BoundFrom(raw, from)
  IN \/ bound = from /\ GuessNothing
     \/ bound > from /\ GuessFailed /\ UNCHANGED <<rec, store>>
     \/ /\ bound > from
        /\ \E rows \in RowLists(rec.parts,
                                 Segmentations(raw, EmptyStore, from, bound),
                                 bound - from) :
             sent' = [rows |-> rows, history |-> rec.history,
                      prefix |-> rec.parts]
        /\ refresh_after_parse(raw, rec, sent')
        /\ phase' = Guessed(list')
        /\ UNCHANGED <<raw, rec, store>>

GuessEmpty ==
  /\ raw = <<>>
  /\ store' = EmptyStore /\ rec' = NoRecord
  /\ sent' = NoSentence /\ phase' = "keyless"
  /\ UNCHANGED <<raw, list>>

guess_sentence ==
  \/ GuessEmpty
  \/ /\ raw # <<>> /\ rec.consumed < Len(raw) /\ ~is_active(store)
     /\ guess_over_remaining
  \/ /\ raw # <<>> /\ (rec.consumed >= Len(raw) \/ is_active(store))
     /\ GuessFull

guess_sentence_with_prefix == GuessEmpty \/ (raw # <<>> /\ GuessFull)

discard_composition ==
  /\ raw' = <<>> /\ rec' = NoRecord /\ store' = EmptyStore /\ list' = NoList
  /\ phase' = "changed"
  /\ UNCHANGED sent

reset ==
  /\ raw' = <<>> /\ rec' = NoRecord /\ store' = EmptyStore /\ list' = NoList
  /\ sent' = NoSentence /\ phase' = "changed"

Next ==
  \/ \E text \in Inputs : ReplaceRaw(text)
  \/ \E letter \in Keys : type_pinyin(letter)
  \/ erase
  \/ Select
  \/ \E anchor \in 0 .. Len(raw) : SelectAnchored(anchor)
  \/ \E offset \in 0 .. Len(raw) : clear_constraint(offset)
  \/ guess_sentence
  \/ guess_sentence_with_prefix
  \/ discard_composition
  \/ reset

Spec == Init /\ [][Next]_vars

--------------------------------------------------------------------------------
\* The composition offset is never past the input, whatever calls were made in
\* whatever order and whichever of them failed: every raw[consumed..] slice of
\* the session depends on it (record.rs:34-37, state.rs:355-361).
CursorInInput == rec.consumed <= Len(raw)

\* While a guess stands, the selected text spells exactly the selected letters
\* of the current input (state.rs:371-376): nothing is left of an earlier input,
\* no gap is dropped and none is doubled.
SelectedTextWhenGuessed ==
  phase = "guessed" => BytesOf(rec.parts) = Slice(raw, 0, rec.consumed)

\* The tokens a train would learn are the phrases the selected text shows, in
\* order (record.rs:38-40): a selection of a row leaves none of an earlier
\* selection behind, a rebuild drops text and tokens together.
TrainsWhatIsShown == TokensOf(rec.parts) = rec.history

\* A guess that succeeds leaves the selection as it found it: what the parse made
\* of the record with a validated copy of the store is what the guess makes of it
\* with the store itself (state.rs:486, guess.rs:129-133).
GuessKeepsSelection == [][phase' = "guessed" => rec' = rec]_vars

\* While a guess stands, every forcing owns the NoSearch cells behind it and no
\* others exist, so un-forcing any of its letters un-forces all (constraint.rs:
\* 135-153), although select only resizes the store and never validates it.
ForcedRunsWhole == phase = "guessed" => RunsWhole(store)

\* While a guess stands, every forcing spells letters that are already selected:
\* no edit, choice behind the cursor or clear leaves one past the composition
\* offset, where the next decode would pin a choice the text no longer shows
\* (selection.rs:717-726, record.rs rebuild_from_constraints).
ForcingsAreSelected ==
  phase = "guessed" =>
    \A r \in runs(store) : /\ r.end <= rec.consumed
                           /\ Slice(raw, r.start, r.end) = Spelling[r.token]

\* While a guess stands, each of its rows carries every forcing; only a phrase
\* that starts before a forcing of one letter may cover it, for such a run has
\* no cell that stops the widening (nbest.rs:815-868, 1101).
RowsHonourForcings ==
  phase = "guessed" =>
    \A r \in runs(store), k \in DOMAIN sent.rows :
      \/ [start |-> r.start, token |-> r.token] \in Range(sent.rows[k].spans)
      \/ /\ r.end = r.start + 1
         /\ \E x \in Range(sent.rows[k].spans) :
              x.start < r.start /\ r.end <= x.start + Len(Spelling[x.token])

================================================================================
