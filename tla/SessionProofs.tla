----------------------------- MODULE SessionProofs -----------------------------
(***************************************************************************)
(* Proofs of what the rows, the text and the tokens of a session mean, for  *)
(* every set of keys, inputs and phrases, under a frontend that answers     *)
(* every change with a guess: the forced runs stay whole and every row of a *)
(* guess honours them; the text shown for the selection is the letters      *)
(* selected, of inputs of keys whose reads succeed; and what is trained is  *)
(* what the text shows.                                                     *)
(***************************************************************************)
EXTENDS SessionLemmas, TLAPS

--------------------------------------------------------------------------------
\* The runs of a disciplined frontend's store are whole, except after a guess
\* whose validation failed: it has cut the array to the matrix without dropping
\* all the runs that overrun it.  The next guess, the only call that may follow,
\* cuts it at the same column.  While a frontend may choose, the store is not
\* longer than the input asks for.
Forced ==
  /\ \/ RunsWhole(store)
     \/ /\ RunsCut(store) /\ phase = "changed"
        /\ store.len = Bound(raw) + 1 /\ Bound(raw) > 0
  /\ phase \in {"guessed", "failed"} => store.len <= Len(raw) + 1 \/ ~is_active(store)
  /\ RowsHonourForcings

\* A store without constraints has no runs, however it is resized.
LEMMA InactiveWhole ==
  ASSUME NEW m \in Nat, NEW st \in Stores(m), ~is_active(st)
  PROVE  /\ RunsWhole(st) /\ runs(st) = {}
         /\ \A n \in Nat : RunsWhole(resize(st, n))
<1>1. st.len = m /\ \A i \in 0 .. m - 1 : st.cells[i].kind = "None"
  BY StoreShape, Zenon DEF is_active
<1>2. RunsWhole(st) /\ runs(st) = {}
  BY <1>1, Zenon DEF RunsWhole, runs
<1>3. ASSUME NEW n \in Nat PROVE RunsWhole(resize(st, n))
  <2> DEFINE r == resize(st, n)
  <2>1. r.len = n /\ \A i \in 0 .. n - 1 : r.cells[i] = IF i < m THEN st.cells[i] ELSE None
    BY <1>1, Zenon DEF resize
  <2> HIDE DEF r
  <2>2. \A i \in 0 .. n - 1 : r.cells[i].kind = "None"
    BY <1>1, <2>1, CellShape
  <2>3. RunsWhole(r)
    BY <2>1, <2>2, Zenon DEF RunsWhole
  <2> QED
    BY <2>3, Zenon DEF r
<1> QED
  BY <1>2, <1>3, Zenon

\* While a frontend may choose, the store resized to the input has whole runs.
LEMMA SizedWhole ==
  ASSUME Shape, Forced, phase \in {"guessed", "failed"}
  PROVE  /\ Len(raw) + 1 \in Nat
         /\ resize(store, Len(raw) + 1) \in Stores(Len(raw) + 1)
         /\ RunsWhole(resize(store, Len(raw) + 1))
<1>1. Len(raw) + 1 \in Nat /\ store.len \in Nat /\ store \in Stores(store.len) /\ Sound(store)
  BY DEF Shape, GoodStore
<1>2. resize(store, Len(raw) + 1) \in Stores(Len(raw) + 1)
  BY <1>1, ResizeSound, Zenon
<1>3. CASE ~is_active(store)
  BY <1>1, <1>2, <1>3, InactiveWhole, Zenon
<1>4. CASE is_active(store)
  <2>1. RunsWhole(store) /\ store.len <= Len(raw) + 1
    BY <1>4, Zenon DEF Forced
  <2> QED
    BY <1>1, <2>1, GrowPreservesRuns, Zenon
<1> QED
  BY <1>3, <1>4, Zenon

\* What validate leaves of whole runs, or of runs cut at or past the matrix.
LEMMA ValidatedWhole ==
  ASSUME NEW m \in Nat, NEW st \in Stores(m), NEW text \in Seq(Letters),
         RunsWhole(st) \/ (RunsCut(st) /\ Bound(text) + 1 <= m)
  PROVE  LET v == Validated(st, text)
         IN  /\ v \in Stores(Bound(text) + 1) /\ RunsWhole(v)
             /\ \A s \in 0 .. Bound(text) : v.cells[s].kind = "OneStep" =>
                  /\ v.cells[s] = resize(st, Bound(text) + 1).cells[s]
                  /\ v.cells[s].at <= Bound(text)
                  /\ Slice(text, s, v.cells[s].at) = Spelling[v.cells[s].token]
<1> DEFINE n == Bound(text) + 1
           r == resize(st, n)
           dropped == DroppedOver(st, text)
           v == Validated(st, text)
<1>1. n \in Nat /\ Bound(text) \in Nat /\ 0 .. n - 1 = 0 .. Bound(text)
  BY BoundShape
<1>2. r.len = n
  BY Zenon DEF resize
<1>3. dropped = {s \in 0 .. r.len - 1 :
                   /\ r.cells[s].kind = "OneStep"
                   /\ \/ r.cells[s].at >= r.len
                      \/ ~Spells(text, s, r.cells[s].at, r.cells[s].token)}
  BY Zenon DEF DroppedOver, Dropped
<1>4. v = Revalidated(st, n, dropped)
  BY Zenon DEF Validated, validate, DroppedOver
<1> HIDE DEF n, dropped, v
<1>5. /\ dropped \subseteq {s \in 0 .. n - 1 : r.cells[s].kind = "OneStep"}
      /\ \A s \in 0 .. n - 1 :
           r.cells[s].kind = "OneStep" /\ r.cells[s].at >= n => s \in dropped
  BY <1>2, <1>3, Zenon
<1>6. RunsWhole(st) \/ (RunsCut(st) /\ n <= m)
  BY Zenon DEF n
<1>7. /\ Revalidated(st, n, dropped) \in Stores(n)
      /\ RunsWhole(Revalidated(st, n, dropped))
      /\ \A s \in 0 .. n - 1 : Revalidated(st, n, dropped).cells[s].kind = "OneStep" =>
           /\ s \notin dropped
           /\ Revalidated(st, n, dropped).cells[s] = r.cells[s]
           /\ Revalidated(st, n, dropped).cells[s].at < n
  BY <1>1, <1>5, <1>6, ValidateMends, Zenon
<1> HIDE DEF r
<1>8. v \in Stores(n) /\ RunsWhole(v)
  BY <1>4, <1>7, Zenon
<1>9. ASSUME NEW s \in 0 .. Bound(text), v.cells[s].kind = "OneStep"
      PROVE  /\ v.cells[s] = r.cells[s]
             /\ v.cells[s].at <= Bound(text)
             /\ Slice(text, s, v.cells[s].at) = Spelling[v.cells[s].token]
  <2>1. s \in 0 .. n - 1
    BY <1>1, Zenon
  <2>2. s \notin dropped /\ v.cells[s] = r.cells[s] /\ v.cells[s].at < n
    BY <1>4, <1>7, <1>9, <2>1, Zenon
  <2>3. v.cells[s].at \in Nat
    BY <1>1, <1>8, <2>1, StoreShape, Zenon
  <2>4. Spells(text, s, r.cells[s].at, r.cells[s].token)
    BY <1>2, <1>3, <1>9, <2>1, <2>2, Zenon
  <2> QED
    BY <1>1, <2>2, <2>3, <2>4, Zenon DEF Spells, n
<1> QED
  BY <1>8, <1>9, Zenon DEF n, r, v

\* What a full guess of a disciplined frontend validates.
LEMMA GuessValidates ==
  ASSUME Shape, Forced
  PROVE  LET v == Validated(store, raw)
         IN  /\ v \in Stores(Bound(raw) + 1) /\ RunsWhole(v)
             /\ \A s \in 0 .. Bound(raw) : v.cells[s].kind = "OneStep" =>
                  /\ v.cells[s] = resize(store, Bound(raw) + 1).cells[s]
                  /\ v.cells[s].at <= Bound(raw)
                  /\ Slice(raw, s, v.cells[s].at) = Spelling[v.cells[s].token]
<1>1. raw \in Seq(Letters) /\ store.len \in Nat /\ store \in Stores(store.len)
  BY Zenon DEF Shape, GoodStore
<1>2. Bound(raw) \in Nat
  BY <1>1, BoundShape, Zenon
<1>3. RunsWhole(store) \/ (RunsCut(store) /\ Bound(raw) + 1 <= store.len)
  BY <1>2 DEF Forced
<1> QED
  BY <1>1, <1>3, ValidatedWhole, Zenon

\* Whole runs are all that is asked of a store that is not guessed over.
LEMMA WholeForced ==
  ASSUME RunsWhole(store'), phase' \in {"changed", "keyless"}
  PROVE  Forced'
BY Zenon DEF Forced, RowsHonourForcings

\* After a choose, the store was resized to the input or left as it was.
LEMMA ChosenForced ==
  ASSUME RunsWhole(store'), Chosen, store'.len <= Len(raw) + 1 \/ ~is_active(store')
  PROVE  Forced'
BY Zenon DEF Forced, RowsHonourForcings, Chosen

\* A scanned row forced, or taken without a forcing.
LEMMA ScannedForced ==
  ASSUME Shape, Forced, phase \in {"guessed", "failed"},
         NEW anchor \in 0 .. Len(raw), NEW cand \in Cand, SelectScanned(anchor, cand)
  PROVE  Forced'
<1> DEFINE to == anchor + cand.advance
           end == Lesser(to, Len(raw))
           n == Len(raw) + 1
           sized == resize(store, n)
           new == add(sized, anchor, end, cand.token)
<1>0. n \in Nat /\ sized \in Stores(n) /\ RunsWhole(sized)
  BY SizedWhole, Zenon
<1>1. anchor \in Nat /\ to \in Nat /\ Len(raw) \in Nat /\ cand.token \in Token \union {NoToken}
  BY DEF Shape, Cand
<1>2. Chosen /\ (store' = store \/ (cand.token # NoToken /\ store' = new))
  BY Zenon DEF SelectScanned, select_behind
<1> HIDE DEF n, sized, to
<1>3. end \in Nat
  BY <1>1, LesserShape, Zenon
<1> HIDE DEF end
<1>4. CASE store' = store
  <2>1. RunsWhole(store) /\ (store.len <= Len(raw) + 1 \/ ~is_active(store))
    BY Zenon DEF Forced
  <2> QED
    BY <1>2, <1>4, <2>1, ChosenForced, Zenon
<1>5. CASE cand.token # NoToken /\ store' = new
  <2>1. new \in Stores(n) /\ RunsWhole(new)
    BY <1>0, <1>1, <1>3, <1>5, AddPreservesRuns, Zenon
  <2> HIDE DEF new
  <2>2. new.len = n
    BY <1>0, <2>1, StoreShape, Zenon
  <2>3. store'.len <= Len(raw) + 1
    BY <1>0, <1>5, <2>2 DEF n
  <2> QED
    BY <1>2, <1>5, <2>1, <2>3, ChosenForced, Zenon
<1> QED
  BY <1>2, <1>4, <1>5, Zenon

\* A sentence row forced where it differs from the best one.
LEMMA RowForced ==
  ASSUME Shape, Forced, phase \in {"guessed", "failed"},
         NEW anchor, NEW shown, NEW k, SelectRow(anchor, shown, k)
  PROVE  Forced'
<1> DEFINE row == sent.rows[k]
           n == Len(raw) + 1
           sized == resize(store, n)
           best == sent.rows[1].spans
           new == diff_result(sized, best, row.spans, Len(raw))
<1>0. n \in Nat /\ sized \in Stores(n) /\ RunsWhole(sized) /\ Len(raw) \in Nat
  BY SizedWhole DEF Shape
<1>1. Chosen /\ (store' = store \/ (k \in DOMAIN sent.rows /\ store' = new))
  BY Zenon DEF SelectRow
<1> HIDE DEF n, sized, best
<1>2. CASE store' = store
  <2>1. RunsWhole(store) /\ (store.len <= Len(raw) + 1 \/ ~is_active(store))
    BY Zenon DEF Forced
  <2> QED
    BY <1>1, <1>2, <2>1, ChosenForced, Zenon
<1>3. CASE k \in DOMAIN sent.rows /\ store' = new
  <2>1. row \in SentRow
    <3>1. sent.rows \in Seq(SentRow)
      BY Zenon DEF Shape, Sentence
    <3> QED
      BY <1>3, <3>1
  <2> HIDE DEF row
  <2>2. row.spans \in Seq(Span)
    BY <2>1, Zenon DEF SentRow
  <2>3. new \in Stores(n) /\ RunsWhole(new)
    BY <1>0, <2>2, DiffResultPreservesRuns, Zenon
  <2> HIDE DEF new
  <2>4. new.len = n
    BY <1>0, <2>3, StoreShape, Zenon
  <2>5. store'.len <= Len(raw) + 1
    BY <1>0, <1>3, <2>4 DEF n
  <2> QED
    BY <1>1, <1>3, <2>3, <2>5, ChosenForced, Zenon
<1> QED
  BY <1>1, <1>2, <1>3, Zenon

\* Any choose of a disciplined frontend.
LEMMA ChooseForced ==
  ASSUME Shape, Forced, Disciplined,
         Select \/ (\E anchor \in 0 .. Len(raw) : SelectAnchored(anchor))
  PROVE  Forced'
<1>0. raw \in Seq(Letters) /\ Len(raw) \in Nat /\ rec.consumed \in 0 .. Len(raw)
  BY DEF Shape, GoodRecord, Record
<1>1. phase \in {"guessed", "failed"}
  BY Zenon DEF Select, SelectAnchored, MayChoose
<1>2. CASE Select
  <2> DEFINE shown == refresh_candidates
  <2>1. shown \in CandList
    BY ShownShape, Zenon
  <2>2. shown.scanned \subseteq Cand
    BY <2>1, Zenon DEF CandList
  <2>3. \/ \E cand \in shown.scanned : SelectScanned(rec.consumed, cand)
        \/ \E k \in DOMAIN shown.rows : SelectRow(rec.consumed, shown.rows, k)
    BY <1>2, Zenon DEF Select
  <2> HIDE DEF shown
  <2> QED
    BY <1>0, <1>1, <2>2, <2>3, ScannedForced, RowForced, Zenon
<1>3. ASSUME NEW anchor \in 0 .. Len(raw), SelectAnchored(anchor)
      PROVE  Forced'
  <2>1. anchor \in Nat
    BY <1>0
  <2>2. scan_window(raw, anchor) \subseteq Cand
    BY <1>0, <2>1, WindowShape, Zenon
  <2> QED
    BY <1>1, <1>3, <2>2, ScannedForced, RowForced, Zenon DEF SelectAnchored
<1> QED
  BY <1>2, <1>3, Zenon

\* A guess over what follows the selection has no forcings to keep.
LEMMA RemainingForced ==
  ASSUME Shape, Forced, ~is_active(store), guess_over_remaining
  PROVE  Forced'
<1>1. store.len \in Nat /\ store \in Stores(store.len)
  BY Zenon DEF Shape, GoodStore
<1>2. RunsWhole(store) /\ runs(store) = {} /\ store' = store
  BY <1>1, InactiveWhole, Zenon DEF guess_over_remaining, GuessNothing
<1> QED
  BY <1>2, Zenon DEF Forced, RowsHonourForcings

\* The rows decoded around whole runs that end within the matrix carry every run,
\* but for a run of one letter under a phrase that begins before it.
LEMMA RowsHonour ==
  ASSUME NEW text \in Seq(Letters), NEW st, st \in Stores(Bound(text) + 1), RunsWhole(st),
         \A s \in 0 .. Bound(text) :
           st.cells[s].kind = "OneStep" => st.cells[s].at <= Bound(text),
         NEW seg \in Segmentations(text, st, 0, Bound(text)),
         NEW r \in runs(st)
  PROVE  \/ [start |-> r.start, token |-> r.token] \in Range(seg)
         \/ /\ r.end = r.start + 1
            /\ \E x \in Range(seg) :
                 x.start < r.start /\ r.end <= x.start + Len(Spelling[x.token])
<1> DEFINE b == Bound(text)
           n == b + 1
<1>1. b \in 0 .. Len(text) /\ b \in Nat /\ n \in Nat /\ 0 .. n - 1 = 0 .. b /\ 0 \in 0 .. b
  BY BoundShape
<1>2. st \in Stores(n) /\ st.len = n
  BY <1>1, StoreShape, Zenon
<1>3. Honours(st, 0, b, seg)
  BY <1>1, <1>2, WalkHonours, Zenon
<1>4. PICK s \in 0 .. n - 1 :
        /\ st.cells[s].kind = "OneStep"
        /\ r = [start |-> s, end |-> st.cells[s].at, token |-> st.cells[s].token]
  BY <1>2, Zenon DEF runs
<1>5. s \in 0 .. b /\ st.cells[s].at <= b /\ r.start = s /\ r.end = st.cells[s].at
      /\ r.token = st.cells[s].token
  BY <1>1, <1>4, Zenon
<1>6. 0 <= s
  BY <1>5
<1> HIDE DEF b, n
<1>7. Carries(st, s, seg)
  BY <1>2, <1>3, <1>4, <1>5, <1>6, Zenon DEF Honours
<1> QED
  BY <1>5, <1>7, Zenon DEF Carries, SteppedOver

\* A guess over the whole input.
LEMMA GuessFullForced ==
  ASSUME Shape, Forced, GuessFull
  PROVE  Forced'
<1> DEFINE v == Validated(store, raw)
           b == Bound(raw)
<1>0. raw \in Seq(Letters) /\ b \in 0 .. Len(raw) /\ b \in Nat /\ Len(raw) \in Nat
  BY BoundShape DEF Shape
<1>1. /\ v \in Stores(b + 1) /\ RunsWhole(v)
      /\ \A s \in 0 .. b : v.cells[s].kind = "OneStep" => v.cells[s].at <= b
  BY GuessValidates, Zenon
<1>2. CASE b = 0 /\ GuessNothing
  <2>1. RunsWhole(store)
    BY <1>2 DEF Forced
  <2> QED
    BY <1>2, <2>1, WholeForced, Zenon DEF GuessNothing
<1>3. CASE b > 0 /\ ValidateFailed
  <2>1. PICK at \in Probed(store, raw) :
          store' = Revalidated(store, b + 1, {s \in DroppedOver(store, raw) : s < at})
    BY <1>3, Zenon DEF ValidateFailed
  <2> DEFINE some == {s \in DroppedOver(store, raw) : s < at}
             n == b + 1
             m == store.len
  <2>2. n \in Nat /\ m \in Nat /\ store \in Stores(m)
    BY <1>0 DEF Shape, GoodStore
  <2>3. resize(store, n).len = n
    BY Zenon DEF resize
  <2>4. some \subseteq {s \in 0 .. n - 1 : resize(store, n).cells[s].kind = "OneStep"}
    BY <2>3, Zenon DEF DroppedOver, Dropped
  <2>5. RunsWhole(store) \/ (RunsCut(store) /\ n <= m)
    BY <1>0 DEF Forced
  <2> HIDE DEF some, n, m
  <2>6. Revalidated(store, n, some) \in Stores(n) /\ RunsCut(Revalidated(store, n, some))
    BY <2>2, <2>4, <2>5, RevalidatedCut, Zenon
  <2>7. store' = Revalidated(store, n, some)
    BY <2>1, Zenon DEF some, n
  <2>8. store' \in Stores(n) /\ RunsCut(store') /\ store'.len = n
    BY <2>2, <2>6, <2>7, StoreShape, Zenon
  <2>9. raw' = raw /\ phase' = "changed"
    BY <1>3, Zenon DEF ValidateFailed, GuessFailed
  <2> QED
    BY <1>3, <2>8, <2>9, Zenon DEF Forced, RowsHonourForcings, n
<1>4. CASE store' = v /\ GuessFailed
  BY <1>1, <1>4, WholeForced, Zenon DEF GuessFailed
<1>5. CASE /\ store' = v /\ raw' = raw
           /\ DecodedRows(sent'.rows, <<>>, store', 0, b)
           /\ phase' = Guessed(list')
  <2>1. RunsWhole(store') /\ store'.len <= Len(raw') + 1
    <3>1. b + 1 \in Nat
      BY <1>0
    <3>2. v.len = b + 1
      BY <1>1, <3>1, StoreShape, Zenon
    <3> HIDE DEF v, b
    <3> QED
      BY <1>0, <1>1, <1>5, <3>2
  <2>2. \A r \in runs(store'), k \in DOMAIN sent'.rows :
          \/ [start |-> r.start, token |-> r.token] \in Range(sent'.rows[k].spans)
          \/ /\ r.end = r.start + 1
             /\ \E x \in Range(sent'.rows[k].spans) :
                  x.start < r.start /\ r.end <= x.start + Len(Spelling[x.token])
    <3> TAKE r \in runs(store'), k \in DOMAIN sent'.rows
    <3>0. r \in runs(v)
      BY <1>5, Zenon
    <3>1. sent'.rows[k].spans \in Segmentations(raw, v, 0, b)
      BY <1>5, Zenon DEF DecodedRows, RowsOver
    <3> DEFINE seg == sent'.rows[k].spans
    <3> HIDE DEF v, seg
    <3>2. \/ [start |-> r.start, token |-> r.token] \in Range(seg)
          \/ /\ r.end = r.start + 1
             /\ \E x \in Range(seg) :
                  x.start < r.start /\ r.end <= x.start + Len(Spelling[x.token])
      BY <1>0, <1>1, <3>0, <3>1, RowsHonour, Zenon DEF seg
    <3> QED
      BY <3>2, Zenon DEF seg
  <2> QED
    BY <2>1, <2>2, Zenon DEF Forced, RowsHonourForcings
<1> QED
  BY <1>2, <1>3, <1>4, <1>5, GuessFullCases, Zenon

\* Every step keeps the runs as whole as they have to be, and the rows around
\* them.
LEMMA StepForced ==
  ASSUME Shape, Forced, Disciplined, [Next]_vars
  PROVE  Forced'
<1>0. /\ RunsWhole(EmptyStore) /\ store.len \in Nat /\ store \in Stores(store.len)
      /\ Len(raw) \in Nat
  BY GoodStores DEF Shape, GoodStore
<1>1. CASE UNCHANGED vars
  BY <1>1, Zenon DEF vars, Forced, RowsHonourForcings
<1>2. ASSUME MayEdit PROVE RunsWhole(store)
  BY <1>2, Zenon DEF MayEdit, Forced
<1>3. ASSUME NEW text \in Inputs, ReplaceRaw(text) PROVE Forced'
  BY <1>2, <1>3, WholeForced, Zenon DEF ReplaceRaw
<1>4. ASSUME NEW letter \in Keys, type_pinyin(letter) PROVE Forced'
  BY <1>2, <1>4, WholeForced, Zenon DEF type_pinyin
<1>5. CASE erase
  BY <1>0, <1>2, <1>5, WholeForced, Zenon DEF erase
<1>6. CASE Select \/ (\E anchor \in 0 .. Len(raw) : SelectAnchored(anchor))
  BY <1>6, ChooseForced, Zenon
<1>7. ASSUME NEW offset \in 0 .. Len(raw), clear_constraint(offset) PROVE Forced'
  <2>1. RunsWhole(store) /\ offset \in Nat
    BY <1>0, <1>7 DEF clear_constraint, MayChoose, Forced
  <2>2. RunsWhole(clear_by_offset(store, offset))
    BY <1>0, <2>1, ClearPreservesRuns, Zenon
  <2> QED
    BY <1>7, <2>2, WholeForced, Zenon DEF clear_constraint
<1>8. CASE guess_sentence \/ guess_sentence_with_prefix
  <2>1. CASE GuessEmpty
    BY <1>0, <2>1, WholeForced, Zenon DEF GuessEmpty
  <2> QED
    BY <1>8, <2>1, GuessIsOne, RemainingForced, GuessFullForced, Zenon
<1>9. CASE discard_composition \/ reset
  BY <1>0, <1>9, WholeForced, Zenon DEF discard_composition, reset
<1> QED
  BY <1>1, <1>3, <1>4, <1>5, <1>6, <1>7, <1>8, <1>9, Zenon DEF Next

\* A disciplined session keeps both.
LEMMA AlwaysForced == ASSUME Disciplined PROVE Spec => []Forced
<1>1. Init => Shape /\ Forced
  BY InitShape, GoodStores, Zenon DEF Init, Forced, RowsHonourForcings
<1>2. Shape /\ Forced /\ [Next]_vars => (Shape /\ Forced)'
  BY StepShape, StepForced, Zenon
<1> QED
  BY <1>1, <1>2, PTL DEF Spec

\* While a guess stands, every forcing owns the cells behind it and no other
\* blocked cell exists (constraint.rs:135-153), although choosing only resizes
\* the store and a failed validation leaves runs cut at its end.
THEOREM RunsStayWhole == ASSUME Disciplined PROVE Spec => []ForcedRunsWhole
<1>1. Forced => ForcedRunsWhole
  BY Zenon DEF Forced, ForcedRunsWhole
<1> QED
  BY <1>1, AlwaysForced, PTL

\* While a guess stands, each of its rows carries every forcing, but for one of a
\* single letter under a phrase that begins before it, which the walk steps over
\* (nbest.rs:815-868).
THEOREM GuessHonoursForcings == ASSUME Disciplined PROVE Spec => []RowsHonourForcings
<1>1. Forced => RowsHonourForcings
  BY Zenon DEF Forced
<1> QED
  BY <1>1, AlwaysForced, PTL

--------------------------------------------------------------------------------
\* The runs `rs` spell over the selected letters of `text`, and the record r that
\* they are behind has tokens.
Fits(text, r, rs) ==
  \A x \in rs : /\ x.end <= r.consumed /\ r.history # <<>>
                /\ Slice(text, x.start, x.end) = Spelling[x.token]

\* The rows of a guess are the whole input, each phrase over its own letters.
FullRows ==
  \A k \in DOMAIN sent.rows :
    /\ BytesOf(sent.rows[k].text) = raw
    /\ rec.consumed + sent.rows[k].span >= Len(raw)
    /\ \E i \in 0 .. Len(raw) - 1 : Split(raw, i, Len(raw), sent.rows[k].spans)

\* What makes the selected text the selected letters, of inputs of keys and
\* without failures: until the next guess either the runs still spell, or the
\* record is the one that the guess would rebuild.
TextKept ==
  /\ raw \in Seq(Keys)
  /\ phase # "failed"
  /\ phase = "keyless" => raw = <<>> /\ rec = NoRecord /\ store = EmptyStore
  /\ raw # <<>> => BytesOf(rec.parts) = Slice(raw, 0, rec.consumed)
  /\ phase = "guessed" => raw # <<>> /\ Fits(raw, rec, runs(store)) /\ FullRows
  /\ phase = "changed" /\ raw # <<>> =>
       \/ Fits(raw, rec, runs(store))
       \/ rec = rebuild_from_constraints(raw, Validated(store, raw))

\* The runs of a store start and end at columns; the empty one has none.
LEMMA RunShape ==
  ASSUME NEW n \in Nat, NEW st \in Stores(n), NEW x \in runs(st)
  PROVE  /\ x.start \in Nat /\ x.end \in Nat
         /\ x.start \in 0 .. n - 1 /\ st.cells[x.start].kind = "OneStep"
         /\ x.end = st.cells[x.start].at /\ x.token = st.cells[x.start].token
<1>1. PICK s \in 0 .. n - 1 : st.cells[s].kind = "OneStep" /\ x = RunAt(st, s)
  BY RunsMember
<1>2. st.cells[s].at \in Nat
  BY StoreShape, Zenon
<1>3. x.start = s /\ x.end = st.cells[s].at /\ x.token = st.cells[s].token
  BY <1>1, Zenon DEF RunAt
<1> QED
  BY <1>1, <1>2, <1>3

\* No record has no text, over any input, and the empty store no runs.
LEMMA NothingFits ==
  ASSUME NEW text
  PROVE  /\ BytesOf(NoRecord.parts) = Slice(text, 0, NoRecord.consumed)
         /\ Fits(text, NoRecord, runs(EmptyStore))
<1>1. BytesOf(NoRecord.parts) = <<>> /\ NoRecord.consumed = 0
  BY FewPieces, Zenon DEF NoRecord
<1>2. Slice(text, 0, 0) = <<>>
  BY DEF Slice
<1>3. runs(EmptyStore) = {}
  BY DEF runs, EmptyStore
<1> QED
  BY <1>1, <1>2, <1>3, Zenon DEF Fits

\* A record rebuilt from whole runs that spell fits them.
LEMMA RebuildFits ==
  ASSUME NEW text \in Seq(Letters), NEW n \in Nat, NEW st \in Stores(n), RunsWhole(st),
         \A x \in runs(st) : /\ x.end <= Len(text)
                             /\ Slice(text, x.start, x.end) = Spelling[x.token],
         NEW r, r = rebuild_from_constraints(text, st)
  PROVE  /\ BytesOf(r.parts) = Slice(text, 0, r.consumed)
         /\ Fits(text, r, runs(st))
<1>1. st.len = n
  BY StoreShape, Zenon
<1>2. Spelled(text, st)
  <2> SUFFICES ASSUME NEW s \in 0 .. n - 1, st.cells[s].kind = "OneStep"
               PROVE  /\ st.cells[s].at <= Len(text)
                      /\ Slice(text, s, st.cells[s].at) = Spelling[st.cells[s].token]
    BY <1>1, Zenon DEF Spelled
  <2>1. RunAt(st, s) \in runs(st)
    BY RunsMember, Zenon
  <2>2. /\ RunAt(st, s).start = s /\ RunAt(st, s).end = st.cells[s].at
        /\ RunAt(st, s).token = st.cells[s].token
    BY Zenon DEF RunAt
  <2> QED
    BY <2>1, <2>2, Zenon
<1>3. /\ BytesOf(r.parts) = Slice(text, 0, r.consumed)
      /\ \A s \in 0 .. n - 1 : st.cells[s].kind = "OneStep" =>
           st.cells[s].at <= r.consumed /\ r.history # <<>>
  BY <1>2, RebuildText, Zenon
<1>4. ASSUME NEW x \in runs(st) PROVE x.end <= r.consumed /\ r.history # <<>>
  BY <1>3, RunShape, Zenon
<1> QED
  BY <1>3, <1>4, Zenon DEF Fits

\* After any call that leaves the frontend to guess.
LEMMA TextChanged ==
  ASSUME raw' \in Seq(Keys), phase' = "changed",
         raw' # <<>> =>
           /\ BytesOf(rec'.parts) = Slice(raw', 0, rec'.consumed)
           /\ \/ Fits(raw', rec', runs(store'))
              \/ rec' = rebuild_from_constraints(raw', Validated(store', raw'))
  PROVE  TextKept'
BY Zenon DEF TextKept

\* When a disciplined frontend may edit, the text is the selected letters and the
\* runs fit.
LEMMA StandingText ==
  ASSUME Shape, TextKept, phase \in {"guessed", "keyless"}
  PROVE  /\ BytesOf(rec.parts) = Slice(raw, 0, rec.consumed)
         /\ Fits(raw, rec, runs(store))
<1>1. CASE phase = "guessed"
  BY <1>1, Zenon DEF TextKept
<1>2. CASE phase = "keyless"
  BY <1>2, NothingFits, Zenon DEF TextKept
<1> QED
  BY <1>1, <1>2, Zenon

\* An edit that leaves the selected letters alone.
LEMMA EditText ==
  ASSUME Shape, TextKept, phase \in {"guessed", "keyless"},
         NEW text \in Seq(Letters), text \in Seq(Keys), raw' = text,
         rec.consumed <= Len(text),
         \A k \in 1 .. rec.consumed : raw[k] = text[k],
         rec' = rec, store' = store, phase' = "changed"
  PROVE  TextKept'
<1> DEFINE c == rec.consumed
<1>1. /\ raw \in Seq(Letters) /\ c \in Nat /\ c <= Len(raw) /\ Len(raw) \in Nat
      /\ store.len \in Nat /\ store \in Stores(store.len)
  BY DEF Shape, GoodRecord, Record, GoodStore
<1>2. BytesOf(rec.parts) = Slice(raw, 0, c) /\ Fits(raw, rec, runs(store))
  BY StandingText, Zenon
<1>3. \A a \in Nat, b \in Nat : b <= c => Slice(raw, a, b) = Slice(text, a, b)
  <2> SUFFICES ASSUME NEW a \in Nat, NEW b \in Nat, b <= c
               PROVE  Slice(raw, a, b) = Slice(text, a, b)
    BY Zenon
  <2>1. c <= Len(text) /\ \A k \in 1 .. c : raw[k] = text[k]
    BY Zenon
  <2> HIDE DEF c
  <2> QED
    BY <1>1, <2>1, SliceAgree, SMTT(30)
<1>4. BytesOf(rec.parts) = Slice(text, 0, c)
  BY <1>1, <1>2, <1>3
<1>5. Fits(text, rec, runs(store))
  <2> SUFFICES ASSUME NEW x \in runs(store)
               PROVE  /\ x.end <= rec.consumed /\ rec.history # <<>>
                      /\ Slice(text, x.start, x.end) = Spelling[x.token]
    BY Zenon DEF Fits
  <2>1. x.start \in Nat /\ x.end \in Nat
    BY <1>1, RunShape, Zenon
  <2> QED
    BY <1>2, <1>3, <2>1, Zenon DEF Fits
<1> QED
  BY <1>4, <1>5, TextChanged, Zenon

\* A letter typed.
LEMMA TypeText ==
  ASSUME Shape, TextKept, Disciplined, \A text \in Inputs : text \in Seq(Keys),
         NEW letter \in Keys, type_pinyin(letter)
  PROVE  TextKept'
<1> DEFINE text == Append(raw, letter)
<1>1. /\ raw \in Seq(Letters) /\ letter \in Letters /\ text \in Seq(Keys)
      /\ text \in Seq(Letters) /\ rec.consumed \in Nat /\ rec.consumed <= Len(raw)
  BY InputsAssumption, Zenon DEF type_pinyin, Shape, Letters, GoodRecord, Record
<1>2. /\ Len(text) = Len(raw) + 1 /\ Len(raw) \in Nat
      /\ \A i \in 1 .. Len(raw) : text[i] = raw[i]
  BY <1>1
<1>3. /\ phase \in {"guessed", "keyless"} /\ raw' = text /\ rec' = rec /\ store' = store
      /\ phase' = "changed"
  BY Zenon DEF type_pinyin, MayEdit
<1> HIDE DEF text
<1>4. rec.consumed <= Len(text) /\ \A k \in 1 .. rec.consumed : raw[k] = text[k]
  BY <1>1, <1>2
<1> QED
  BY <1>1, <1>3, <1>4, EditText, Zenon

\* A letter erased, or everything un-selected.
LEMMA EraseText ==
  ASSUME Shape, TextKept, Disciplined, erase
  PROVE  TextKept'
<1>0. /\ raw \in Seq(Letters) /\ raw \in Seq(Keys) /\ Len(raw) \in Nat
      /\ rec.consumed \in Nat /\ rec.consumed <= Len(raw)
  BY DEF Shape, GoodRecord, Record, TextKept
<1>1. phase \in {"guessed", "keyless"} /\ phase' = "changed"
  BY Zenon DEF erase, MayEdit
<1>2. CASE rec' = NoRecord /\ store' = EmptyStore /\ raw' = raw
  BY <1>0, <1>1, <1>2, NothingFits, TextChanged, Zenon
<1>3. CASE /\ rec.consumed < Len(raw) /\ raw' = Slice(raw, 0, Len(raw) - 1)
           /\ UNCHANGED <<rec, store>>
  <2> DEFINE n == Len(raw) - 1
             text == Slice(raw, 0, Len(raw) - 1)
  <2>1. n \in Nat /\ rec.consumed <= n
    BY <1>0, <1>3
  <2>2. \A i \in 1 .. n : raw[i] \in Keys /\ raw[i] \in Letters
    <3> SUFFICES ASSUME NEW i \in 1 .. n PROVE raw[i] \in Keys /\ raw[i] \in Letters
      BY Zenon
    <3>1. i \in 1 .. Len(raw)
      BY <1>0
    <3> QED
      BY <1>0, <3>1
  <2>3. 1 \in Int /\ n \in Int
    BY <2>1
  <2>4. /\ text \in Seq(Letters) /\ Len(text) = (IF 1 <= n THEN n - 1 + 1 ELSE 0)
        /\ \A i \in 1 .. n - 1 + 1 : text[i] = raw[1 + i - 1]
    BY <2>2, <2>3 DEF Slice
  <2>5. text \in Seq(Keys)
    BY <2>2, <2>3 DEF Slice
  <2> HIDE DEF n, text
  <2>6. Len(text) = n
    BY <2>1, <2>4
  <2>7. ASSUME NEW k \in 1 .. rec.consumed PROVE raw[k] = text[k]
    <3>1. k \in 1 .. n - 1 + 1 /\ 1 + k - 1 = k
      BY <1>0, <2>1
    <3> QED
      BY <2>4, <3>1, Zenon
  <2> QED
    BY <1>1, <1>3, <2>1, <2>4, <2>5, <2>6, <2>7, EditText, Zenon DEF text
<1> QED
  BY <1>2, <1>3, Zenon DEF erase

\* Inputs with the same slice up to c agree up to there.
LEMMA PrefixAgrees ==
  ASSUME NEW text \in Seq(Letters), NEW other \in Seq(Letters),
         NEW c \in Nat, c <= Len(text), c <= Len(other),
         Slice(text, 0, c) = Slice(other, 0, c)
  PROVE  \A k \in 1 .. c : text[k] = other[k]
<1>1. \A i \in 1 .. c : text[i] \in Letters /\ other[i] \in Letters
  OBVIOUS
<1>2. 1 \in Int /\ c \in Int
  OBVIOUS
<1>3. \A i \in 1 .. c - 1 + 1 : SubSeq(text, 1, c)[i] = text[1 + i - 1]
  BY <1>1, <1>2
<1>4. \A i \in 1 .. c - 1 + 1 : SubSeq(other, 1, c)[i] = other[1 + i - 1]
  BY <1>1, <1>2
<1>5. SubSeq(text, 1, c) = SubSeq(other, 1, c)
  BY DEF Slice
<1> TAKE k \in 1 .. c
<1>6. k \in 1 .. c - 1 + 1 /\ 1 + k - 1 = k
  OBVIOUS
<1> QED
  BY <1>3, <1>4, <1>5, <1>6, Zenon

\* Whole runs validated over an input spell there.
LEMMA ValidatedSpells ==
  ASSUME NEW m \in Nat, NEW st \in Stores(m), NEW text \in Seq(Letters),
         RunsWhole(st) \/ (RunsCut(st) /\ Bound(text) + 1 <= m)
  PROVE  LET v == Validated(st, text)
         IN  /\ v \in Stores(Bound(text) + 1) /\ Bound(text) + 1 \in Nat /\ RunsWhole(v)
             /\ \A x \in runs(v) : /\ x \in runs(st) /\ x.end <= Len(text)
                                   /\ Slice(text, x.start, x.end) = Spelling[x.token]
<1> DEFINE v == Validated(st, text)
           b == Bound(text)
           n == b + 1
<1>1. b \in Nat /\ n \in Nat /\ b <= Len(text) /\ Len(text) \in Nat /\ 0 .. n - 1 = 0 .. b
  BY BoundShape
<1>2. /\ v \in Stores(n) /\ RunsWhole(v)
      /\ \A s \in 0 .. b : v.cells[s].kind = "OneStep" =>
           /\ v.cells[s] = resize(st, n).cells[s]
           /\ v.cells[s].at <= b
           /\ Slice(text, s, v.cells[s].at) = Spelling[v.cells[s].token]
  BY ValidatedWhole, Zenon
<1> HIDE DEF v, b, n
<1>3. ASSUME NEW x \in runs(v)
      PROVE  /\ x \in runs(st) /\ x.end <= Len(text)
             /\ Slice(text, x.start, x.end) = Spelling[x.token]
  <2>1. PICK s \in 0 .. n - 1 : v.cells[s].kind = "OneStep" /\ x = RunAt(v, s)
    BY <1>1, <1>2, <1>3, RunsMember, SMTT(30)
  <2>2. /\ v.cells[s] = resize(st, n).cells[s] /\ v.cells[s].at <= b
        /\ Slice(text, s, v.cells[s].at) = Spelling[v.cells[s].token]
    BY <1>1, <1>2, <2>1, Zenon
  <2>3. resize(st, n).cells[s] = IF s < m THEN st.cells[s] ELSE None
    BY <1>1, ResizeShape, Zenon
  <2>4. s < m /\ v.cells[s] = st.cells[s]
    BY <2>1, <2>2, <2>3, CellShape, Zenon
  <2>5. s \in 0 .. m - 1 /\ st.cells[s].kind = "OneStep" /\ RunAt(st, s) = RunAt(v, s)
    BY <2>1, <2>4, SMTT(30) DEF RunAt
  <2>6. x \in runs(st)
    BY <2>1, <2>5, RunsMember, Zenon
  <2>7. x.start = s /\ x.end = v.cells[s].at /\ x.token = v.cells[s].token
    BY <2>1, Zenon DEF RunAt
  <2>8. v.cells[s].at \in Nat
    BY <1>1, <1>2, StoreShape, Zenon
  <2> QED
    BY <1>1, <2>2, <2>6, <2>7, <2>8, SMTT(30)
<1> QED
  BY <1>1, <1>2, <1>3, Zenon DEF v, n, b

\* The input replaced: what the selected letters no longer begin is rebuilt.
LEMMA ReplaceText ==
  ASSUME Shape, Forced, TextKept, Disciplined, ~Faults,
         \A text \in Inputs : text \in Seq(Keys),
         NEW text \in Inputs, ReplaceRaw(text)
  PROVE  TextKept'
<1> DEFINE c == rec.consumed
           continuous == c <= Len(text) /\ Slice(text, 0, c) = Slice(raw, 0, c)
           refilled == refill_raw(text)
<1>1. /\ text \in Seq(Letters) /\ text \in Seq(Keys) /\ raw \in Seq(Letters)
      /\ Len(raw) \in Nat /\ Len(text) \in Nat /\ rec \in Record
      /\ c \in Nat /\ c <= Len(raw) /\ store.len \in Nat /\ store \in Stores(store.len)
  BY InputsAssumption DEF Shape, GoodRecord, Record, GoodStore
<1>2. /\ phase \in {"guessed", "keyless"} /\ raw' = text /\ store' = store
      /\ phase' = "changed"
      /\ rec' = IF continuous THEN refilled ELSE reconcile_replaced_selection(text, refilled)
  BY Zenon DEF ReplaceRaw, MayEdit
<1>3. refilled = clamp_consumed(rec, text)
  <2>1. ~is_active(EmptyStore)
    BY DEF is_active, EmptyStore
  <2>2. raw # <<>> \/ ~is_active(store)
    BY <1>2, <2>1, Zenon DEF TextKept
  <2> QED
    BY <2>2, Zenon DEF refill_raw
<1> HIDE DEF refilled, continuous
<1>4. CASE continuous
  <2>1. c <= Len(text) /\ Slice(text, 0, c) = Slice(raw, 0, c)
    BY <1>4, Zenon DEF continuous
  <2>2. \A k \in 1 .. c : raw[k] = text[k]
    BY <1>1, <2>1, PrefixAgrees, Zenon
  <2>3. Lesser(c, Len(text)) = c
    BY <1>1, <2>1, LesserShape, Zenon
  <2>4. clamp_consumed(rec, text) = rec
    BY <1>1, <2>3, Zenon DEF clamp_consumed, Record
  <2>5. rec' = rec
    BY <1>2, <1>3, <1>4, <2>4, Zenon
  <2> QED
    BY <1>1, <1>2, <2>1, <2>2, <2>5, EditText, Zenon
<1>5. CASE ~continuous /\ text # <<>>
  <2> DEFINE v == Validated(store, text)
  <2>1. c # 0
    <3>1. Slice(text, 0, 0) = <<>> /\ Slice(raw, 0, 0) = <<>>
      BY DEF Slice
    <3> QED
      BY <1>1, <1>5, <3>1 DEF continuous
  <2>2. Len(text) > 0 /\ Bound(text) = Len(text)
    <3>1. Len(text) > 0 /\ 0 \in 0 .. Len(text)
      BY <1>1, <1>5
    <3> QED
      BY <1>1, <3>1, BoundOfKeys, Zenon DEF Bound
  <2>3. refilled.consumed = Lesser(c, Len(text))
    BY <1>1, <1>3, ClampGood, Zenon
  <2>4. refilled.consumed # 0
    BY <1>1, <2>1, <2>2, <2>3 DEF Lesser
  <2>5. rec' = rebuild_from_constraints(text, v)
    BY <1>2, <1>5, <2>2, <2>4, Zenon DEF reconcile_replaced_selection
  <2>6. RunsWhole(store)
    BY <1>2, Zenon DEF Forced
  <2>7. /\ v \in Stores(Bound(text) + 1) /\ Bound(text) + 1 \in Nat /\ RunsWhole(v)
        /\ \A x \in runs(v) : /\ x \in runs(store) /\ x.end <= Len(text)
                              /\ Slice(text, x.start, x.end) = Spelling[x.token]
    BY <1>1, <2>6, ValidatedSpells, SMTT(30)
  <2> HIDE DEF v
  <2>8. BytesOf(rec'.parts) = Slice(text, 0, rec'.consumed)
    BY <1>1, <2>5, <2>7, RebuildFits, Zenon
  <2>9. rec' = rebuild_from_constraints(raw', Validated(store', raw'))
    BY <1>2, <2>5, Zenon DEF v
  <2> QED
    BY <1>1, <1>2, <2>8, <2>9, TextChanged, Zenon
<1>6. CASE text = <<>>
  BY <1>1, <1>2, <1>6, TextChanged, Zenon
<1> QED
  BY <1>4, <1>5, <1>6, Zenon

\* A candidate of a window is the letters it advances over, all of them keys of
\* its phrase unless it has none.
LEMMA WindowText ==
  ASSUME NEW text \in Seq(Letters), NEW anchor \in Nat,
         NEW cand \in scan_window(text, anchor)
  PROVE  /\ anchor + cand.advance \in Nat /\ anchor < anchor + cand.advance
         /\ anchor + cand.advance <= Len(text)
         /\ cand.piece \in Piece /\ cand.piece.token = cand.token
         /\ cand.piece.bytes = Slice(text, anchor, anchor + cand.advance)
         /\ cand.token # NoToken =>
              /\ cand.token \in Token
              /\ Slice(text, anchor, anchor + cand.advance) = Spelling[cand.token]
<1>0. anchor < Len(text) /\ Len(text) \in Nat
  BY SMTT(30) DEF scan_window
<1>1. CASE PhrasesAt(text, anchor) # {}
  <2>1. PICK t \in PhrasesAt(text, anchor) :
          cand = [token |-> t, piece |-> Phrase(t), advance |-> Len(Spelling[t])]
    BY <1>0, <1>1, Zenon DEF scan_window
  <2> DEFINE n == Len(Spelling[t])
             e == anchor + n
  <2>2. t \in Token /\ e <= Bound(text) /\ Slice(text, anchor, e) = Spelling[t]
    BY Zenon DEF PhrasesAt, Spells
  <2>3. /\ Phrase(t) \in Piece /\ Phrase(t).token = t /\ Phrase(t).bytes = Spelling[t]
        /\ Spelling[t] \in Seq(Letters) /\ Spelling[t] # <<>>
    BY <2>2, PieceShape, Zenon
  <2>4. n \in Nat /\ n > 0
    BY <2>3
  <2>5. Bound(text) <= Len(text) /\ Bound(text) \in Nat
    BY BoundShape
  <2>6. cand.token = t /\ cand.piece = Phrase(t) /\ cand.advance = n
    BY <2>1, Zenon
  <2> HIDE DEF n
  <2> QED
    BY <1>0, <2>2, <2>3, <2>4, <2>5, <2>6, NoTokenAssumption, SMTT(30)
<1>2. CASE PhrasesAt(text, anchor) = {}
  <2> DEFINE rest == Slice(text, anchor, Len(text))
  <2>1. cand = [token |-> NoToken, piece |-> Raw(rest), advance |-> Len(rest)]
    BY <1>0, <1>2, Zenon DEF scan_window
  <2>2. rest \in Seq(Letters) /\ Len(rest) = Len(text) - anchor
    <3> DEFINE n == Len(text)
    <3>1. n \in Nat /\ n <= Len(text) /\ anchor <= n
      BY <1>0
    <3> HIDE DEF n
    <3>2. Slice(text, anchor, n) \in Seq(Letters) /\ Len(Slice(text, anchor, n)) = n - anchor
      BY <3>1, SliceShape, Zenon
    <3> QED
      BY <3>2, Zenon DEF n
  <2>3. Raw(rest) \in Piece /\ Raw(rest).token = NoToken /\ Raw(rest).bytes = rest
    BY <2>2, PieceShape, Zenon
  <2>4. cand.token = NoToken /\ cand.piece = Raw(rest) /\ cand.advance = Len(rest)
    BY <2>1, Zenon
  <2>5. anchor + cand.advance = Len(text)
    BY <1>0, <2>2, <2>4
  <2>6. cand.piece.bytes = Slice(text, anchor, anchor + cand.advance)
    BY <2>3, <2>4, <2>5, Zenon
  <2> HIDE DEF rest
  <2> QED
    BY <1>0, <2>3, <2>4, <2>5, <2>6
<1> QED
  BY <1>1, <1>2, Zenon

\* Without failures a choose is followed by a guess.
LEMMA ChosenChanged ==
  ASSUME ~Faults, Chosen
  PROVE  phase' = "changed" /\ raw' = raw
BY DEF Chosen, refresh, BuiltList, NoList

\* What choosing forces: the runs of the guess, or one that spells.
LEMMA ForcedText ==
  ASSUME Shape, Forced, TextKept, phase = "guessed"
  PROVE  LET n == Len(raw) + 1
             sized == resize(store, n)
         IN  /\ n \in Nat /\ sized \in Stores(n) /\ RunsWhole(sized)
             /\ runs(sized) \subseteq runs(store)
             /\ \A x \in runs(store) :
                  /\ x.end <= rec.consumed /\ x.end <= Len(raw) /\ x.end \in Nat
                  /\ rec.history # <<>>
                  /\ Slice(raw, x.start, x.end) = Spelling[x.token]
<1> DEFINE n == Len(raw) + 1
           sized == resize(store, n)
           m == store.len
<1>1. n \in Nat /\ sized \in Stores(n) /\ RunsWhole(sized)
  BY SizedWhole, Zenon
<1>2. m \in Nat /\ store \in Stores(m) /\ rec.consumed \in Nat /\ rec.consumed <= Len(raw)
      /\ Len(raw) \in Nat
  BY DEF Shape, GoodStore, GoodRecord, Record
<1>3. ASSUME NEW x \in runs(sized) PROVE x \in runs(store)
  <2>1. \A i \in 0 .. n - 1 : sized.cells[i] = IF i < m THEN store.cells[i] ELSE None
    BY <1>1, <1>2, ResizeShape, Zenon
  <2> HIDE DEF n, sized, m
  <2>2. PICK s \in 0 .. n - 1 : sized.cells[s].kind = "OneStep" /\ x = RunAt(sized, s)
    BY <1>1, <1>3, RunsMember
  <2>3. s \in 0 .. m - 1 /\ sized.cells[s] = store.cells[s]
    BY <1>1, <1>2, <2>1, <2>2, CellShape, SMTT(30)
  <2>4. RunAt(sized, s) = RunAt(store, s)
    BY <2>3, Zenon DEF RunAt
  <2> QED
    BY <1>2, <2>2, <2>3, <2>4, RunsMember, Zenon
<1>4. ASSUME NEW x \in runs(store)
      PROVE  /\ x.end <= rec.consumed /\ x.end <= Len(raw) /\ x.end \in Nat
             /\ rec.history # <<>> /\ Slice(raw, x.start, x.end) = Spelling[x.token]
  <2>1. x.end \in Nat
    BY <1>2, RunShape, Zenon
  <2> QED
    BY <1>2, <2>1, SMTT(30) DEF TextKept, Fits
<1> QED
  BY <1>1, <1>3, <1>4, Zenon

\* What a choose behind the composition offset makes of the record.
LEMMA BehindText ==
  ASSUME Shape, Forced, TextKept, ~Faults, phase = "guessed",
         NEW start \in Nat, NEW end \in Nat, NEW token \in Token,
         end <= Len(raw), Slice(raw, start, end) = Spelling[token],
         select_behind(start, end, token)
  PROVE  TextKept'
<1> DEFINE n == Len(raw) + 1
           sized == resize(store, n)
           new == [start |-> start, end |-> end, token |-> token]
<1>1. /\ n \in Nat /\ sized \in Stores(n) /\ RunsWhole(sized)
      /\ runs(sized) \subseteq runs(store)
      /\ \A x \in runs(store) : /\ x.end <= Len(raw)
                                /\ Slice(raw, x.start, x.end) = Spelling[x.token]
  BY ForcedText, Zenon
<1>2. /\ store' = add(sized, start, end, token)
      /\ rec' = rebuild_from_constraints(raw, store') /\ Chosen
  BY Zenon DEF select_behind
<1>3. raw \in Seq(Letters) /\ raw \in Seq(Keys) /\ raw' = raw /\ phase' = "changed"
  BY <1>2, ChosenChanged, Zenon DEF Shape, TextKept
<1> HIDE DEF n, sized
<1>4. store' \in Stores(n) /\ RunsWhole(store')
  BY <1>1, <1>2, AddPreservesRuns, Zenon
<1>5. runs(store') \subseteq runs(sized) \union {new}
  BY <1>1, <1>2, AddRuns
<1>6. \A x \in runs(store') : /\ x.end <= Len(raw)
                              /\ Slice(raw, x.start, x.end) = Spelling[x.token]
  BY <1>1, <1>5
<1>7. /\ BytesOf(rec'.parts) = Slice(raw, 0, rec'.consumed)
      /\ Fits(raw, rec', runs(store'))
  BY <1>1, <1>2, <1>3, <1>4, <1>6, RebuildFits, Zenon
<1> QED
  BY <1>3, <1>7, TextChanged, Zenon

\* The letters between the composition offset and a piece ahead of it.
LEMMA GapBytes ==
  ASSUME NEW text \in Seq(Letters), NEW c \in Nat, NEW anchor \in Nat,
         c <= anchor, anchor <= Len(text)
  PROVE  LET gap == IF c < anchor THEN <<Raw(Slice(text, c, anchor))>> ELSE <<>>
         IN  gap \in Seq(Piece) /\ BytesOf(gap) = Slice(text, c, anchor)
<1> DEFINE q == Slice(text, c, anchor)
<1>1. q \in Seq(Letters)
  BY SliceShape, Zenon
<1>2. CASE c < anchor
  <2> HIDE DEF q
  <2> DEFINE p == Raw(q)
  <2>1. p \in Piece /\ p.bytes = q
    BY <1>1, PieceShape, Zenon
  <2> HIDE DEF p
  <2>2. <<p>> \in Seq(Piece)
    BY <2>1
  <2>3. BytesOf(<<p>>) = q
    BY <2>1, FewPieces, Zenon
  <2> QED
    BY <1>2, <2>2, <2>3, Zenon DEF p, q
<1>3. CASE c = anchor
  <2>1. Slice(text, anchor, anchor) = <<>>
    BY DEF Slice
  <2>2. BytesOf(<<>>) = <<>> /\ <<>> \in Seq(Piece)
    BY FewPieces
  <2> QED
    BY <1>3, <2>1, <2>2
<1> QED
  BY <1>2, <1>3

\* A piece that starts at or after the composition offset, behind such a gap.
LEMMA AheadBytes ==
  ASSUME NEW text \in Seq(Letters), NEW c \in Nat, NEW anchor \in Nat, NEW end \in Nat,
         c <= anchor, anchor <= end, end <= Len(text),
         NEW parts \in Seq(Piece), BytesOf(parts) = Slice(text, 0, c),
         NEW gap \in Seq(Piece), BytesOf(gap) = Slice(text, c, anchor),
         NEW piece \in Piece, piece.bytes = Slice(text, anchor, end)
  PROVE  BytesOf(parts \o gap \o <<piece>>) = Slice(text, 0, end)
<1> DEFINE one == <<piece>>
           a == parts \o gap
<1>1. one \in Seq(Piece)
  OBVIOUS
<1>2. BytesOf(one) = Slice(text, anchor, end)
  BY FewPieces, Zenon
<1> HIDE DEF one
<1>3. a \in Seq(Piece)
  OBVIOUS
<1>4. BytesOf(a) = BytesOf(parts) \o BytesOf(gap)
  BY PiecesConcat, Zenon
<1>5. anchor <= Len(text) /\ 0 \in Nat /\ 0 <= c /\ 0 <= anchor /\ Len(text) \in Nat
  OBVIOUS
<1>6. Slice(text, 0, c) \o Slice(text, c, anchor) = Slice(text, 0, anchor)
  BY <1>5, SliceJoin
<1>7. BytesOf(a) = Slice(text, 0, anchor)
  BY <1>4, <1>6, Zenon
<1> HIDE DEF a
<1>8. BytesOf(a \o one) = BytesOf(a) \o BytesOf(one)
  BY <1>1, <1>3, PiecesConcat, Zenon
<1>9. Slice(text, 0, anchor) \o Slice(text, anchor, end) = Slice(text, 0, end)
  BY <1>5, SliceJoin, Zenon
<1>10. BytesOf(a \o one) = Slice(text, 0, end)
  BY <1>2, <1>7, <1>8, <1>9, Zenon
<1> QED
  BY <1>10, Zenon DEF a, one

\* A scanned row chosen.
LEMMA ScannedText ==
  ASSUME Shape, Forced, TextKept, ~Faults, phase = "guessed",
         NEW anchor \in 0 .. Len(raw), NEW cand \in scan_window(raw, anchor),
         SelectScanned(anchor, cand)
  PROVE  TextKept'
<1> DEFINE to == anchor + cand.advance
           end == Lesser(to, Len(raw))
           gap == IF rec.consumed < anchor
                  THEN <<Raw(Slice(raw, rec.consumed, anchor))>> ELSE <<>>
           n == Len(raw) + 1
           sized == resize(store, n)
           new == [start |-> anchor, end |-> to, token |-> cand.token]
<1>0. /\ raw \in Seq(Letters) /\ raw \in Seq(Keys) /\ raw # <<>> /\ anchor \in Nat
      /\ Len(raw) \in Nat /\ rec.consumed \in Nat /\ rec.history \in Seq(Token)
      /\ BytesOf(rec.parts) = Slice(raw, 0, rec.consumed)
  BY DEF Shape, GoodRecord, Record, TextKept
<1>1. /\ to \in Nat /\ anchor < to /\ to <= Len(raw)
      /\ cand.piece \in Piece /\ cand.piece.token = cand.token
      /\ cand.piece.bytes = Slice(raw, anchor, to)
      /\ cand.token # NoToken =>
           cand.token \in Token /\ Slice(raw, anchor, to) = Spelling[cand.token]
  BY <1>0, WindowText, Zenon
<1>2. end = to
  BY <1>0, <1>1, LesserShape, Zenon
<1>3. CASE anchor < rec.consumed /\ select_behind(anchor, end, cand.token)
  <2>1. cand.token # NoToken /\ select_behind(anchor, to, cand.token)
    BY <1>2, <1>3, Zenon DEF select_behind
  <2> HIDE DEF to
  <2> QED
    BY <1>0, <1>1, <2>1, BehindText, Zenon
<1>4. CASE ~(anchor < rec.consumed /\ select_behind(anchor, end, cand.token))
  <2> DEFINE parts == rec.parts \o gap \o <<cand.piece>>
             history == rec.history \o TokensOf(<<cand.piece>>)
  <2>1. /\ anchor >= rec.consumed /\ Chosen
        /\ store' = IF cand.token = NoToken THEN store ELSE add(sized, anchor, end, cand.token)
        /\ rec' = [parts |-> parts, consumed |-> end, history |-> history,
                   committed |-> end >= Len(raw)]
    BY <1>4, Zenon DEF SelectScanned
  <2>2. raw' = raw /\ phase' = "changed"
    BY <2>1, ChosenChanged, Zenon
  <2>3. BytesOf(parts) = Slice(raw, 0, to)
    <3>1. gap \in Seq(Piece) /\ BytesOf(gap) = Slice(raw, rec.consumed, anchor)
      BY <1>0, <2>1, GapBytes, SMTT(30)
    <3> HIDE DEF to, gap
    <3>2. rec.parts \in Seq(Piece)
      BY Zenon DEF Shape, GoodRecord, Record
    <3>3. rec.consumed <= anchor /\ anchor <= to
      BY <1>0, <1>1, <2>1, SMTT(30)
    <3> QED
      BY <1>0, <1>1, <3>1, <3>2, <3>3, AheadBytes, SMTT(30)
  <2>4. TokensOf(<<cand.piece>>) = IF cand.token = NoToken THEN <<>> ELSE <<cand.token>>
    BY <1>1, FewPieces, Zenon
  <2>5. rec.history # <<>> \/ cand.token # NoToken => history # <<>>
    <3>1. rec.history \o <<>> = rec.history
      BY <1>0
    <3>2. cand.token # NoToken => rec.history \o <<cand.token>> # <<>>
      BY <1>0, <1>1
    <3> QED
      BY <2>4, <3>1, <3>2, Zenon
  <2> HIDE DEF parts, history, end, to
  <2>6. rec'.parts = parts /\ rec'.consumed = to /\ rec'.history = history
    BY <1>2, <2>1, Zenon
  <2>7. /\ n \in Nat /\ sized \in Stores(n) /\ RunsWhole(sized)
        /\ runs(sized) \subseteq runs(store)
        /\ \A x \in runs(store) :
             /\ x.end <= rec.consumed /\ x.end \in Nat /\ rec.history # <<>>
             /\ Slice(raw, x.start, x.end) = Spelling[x.token]
    BY ForcedText, Zenon
  <2> HIDE DEF n, sized
  <2>8. \A x \in runs(store') : \/ x \in runs(store)
                                \/ cand.token # NoToken /\ x = new
    <3>1. CASE cand.token = NoToken
      BY <2>1, <3>1, Zenon
    <3>2. CASE cand.token # NoToken
      <4>1. store' = add(sized, anchor, to, cand.token)
        BY <1>2, <2>1, <3>2, Zenon
      <4>2. runs(store') \subseteq runs(sized) \union {new}
        BY <1>0, <1>1, <2>7, <3>2, <4>1, AddRuns, SMTT(30)
      <4> QED
        BY <2>7, <3>2, <4>2, Zenon
    <3> QED
      BY <3>1, <3>2, Zenon
  <2>9. ASSUME NEW x \in runs(store')
        PROVE  /\ x.end <= rec'.consumed /\ rec'.history # <<>>
               /\ Slice(raw, x.start, x.end) = Spelling[x.token]
    <3>1. CASE x \in runs(store)
      BY <1>0, <1>1, <2>1, <2>5, <2>6, <2>7, <3>1, SMTT(30)
    <3>2. CASE cand.token # NoToken /\ x = new
      BY <1>1, <2>5, <2>6, <3>2, SMTT(30)
    <3> QED
      BY <2>8, <3>1, <3>2, Zenon
  <2>10. Fits(raw, rec', runs(store'))
    BY <2>9, Zenon DEF Fits
  <2>11. BytesOf(rec'.parts) = Slice(raw, 0, rec'.consumed)
    BY <2>3, <2>6, Zenon
  <2> QED
    BY <1>0, <2>2, <2>10, <2>11, TextChanged, Zenon
<1> QED
  BY <1>3, <1>4, Zenon

\* A sentence row of a guess that stands chosen: it is the whole input.
LEMMA RowText ==
  ASSUME Shape, Forced, TextKept, ~Faults, phase = "guessed",
         NEW k \in DOMAIN sent.rows, SelectRow(rec.consumed, sent.rows, k)
  PROVE  TextKept'
<1> DEFINE row == sent.rows[k]
           c == rec.consumed
           to == c + row.span
           end == Lesser(to, Len(raw))
           tokens == [j \in DOMAIN row.spans |-> row.spans[j].token]
           n == Len(raw) + 1
           sized == resize(store, n)
           best == sent.rows[1].spans
           history == sent.history \o tokens
           l == Len(raw)
<1>0. /\ raw \in Seq(Letters) /\ raw \in Seq(Keys) /\ raw # <<>>
      /\ l \in Nat /\ c \in Nat /\ sent.history \in Seq(Token)
  BY DEF Shape, GoodRecord, Record, Sentence, TextKept
<1>1. row \in SentRow
  <2>1. sent.rows \in Seq(SentRow)
    BY Zenon DEF Shape, Sentence
  <2> QED
    BY <2>1
<1>2. /\ BytesOf(row.text) = raw /\ to >= l
      /\ \E i \in 0 .. l - 1 : Split(raw, i, l, row.spans)
  BY Zenon DEF TextKept, FullRows
<1>3. /\ Chosen
      /\ rec' = [parts |-> row.text, consumed |-> end, history |-> history,
                 committed |-> end >= l]
      /\ store' = diff_result(sized, best, row.spans, l)
  BY Zenon DEF SelectRow
<1> HIDE DEF row
<1>4. row.spans \in Seq(Span) /\ row.span \in Nat
  BY <1>1, Zenon DEF SentRow
<1>5. end = l
  <2>1. to \in Nat
    BY <1>0, <1>4
  <2> HIDE DEF to, l
  <2> QED
    BY <1>0, <1>2, <2>1 DEF Lesser, l
<1>6. history # <<>>
  <2>1. row.spans # <<>>
    BY <1>2, SMTT(30) DEF Split
  <2>2. tokens \in Seq(Token)
    BY <1>4, SpanTokens, PiecesConcat, Zenon
  <2>3. Len(tokens) = Len(row.spans)
    BY <1>4
  <2>4. Len(row.spans) \in Nat \ {0}
    BY <1>4, <2>1
  <2> HIDE DEF tokens
  <2>5. Len(history) = Len(sent.history) + Len(tokens) /\ Len(sent.history) \in Nat
    BY <1>0, <2>2
  <2> HIDE DEF history
  <2> DEFINE a == Len(history)
             b == Len(sent.history)
             d == Len(row.spans)
  <2>6. a = b + d /\ b \in Nat /\ d \in Nat /\ d # 0
    BY <2>3, <2>4, <2>5, Zenon
  <2> HIDE DEF a, b, d
  <2>7. a # 0
    BY <2>6
  <2>8. Len(<<>>) = 0
    BY Zenon
  <2> QED
    BY <2>7, <2>8, Zenon DEF a
<1> HIDE DEF history, end
<1>7. rec'.parts = row.text /\ rec'.consumed = l /\ rec'.history = history
  BY <1>3, <1>5, Zenon
<1>8. raw' = raw /\ phase' = "changed"
  BY <1>3, ChosenChanged, Zenon
<1>9. Slice(raw, 0, l) = raw
  BY <1>0 DEF Slice
<1>10. /\ n \in Nat /\ sized \in Stores(n) /\ RunsWhole(sized)
       /\ runs(sized) \subseteq runs(store)
       /\ \A x \in runs(store) :
            x.end <= l /\ Slice(raw, x.start, x.end) = Spelling[x.token]
  BY ForcedText, Zenon
<1>11. PICK i \in 0 .. l - 1 : Split(raw, i, l, row.spans)
  BY <1>2, Zenon
<1> HIDE DEF n, sized, l, best
<1>12. \A x \in runs(store') :
         x \in runs(sized) \/ \E j \in 1 .. Len(row.spans) : x = PhraseRun(row.spans, l, j)
  <2>1. /\ n \in Nat /\ sized \in Stores(n) /\ RunsWhole(sized)
        /\ row.spans \in Seq(Span) /\ l \in Nat
    BY <1>0, <1>4, <1>10, Zenon
  <2>2. \A x \in runs(diff_result(sized, best, row.spans, l)) :
          \/ x \in runs(sized)
          \/ \E j \in 1 .. Len(row.spans) : x = PhraseRun(row.spans, l, j)
    BY <2>1, DiffRuns, SMTT(30)
  <2> QED
    BY <1>3, <2>2, Zenon
<1>13. ASSUME NEW j \in 1 .. Len(row.spans)
       PROVE  LET x == PhraseRun(row.spans, l, j)
              IN  x.end <= l /\ Slice(raw, x.start, x.end) = Spelling[x.token]
  <2>1. /\ PhraseRun(row.spans, l, j).start = row.spans[j].start
        /\ PhraseRun(row.spans, l, j).token = row.spans[j].token
    BY Zenon DEF PhraseRun
  <2> QED
    BY <1>11, <2>1, Zenon DEF Split
<1>14. \A x \in runs(store') :
         x.end <= l /\ Slice(raw, x.start, x.end) = Spelling[x.token]
  BY <1>10, <1>12, <1>13, Zenon
<1>15. Fits(raw, rec', runs(store'))
  BY <1>6, <1>7, <1>14, Zenon DEF Fits
<1>16. BytesOf(rec'.parts) = Slice(raw, 0, rec'.consumed)
  BY <1>2, <1>7, <1>9, Zenon
<1> QED
  BY <1>0, <1>8, <1>15, <1>16, TextChanged, Zenon

\* Any choose.
LEMMA ChooseText ==
  ASSUME Shape, Listed, Forced, TextKept, Disciplined, ~Faults, ~AnyAnchorRows,
         Select \/ (\E anchor \in 0 .. Len(raw) : SelectAnchored(anchor))
  PROVE  TextKept'
<1>0. rec.consumed \in 0 .. Len(raw)
  BY DEF Shape, GoodRecord, Record
<1>1. phase = "guessed"
  BY Zenon DEF Select, SelectAnchored, MayChoose, TextKept
<1>2. CASE Select
  <2>1. refresh_candidates = BuiltList(raw, rec, sent)
    BY <1>1, ShownIsCurrent, Zenon
  <2>2. /\ BuiltList(raw, rec, sent).scanned = scan_window(raw, rec.consumed)
        /\ BuiltList(raw, rec, sent).rows = sent.rows
    BY Zenon DEF BuiltList
  <2>3. \/ \E cand \in scan_window(raw, rec.consumed) : SelectScanned(rec.consumed, cand)
        \/ \E k \in DOMAIN sent.rows : SelectRow(rec.consumed, sent.rows, k)
    BY <1>2, <2>1, <2>2, Zenon DEF Select
  <2> QED
    BY <1>0, <1>1, <2>3, ScannedText, RowText, Zenon
<1>3. ASSUME NEW anchor \in 0 .. Len(raw), SelectAnchored(anchor) PROVE TextKept'
  BY <1>1, <1>3, ScannedText, Zenon DEF SelectAnchored
<1> QED
  BY <1>2, <1>3, Zenon

\* A forcing cleared: the record is rebuilt from the ones that are left.
LEMMA ClearText ==
  ASSUME Shape, Forced, TextKept, Disciplined,
         NEW offset \in 0 .. Len(raw), clear_constraint(offset)
  PROVE  TextKept'
<1>0. /\ raw \in Seq(Letters) /\ raw \in Seq(Keys) /\ offset \in Nat
      /\ store.len \in Nat /\ store \in Stores(store.len)
  BY DEF Shape, TextKept, GoodStore
<1>1. /\ phase = "guessed" /\ store' = clear_by_offset(store, offset)
      /\ rec' = rebuild_from_constraints(raw, store') /\ raw' = raw /\ phase' = "changed"
  BY Zenon DEF clear_constraint, MayChoose, TextKept
<1>2. RunsWhole(store)
  BY <1>1, Zenon DEF Forced
<1>3. store' \in Stores(store.len) /\ RunsWhole(store')
  BY <1>0, <1>1, <1>2, ClearPreservesRuns, Zenon
<1>4. runs(store') \subseteq runs(store)
  BY <1>0, <1>1, <1>2, ClearRuns
<1>5. \A x \in runs(store') :
        x.end <= Len(raw) /\ Slice(raw, x.start, x.end) = Spelling[x.token]
  BY <1>1, <1>4, ForcedText, Zenon
<1>6. /\ BytesOf(rec'.parts) = Slice(raw, 0, rec'.consumed)
      /\ Fits(raw, rec', runs(store'))
  BY <1>0, <1>1, <1>3, <1>5, RebuildFits, Zenon
<1> QED
  BY <1>0, <1>1, <1>6, TextChanged, Zenon

\* A store whose runs are whole has a run as soon as a cell is not free.
LEMMA ActiveHasRun ==
  ASSUME NEW n \in Nat, NEW st \in Stores(n), RunsWhole(st), is_active(st)
  PROVE  runs(st) # {}
<1>1. st.len = n /\ \A i \in 0 .. n - 1 : st.cells[i].kind \in {"None", "OneStep", "NoSearch"}
  BY StoreShape, Zenon
<1>2. PICK i \in 0 .. n - 1 : st.cells[i].kind \in {"OneStep", "NoSearch"}
  BY <1>1, Zenon DEF is_active
<1>3. PICK s \in 0 .. n - 1 : st.cells[s].kind = "OneStep"
  BY <1>1, <1>2, Zenon DEF RunsWhole, is_one_step_at
<1> QED
  BY <1>3, RunsMember, Zenon

\* Forcings that fit the record are kept by the validation of a guess.
LEMMA FitsDropsNone ==
  ASSUME Shape, raw \in Seq(Keys), Fits(raw, rec, runs(store))
  PROVE  DroppedOver(store, raw) = {}
<1> DEFINE b == Bound(raw)
           n == b + 1
           m == store.len
           sized == resize(store, n)
           c == rec.consumed
<1>1. raw \in Seq(Letters) /\ m \in Nat /\ store \in Stores(m) /\ c \in Nat /\ c <= Len(raw)
  BY Zenon DEF Shape, GoodStore, GoodRecord, Record
<1>2. b = Len(raw) /\ b \in Nat /\ n \in Nat
  <2>1. 0 \in 0 .. Len(raw) /\ Len(raw) \in Nat
    BY <1>1
  <2>2. BoundFrom(raw, 0) = Len(raw)
    BY <1>1, <2>1, BoundOfKeys, Zenon
  <2> QED
    BY <2>1, <2>2 DEF Bound
<1>3. sized.len = n /\ \A i \in 0 .. n - 1 : sized.cells[i] = IF i < m THEN store.cells[i] ELSE None
  <2>1. store.len = m
    BY <1>1, StoreShape, Zenon
  <2> QED
    BY <2>1, Zenon DEF resize
<1>4. DroppedOver(store, raw) =
        {s \in 0 .. n - 1 : /\ sized.cells[s].kind = "OneStep"
                            /\ \/ sized.cells[s].at >= n
                               \/ ~Spells(raw, s, sized.cells[s].at, sized.cells[s].token)}
  BY <1>3, Zenon DEF DroppedOver, Dropped
<1> HIDE DEF sized
<1>5. SUFFICES ASSUME NEW s \in 0 .. n - 1, sized.cells[s].kind = "OneStep"
               PROVE  /\ sized.cells[s].at < n /\ sized.cells[s].at \in Nat
                      /\ Spells(raw, s, sized.cells[s].at, sized.cells[s].token)
  <2> HIDE DEF n
  <2>1. \A s \in 0 .. n - 1 :
          sized.cells[s].kind = "OneStep" =>
            /\ ~(sized.cells[s].at >= n)
            /\ Spells(raw, s, sized.cells[s].at, sized.cells[s].token)
    BY <1>2, <1>5, SMTT(30)
  <2> QED
    BY <1>4, <2>1, Zenon
<1> HIDE DEF b, n
<1>6. s < m /\ sized.cells[s] = store.cells[s]
  BY <1>3, <1>5, CellShape, Zenon
<1>7. s \in 0 .. m - 1
  BY <1>1, <1>2, <1>6
<1> DEFINE x == RunAt(store, s)
           cell == store.cells[s]
<1> HIDE DEF m
<1>8. /\ x \in runs(store) /\ x.start = s /\ x.end = cell.at /\ x.token = cell.token
      /\ cell.at \in Nat
  <2>1. x \in runs(store) /\ x.start = s /\ x.end = cell.at
    BY <1>1, <1>5, <1>6, <1>7, RunsMember, SMTT(30)
  <2>2. x.token = cell.token
    BY Zenon DEF RunAt
  <2>3. cell.at \in Nat
    BY <1>1, <1>7, StoreShape, Zenon
  <2> QED
    BY <2>1, <2>2, <2>3, Zenon
<1>9. cell.at <= c /\ Slice(raw, s, cell.at) = Spelling[cell.token]
  BY <1>8, Zenon DEF Fits
<1>10. cell.at <= b /\ cell.at < n
  BY <1>1, <1>2, <1>8, <1>9, SMTT(30) DEF n
<1> QED
  BY <1>6, <1>8, <1>9, <1>10, Zenon DEF Spells, b

\* A guess leaves the record as it is, and its runs fit it.
LEMMA GuessFits ==
  ASSUME Shape, Forced, TextKept, raw # <<>>
  PROVE  LET v == Validated(store, raw)
         IN  GuessedRecord(v) = rec /\ Fits(raw, rec, runs(v))
<1> DEFINE v == Validated(store, raw)
           m == store.len
           n == Bound(raw) + 1
<1>1. raw \in Seq(Letters) /\ raw \in Seq(Keys) /\ m \in Nat /\ store \in Stores(m)
  BY Zenon DEF Shape, GoodStore, TextKept
<1>2. RunsWhole(store) \/ (RunsCut(store) /\ Bound(raw) + 1 <= m)
  BY <1>1, BoundShape DEF Forced
<1>3. /\ v \in Stores(n) /\ n \in Nat /\ RunsWhole(v)
      /\ \A x \in runs(v) : /\ x \in runs(store) /\ x.end <= Len(raw)
                            /\ Slice(raw, x.start, x.end) = Spelling[x.token]
  <2> HIDE DEF m
  <2> QED
    BY <1>1, <1>2, ValidatedSpells, SMTT(30) DEF m
<1>4. Fits(raw, rec, runs(store)) \/ rec = rebuild_from_constraints(raw, v)
  BY Zenon DEF TextKept, Shape, Phases
<1> HIDE DEF v, n, m
<1>5. CASE Fits(raw, rec, runs(store))
  <2>1. DroppedOver(store, raw) = {}
    BY <1>1, <1>5, FitsDropsNone, Zenon
  <2>2. Fits(raw, rec, runs(v))
    BY <1>3, <1>5, Zenon DEF Fits
  <2>3. is_active(v) => rec.history # <<>>
    <3>1. is_active(v) => runs(v) # {}
      BY <1>3, ActiveHasRun, Zenon
    <3> QED
      BY <2>2, <3>1, Zenon DEF Fits
  <2>4. GuessedRecord(v) = rec
    BY <2>1, <2>3, Zenon DEF GuessedRecord
  <2> QED
    BY <2>2, <2>4, Zenon DEF v
<1>6. CASE rec = rebuild_from_constraints(raw, v)
  <2>1. GuessedRecord(v) = rec
    BY <1>6, Zenon DEF GuessedRecord
  <2>2. Fits(raw, rec, runs(v))
    BY <1>1, <1>3, <1>6, RebuildFits, Zenon
  <2> QED
    BY <2>1, <2>2, Zenon DEF v
<1> QED
  BY <1>4, <1>5, <1>6, Zenon

\* The rows decoded behind a prefix that is the letters before `from`.
LEMMA RowsAreInput ==
  ASSUME raw \in Seq(Letters), NEW st, GoodStore(st), NEW prefix \in Seq(Piece),
         NEW from \in Nat, from < Len(raw), BytesOf(prefix) = Slice(raw, 0, from),
         NEW rows, DecodedRows(rows, prefix, st, from, Len(raw)), NEW k \in DOMAIN rows
  PROVE  /\ BytesOf(rows[k].text) = raw /\ rows[k].span = Len(raw) - from
         /\ Split(raw, from, Len(raw), rows[k].spans)
<1> DEFINE l == Len(raw)
           seg == rows[k].spans
           ps == PhrasesOf(seg)
<1>1. l \in Nat /\ from \in 0 .. l /\ l \in 0 .. Len(raw)
  OBVIOUS
<1>2. /\ seg \in Segmentations(raw, st, from, l) /\ rows[k].span = l - from
      /\ rows[k].text = Join(prefix, ps)
  BY Zenon DEF DecodedRows, RowsOver
<1> HIDE DEF seg
<1> DEFINE m == st.len
<1>3. m \in Nat /\ st \in Stores(m) /\ Sound(st)
  BY Zenon DEF GoodStore
<1> HIDE DEF l, m
<1>4. Covers(raw, from, l, seg) /\ Split(raw, from, l, seg)
  <2>1. \A s \in Segmentations(raw, st, from, l) : Covers(raw, from, l, s)
    BY <1>1, <1>3, WalkCovers, Zenon
  <2>2. \A s \in Segmentations(raw, st, from, l) : Split(raw, from, l, s)
    BY <1>1, <1>3, WalkSplits, Zenon
  <2> QED
    BY <1>2, <2>1, <2>2, Zenon
<1>5. seg \in Seq(Span) /\ BytesOf(ps) = Slice(raw, from, l)
  BY <1>4, Zenon DEF Covers
<1>6. ps \in Seq(Piece)
  BY <1>5, SpanTokens, Zenon
<1> HIDE DEF ps
<1>7. BytesOf(Join(prefix, ps)) = BytesOf(prefix) \o BytesOf(ps)
  BY <1>6, PiecesConcat, Zenon DEF Join
<1>8. Slice(raw, 0, from) \o Slice(raw, from, l) = Slice(raw, 0, l)
  <2>1. 0 \in Nat /\ 0 <= from /\ from <= l /\ l <= Len(raw)
    BY <1>1
  <2> QED
    BY <1>1, <2>1, SliceJoin, Zenon
<1>9. Slice(raw, 0, l) = raw
  BY DEF Slice, l
<1>10. BytesOf(rows[k].text) = raw
  BY <1>2, <1>5, <1>7, <1>8, <1>9, Zenon
<1> QED
  BY <1>2, <1>4, <1>10, Zenon DEF l, seg

\* A guess that leaves the record and decodes whole rows around runs that fit.
LEMMA GuessedText ==
  ASSUME Shape, TextKept, raw # <<>>, raw' = raw, rec' = rec,
         Fits(raw, rec, runs(store')), phase' \in {"changed", "guessed"},
         NEW from \in Nat, from < Len(raw), rec.consumed + (Len(raw) - from) >= Len(raw),
         \A k \in DOMAIN sent'.rows :
           /\ BytesOf(sent'.rows[k].text) = raw /\ sent'.rows[k].span = Len(raw) - from
           /\ Split(raw, from, Len(raw), sent'.rows[k].spans)
  PROVE  TextKept'
<1>1. from \in 0 .. Len(raw) - 1
  BY SMTT(30) DEF Shape
<1>2. FullRows'
  BY <1>1, Zenon DEF FullRows
<1>3. raw \in Seq(Keys) /\ BytesOf(rec.parts) = Slice(raw, 0, rec.consumed)
  BY Zenon DEF TextKept
<1> QED
  BY <1>2, <1>3, Zenon DEF TextKept

\* A guess over the whole input.
LEMMA GuessFullText ==
  ASSUME Shape, Forced, TextKept, ~Faults, raw # <<>>, GuessFull
  PROVE  TextKept' /\ rec' = rec
<1> DEFINE v == Validated(store, raw)
           l == Len(raw)
<1>1. raw \in Seq(Letters) /\ raw \in Seq(Keys) /\ rec.consumed \in Nat
  BY Zenon DEF Shape, GoodRecord, Record, TextKept
<1>2. l \in Nat /\ l > 0 /\ Bound(raw) = l
  <2>1. l \in Nat /\ l # 0
    BY <1>1
  <2>2. 0 \in 0 .. Len(raw)
    BY <2>1
  <2>3. BoundFrom(raw, 0) = l
    BY <1>1, <2>2, BoundOfKeys, Zenon
  <2> QED
    BY <2>1, <2>3 DEF Bound
<1>3. /\ store' = v /\ rec' = GuessedRecord(store')
      /\ DecodedRows(sent'.rows, <<>>, store', 0, Bound(raw))
      /\ phase' = Guessed(list') /\ raw' = raw
  <2>1. ~GuessFailed /\ ~ValidateFailed
    BY Zenon DEF GuessFailed, ValidateFailed
  <2> QED
    BY <1>2, <2>1, GuessFullCases
<1>4. GuessedRecord(v) = rec /\ Fits(raw, rec, runs(v))
  BY GuessFits, Zenon
<1>5. GoodStore(v)
  BY ValidatedGood, Zenon DEF Shape
<1>6. rec' = rec /\ Fits(raw, rec, runs(store')) /\ DecodedRows(sent'.rows, <<>>, v, 0, l)
  BY <1>2, <1>3, <1>4, Zenon
<1>7. <<>> \in Seq(Piece) /\ BytesOf(<<>>) = Slice(raw, 0, 0)
  <2>1. BytesOf(<<>>) = <<>> /\ Slice(raw, 0, 0) = <<>>
    BY FewPieces DEF Slice
  <2> QED
    BY <2>1
<1> DEFINE rows == sent'.rows
<1> HIDE DEF v, rows
<1>8. \A k \in DOMAIN rows :
        /\ BytesOf(rows[k].text) = raw /\ rows[k].span = Len(raw) - 0
        /\ Split(raw, 0, Len(raw), rows[k].spans)
  <2>1. 0 \in Nat /\ 0 < Len(raw) /\ DecodedRows(rows, <<>>, v, 0, Len(raw))
    BY <1>2, <1>6, Zenon DEF rows
  <2> QED
    BY <1>1, <1>5, <1>7, <2>1, RowsAreInput, Zenon
<1>9. phase' \in {"changed", "guessed"}
  BY <1>3, Zenon DEF Guessed
<1>10. 0 \in Nat /\ 0 < Len(raw) /\ rec.consumed + (Len(raw) - 0) >= Len(raw)
  BY <1>1, <1>2
<1>11. TextKept'
  BY <1>3, <1>6, <1>8, <1>9, <1>10, GuessedText, Zenon DEF rows
<1> QED
  BY <1>6, <1>11, Zenon

\* A guess over what follows the selection.
LEMMA RemainingText ==
  ASSUME Shape, Forced, TextKept, ~Faults, raw # <<>>, rec.consumed < Len(raw),
         ~is_active(store), guess_over_remaining
  PROVE  TextKept' /\ rec' = rec
<1> DEFINE from == rec.consumed
           l == Len(raw)
<1>1. /\ raw \in Seq(Letters) /\ raw \in Seq(Keys) /\ from \in Nat /\ l \in Nat
      /\ rec.parts \in Seq(Piece) /\ store.len \in Nat /\ store \in Stores(store.len)
      /\ BytesOf(rec.parts) = Slice(raw, 0, from)
  BY SMTT(30) DEF Shape, GoodRecord, Record, GoodStore, TextKept
<1>2. BoundFrom(raw, from) = l
  <2>1. from \in 0 .. Len(raw)
    BY <1>1
  <2> HIDE DEF from
  <2> QED
    BY <1>1, <2>1, BoundOfKeys, Zenon
<1>3. ~(BoundFrom(raw, from) = from) /\ ~GuessFailed
  BY <1>1, <1>2 DEF GuessFailed
<1>4. /\ phase' \in {"changed", "guessed"} /\ UNCHANGED <<raw, rec, store>>
  BY <1>3, Zenon DEF guess_over_remaining, Guessed
<1>5. DecodedRows(sent'.rows, rec.parts, EmptyStore, from, l)
  <2>1. ~GuessNothing
    BY <1>4, Zenon DEF GuessNothing
  <2> QED
    BY <1>2, <1>3, <2>1, RemainingCases, Zenon
<1>6. runs(store) = {}
  <2> DEFINE m == store.len
  <2> HIDE DEF m
  <2> QED
    BY <1>1, InactiveWhole, Zenon DEF m
<1>7. Fits(raw, rec, runs(store'))
  BY <1>4, <1>6, Zenon DEF Fits
<1> DEFINE rows == sent'.rows
           parts == rec.parts
<1>8. \A k \in DOMAIN rows :
        /\ BytesOf(rows[k].text) = raw /\ rows[k].span = Len(raw) - from
        /\ Split(raw, from, Len(raw), rows[k].spans)
  <2>1. /\ from < Len(raw) /\ DecodedRows(rows, parts, EmptyStore, from, Len(raw))
        /\ parts \in Seq(Piece) /\ from \in Nat /\ BytesOf(parts) = Slice(raw, 0, from)
    BY <1>1, <1>5, Zenon
  <2> HIDE DEF rows, parts, from
  <2> QED
    BY <1>1, <2>1, GoodStores, RowsAreInput, Zenon
<1>9. from + (Len(raw) - from) >= Len(raw)
  BY <1>1
<1>10. raw' = raw /\ rec' = rec
  BY <1>4, Zenon
<1> HIDE DEF rows
<1>11. TextKept'
  BY <1>1, <1>4, <1>7, <1>8, <1>9, <1>10, GuessedText, Zenon DEF rows
<1> QED
  BY <1>10, <1>11, Zenon

\* Every step keeps the text, and one after which a guess stands the record too.
LEMMA StepText ==
  ASSUME Shape, Listed, Forced, TextKept, Disciplined, ~Faults, ~AnyAnchorRows,
         \A text \in Inputs : text \in Seq(Keys), [Next]_vars
  PROVE  TextKept' /\ (phase' = "guessed" => UNCHANGED vars \/ rec' = rec)
<1>1. CASE UNCHANGED vars
  <2>1. UNCHANGED <<raw, rec, store, sent, list, phase>>
    BY <1>1, Zenon DEF vars
  <2> QED
    BY <1>1, <2>1, Zenon DEF TextKept, FullRows
<1>2. ASSUME NEW text \in Inputs, ReplaceRaw(text) PROVE TextKept' /\ phase' = "changed"
  BY <1>2, ReplaceText, Zenon DEF ReplaceRaw
<1>3. ASSUME NEW letter \in Keys, type_pinyin(letter) PROVE TextKept' /\ phase' = "changed"
  BY <1>3, TypeText, Zenon DEF type_pinyin
<1>4. CASE erase
  BY <1>4, EraseText, Zenon DEF erase
<1>5. CASE Select \/ (\E anchor \in 0 .. Len(raw) : SelectAnchored(anchor))
  <2>1. Chosen
    BY <1>5, ChooseIsOne, Zenon
  <2> QED
    BY <1>5, <2>1, ChooseText, ChosenChanged, Zenon
<1>6. ASSUME NEW offset \in 0 .. Len(raw), clear_constraint(offset)
      PROVE  TextKept' /\ phase' = "changed"
  BY <1>6, ClearText, Zenon DEF clear_constraint
<1>7. CASE guess_sentence \/ guess_sentence_with_prefix
  <2>1. CASE GuessEmpty
    BY <2>1, Zenon DEF GuessEmpty, TextKept
  <2> QED
    BY <1>7, <2>1, GuessIsOne, RemainingText, GuessFullText, Zenon
<1>8. CASE discard_composition \/ reset
  <2>1. raw' = <<>> /\ phase' = "changed" /\ <<>> \in Seq(Keys)
    BY <1>8 DEF discard_composition, reset
  <2> QED
    BY <2>1, TextChanged, Zenon
<1> QED
  BY <1>1, <1>2, <1>3, <1>4, <1>5, <1>6, <1>7, <1>8, Zenon DEF Next, erase

\* The invariant of such a session.
Kept == Shape /\ Listed /\ Forced /\ TextKept

\* A new session has it.
LEMMA InitKept == Init => Kept
<1> SUFFICES ASSUME Init PROVE Kept
  BY Zenon
<1>1. <<>> \in Seq(Keys) /\ raw = <<>> /\ phase = "changed"
  BY DEF Init
<1>2. Shape
  BY InitShape, Zenon
<1>3. Listed
  BY <1>1, Zenon DEF Listed
<1>4. Forced
  BY GoodStores, Zenon DEF Init, Forced, RowsHonourForcings
<1>5. TextKept
  BY <1>1, Zenon DEF TextKept
<1> QED
  BY <1>2, <1>3, <1>4, <1>5, Zenon DEF Kept

\* While a guess stands, the selected text is the selected letters of the input
\* (state.rs:371-376), through every order of edits, choices, forcings behind the
\* cursor and clears of a frontend that guesses after each.
THEOREM SelectedTextIsLetters ==
  ASSUME Disciplined, ~Faults, ~AnyAnchorRows, \A text \in Inputs : text \in Seq(Keys)
  PROVE  Spec => []SelectedTextWhenGuessed
<1>1. Kept /\ [Next]_vars => Kept'
  BY StepShape, StepListed, StepForced, StepText, Zenon DEF Kept
<1>2. Kept => SelectedTextWhenGuessed
  BY Zenon DEF Kept, TextKept, SelectedTextWhenGuessed
<1> QED
  BY <1>1, <1>2, InitKept, PTL DEF Spec

\* While a guess stands, every forcing of the store lies within the selection, over
\* the letters its phrase is spelled with: no edit, clear or validation leaves the
\* decoder a phrase that the selection rebuilt from the store does not count
\* (record.rs:154-193, state.rs:486-512).
THEOREM ForcingsStaySelected ==
  ASSUME Disciplined, ~Faults, ~AnyAnchorRows, \A text \in Inputs : text \in Seq(Keys)
  PROVE  Spec => []ForcingsAreSelected
<1>1. Kept /\ [Next]_vars => Kept'
  BY StepShape, StepListed, StepForced, StepText, Zenon DEF Kept
<1>2. Kept => ForcingsAreSelected
  BY Zenon DEF Kept, TextKept, Fits, ForcingsAreSelected
<1> QED
  BY <1>1, <1>2, InitKept, PTL DEF Spec

\* A guess that succeeds leaves the selection as it found it: validating the store
\* itself drops nothing that the edit's validated copy kept (state.rs:486,
\* guess.rs:129-133).
THEOREM GuessLeavesSelection ==
  ASSUME Disciplined, ~Faults, ~AnyAnchorRows, \A text \in Inputs : text \in Seq(Keys)
  PROVE  Spec => GuessKeepsSelection
<1>1. Kept /\ [Next]_vars => Kept'
  BY StepShape, StepListed, StepForced, StepText, Zenon DEF Kept
<1>2. Kept /\ [Next]_vars => [phase' = "guessed" => rec' = rec]_vars
  BY StepText, Zenon DEF Kept
<1> QED
  BY <1>1, <1>2, InitKept, PTL DEF Spec, GuessKeepsSelection

--------------------------------------------------------------------------------
\* The tokens of the record and of the sentence are the ones their text shows.
Shown(r) == TokensOf(r.parts) = r.history
Told ==
  /\ Shown(rec)
  /\ TokensOf(sent.prefix) = sent.history
  /\ \A k \in DOMAIN sent.rows :
       sent.rows[k].text = Join(sent.prefix, PhrasesOf(sent.rows[k].spans))

\* What a rebuild, a clamp, a reconciliation and a guess make of a record that
\* shows its tokens shows them too.
LEMMA RecordsShown ==
  ASSUME Shape, Shown(rec)
  PROVE  /\ Shown(NoRecord)
         /\ \A text \in Seq(Letters) : \A st : GoodStore(st) =>
              Shown(rebuild_from_constraints(text, st))
         /\ \A text \in Seq(Letters) : Shown(refill_raw(text))
         /\ \A text \in Seq(Letters) : \A r : Shown(r) =>
              Shown(reconcile_replaced_selection(text, r))
         /\ \A st : GoodStore(st) => Shown(GuessedRecord(st))
<1>0. raw \in Seq(Letters) /\ rec \in Record /\ GoodStore(store)
  BY Zenon DEF Shape, GoodRecord
<1>1. Shown(NoRecord)
  BY NoRecordShape, Zenon DEF Shown
<1>2. ASSUME NEW text \in Seq(Letters), NEW st, GoodStore(st)
      PROVE  /\ Shown(rebuild_from_constraints(text, st))
             /\ rebuild_from_constraints(text, st) \in Record
  BY <1>2, RebuildGood, Zenon DEF Shown, GoodRecord
<1>3. ASSUME NEW text \in Seq(Letters), NEW r \in Record, Shown(r)
      PROVE  Shown(clamp_consumed(r, text))
  BY <1>3, ClampGood, Zenon DEF Shown
<1>4. ASSUME NEW text \in Seq(Letters) PROVE Shown(refill_raw(text))
  BY <1>0, <1>2, <1>3, Zenon DEF refill_raw
<1>5. ASSUME NEW text \in Seq(Letters), NEW r, Shown(r)
      PROVE  Shown(reconcile_replaced_selection(text, r))
  <2>1. GoodStore(Validated(store, text)) /\ GoodStore(EmptyStore)
    BY <1>0, ValidatedGood, GoodStores, Zenon
  <2> QED
    BY <1>2, <1>5, <2>1, Zenon DEF reconcile_replaced_selection
<1>6. ASSUME NEW st, GoodStore(st) PROVE Shown(GuessedRecord(st))
  BY <1>0, <1>2, <1>6, Zenon DEF GuessedRecord
<1> QED
  BY <1>1, <1>2, <1>4, <1>5, <1>6, Zenon

\* A record that only the rows of a sentence can change.
LEMMA ToldUnlessGuessed ==
  ASSUME Told, Shown(rec'), sent' = sent \/ sent' = NoSentence
  PROVE  Told'
<1>1. TokensOf(NoSentence.prefix) = NoSentence.history /\ DOMAIN NoSentence.rows = {}
  BY FewPieces, SMTT(30) DEF NoSentence
<1> QED
  BY <1>1, Zenon DEF Told, Shown

\* A scanned row adds its own token to the ones shown.
LEMMA ScannedShown ==
  ASSUME Shape, Told, NEW anchor \in 0 .. Len(raw), NEW cand \in Cand,
         SelectScanned(anchor, cand)
  PROVE  Shown(rec')
<1> DEFINE end == Lesser(anchor + cand.advance, Len(raw))
           q == Slice(raw, rec.consumed, anchor)
           gap == IF rec.consumed < anchor THEN <<Raw(q)>> ELSE <<>>
<1>0. /\ raw \in Seq(Letters) /\ anchor \in Nat /\ anchor <= Len(raw)
      /\ rec.parts \in Seq(Piece) /\ rec.consumed \in Nat
      /\ cand.piece \in Piece
  BY DEF Shape, GoodRecord, Record, Cand
<1>1. CASE anchor < rec.consumed /\ select_behind(anchor, end, cand.token)
  <2>1. Shape'
    BY SelectScannedShape, Zenon
  <2>2. GoodStore(store') /\ rec' = rebuild_from_constraints(raw, store')
    BY <1>1, <2>1, Zenon DEF Shape, select_behind
  <2> QED
    BY <1>0, <2>2, RecordsShown, Zenon DEF Told
<1>2. CASE ~(anchor < rec.consumed /\ select_behind(anchor, end, cand.token))
  <2>1. /\ rec'.parts = rec.parts \o gap \o <<cand.piece>>
        /\ rec'.history = rec.history \o TokensOf(<<cand.piece>>)
    <3> DEFINE parts == rec.parts \o gap \o <<cand.piece>>
               history == rec.history \o TokensOf(<<cand.piece>>)
    <3>1. rec' = [parts |-> parts, consumed |-> end, history |-> history,
                  committed |-> end >= Len(raw)]
      BY <1>2, Zenon DEF SelectScanned
    <3> HIDE DEF parts, history, end
    <3>2. rec'.parts = parts /\ rec'.history = history
      BY <3>1, Zenon
    <3> QED
      BY <3>2, Zenon DEF parts, history
  <2>2. gap \in Seq(Piece) /\ TokensOf(gap) = <<>>
    <3>1. q \in Seq(Letters)
      BY <1>0, SliceShape, Zenon
    <3> HIDE DEF q
    <3>2. Raw(q) \in Piece /\ Raw(q).token = NoToken
      BY <3>1, PieceShape, Zenon
    <3>3. TokensOf(<<Raw(q)>>) = <<>>
      BY <3>2, FewPieces, Zenon
    <3>4. <<Raw(q)>> \in Seq(Piece)
      BY <3>2
    <3> QED
      BY <3>3, <3>4, FewPieces
  <2> HIDE DEF gap
  <2> DEFINE parts == rec.parts
             one == <<cand.piece>>
             a == parts \o gap
             told == TokensOf(parts)
  <2>3. parts \in Seq(Piece) /\ one \in Seq(Piece)
    BY <1>0
  <2> HIDE DEF parts, one
  <2>4. a \in Seq(Piece)
    BY <2>2, <2>3
  <2>5. TokensOf(a) = TokensOf(parts) \o TokensOf(gap)
    BY <2>2, <2>3, PiecesConcat, Zenon
  <2> HIDE DEF a
  <2>6. TokensOf(a \o one) = TokensOf(a) \o TokensOf(one)
    BY <2>3, <2>4, PiecesConcat, Zenon
  <2>7. told \in Seq(Token)
    BY <2>3, PiecesConcat, Zenon
  <2> HIDE DEF told
  <2>8. told \o <<>> = told
    BY <2>7
  <2>9. TokensOf(a) = told
    BY <2>2, <2>5, <2>8, Zenon DEF told
  <2>10. told = rec.history
    BY Zenon DEF Told, Shown, told, parts
  <2>11. rec'.parts = a \o one /\ rec'.history = rec.history \o TokensOf(one)
    BY <2>1, Zenon DEF a, one, parts
  <2> QED
    BY <2>6, <2>9, <2>10, <2>11, Zenon DEF Shown
<1> QED
  BY <1>1, <1>2, Zenon

\* A sentence row that the guess still has takes its own tokens along.
LEMMA RowShown ==
  ASSUME Shape, Told, NEW anchor, NEW shown, NEW k \in DOMAIN sent.rows,
         SelectRow(anchor, shown, k)
  PROVE  Shown(rec')
<1> DEFINE row == sent.rows[k]
           tokens == [j \in DOMAIN row.spans |-> row.spans[j].token]
<1>1. rec'.parts = row.text /\ rec'.history = sent.history \o tokens
  <2> DEFINE parts == row.text
             history == sent.history \o tokens
             end == Lesser(anchor + shown[k].span, Len(raw))
  <2>1. rec' = [parts |-> parts, consumed |-> end, history |-> history,
                committed |-> end >= Len(raw)]
    BY Zenon DEF SelectRow
  <2> HIDE DEF parts, history, end
  <2>2. rec'.parts = parts /\ rec'.history = history
    BY <2>1, Zenon
  <2> QED
    BY <2>2, Zenon DEF parts, history
<1>2. row \in SentRow /\ sent.prefix \in Seq(Piece)
  <2>1. sent.rows \in Seq(SentRow)
    BY Zenon DEF Shape, Sentence
  <2> QED
    BY <2>1 DEF Shape, Sentence
<1>3. row.text = Join(sent.prefix, PhrasesOf(row.spans))
  BY Zenon DEF Told
<1> HIDE DEF row
<1>4. row.spans \in Seq(Span)
  BY <1>2, Zenon DEF SentRow
<1> DEFINE ps == PhrasesOf(row.spans)
           prefix == sent.prefix
<1>5. ps \in Seq(Piece) /\ TokensOf(ps) = tokens
  BY <1>4, SpanTokens, Zenon
<1>6. prefix \in Seq(Piece) /\ TokensOf(prefix) = sent.history
  BY <1>2, Zenon DEF Told
<1>7. row.text = prefix \o ps
  BY <1>3, Zenon DEF Join
<1> HIDE DEF ps, prefix, tokens
<1>8. TokensOf(prefix \o ps) = TokensOf(prefix) \o TokensOf(ps)
  BY <1>5, <1>6, PiecesConcat, Zenon
<1> QED
  BY <1>1, <1>5, <1>6, <1>7, <1>8, Zenon DEF Shown

\* A disciplined frontend chooses a sentence row that the guess still has.
LEMMA ChosenShown ==
  ASSUME Shape, Listed, Told, Disciplined,
         Select \/ (\E anchor \in 0 .. Len(raw) : SelectAnchored(anchor))
  PROVE  Shown(rec')
<1>0. raw \in Seq(Letters) /\ rec.consumed \in 0 .. Len(raw)
  BY DEF Shape, GoodRecord, Record
<1>1. CASE Select
  <2> DEFINE shown == refresh_candidates
  <2>1. shown \in CandList
    BY ShownShape, Zenon
  <2>2. shown.scanned \subseteq Cand
    BY <2>1, Zenon DEF CandList
  <2>3. DOMAIN shown.rows \subseteq DOMAIN sent.rows
    <3>1. phase \in {"guessed", "failed"}
      BY <1>1, Zenon DEF Select, MayChoose
    <3>2. BuiltList(raw, rec, sent).rows = sent.rows /\ NoList.rows = <<>>
      BY Zenon DEF BuiltList, NoList
    <3> HIDE DEF shown
    <3>3. shown.rows = sent.rows \/ shown.rows = <<>>
      BY <3>1, <3>2, ShownIsCurrent, Zenon DEF shown
    <3> QED
      BY <3>3
  <2>4. \/ \E cand \in shown.scanned : SelectScanned(rec.consumed, cand)
        \/ \E k \in DOMAIN shown.rows : SelectRow(rec.consumed, shown.rows, k)
    BY <1>1, Zenon DEF Select
  <2> HIDE DEF shown
  <2> QED
    BY <1>0, <2>2, <2>3, <2>4, ScannedShown, RowShown, Zenon
<1>2. ASSUME NEW anchor \in 0 .. Len(raw), SelectAnchored(anchor)
      PROVE  Shown(rec')
  <2>1. scan_window(raw, anchor) \subseteq Cand
    BY <1>0, WindowShape
  <2> QED
    BY <1>2, <2>1, ScannedShown, RowShown, Zenon DEF SelectAnchored
<1> QED
  BY <1>1, <1>2, Zenon

\* Every step keeps text and tokens together.
LEMMA StepTold ==
  ASSUME Shape, Listed, Told, Disciplined, [Next]_vars
  PROVE  Told'
<1>0. /\ raw \in Seq(Letters) /\ rec.parts \in Seq(Piece) /\ Shown(rec) /\ GoodStore(store)
      /\ GoodStore(Validated(store, raw))
  BY ValidatedGood, Zenon DEF Shape, GoodRecord, Record, Told
<1>1. CASE UNCHANGED vars
  BY <1>1, Zenon DEF vars, Told, Shown
<1>2. ASSUME NEW text \in Inputs, ReplaceRaw(text) PROVE Told'
  <2>1. text \in Seq(Letters)
    BY InputsAssumption, Zenon
  <2>2. Shown(refill_raw(text)) /\ Shown(reconcile_replaced_selection(text, refill_raw(text)))
    BY <1>0, <2>1, RecordsShown, Zenon
  <2>3. Shown(rec') /\ sent' = sent
    BY <1>2, <2>2, Zenon DEF ReplaceRaw
  <2> QED
    BY <2>3, ToldUnlessGuessed, Zenon
<1>3. ASSUME NEW letter \in Keys, type_pinyin(letter) PROVE Told'
  BY <1>0, <1>3, ToldUnlessGuessed, Zenon DEF type_pinyin
<1>4. CASE erase
  <2>1. rec' = rec \/ rec' = NoRecord
    BY <1>4, Zenon DEF erase
  <2> QED
    BY <1>0, <1>4, <2>1, RecordsShown, ToldUnlessGuessed, Zenon DEF erase
<1>5. CASE Select \/ (\E anchor \in 0 .. Len(raw) : SelectAnchored(anchor))
  BY <1>5, ChosenShown, ChooseIsOne, ToldUnlessGuessed, Zenon DEF Chosen
<1>6. ASSUME NEW offset \in 0 .. Len(raw), clear_constraint(offset) PROVE Told'
  <2>1. GoodStore(store')
    BY <1>6, ClearShape, Zenon DEF Shape
  <2> QED
    BY <1>0, <1>6, <2>1, RecordsShown, ToldUnlessGuessed, Zenon DEF clear_constraint
<1>7. CASE GuessEmpty
  BY <1>0, <1>7, RecordsShown, ToldUnlessGuessed, Zenon DEF GuessEmpty
<1>8. CASE GuessFull
  <2>1. CASE GuessNothing \/ ValidateFailed
    BY <1>0, <2>1, ToldUnlessGuessed,
       Zenon DEF GuessNothing, ValidateFailed, GuessFailed
  <2>2. Shown(GuessedRecord(Validated(store, raw)))
    BY <1>0, RecordsShown, Zenon
  <2>3. CASE store' = Validated(store, raw) /\ rec' = GuessedRecord(store') /\ GuessFailed
    BY <2>2, <2>3, ToldUnlessGuessed, Zenon DEF GuessFailed
  <2>4. CASE /\ store' = Validated(store, raw) /\ rec' = GuessedRecord(store')
             /\ DecodedRows(sent'.rows, <<>>, store', 0, Bound(raw))
             /\ sent' = [rows |-> sent'.rows, history |-> <<>>, prefix |-> <<>>]
    <3>1. sent'.history = <<>> /\ sent'.prefix = <<>>
      BY <2>4
    <3>2. Shown(rec')
      BY <2>2, <2>4, Zenon
    <3> QED
      BY <2>4, <3>1, <3>2, FewPieces, Zenon DEF Told, Shown, DecodedRows, RowsOver
  <2> QED
    BY <1>8, <2>1, <2>3, <2>4, GuessFullCases, Zenon
<1>9. CASE guess_over_remaining
  <2>1. CASE GuessNothing \/ (GuessFailed /\ UNCHANGED <<rec, store>>)
    BY <1>0, <2>1, ToldUnlessGuessed, Zenon DEF GuessNothing, GuessFailed
  <2>2. CASE /\ DecodedRows(sent'.rows, rec.parts, EmptyStore, rec.consumed,
                            BoundFrom(raw, rec.consumed))
             /\ sent' = [rows |-> sent'.rows, history |-> rec.history, prefix |-> rec.parts]
             /\ UNCHANGED <<raw, rec, store>>
    <3>1. sent'.history = rec.history /\ sent'.prefix = rec.parts
      BY <2>2, SMTT(30)
    <3> QED
      BY <1>0, <2>2, <3>1, Zenon DEF Told, Shown, DecodedRows, RowsOver
  <2> QED
    BY <1>9, <2>1, <2>2, RemainingCases, Zenon
<1>10. CASE guess_sentence \/ guess_sentence_with_prefix
  BY <1>7, <1>8, <1>9, <1>10, GuessIsOne, Zenon
<1>11. CASE discard_composition \/ reset
  BY <1>0, <1>11, RecordsShown, ToldUnlessGuessed, Zenon DEF discard_composition, reset
<1> QED
  BY <1>1, <1>2, <1>3, <1>4, <1>5, <1>6, <1>10, <1>11, Zenon DEF Next

\* The tokens a train learns are the phrases the selected text shows, in order
\* (record.rs:38-40), for a frontend that guesses after every change, whichever
\* dictionary reads fail.
THEOREM TrainsWhatTheTextShows == ASSUME Disciplined PROVE Spec => []TrainsWhatIsShown
<1>1. Init => Shape /\ Listed /\ Told
  <2> SUFFICES ASSUME Init PROVE Shape /\ Listed /\ Told
    BY Zenon
  <2>1. Shown(rec)
    BY NoRecordShape, Zenon DEF Init, Shown
  <2>2. TokensOf(sent.prefix) = sent.history /\ DOMAIN sent.rows = {}
    BY FewPieces, SMTT(30) DEF Init, NoSentence
  <2> QED
    BY <2>1, <2>2, InitShape, Zenon DEF Init, Listed, Told
<1>2. Shape /\ Listed /\ Told /\ [Next]_vars => (Shape /\ Listed /\ Told)'
  BY StepShape, StepListed, StepTold, Zenon
<1>3. Told => TrainsWhatIsShown
  BY Zenon DEF Told, Shown, TrainsWhatIsShown
<1> QED
  BY <1>1, <1>2, <1>3, PTL DEF Spec

================================================================================
