---------------------------- MODULE ConstraintCells ----------------------------
(***************************************************************************)
(* The operations of the constraint store of a pinyin session,             *)
(* crates/oxpinyin-engine/src/constraint.rs, as operators on a store value. *)
(*                                                                         *)
(* A store has one cell per matrix column.  A OneStep cell at `start`       *)
(* forces `token` over [start, end); the interior cells of that run are     *)
(* NoSearch cells that point back at `start`.  The phrase text that a       *)
(* OneStep cell carries is a function of its token and is left out.         *)
(***************************************************************************)
EXTENDS Integers, Sequences

CONSTANTS Token,    \* phrase tokens
          NoToken   \* the absence of a token (Option::None)

ASSUME NoTokenAssumption == NoToken \notin Token

--------------------------------------------------------------------------------
\* A cell; `at` is the end of a OneStep run and the start that a NoSearch cell
\* points back at.
Cell == [kind : {"None", "OneStep", "NoSearch"},
         token : Token \union {NoToken}, at : Nat]

None == [kind |-> "None", token |-> NoToken, at |-> 0]
OneStep(token, end) == [kind |-> "OneStep", token |-> token, at |-> end]
NoSearch(start) == [kind |-> "NoSearch", token |-> NoToken, at |-> start]

\* A phrase of a decoded sentence, PhraseSpan.
Span == [start : Nat, token : Token]

\* The cell arrays (Vec<Cell>) of length n, indexed from 0.
Stores(n) == [len : {n}, cells : [0 .. n - 1 -> Cell]]

EmptyStore == [len |-> 0, cells |-> [i \in 0 .. -1 |-> None]]

is_active(st) == \E i \in 0 .. st.len - 1 : st.cells[i].kind # "None"

is_one_step_at(st, i) == i \in 0 .. st.len - 1 /\ st.cells[i].kind = "OneStep"

one_step_token_at(st, i) ==
  IF is_one_step_at(st, i) THEN st.cells[i].token ELSE NoToken

\* The cells of `st` with those of [from, to) freed; indices past the end of
\* the array fall away (the code's min(end, len)).
FreeRange(st, from, to) ==
  [len |-> st.len,
   cells |-> [i \in 0 .. st.len - 1 |->
                IF from <= i /\ i < to THEN None ELSE st.cells[i]]]

--------------------------------------------------------------------------------
\* Mutant of resize: one cell too many.
ResizeOneMore(st, n) ==
  [len |-> n + 1,
   cells |-> [i \in 0 .. n |-> IF i < st.len THEN st.cells[i] ELSE None]]

\* Grow with free cells, shrink by truncation.
resize(st, n) ==
  [len |-> n,
   cells |-> [i \in 0 .. n - 1 |-> IF i < st.len THEN st.cells[i] ELSE None]]

\* The OneStep cell that cell i belongs to: itself, or the one it points at.
RunStart(st, i) == IF st.cells[i].kind = "NoSearch" THEN st.cells[i].at ELSE i

\* Whether clear_by_offset(i) finds a run to free; its return value.
ClearsAt(st, i) ==
  /\ i \in 0 .. st.len - 1
  /\ st.cells[i].kind # "None"
  /\ is_one_step_at(st, RunStart(st, i))

\* Mutant of clear_by_offset: frees the run from the offset on only.
ClearFromOffset(st, i) ==
  IF ClearsAt(st, i) THEN FreeRange(st, i, st.cells[RunStart(st, i)].at) ELSE st

clear_by_offset(st, i) ==
  IF ClearsAt(st, i)
  THEN FreeRange(st, RunStart(st, i), st.cells[RunStart(st, i)].at)
  ELSE st

\* Mutant of ClearLoop: the overlapped runs are not cleared.
NoClearing(st, start, end) == [i \in start .. end |-> st]

\* The store after each step of add's clearing loop, `for index in start..end`:
\* ClearLoop(st, start, end)[i] is the store on reaching index i.
ClearLoop(st, start, end) ==
  LET loop[i \in start .. end] ==
        IF i = start THEN st ELSE clear_by_offset(loop[i - 1], i - 1)
  IN loop

\* The OneStep at `start` and the NoSearch back-pointers behind it.
WriteRun(st, start, end, token) ==
  [len |-> st.len,
   cells |-> [i \in 0 .. st.len - 1 |->
                IF i = start THEN OneStep(token, end)
                ELSE IF start < i /\ i < end THEN NoSearch(start)
                ELSE st.cells[i]]]

AddAccepts(st, start, end) == end <= st.len /\ start < end

add(st, start, end, token) ==
  IF AddAccepts(st, start, end)
  THEN WriteRun(ClearLoop(st, start, end)[end], start, end, token)
  ELSE st

\* The forcings that validate drops from an array already resized: those that
\* overrun it, and those that no longer spell over their span.
Dropped(st, Spells(_, _, _)) ==
  {s \in 0 .. st.len - 1 :
     /\ st.cells[s].kind = "OneStep"
     /\ \/ st.cells[s].at >= st.len
        \/ ~Spells(s, st.cells[s].at, st.cells[s].token)}

\* The store of n cells without the forcings that start in `dropped`.
Revalidated(st, n, dropped) ==
  LET r == resize(st, n)
  IN [len |-> n,
      cells |-> [i \in 0 .. n - 1 |->
                   IF \E s \in dropped : s <= i /\ i < r.cells[s].at
                   THEN None ELSE r.cells[i]]]

validate(st, n, Spells(_, _, _)) ==
  Revalidated(st, n, Dropped(resize(st, n), Spells))

\* The k-th step of diff_result: force the k-th phrase of the row `other`, up to
\* the next phrase or to `tail` after the last one, unless the first phrase of the
\* 1-best row `best` at that position has the same token.
DiffStep(st, best, other, tail, k) ==
  IF \E b \in 1 .. Len(best) :
       /\ best[b] = other[k]
       /\ \A a \in 1 .. b - 1 : best[a].start # other[k].start
  THEN st
  ELSE add(st, other[k].start,
           IF k < Len(other) THEN other[k + 1].start ELSE tail,
           other[k].token)

\* DiffLoop(...)[k] is the store after the first k phrases of `other`.
DiffLoop(st, best, other, tail) ==
  LET loop[k \in 0 .. Len(other)] ==
        IF k = 0 THEN st ELSE DiffStep(loop[k - 1], best, other, tail, k)
  IN loop

diff_result(st, best, other, tail) ==
  DiffLoop(st, best, other, tail)[Len(other)]

\* The surviving forcings, the runs the selection record is rebuilt from.
runs(st) ==
  {[start |-> s, end |-> st.cells[s].at, token |-> st.cells[s].token] :
     s \in {i \in 0 .. st.len - 1 : st.cells[i].kind = "OneStep"}}

\* Every run is whole.  A NoSearch cell lies inside the run of the OneStep cell
\* it points back at, and the interior of a OneStep cell's run is nothing but
\* NoSearch cells that point at it (constraint.rs:9-11, "so a clear at any
\* offset inside a forced run finds the run's start").
RunsWhole(st) ==
  \A i \in 0 .. st.len - 1 :
    /\ st.cells[i].kind = "NoSearch" =>
         /\ st.cells[i].at < i
         /\ is_one_step_at(st, st.cells[i].at)
         /\ i < st.cells[st.cells[i].at].at
    /\ st.cells[i].kind = "OneStep" =>
         /\ st.cells[i].token \in Token
         /\ i < st.cells[i].at /\ st.cells[i].at <= st.len
         /\ \A j \in i + 1 .. st.cells[i].at - 1 :
              st.cells[j].kind = "NoSearch" /\ st.cells[j].at = i
================================================================================
