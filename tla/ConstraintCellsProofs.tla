------------------------- MODULE ConstraintCellsProofs -------------------------
(***************************************************************************)
(* What the operations of a constraint store do to any store with whole     *)
(* runs, for every Token set and every length: they keep the runs whole,    *)
(* and each changes the set of runs as its callers rely on.                 *)
(*                                                                         *)
(* add and diff_result are loops, so what they compute is established by    *)
(* induction.  The induction is carried by IntervalInduction below: a set of *)
(* naturals in which every counterexample has a smaller one is empty.       *)
(***************************************************************************)
EXTENDS ConstraintCells, WellFoundedInduction, TLAPS

Less == {p \in Nat \X Nat : p[1] < p[2]}

\* The order on the naturals, as the set of pairs Less, is well founded.
LEMMA LessWellFounded == IsWellFoundedOn(Less, Nat)
<1>1. OpToRel(<, Nat) = Less
  BY Zenon DEF OpToRel, Less
<1> QED
  BY <1>1, NatLessThanWellFounded, Zenon

\* A set of naturals (of loop indices) that holds its lower end and is closed
\* under successor up to its upper end holds the whole interval.
LEMMA IntervalInduction ==
  ASSUME NEW a \in Nat, NEW b \in Nat, NEW P,
         a \in P,
         \A i \in a .. b - 1 : i \in P => i + 1 \in P
  PROVE  \A i \in a .. b : i \in P
<1> DEFINE T == {i \in a .. b : i \notin P}
<1>1. SUFFICES ASSUME T # {} PROVE FALSE
  OBVIOUS
<1>2. T \subseteq Nat
  OBVIOUS
<1>3. PICK x \in T : \A y \in T : ~(<<y, x>> \in Less)
  BY <1>1, <1>2, WFMin, LessWellFounded
<1>4. x \in Nat /\ a < x /\ x <= b /\ x \notin P
  BY <1>3
<1>5. <<x - 1, x>> \in Less
  BY <1>4 DEF Less
<1>6. x - 1 \in P
  BY <1>3, <1>4, <1>5
<1> QED
  BY <1>4, <1>6
--------------------------------------------------------------------------------
\* A store of length n is a record of n and its cells.
LEMMA StoreShape ==
  ASSUME NEW n \in Nat, NEW st \in Stores(n)
  PROVE  /\ st.len = n
         /\ st.cells \in [0 .. n - 1 -> Cell]
         /\ \A i \in 0 .. n - 1 :
              /\ st.cells[i] \in Cell
              /\ st.cells[i].kind \in {"None", "OneStep", "NoSearch"}
              /\ st.cells[i].at \in Nat
BY DEF Stores, Cell

\* The three kinds of cell are cells, and a free cell is neither of the others.
LEMMA CellShape ==
  /\ None \in Cell /\ None.kind = "None"
  /\ \A t \in Token, e \in Nat :
       /\ OneStep(t, e) \in Cell
       /\ OneStep(t, e).kind = "OneStep"
       /\ OneStep(t, e).token = t
       /\ OneStep(t, e).at = e
  /\ \A s \in Nat :
       /\ NoSearch(s) \in Cell
       /\ NoSearch(s).kind = "NoSearch"
       /\ NoSearch(s).at = s
BY DEF None, OneStep, NoSearch, Cell

\* Freeing a range of cells leaves an array of the same length.
LEMMA FreeRangeShape ==
  ASSUME NEW n \in Nat, NEW st \in Stores(n), NEW from \in Nat, NEW to \in Nat
  PROVE  /\ FreeRange(st, from, to) \in Stores(n)
         /\ \A i \in 0 .. n - 1 :
              FreeRange(st, from, to).cells[i] =
                IF from <= i /\ i < to THEN None ELSE st.cells[i]
BY StoreShape, CellShape DEF FreeRange, Stores

\* The store f is st with the cells from the first offset to the second freed.
Emptied(f, n, st, from, to) ==
  /\ f \in Stores(n)
  /\ \A i \in 0 .. n - 1 : f.cells[i] = IF from <= i /\ i < to THEN None ELSE st.cells[i]

\* The same of free_range as one predicate.
LEMMA FreeRangeFrees ==
  ASSUME NEW n \in Nat, NEW st \in Stores(n), NEW from \in Nat, NEW to \in Nat
  PROVE  Emptied(FreeRange(st, from, to), n, st, from, to)
BY FreeRangeShape DEF Emptied

\* The run clear_by_offset finds in a store with whole runs holds the offset and
\* ends within the array.
LEMMA RunFound ==
  ASSUME NEW n \in Nat, NEW st \in Stores(n), RunsWhole(st), NEW i, ClearsAt(st, i)
  PROVE  LET s == RunStart(st, i)
             e == st.cells[s].at
         IN  /\ s \in 0 .. n - 1 /\ st.cells[s].kind = "OneStep"
             /\ i \in 0 .. n - 1
             /\ s <= i /\ i < e /\ e \in Nat /\ e <= n
<1> DEFINE s == RunStart(st, i)
<1>1. st.len = n /\ \A k \in 0 .. n - 1 : st.cells[k].at \in Nat
  BY StoreShape
<1>2. i \in 0 .. n - 1 /\ s \in 0 .. n - 1 /\ st.cells[s].kind = "OneStep"
  BY <1>1 DEF ClearsAt, is_one_step_at
<1>3. st.cells[s].at <= n /\ s < st.cells[s].at
  BY <1>1, <1>2 DEF RunsWhole
<1>4. CASE st.cells[i].kind = "NoSearch"
  <2>1. s = st.cells[i].at
    BY <1>4 DEF RunStart
  <2>2. s < i /\ i < st.cells[s].at
    BY <1>1, <1>2, <1>4, <2>1 DEF RunsWhole
  <2> QED
    BY <1>1, <1>2, <1>3, <2>2
<1>5. CASE st.cells[i].kind # "NoSearch"
  <2>1. s = i
    BY <1>5 DEF RunStart
  <2> QED
    BY <1>1, <1>2, <1>3, <2>1
<1> QED
  BY <1>4, <1>5

\* clear_by_offset on a store whose runs are whole frees exactly the run at the
\* offset, so the runs left are whole and the cell at the offset is free.
LEMMA ClearPreservesRuns ==
  ASSUME NEW n \in Nat, NEW st \in Stores(n), RunsWhole(st), NEW i \in Nat
  PROVE  LET cleared == clear_by_offset(st, i)
         IN  /\ cleared \in Stores(n)
             /\ RunsWhole(cleared)
             /\ i < n => cleared.cells[i].kind = "None"
             /\ \A j \in 0 .. n - 1 :
                  st.cells[j].kind = "None" => cleared.cells[j].kind = "None"
<1> DEFINE s == RunStart(st, i)
           e == st.cells[s].at
           cleared == clear_by_offset(st, i)
<1>1. st.len = n
  BY StoreShape
<1>2. CASE ~ClearsAt(st, i)
  <2>1. cleared = st
    BY <1>2 DEF clear_by_offset
  <2>2. i < n => st.cells[i].kind = "None"
    BY <1>1, <1>2, StoreShape DEF ClearsAt, RunStart, RunsWhole, is_one_step_at
  <2> QED
    BY <2>1, <2>2
<1>3. CASE ClearsAt(st, i)
  <2>1. /\ s \in 0 .. n - 1 /\ st.cells[s].kind = "OneStep"
        /\ i \in 0 .. n - 1
        /\ s <= i /\ i < e /\ e \in Nat /\ e <= n
    BY <1>3, RunFound
  <2>2. cleared = FreeRange(st, s, e)
    BY <1>3 DEF clear_by_offset
  <2>3. /\ cleared \in Stores(n)
        /\ cleared.len = n
        /\ \A j \in 0 .. n - 1 :
             cleared.cells[j] = IF s <= j /\ j < e THEN None ELSE st.cells[j]
    <3>1. s \in Nat /\ e \in Nat
      BY <2>1
    <3> HIDE DEF s, e, cleared
    <3>2. Emptied(FreeRange(st, s, e), n, st, s, e)
      BY <3>1, FreeRangeFrees, Zenon
    <3>3. cleared = FreeRange(st, s, e)
      BY <2>2
    <3>4. cleared \in Stores(n)
      BY <3>2, <3>3, Zenon DEF Emptied
    <3> QED
      BY <3>2, <3>3, <3>4, StoreShape DEF Emptied
  <2>4. RunsWhole(cleared)
    <3> SUFFICES ASSUME NEW k \in 0 .. n - 1, cleared.cells[k].kind # "None"
                 PROVE
                   /\ cleared.cells[k].kind = "NoSearch" =>
                        /\ cleared.cells[k].at < k
                        /\ is_one_step_at(cleared, cleared.cells[k].at)
                        /\ k < cleared.cells[cleared.cells[k].at].at
                   /\ cleared.cells[k].kind = "OneStep" =>
                        /\ cleared.cells[k].token \in Token
                        /\ k < cleared.cells[k].at
                        /\ cleared.cells[k].at <= n
                        /\ \A j \in k + 1 .. cleared.cells[k].at - 1 :
                             /\ cleared.cells[j].kind = "NoSearch"
                             /\ cleared.cells[j].at = k
      BY <2>3 DEF RunsWhole
    <3>1. ~(s <= k /\ k < e) /\ cleared.cells[k] = st.cells[k]
      BY <2>3, CellShape
    <3>2. ASSUME st.cells[k].kind = "NoSearch"
          PROVE  /\ st.cells[k].at < k
                 /\ is_one_step_at(cleared, st.cells[k].at)
                 /\ k < cleared.cells[st.cells[k].at].at
      <4> DEFINE q == st.cells[k].at
      <4>1. /\ q \in 0 .. n - 1 /\ q < k /\ st.cells[q].kind = "OneStep"
            /\ k < st.cells[q].at /\ st.cells[q].at \in Nat
        BY <1>1, <3>2, StoreShape DEF RunsWhole, is_one_step_at
      <4>2. q # s
        BY <2>1, <3>1, <4>1
      <4>3. ~(s <= q /\ q < e)
        BY <1>1, <2>1, <4>1, <4>2 DEF RunsWhole
      <4> QED
        BY <2>3, <4>1, <4>3 DEF is_one_step_at
    <3>3. ASSUME st.cells[k].kind = "OneStep"
          PROVE  /\ st.cells[k].token \in Token
                 /\ k < st.cells[k].at
                 /\ st.cells[k].at <= n
                 /\ \A j \in k + 1 .. st.cells[k].at - 1 :
                      /\ cleared.cells[j].kind = "NoSearch"
                      /\ cleared.cells[j].at = k
      <4>1. /\ st.cells[k].token \in Token
            /\ k < st.cells[k].at /\ st.cells[k].at <= n
            /\ \A j \in k + 1 .. st.cells[k].at - 1 :
                 st.cells[j].kind = "NoSearch" /\ st.cells[j].at = k
        BY <1>1, <3>3 DEF RunsWhole
      <4>2. \A j \in s + 1 .. e - 1 :
              st.cells[j].kind = "NoSearch" /\ st.cells[j].at = s
        BY <1>1, <2>1 DEF RunsWhole
      <4>3. ASSUME NEW j \in k + 1 .. st.cells[k].at - 1
            PROVE  cleared.cells[j] = st.cells[j]
        <5>1. j \in 0 .. n - 1
          BY <4>1, StoreShape
        <5>2. j # s
          BY <2>1, <4>1
        <5>3. k # s
          BY <2>1, <3>1
        <5>4. ~(s <= j /\ j < e)
          BY <2>1, <4>1, <4>2, <5>1, <5>2, <5>3
        <5> QED
          BY <2>3, <5>1, <5>4
      <4> QED
        BY <4>1, <4>3
    <3> QED
      BY <3>1, <3>2, <3>3
  <2> QED
    BY <2>1, <2>3, <2>4, CellShape
<1> QED
  BY <1>2, <1>3

\* add's clearing loop is well defined: each of its stores is the one before it
\* with the run at the next index cleared.
LEMMA ClearLoopUnfolds ==
  ASSUME NEW st, NEW start \in Nat, NEW end \in Nat, start <= end
  PROVE  ClearLoop(st, start, end) =
           [i \in start .. end |->
              IF i = start THEN st
              ELSE clear_by_offset(ClearLoop(st, start, end)[i - 1], i - 1)]
<1> DEFINE Runs(g, k) ==
      g = [i \in start .. k |->
             IF i = start THEN st ELSE clear_by_offset(g[i - 1], i - 1)]
           P == {k \in start .. end : \E g : Runs(g, k)}
<1>1. start \in P
  <2> DEFINE g == [i \in start .. start |-> st]
  <2>1. Runs(g, start)
    OBVIOUS
  <2> HIDE DEF Runs, g
  <2> QED
    BY <2>1
<1>2. ASSUME NEW k \in start .. end - 1, k \in P
      PROVE  k + 1 \in P
  <2>1. PICK g : Runs(g, k)
    BY <1>2
  <2> DEFINE h == [i \in start .. k + 1 |->
                     IF i = k + 1 THEN clear_by_offset(g[k], k) ELSE g[i]]
  <2>2. \A i \in start .. k : h[i] = g[i]
    OBVIOUS
  <2>3. \A i \in start .. k + 1 :
          h[i] = IF i = start THEN st ELSE clear_by_offset(h[i - 1], i - 1)
    <3> TAKE i \in start .. k + 1
    <3>1. CASE i = k + 1
      BY <2>2, <3>1
    <3>2. CASE i \in start + 1 .. k
      <4>1. g[i] = clear_by_offset(g[i - 1], i - 1)
        BY <2>1, <3>2
      <4>2. h[i] = g[i] /\ h[i - 1] = g[i - 1]
        BY <3>2, <2>2
      <4> QED
        BY <3>2, <4>1, <4>2
    <3>3. CASE i = start /\ i # k + 1
      BY <2>1, <2>2, <3>3
    <3> QED
      BY <3>1, <3>2, <3>3
  <2>4. Runs(h, k + 1)
    BY <2>3
  <2> HIDE DEF Runs, h
  <2> QED
    BY <2>4
<1>3. end \in P
  <2> HIDE DEF P
  <2>1. \A i \in start .. end : i \in P
    BY <1>1, <1>2, IntervalInduction
  <2> QED
    BY <2>1
<1>4. \E g : g = [i \in start .. end |->
                   IF i = start THEN st ELSE clear_by_offset(g[i - 1], i - 1)]
  BY <1>3
<1> DEFINE loop == CHOOSE g :
             g = [i \in start .. end |->
                    IF i = start THEN st ELSE clear_by_offset(g[i - 1], i - 1)]
<1>5. ClearLoop(st, start, end) = loop
  BY DEF ClearLoop
<1>6. loop = [i \in start .. end |->
                IF i = start THEN st ELSE clear_by_offset(loop[i - 1], i - 1)]
  BY <1>4
<1> QED
  BY <1>5, <1>6

\* add's clearing loop keeps every run whole and leaves the cells it has passed
\* free.
LEMMA ClearLoopInvariant ==
  ASSUME NEW n \in Nat, NEW st \in Stores(n), RunsWhole(st),
         NEW start \in Nat, NEW end \in Nat, start <= end, end <= n
  PROVE  \A i \in start .. end :
           LET reached == ClearLoop(st, start, end)[i]
           IN  /\ reached \in Stores(n)
               /\ RunsWhole(reached)
               /\ \A j \in start .. i - 1 : reached.cells[j].kind = "None"
<1> DEFINE loop == ClearLoop(st, start, end)
           P == {i \in start .. end :
                   /\ loop[i] \in Stores(n)
                   /\ RunsWhole(loop[i])
                   /\ \A j \in start .. i - 1 : loop[i].cells[j].kind = "None"}
<1>1. loop = [i \in start .. end |->
                IF i = start THEN st ELSE clear_by_offset(loop[i - 1], i - 1)]
  BY ClearLoopUnfolds
<1> HIDE DEF loop
<1>2. start \in P
  BY <1>1
<1>3. ASSUME NEW i \in start .. end - 1, i \in P
      PROVE  i + 1 \in P
  <2>1. loop[i + 1] = clear_by_offset(loop[i], i)
    BY <1>1
  <2>2. /\ loop[i] \in Stores(n)
        /\ RunsWhole(loop[i])
        /\ \A j \in start .. i - 1 : loop[i].cells[j].kind = "None"
    BY <1>3
  <2>3. /\ loop[i + 1] \in Stores(n)
        /\ RunsWhole(loop[i + 1])
        /\ loop[i + 1].cells[i].kind = "None"
        /\ \A j \in 0 .. n - 1 : loop[i].cells[j].kind = "None"
                                 => loop[i + 1].cells[j].kind = "None"
    <3>1. i \in Nat /\ i < n
      OBVIOUS
    <3> DEFINE c == loop[i]
               d == loop[i + 1]
    <3>2. c \in Stores(n) /\ RunsWhole(c) /\ d = clear_by_offset(c, i)
      BY <2>1, <2>2
    <3> HIDE DEF P, c, d
    <3>3. /\ clear_by_offset(c, i) \in Stores(n)
          /\ RunsWhole(clear_by_offset(c, i))
          /\ clear_by_offset(c, i).cells[i].kind = "None"
          /\ \A j \in 0 .. n - 1 :
               c.cells[j].kind = "None"
                 => clear_by_offset(c, i).cells[j].kind = "None"
      BY <3>1, <3>2, ClearPreservesRuns
    <3> QED
      BY <3>2, <3>3 DEF c, d
  <2>4. \A j \in start .. i : loop[i + 1].cells[j].kind = "None"
    BY <2>2, <2>3
  <2> QED
    BY <2>3, <2>4
<1>4. \A i \in start .. end : i \in P
  <2> HIDE DEF P
  <2> QED
    BY <1>2, <1>3, IntervalInduction
<1> QED
  BY <1>4 DEF loop
--------------------------------------------------------------------------------
\* Writing a run over free cells that no other run spans keeps every run whole.
LEMMA WriteRunPreservesRuns ==
  ASSUME NEW n \in Nat, NEW st \in Stores(n), RunsWhole(st),
         NEW start \in Nat, NEW end \in Nat, start < end, end <= n,
         NEW token \in Token,
         \A j \in start .. end - 1 : st.cells[j].kind = "None"
  PROVE  /\ WriteRun(st, start, end, token) \in Stores(n)
         /\ RunsWhole(WriteRun(st, start, end, token))
<1> DEFINE w == WriteRun(st, start, end, token)
<1>1. /\ w \in Stores(n) /\ w.len = n
      /\ \A i \in 0 .. n - 1 :
           w.cells[i] = IF i = start THEN OneStep(token, end)
                        ELSE IF start < i /\ i < end THEN NoSearch(start)
                        ELSE st.cells[i]
  BY StoreShape, CellShape DEF WriteRun, Stores
<1> HIDE DEF w
<1>a. \A i \in 0 .. n - 1 : i < start \/ end <= i => w.cells[i] = st.cells[i]
  BY <1>1
<1>b. st.len = n /\ \A i \in 0 .. n - 1 : st.cells[i].at \in Nat
  BY StoreShape
<1>2. ASSUME NEW k \in 0 .. n - 1
      PROVE  /\ w.cells[k].kind = "NoSearch" =>
                  /\ w.cells[k].at < k
                  /\ is_one_step_at(w, w.cells[k].at)
                  /\ k < w.cells[w.cells[k].at].at
             /\ w.cells[k].kind = "OneStep" =>
                  /\ w.cells[k].token \in Token
                  /\ k < w.cells[k].at /\ w.cells[k].at <= n
                  /\ \A j \in k + 1 .. w.cells[k].at - 1 :
                       w.cells[j].kind = "NoSearch" /\ w.cells[j].at = k
  <2>1. CASE k = start
    BY <1>1, <2>1, CellShape
  <2>2. CASE start < k /\ k < end
    BY <1>1, <2>2, CellShape DEF is_one_step_at
  <2>3. CASE k < start \/ end <= k
    <3>1. w.cells[k] = st.cells[k] /\ st.len = n
      BY <1>a, <1>b, <2>3
    <3>2. ASSUME st.cells[k].kind = "NoSearch"
          PROVE  /\ st.cells[k].at < k
                 /\ is_one_step_at(w, st.cells[k].at)
                 /\ k < w.cells[st.cells[k].at].at
      <4> DEFINE q == st.cells[k].at
      <4>1. /\ q \in 0 .. n - 1 /\ q < k /\ st.cells[q].kind = "OneStep"
            /\ k < st.cells[q].at
        BY <3>1, <3>2, StoreShape DEF RunsWhole, is_one_step_at
      <4>2. q \notin start .. end - 1
        BY <4>1
      <4>3. w.cells[q] = st.cells[q]
        BY <1>1, <4>1, <4>2
      <4> QED
        BY <1>1, <4>1, <4>3 DEF is_one_step_at
    <3>3. ASSUME st.cells[k].kind = "OneStep"
          PROVE  /\ st.cells[k].token \in Token
                 /\ k < st.cells[k].at /\ st.cells[k].at <= n
                 /\ \A j \in k + 1 .. st.cells[k].at - 1 :
                      w.cells[j].kind = "NoSearch" /\ w.cells[j].at = k
      <4>1. /\ st.cells[k].token \in Token
            /\ k < st.cells[k].at /\ st.cells[k].at <= n
            /\ \A j \in k + 1 .. st.cells[k].at - 1 :
                 st.cells[j].kind = "NoSearch" /\ st.cells[j].at = k
        BY <3>1, <3>3 DEF RunsWhole
      <4>2. \A j \in k + 1 .. st.cells[k].at - 1 : j \notin start .. end - 1
        BY <4>1
      <4>3. \A j \in k + 1 .. st.cells[k].at - 1 : w.cells[j] = st.cells[j]
        BY <1>a, <1>b, <4>1, <4>2
      <4> QED
        BY <4>1, <4>3
    <3> QED
      BY <3>1, <3>2, <3>3
  <2> QED
    BY <2>1, <2>2, <2>3
<1>3. RunsWhole(w)
  BY <1>1, <1>2 DEF RunsWhole
<1> QED
  BY <1>1, <1>3 DEF w

\* add keeps every run whole: the runs its span overlaps are cleared entirely,
\* the part outside the span included, before the new run is written.
LEMMA AddPreservesRuns ==
  ASSUME NEW n \in Nat, NEW st \in Stores(n), RunsWhole(st),
         NEW start \in Nat, NEW end \in Nat, NEW token \in Token
  PROVE  /\ add(st, start, end, token) \in Stores(n)
         /\ RunsWhole(add(st, start, end, token))
<1>1. CASE ~AddAccepts(st, start, end)
  BY <1>1 DEF add
<1>2. CASE AddAccepts(st, start, end)
  <2> DEFINE c == ClearLoop(st, start, end)[end]
  <2>1. start < end /\ end <= n /\ end \in start .. end
    BY <1>2, StoreShape DEF AddAccepts
  <2>2. /\ c \in Stores(n)
        /\ RunsWhole(c)
        /\ \A j \in start .. end - 1 : c.cells[j].kind = "None"
    BY <2>1, ClearLoopInvariant
  <2> HIDE DEF c
  <2>3. /\ WriteRun(c, start, end, token) \in Stores(n)
        /\ RunsWhole(WriteRun(c, start, end, token))
    BY <2>1, <2>2, WriteRunPreservesRuns
  <2>4. add(st, start, end, token) = WriteRun(c, start, end, token)
    BY <1>2 DEF add, c
  <2> QED
    BY <2>3, <2>4
<1> QED
  BY <1>1, <1>2
--------------------------------------------------------------------------------
\* resize keeps the cells below both lengths and adds free ones.
LEMMA ResizeShape ==
  ASSUME NEW m \in Nat, NEW st \in Stores(m), NEW n \in Nat
  PROVE  /\ resize(st, n) \in Stores(n)
         /\ \A i \in 0 .. n - 1 :
              resize(st, n).cells[i] = IF i < m THEN st.cells[i] ELSE None
BY StoreShape, CellShape DEF resize, Stores

\* Growing the array keeps every run whole.
LEMMA GrowPreservesRuns ==
  ASSUME NEW m \in Nat, NEW st \in Stores(m), RunsWhole(st),
         NEW n \in Nat, m <= n
  PROVE  resize(st, n) \in Stores(n) /\ RunsWhole(resize(st, n))
<1> DEFINE r == resize(st, n)
<1>1. /\ r \in Stores(n)
      /\ \A i \in 0 .. n - 1 : r.cells[i] = IF i < m THEN st.cells[i] ELSE None
  BY ResizeShape
<1>2. r.len = n /\ st.len = m /\ \A i \in 0 .. m - 1 : st.cells[i].at \in Nat
  BY <1>1, StoreShape
<1> HIDE DEF r
<1>3. RunsWhole(r)
  BY <1>1, <1>2, CellShape DEF RunsWhole, is_one_step_at
<1> QED
  BY <1>1, <1>3 DEF r

\* Runs that are whole up to their end or the end of the array: what a resize, or a
\* validate that fails midway, may leave of whole runs.
RunsCut(st) ==
  \A i \in 0 .. st.len - 1 :
    /\ st.cells[i].kind = "NoSearch" =>
         /\ st.cells[i].at < i
         /\ st.cells[st.cells[i].at].kind = "OneStep"
         /\ i < st.cells[st.cells[i].at].at
    /\ st.cells[i].kind = "OneStep" =>
         /\ st.cells[i].token \in Token
         /\ i < st.cells[i].at
         /\ \A j \in i + 1 .. st.len - 1 :
              j < st.cells[i].at => st.cells[j].kind = "NoSearch" /\ st.cells[j].at = i

\* Whole runs are the cut runs that end within the array.
LEMMA WholeIsCut ==
  ASSUME NEW n \in Nat, NEW st \in Stores(n)
  PROVE  RunsWhole(st) <=>
           /\ RunsCut(st)
           /\ \A i \in 0 .. n - 1 :
                st.cells[i].kind = "OneStep" => st.cells[i].at <= n
<1>1. st.len = n /\ \A i \in 0 .. n - 1 : st.cells[i].at \in Nat
  BY StoreShape
<1>2. RunsWhole(st) => RunsCut(st)
  BY <1>1 DEF RunsWhole, RunsCut, is_one_step_at
<1>3. RunsWhole(st) => \A i \in 0 .. n - 1 :
        st.cells[i].kind = "OneStep" => st.cells[i].at <= n
  BY <1>1 DEF RunsWhole
<1>4. RunsCut(st) /\ (\A i \in 0 .. n - 1 :
        st.cells[i].kind = "OneStep" => st.cells[i].at <= n) => RunsWhole(st)
  BY <1>1 DEF RunsWhole, RunsCut, is_one_step_at
<1> QED
  BY <1>2, <1>3, <1>4

\* Resizing whole runs, or truncating cut ones, leaves cut runs.
LEMMA ResizeCut ==
  ASSUME NEW m \in Nat, NEW st \in Stores(m), NEW n \in Nat,
         RunsWhole(st) \/ (RunsCut(st) /\ n <= m)
  PROVE  RunsCut(resize(st, n))
<1> DEFINE r == resize(st, n)
<1>1. /\ r \in Stores(n) /\ r.len = n
      /\ \A i \in 0 .. n - 1 : r.cells[i] = IF i < m THEN st.cells[i] ELSE None
  <2>1. r.len = n
    BY DEF resize
  <2> QED
    BY <2>1, ResizeShape
<1>2. /\ st.len = m /\ \A i \in 0 .. m - 1 : st.cells[i].at \in Nat
      /\ \A i \in 0 .. n - 1 : r.cells[i].at \in Nat
  BY <1>1, StoreShape
<1>3. RunsCut(st) /\ (n <= m \/ \A i \in 0 .. m - 1 :
        st.cells[i].kind = "OneStep" => st.cells[i].at <= m)
  BY WholeIsCut
<1> SUFFICES RunsCut(r)
  OBVIOUS
<1> HIDE DEF r
<1> SUFFICES ASSUME NEW i \in 0 .. n - 1
             PROVE  /\ r.cells[i].kind = "NoSearch" =>
                         /\ r.cells[i].at < i
                         /\ r.cells[r.cells[i].at].kind = "OneStep"
                         /\ i < r.cells[r.cells[i].at].at
                    /\ r.cells[i].kind = "OneStep" =>
                         /\ r.cells[i].token \in Token
                         /\ i < r.cells[i].at
                         /\ \A j \in i + 1 .. n - 1 :
                              j < r.cells[i].at =>
                                r.cells[j].kind = "NoSearch" /\ r.cells[j].at = i
  BY <1>1 DEF RunsCut
<1>4. r.cells[i].kind # "None" => i < m /\ r.cells[i] = st.cells[i]
  BY <1>1, CellShape
<1>5. r.cells[i].kind = "NoSearch" =>
        /\ r.cells[i].at < i
        /\ r.cells[r.cells[i].at].kind = "OneStep"
        /\ i < r.cells[r.cells[i].at].at
  <2> SUFFICES ASSUME r.cells[i].kind = "NoSearch"
               PROVE  /\ r.cells[i].at < i
                      /\ r.cells[r.cells[i].at].kind = "OneStep"
                      /\ i < r.cells[r.cells[i].at].at
    OBVIOUS
  <2> DEFINE a == st.cells[i].at
  <2>1. i \in 0 .. m - 1 /\ r.cells[i] = st.cells[i] /\ st.cells[i].kind = "NoSearch"
    BY <1>4
  <2>2. a \in Nat /\ a < i /\ st.cells[a].kind = "OneStep" /\ i < st.cells[a].at
    BY <1>2, <1>3, <2>1 DEF RunsCut
  <2>3. r.cells[a] = st.cells[a]
    BY <1>1, <2>1, <2>2
  <2> QED
    BY <2>1, <2>2, <2>3
<1>6. r.cells[i].kind = "OneStep" =>
        /\ r.cells[i].token \in Token
        /\ i < r.cells[i].at
        /\ \A j \in i + 1 .. n - 1 :
             j < r.cells[i].at => r.cells[j].kind = "NoSearch" /\ r.cells[j].at = i
  <2> SUFFICES ASSUME r.cells[i].kind = "OneStep"
               PROVE  /\ r.cells[i].token \in Token
                      /\ i < r.cells[i].at
                      /\ \A j \in i + 1 .. n - 1 :
                           j < r.cells[i].at =>
                             r.cells[j].kind = "NoSearch" /\ r.cells[j].at = i
    OBVIOUS
  <2> DEFINE e == st.cells[i].at
  <2>1. i \in 0 .. m - 1 /\ r.cells[i] = st.cells[i] /\ st.cells[i].kind = "OneStep"
    BY <1>4
  <2>2. /\ e \in Nat /\ i < e /\ st.cells[i].token \in Token
        /\ \A j \in i + 1 .. m - 1 :
             j < e => st.cells[j].kind = "NoSearch" /\ st.cells[j].at = i
    BY <1>2, <1>3, <2>1 DEF RunsCut
  <2>3. ASSUME NEW j \in i + 1 .. n - 1, j < e
        PROVE  r.cells[j].kind = "NoSearch" /\ r.cells[j].at = i
    <3>1. j \in i + 1 .. m - 1
      BY <1>3, <2>1, <2>2, <2>3
    <3>2. r.cells[j] = st.cells[j]
      BY <1>1, <2>3, <3>1
    <3> QED
      BY <2>2, <2>3, <3>1, <3>2
  <2> QED
    BY <2>1, <2>2, <2>3
<1> QED
  BY <1>5, <1>6

\* Freeing the run of every dropped forcing of a resized array cuts no other run.
LEMMA RevalidatedCut ==
  ASSUME NEW m \in Nat, NEW st \in Stores(m), NEW n \in Nat,
         RunsWhole(st) \/ (RunsCut(st) /\ n <= m),
         NEW dropped,
         dropped \subseteq {s \in 0 .. n - 1 :
                              resize(st, n).cells[s].kind = "OneStep"}
  PROVE  LET v == Revalidated(st, n, dropped)
         IN  /\ v \in Stores(n)
             /\ RunsCut(v)
             /\ \A s \in 0 .. n - 1 : v.cells[s].kind = "OneStep" =>
                  s \notin dropped /\ v.cells[s] = resize(st, n).cells[s]
<1> DEFINE r == resize(st, n)
           v == Revalidated(st, n, dropped)
           Freed(i) == \E s \in dropped : s <= i /\ i < r.cells[s].at
<1>1. r \in Stores(n) /\ r.len = n /\ \A i \in 0 .. n - 1 : r.cells[i].at \in Nat
  BY ResizeShape, StoreShape
<1>2. /\ v \in Stores(n) /\ v.len = n
      /\ \A i \in 0 .. n - 1 :
           v.cells[i] = IF Freed(i) THEN None ELSE r.cells[i]
  BY <1>1, StoreShape, CellShape DEF Revalidated, Stores
<1>3. dropped \subseteq 0 .. n - 1 /\ \A s \in dropped : r.cells[s].kind = "OneStep"
  OBVIOUS
<1>4. RunsCut(r)
  BY ResizeCut
<1> HIDE DEF r, v
<1>5. \A i \in 0 .. n - 1 :
        /\ r.cells[i].kind = "NoSearch" =>
             /\ r.cells[i].at < i
             /\ r.cells[r.cells[i].at].kind = "OneStep"
             /\ i < r.cells[r.cells[i].at].at
        /\ r.cells[i].kind = "OneStep" =>
             /\ r.cells[i].token \in Token
             /\ i < r.cells[i].at
             /\ \A j \in i + 1 .. n - 1 :
                  j < r.cells[i].at =>
                    r.cells[j].kind = "NoSearch" /\ r.cells[j].at = i
  BY <1>1, <1>4 DEF RunsCut
<1>6. ASSUME NEW k \in 0 .. n - 1
      PROVE  /\ v.cells[k].kind = "NoSearch" =>
                  /\ v.cells[k].at < k
                  /\ v.cells[v.cells[k].at].kind = "OneStep"
                  /\ k < v.cells[v.cells[k].at].at
             /\ v.cells[k].kind = "OneStep" =>
                  /\ v.cells[k].token \in Token
                  /\ k < v.cells[k].at
                  /\ \A j \in k + 1 .. n - 1 :
                       j < v.cells[k].at =>
                         v.cells[j].kind = "NoSearch" /\ v.cells[j].at = k
  <2>1. CASE Freed(k)
    BY <1>2, <2>1, CellShape
  <2>2. CASE ~Freed(k)
    <3>1. v.cells[k] = r.cells[k]
      BY <1>2, <2>2
    <3>2. ASSUME r.cells[k].kind = "NoSearch"
          PROVE  /\ r.cells[k].at < k
                 /\ v.cells[r.cells[k].at].kind = "OneStep"
                 /\ k < v.cells[r.cells[k].at].at
      <4> DEFINE q == r.cells[k].at
      <4>1. /\ q \in 0 .. n - 1 /\ q < k
            /\ r.cells[q].kind = "OneStep" /\ k < r.cells[q].at
        BY <1>1, <1>5, <3>2
      <4>2. ~Freed(q)
        BY <1>1, <1>3, <1>5, <2>2, <4>1
      <4>3. v.cells[q] = r.cells[q]
        BY <1>2, <4>1, <4>2
      <4> QED
        BY <4>1, <4>3
    <3>3. ASSUME r.cells[k].kind = "OneStep"
          PROVE  /\ r.cells[k].token \in Token
                 /\ k < r.cells[k].at
                 /\ \A j \in k + 1 .. n - 1 :
                      j < r.cells[k].at =>
                        v.cells[j].kind = "NoSearch" /\ v.cells[j].at = k
      <4>1. r.cells[k].token \in Token /\ k < r.cells[k].at
        BY <1>5, <3>3
      <4>2. ASSUME NEW j \in k + 1 .. n - 1, j < r.cells[k].at
            PROVE  v.cells[j].kind = "NoSearch" /\ v.cells[j].at = k
        <5>1. j \in 0 .. n - 1 /\ r.cells[j].kind = "NoSearch" /\ r.cells[j].at = k
          BY <1>1, <1>5, <3>3, <4>2
        <5>2. ~Freed(j)
          BY <1>1, <1>3, <1>5, <2>2, <3>3, <4>2, <5>1
        <5> QED
          BY <1>2, <5>1, <5>2
      <4> QED
        BY <4>1, <4>2
    <3> QED
      BY <3>1, <3>2, <3>3
  <2> QED
    BY <2>1, <2>2
<1>7. RunsCut(v)
  BY <1>2, <1>6 DEF RunsCut
<1>8. ASSUME NEW s \in 0 .. n - 1, v.cells[s].kind = "OneStep"
      PROVE  s \notin dropped /\ v.cells[s] = r.cells[s]
  <2>1. ~Freed(s) /\ v.cells[s] = r.cells[s]
    BY <1>2, <1>8, CellShape
  <2>2. s < r.cells[s].at
    BY <1>5, <1>8, <2>1
  <2> QED
    BY <2>1, <2>2
<1> QED
  BY <1>2, <1>7, <1>8 DEF r, v

\* If moreover each forcing that overruns the array is dropped, the runs left are
\* whole again and leave the last cell of the array free.
LEMMA ValidateMends ==
  ASSUME NEW m \in Nat, NEW st \in Stores(m), NEW n \in Nat,
         RunsWhole(st) \/ (RunsCut(st) /\ n <= m),
         NEW dropped,
         dropped \subseteq {s \in 0 .. n - 1 :
                              resize(st, n).cells[s].kind = "OneStep"},
         \A s \in 0 .. n - 1 :
           /\ resize(st, n).cells[s].kind = "OneStep"
           /\ resize(st, n).cells[s].at >= n
           => s \in dropped
  PROVE  LET v == Revalidated(st, n, dropped)
         IN  /\ v \in Stores(n)
             /\ RunsWhole(v)
             /\ \A s \in 0 .. n - 1 : v.cells[s].kind = "OneStep" =>
                  /\ s \notin dropped
                  /\ v.cells[s] = resize(st, n).cells[s]
                  /\ v.cells[s].at < n
<1> DEFINE v == Revalidated(st, n, dropped)
           r == resize(st, n)
<1>1. /\ v \in Stores(n) /\ RunsCut(v)
      /\ \A s \in 0 .. n - 1 : v.cells[s].kind = "OneStep" =>
           s \notin dropped /\ v.cells[s] = r.cells[s]
  BY RevalidatedCut
<1>2. \A s \in 0 .. n - 1 : v.cells[s].at \in Nat
  BY <1>1, StoreShape
<1>3. \A s \in 0 .. n - 1 : r.cells[s].kind = "OneStep" /\ r.cells[s].at >= n
                             => s \in dropped
  OBVIOUS
<1> HIDE DEF v, r
<1>4. \A s \in 0 .. n - 1 : v.cells[s].kind = "OneStep" => v.cells[s].at < n
  BY <1>1, <1>2, <1>3
<1>5. RunsWhole(v)
  BY <1>1, <1>2, <1>4, WholeIsCut
<1> QED
  BY <1>1, <1>4, <1>5 DEF v, r

--------------------------------------------------------------------------------
\* diff_result's loop is well defined: each of its stores is the one before it
\* after the step for the next phrase.
LEMMA DiffLoopUnfolds ==
  ASSUME NEW st, NEW best, NEW other, NEW tail, Len(other) \in Nat
  PROVE  DiffLoop(st, best, other, tail) =
           [k \in 0 .. Len(other) |->
              IF k = 0 THEN st
              ELSE DiffStep(DiffLoop(st, best, other, tail)[k - 1],
                            best, other, tail, k)]
<1> DEFINE Runs(g, m) ==
      g = [k \in 0 .. m |->
             IF k = 0 THEN st ELSE DiffStep(g[k - 1], best, other, tail, k)]
           P == {m \in 0 .. Len(other) : \E g : Runs(g, m)}
<1>1. 0 \in P
  <2> DEFINE g == [k \in 0 .. 0 |-> st]
  <2>1. Runs(g, 0)
    OBVIOUS
  <2> HIDE DEF Runs, g
  <2> QED
    BY <2>1
<1>2. ASSUME NEW m \in 0 .. Len(other) - 1, m \in P
      PROVE  m + 1 \in P
  <2>1. PICK g : Runs(g, m)
    BY <1>2
  <2> DEFINE h == [k \in 0 .. m + 1 |->
                     IF k = m + 1 THEN DiffStep(g[m], best, other, tail, m + 1)
                     ELSE g[k]]
  <2>2. \A k \in 0 .. m : h[k] = g[k]
    OBVIOUS
  <2>3. \A k \in 0 .. m + 1 :
          h[k] = IF k = 0 THEN st ELSE DiffStep(h[k - 1], best, other, tail, k)
    <3> TAKE k \in 0 .. m + 1
    <3>1. CASE k = m + 1
      BY <2>2, <3>1
    <3>2. CASE k \in 1 .. m
      <4>1. g[k] = DiffStep(g[k - 1], best, other, tail, k)
        BY <2>1, <3>2
      <4>2. h[k] = g[k] /\ h[k - 1] = g[k - 1]
        BY <3>2, <2>2
      <4> QED
        BY <3>2, <4>1, <4>2
    <3>3. CASE k = 0
      BY <2>1, <2>2, <3>3
    <3> QED
      BY <3>1, <3>2, <3>3
  <2>4. Runs(h, m + 1)
    BY <2>3
  <2> HIDE DEF Runs, h
  <2> QED
    BY <2>4
<1>3. Len(other) \in P
  <2> HIDE DEF P
  <2>1. \A m \in 0 .. Len(other) : m \in P
    BY <1>1, <1>2, IntervalInduction
  <2> QED
    BY <2>1
<1>4. \E g : g = [k \in 0 .. Len(other) |->
                   IF k = 0 THEN st
                   ELSE DiffStep(g[k - 1], best, other, tail, k)]
  BY <1>3
<1> DEFINE loop == CHOOSE g :
             g = [k \in 0 .. Len(other) |->
                    IF k = 0 THEN st
                    ELSE DiffStep(g[k - 1], best, other, tail, k)]
<1>5. DiffLoop(st, best, other, tail) = loop
  BY DEF DiffLoop
<1>6. loop = [k \in 0 .. Len(other) |->
                IF k = 0 THEN st
                ELSE DiffStep(loop[k - 1], best, other, tail, k)]
  BY <1>4
<1> QED
  BY <1>5, <1>6

\* diff_result's loop keeps every run whole: it is a sequence of adds.
LEMMA DiffLoopPreservesRuns ==
  ASSUME NEW n \in Nat, NEW st \in Stores(n), RunsWhole(st),
         NEW best, NEW other \in Seq(Span), NEW tail \in Nat
  PROVE  \A k \in 0 .. Len(other) :
           /\ DiffLoop(st, best, other, tail)[k] \in Stores(n)
           /\ RunsWhole(DiffLoop(st, best, other, tail)[k])
<1> DEFINE loop == DiffLoop(st, best, other, tail)
           P == {k \in 0 .. Len(other) :
                   loop[k] \in Stores(n) /\ RunsWhole(loop[k])}
<1>1. Len(other) \in Nat
  OBVIOUS
<1>2. loop = [k \in 0 .. Len(other) |->
                IF k = 0 THEN st
                ELSE DiffStep(loop[k - 1], best, other, tail, k)]
  BY <1>1, DiffLoopUnfolds
<1> HIDE DEF loop
<1>3. 0 \in P
  BY <1>1, <1>2
<1>4. ASSUME NEW k \in 0 .. Len(other) - 1, k \in P
      PROVE  k + 1 \in P
  <2> DEFINE c == loop[k]
             end == IF k + 1 < Len(other) THEN other[k + 1 + 1].start ELSE tail
  <2>1. c \in Stores(n) /\ RunsWhole(c)
    BY <1>4
  <2>2. loop[k + 1] = DiffStep(c, best, other, tail, k + 1)
    BY <1>1, <1>2
  <2>3. /\ other[k + 1].start \in Nat
        /\ other[k + 1].token \in Token
        /\ end \in Nat
    <3>1. \A j \in 1 .. Len(other) : other[j] \in Span
      OBVIOUS
    <3>2. \A j \in 1 .. Len(other) : other[j].start \in Nat /\ other[j].token \in Token
      BY <3>1 DEF Span
    <3>3. k + 1 \in 1 .. Len(other)
      BY <1>1
    <3>4. k + 1 < Len(other) => k + 1 + 1 \in 1 .. Len(other)
      BY <1>1
    <3> QED
      BY <3>2, <3>3, <3>4
  <2>4. DiffStep(c, best, other, tail, k + 1)
          \in {c, add(c, other[k + 1].start, end, other[k + 1].token)}
    BY DEF DiffStep
  <2> HIDE DEF c, end, P
  <2>5. /\ add(c, other[k + 1].start, end, other[k + 1].token) \in Stores(n)
        /\ RunsWhole(add(c, other[k + 1].start, end, other[k + 1].token))
    BY <2>1, <2>3, AddPreservesRuns
  <2>6. loop[k + 1] \in Stores(n) /\ RunsWhole(loop[k + 1])
    BY <2>1, <2>2, <2>4, <2>5
  <2> QED
    BY <1>1, <2>6 DEF P
<1>5. \A k \in 0 .. Len(other) : k \in P
  <2> HIDE DEF P
  <2> QED
    BY <1>1, <1>3, <1>4, IntervalInduction
<1> QED
  BY <1>5 DEF loop

\* So does diff_result.
LEMMA DiffResultPreservesRuns ==
  ASSUME NEW n \in Nat, NEW st \in Stores(n), RunsWhole(st),
         NEW best, NEW other \in Seq(Span), NEW tail \in Nat
  PROVE  /\ diff_result(st, best, other, tail) \in Stores(n)
         /\ RunsWhole(diff_result(st, best, other, tail))
<1>1. Len(other) \in 0 .. Len(other)
  OBVIOUS
<1> QED
  BY <1>1, DiffLoopPreservesRuns DEF diff_result

--------------------------------------------------------------------------------
\* The run that starts at cell s.
RunAt(st, s) == [start |-> s, end |-> st.cells[s].at, token |-> st.cells[s].token]

\* A run of a store is the run at one of its OneStep cells.
LEMMA RunsMember ==
  ASSUME NEW n \in Nat, NEW st \in Stores(n)
  PROVE  /\ \A r : r \in runs(st) <=>
              \E s \in 0 .. n - 1 : st.cells[s].kind = "OneStep" /\ r = RunAt(st, s)
         /\ \A s \in 0 .. n - 1 : st.cells[s].kind = "OneStep" => RunAt(st, s) \in runs(st)
         /\ \A s : RunAt(st, s).start = s /\ RunAt(st, s).end = st.cells[s].at
<1>1. st.len = n
  BY StoreShape
<1> QED BY <1>1 DEF runs, RunAt

\* In a store with whole runs a run lies within the array, and no cell is covered
\* by two runs.
LEMMA RunsDisjoint ==
  ASSUME NEW n \in Nat, NEW st \in Stores(n), RunsWhole(st),
         NEW s \in 0 .. n - 1, st.cells[s].kind = "OneStep"
  PROVE  /\ st.cells[s].at \in Nat /\ s < st.cells[s].at /\ st.cells[s].at <= n
         /\ st.cells[s].token \in Token
         /\ \A i \in 0 .. n - 1 :
              s <= i /\ i < st.cells[s].at =>
                st.cells[i].kind # "None" /\ RunStart(st, i) = s
         /\ \A t \in 0 .. n - 1, i \in Nat :
              /\ st.cells[t].kind = "OneStep"
              /\ s <= i /\ i < st.cells[s].at
              /\ t <= i /\ i < st.cells[t].at
              => t = s
<1>1. st.len = n /\ \A i \in 0 .. n - 1 : st.cells[i].at \in Nat
  BY StoreShape
<1>2. /\ st.cells[s].at \in Nat /\ s < st.cells[s].at /\ st.cells[s].at <= n
      /\ st.cells[s].token \in Token
  BY <1>1 DEF RunsWhole
<1>3. \A t \in 0 .. n - 1 : st.cells[t].kind = "OneStep" =>
        \A i \in 0 .. n - 1 : t <= i /\ i < st.cells[t].at =>
           st.cells[i].kind # "None" /\ RunStart(st, i) = t
  <2> SUFFICES ASSUME NEW t \in 0 .. n - 1, st.cells[t].kind = "OneStep",
                      NEW i \in 0 .. n - 1, t <= i, i < st.cells[t].at
               PROVE  st.cells[i].kind # "None" /\ RunStart(st, i) = t
    OBVIOUS
  <2>1. CASE i = t
    BY <2>1 DEF RunStart
  <2>2. CASE i # t
    <3>1. i \in t + 1 .. st.cells[t].at - 1
      BY <1>1, <2>2
    <3>2. st.cells[i].kind = "NoSearch" /\ st.cells[i].at = t
      BY <1>1, <3>1 DEF RunsWhole
    <3> QED BY <3>2 DEF RunStart
  <2> QED BY <2>1, <2>2
<1>4. \A t \in 0 .. n - 1, i \in Nat :
        /\ st.cells[t].kind = "OneStep"
        /\ s <= i /\ i < st.cells[s].at
        /\ t <= i /\ i < st.cells[t].at
        => t = s
  BY <1>2, <1>3
<1> QED BY <1>2, <1>3, <1>4

\* clear_by_offset removes the run that covers the offset and no other.
LEMMA ClearRuns ==
  ASSUME NEW n \in Nat, NEW st \in Stores(n), RunsWhole(st), NEW i \in Nat
  PROVE  runs(clear_by_offset(st, i)) =
           {r \in runs(st) : ~(r.start <= i /\ i < r.end)}
<1> DEFINE s == RunStart(st, i)
           e == st.cells[s].at
           cleared == clear_by_offset(st, i)
<1>1. st.len = n /\ \A k \in 0 .. n - 1 : st.cells[k].at \in Nat
  BY StoreShape
<1>2. CASE ~ClearsAt(st, i)
  <2>1. cleared = st
    BY <1>2 DEF clear_by_offset
  <2>2. ASSUME NEW k \in 0 .. n - 1, st.cells[k].kind = "OneStep",
               k <= i, i < st.cells[k].at
        PROVE  FALSE
    <3>1. i \in 0 .. n - 1 /\ st.cells[i].kind # "None" /\ RunStart(st, i) = k
      BY <2>2, RunsDisjoint
    <3> QED BY <1>1, <1>2, <2>2, <3>1 DEF ClearsAt, is_one_step_at
  <2> QED BY <2>1, <2>2, RunsMember
<1>3. CASE ClearsAt(st, i)
  <2>1. /\ s \in 0 .. n - 1 /\ st.cells[s].kind = "OneStep"
        /\ s <= i /\ i < e /\ e \in Nat
    BY <1>3, RunFound
  <2>2. /\ cleared \in Stores(n)
        /\ \A j \in 0 .. n - 1 :
             cleared.cells[j] = IF s <= j /\ j < e THEN None ELSE st.cells[j]
    <3>1. s \in Nat /\ e \in Nat
      BY <2>1
    <3>2. cleared = FreeRange(st, s, e)
      BY <1>3 DEF clear_by_offset
    <3> HIDE DEF s, e, cleared
    <3>3. Emptied(FreeRange(st, s, e), n, st, s, e)
      BY <3>1, FreeRangeFrees, Zenon
    <3> QED BY <3>2, <3>3 DEF Emptied
  <2> HIDE DEF s, e, cleared
  <2>e. e = st.cells[s].at
    BY DEF e
  \* A OneStep cell is freed exactly if its run covers the offset.
  <2>3. \A k \in 0 .. n - 1 : st.cells[k].kind = "OneStep" =>
          ((s <= k /\ k < e) <=> (k <= i /\ i < st.cells[k].at))
    <3> SUFFICES ASSUME NEW k \in 0 .. n - 1, st.cells[k].kind = "OneStep"
                 PROVE  (s <= k /\ k < e) <=> (k <= i /\ i < st.cells[k].at)
      OBVIOUS
    <3>1. k < st.cells[k].at /\ st.cells[k].at \in Nat
      BY RunsDisjoint
    <3>2. s <= k /\ k < e => k = s
      BY <2>1, <2>e, <3>1, RunsDisjoint
    <3>3. k <= i /\ i < st.cells[k].at => k = s
      BY <2>1, <2>e, <3>1, RunsDisjoint
    <3> QED BY <2>1, <2>e, <3>2, <3>3
  <2>4. ASSUME NEW k \in 0 .. n - 1
        PROVE  cleared.cells[k].kind = "OneStep" <=>
                 /\ st.cells[k].kind = "OneStep"
                 /\ ~(k <= i /\ i < st.cells[k].at)
    BY <2>2, <2>3, CellShape
  <2>5. \A k \in 0 .. n - 1 : cleared.cells[k].kind = "OneStep" =>
          RunAt(cleared, k) = RunAt(st, k)
    BY <2>2, CellShape DEF RunAt
  <2>6. \A r : r \in runs(cleared) <=>
          r \in runs(st) /\ ~(r.start <= i /\ i < r.end)
    <3>1. \A r : r \in runs(cleared) <=>
            \E k \in 0 .. n - 1 :
              cleared.cells[k].kind = "OneStep" /\ r = RunAt(cleared, k)
      BY <2>2, RunsMember
    <3>2. \A r : r \in runs(cleared) <=>
            \E k \in 0 .. n - 1 :
              /\ st.cells[k].kind = "OneStep" /\ ~(k <= i /\ i < st.cells[k].at)
              /\ r = RunAt(st, k)
      BY <3>1, <2>4, <2>5
    <3>3. \A r : r \in runs(st) <=>
            \E k \in 0 .. n - 1 : st.cells[k].kind = "OneStep" /\ r = RunAt(st, k)
      BY RunsMember
    <3>4. \A k : RunAt(st, k).start = k /\ RunAt(st, k).end = st.cells[k].at
      BY RunsMember
    <3> QED BY <3>2, <3>3, <3>4
  <2> QED BY <2>6 DEF cleared
<1> QED BY <1>2, <1>3

\* add's clearing loop removes the runs that cover one of the cells it has passed.
LEMMA ClearLoopRuns ==
  ASSUME NEW n \in Nat, NEW st \in Stores(n), RunsWhole(st),
         NEW start \in Nat, NEW end \in Nat, start <= end, end <= n
  PROVE  \A i \in start .. end :
           runs(ClearLoop(st, start, end)[i]) =
             {r \in runs(st) : \A j \in start .. i - 1 : ~(r.start <= j /\ j < r.end)}
<1> DEFINE loop == ClearLoop(st, start, end)
           P == {i \in start .. end :
                   runs(loop[i]) = {r \in runs(st) : \A j \in start .. i - 1 :
                                      ~(r.start <= j /\ j < r.end)}}
<1>1. loop = [i \in start .. end |->
                IF i = start THEN st ELSE clear_by_offset(loop[i - 1], i - 1)]
  BY ClearLoopUnfolds
<1>2. \A i \in start .. end : loop[i] \in Stores(n) /\ RunsWhole(loop[i])
  BY ClearLoopInvariant
<1> HIDE DEF loop
<1>3. start \in P
  BY <1>1
<1>4. ASSUME NEW i \in start .. end - 1, i \in P
      PROVE  i + 1 \in P
  <2> DEFINE c == loop[i]
             d == loop[i + 1]
  <2>1. d = clear_by_offset(c, i) /\ c \in Stores(n) /\ RunsWhole(c) /\ i \in Nat
    BY <1>1, <1>2
  <2>2. runs(c) = {r \in runs(st) : \A j \in start .. i - 1 :
                     ~(r.start <= j /\ j < r.end)}
    BY <1>4
  <2> HIDE DEF c, d, P
  <2>3. runs(d) = {r \in runs(c) : ~(r.start <= i /\ i < r.end)}
    BY <2>1, ClearRuns
  <2>4. \A r : (\A j \in start .. i : ~(r.start <= j /\ j < r.end)) <=>
                 /\ \A j \in start .. i - 1 : ~(r.start <= j /\ j < r.end)
                 /\ ~(r.start <= i /\ i < r.end)
    OBVIOUS
  <2>5. runs(d) = {r \in runs(st) : \A j \in start .. i : ~(r.start <= j /\ j < r.end)}
    BY <2>2, <2>3, <2>4
  <2> QED BY <2>5 DEF P, d
<1>5. \A i \in start .. end : i \in P
  <2> HIDE DEF P
  <2> QED BY <1>3, <1>4, IntervalInduction
<1> QED BY <1>5 DEF loop

\* Writing a run over free cells adds that run and changes no other.
LEMMA WriteRunRuns ==
  ASSUME NEW n \in Nat, NEW st \in Stores(n),
         NEW start \in Nat, NEW end \in Nat, start < end, end <= n,
         NEW token \in Token,
         \A j \in start .. end - 1 : st.cells[j].kind = "None"
  PROVE  runs(WriteRun(st, start, end, token)) =
           runs(st) \union {[start |-> start, end |-> end, token |-> token]}
<1> DEFINE w == WriteRun(st, start, end, token)
           new == [start |-> start, end |-> end, token |-> token]
<1>1. /\ w \in Stores(n)
      /\ \A i \in 0 .. n - 1 :
           w.cells[i] = IF i = start THEN OneStep(token, end)
                        ELSE IF start < i /\ i < end THEN NoSearch(start)
                        ELSE st.cells[i]
  BY StoreShape, CellShape DEF WriteRun, Stores
<1> HIDE DEF w
<1>2. w.cells[start].kind = "OneStep" /\ RunAt(w, start) = new
  BY <1>1, CellShape DEF RunAt
<1>3. \A i \in 0 .. n - 1 :
        w.cells[i].kind = "OneStep" <=> i = start \/ st.cells[i].kind = "OneStep"
  <2> SUFFICES ASSUME NEW i \in 0 .. n - 1
               PROVE  w.cells[i].kind = "OneStep" <=>
                        i = start \/ st.cells[i].kind = "OneStep"
    OBVIOUS
  <2>1. CASE i = start
    BY <1>2, <2>1
  <2>2. CASE start < i /\ i < end
    BY <1>1, <2>2, CellShape
  <2>3. CASE i < start \/ end <= i
    BY <1>1, <2>3
  <2> QED BY <2>1, <2>2, <2>3
<1>4. \A i \in 0 .. n - 1 : st.cells[i].kind = "OneStep" => RunAt(w, i) = RunAt(st, i)
  BY <1>1 DEF RunAt
<1> HIDE DEF new
<1>5. \A r : r \in runs(w) <=> r \in runs(st) \/ r = new
  <2>1. /\ \A r : r \in runs(w) <=>
             \E i \in 0 .. n - 1 : w.cells[i].kind = "OneStep" /\ r = RunAt(w, i)
        /\ \A r : r \in runs(st) <=>
             \E i \in 0 .. n - 1 : st.cells[i].kind = "OneStep" /\ r = RunAt(st, i)
    BY <1>1, RunsMember
  <2>2. start \in 0 .. n - 1 /\ st.cells[start].kind = "None"
    OBVIOUS
  <2> QED BY <2>1, <2>2, <1>2, <1>3, <1>4
<1> QED BY <1>5 DEF w, new

\* add replaces, whole, the runs that its span overlaps; a span that is empty or
\* does not fit changes nothing.
LEMMA AddRuns ==
  ASSUME NEW n \in Nat, NEW st \in Stores(n), RunsWhole(st),
         NEW start \in Nat, NEW end \in Nat, NEW token \in Token
  PROVE  runs(add(st, start, end, token)) =
           IF end <= n /\ start < end
           THEN {r \in runs(st) : ~(r.start < end /\ start < r.end)}
                  \union {[start |-> start, end |-> end, token |-> token]}
           ELSE runs(st)
<1>0. st.len = n
  BY StoreShape
<1>1. CASE ~AddAccepts(st, start, end)
  BY <1>0, <1>1 DEF add, AddAccepts
<1>2. CASE AddAccepts(st, start, end)
  <2> DEFINE c == ClearLoop(st, start, end)[end]
             new == [start |-> start, end |-> end, token |-> token]
  <2>1. start < end /\ end <= n /\ end \in start .. end
    BY <1>0, <1>2 DEF AddAccepts
  <2>2. /\ c \in Stores(n)
        /\ \A j \in start .. end - 1 : c.cells[j].kind = "None"
    BY <2>1, ClearLoopInvariant
  <2>3. runs(c) = {r \in runs(st) : \A j \in start .. end - 1 :
                     ~(r.start <= j /\ j < r.end)}
    BY <2>1, ClearLoopRuns
  <2>4. add(st, start, end, token) = WriteRun(c, start, end, token)
    BY <1>2 DEF add
  <2> HIDE DEF c
  <2>5. runs(WriteRun(c, start, end, token)) = runs(c) \union {new}
    BY <2>1, <2>2, WriteRunRuns
  <2>6. ASSUME NEW r \in runs(st)
        PROVE  (\A j \in start .. end - 1 : ~(r.start <= j /\ j < r.end)) <=>
                 ~(r.start < end /\ start < r.end)
    <3>1. r.start \in Nat /\ r.end \in Nat /\ r.start < r.end
      <4>1. PICK k \in 0 .. n - 1 : st.cells[k].kind = "OneStep" /\ r = RunAt(st, k)
        BY RunsMember
      <4>2. r.start = k /\ r.end = st.cells[k].at
        BY <4>1, RunsMember
      <4> QED BY <4>1, <4>2, RunsDisjoint
    <3>2. ASSUME r.start < end, start < r.end
          PROVE  \E j \in start .. end - 1 : r.start <= j /\ j < r.end
      <4>1. CASE r.start <= start
        <5>1. start \in start .. end - 1
          BY <2>1
        <5> QED BY <3>2, <4>1, <5>1
      <4>2. CASE start < r.start
        <5>1. r.start \in start .. end - 1
          BY <3>1, <3>2, <4>2
        <5> QED BY <3>1, <5>1
      <4> QED BY <3>1, <4>1, <4>2
    <3> QED BY <3>1, <3>2
  <2> HIDE DEF new
  <2>7. runs(c) = {r \in runs(st) : ~(r.start < end /\ start < r.end)}
    BY <2>3, <2>6
  <2> QED BY <2>1, <2>4, <2>5, <2>7 DEF new
<1> QED BY <1>1, <1>2

\* Growing the array changes no run.
LEMMA GrowRuns ==
  ASSUME NEW m \in Nat, NEW st \in Stores(m), NEW n \in Nat, m <= n
  PROVE  runs(resize(st, n)) = runs(st)
<1> DEFINE r == resize(st, n)
<1>1. /\ r \in Stores(n)
      /\ \A i \in 0 .. n - 1 : r.cells[i] = IF i < m THEN st.cells[i] ELSE None
  BY ResizeShape
<1> HIDE DEF r
<1>2. \A i \in 0 .. n - 1 : r.cells[i].kind = "OneStep" <=>
        i \in 0 .. m - 1 /\ st.cells[i].kind = "OneStep"
  BY <1>1, CellShape
<1>3. \A i \in 0 .. m - 1 : i \in 0 .. n - 1 /\ RunAt(r, i) = RunAt(st, i)
  BY <1>1 DEF RunAt
<1>4. /\ \A x : x \in runs(r) <=>
           \E i \in 0 .. n - 1 : r.cells[i].kind = "OneStep" /\ x = RunAt(r, i)
      /\ \A x : x \in runs(st) <=>
           \E i \in 0 .. m - 1 : st.cells[i].kind = "OneStep" /\ x = RunAt(st, i)
  BY <1>1, RunsMember
<1>5. \A x : x \in runs(r) <=> x \in runs(st)
  BY <1>2, <1>3, <1>4
<1> QED BY <1>5 DEF r

\* The run of the k-th phrase of a row.
PhraseRun(other, tail, k) ==
  [start |-> other[k].start,
   end |-> IF k < Len(other) THEN other[k + 1].start ELSE tail,
   token |-> other[k].token]

\* diff_result forces no run but those of the row's own phrases.
LEMMA DiffRuns ==
  ASSUME NEW n \in Nat, NEW st \in Stores(n), RunsWhole(st),
         NEW best, NEW other \in Seq(Span), NEW tail \in Nat
  PROVE  \A r \in runs(diff_result(st, best, other, tail)) :
           r \in runs(st) \/ \E k \in 1 .. Len(other) : r = PhraseRun(other, tail, k)
<1> DEFINE loop == DiffLoop(st, best, other, tail)
           Own(r) == r \in runs(st) \/ \E k \in 1 .. Len(other) : r = PhraseRun(other, tail, k)
           P == {k \in 0 .. Len(other) : \A r \in runs(loop[k]) : Own(r)}
<1>1. Len(other) \in Nat
  OBVIOUS
<1>2. loop = [k \in 0 .. Len(other) |->
                IF k = 0 THEN st
                ELSE DiffStep(loop[k - 1], best, other, tail, k)]
  BY <1>1, DiffLoopUnfolds
<1>3. \A k \in 0 .. Len(other) : loop[k] \in Stores(n) /\ RunsWhole(loop[k])
  BY DiffLoopPreservesRuns
<1> HIDE DEF loop
<1>4. 0 \in P
  BY <1>1, <1>2
<1>5. ASSUME NEW k \in 0 .. Len(other) - 1, k \in P
      PROVE  k + 1 \in P
  <2> DEFINE c == loop[k]
             start == other[k + 1].start
             end == IF k + 1 < Len(other) THEN other[k + 1 + 1].start ELSE tail
             token == other[k + 1].token
             new == [start |-> start, end |-> end, token |-> token]
  <2>1. c \in Stores(n) /\ RunsWhole(c)
    BY <1>1, <1>3
  <2>2. loop[k + 1] = DiffStep(c, best, other, tail, k + 1)
    BY <1>1, <1>2
  <2>3. start \in Nat /\ token \in Token /\ end \in Nat
    <3>1. \A j \in 1 .. Len(other) : other[j] \in Span
      OBVIOUS
    <3>2. \A j \in 1 .. Len(other) : other[j].start \in Nat /\ other[j].token \in Token
      BY <3>1 DEF Span
    <3>3. k + 1 \in 1 .. Len(other)
      BY <1>1
    <3>4. k + 1 < Len(other) => k + 1 + 1 \in 1 .. Len(other)
      BY <1>1
    <3> QED
      BY <3>2, <3>3, <3>4
  <2>4. DiffStep(c, best, other, tail, k + 1) \in {c, add(c, start, end, token)}
    BY DEF DiffStep
  <2>5. new = PhraseRun(other, tail, k + 1) /\ k + 1 \in 1 .. Len(other)
    BY <1>1 DEF PhraseRun
  <2>6. Own(new)
    BY <2>5
  <2>7. \A r \in runs(c) : Own(r)
    BY <1>5
  <2> HIDE DEF c, start, end, token, P, Own
  <2>8. runs(add(c, start, end, token)) \subseteq runs(c) \union {new}
    BY <2>1, <2>3, AddRuns
  <2>9. \A r \in runs(loop[k + 1]) : Own(r)
    BY <2>2, <2>4, <2>6, <2>7, <2>8
  <2> QED
    BY <1>1, <2>9 DEF P
<1>6. \A k \in 0 .. Len(other) : k \in P
  <2> HIDE DEF P
  <2> QED
    BY <1>1, <1>4, <1>5, IntervalInduction
<1>7. Len(other) \in 0 .. Len(other)
  BY <1>1
<1> QED
  BY <1>6, <1>7 DEF loop, diff_result

\* Revalidation keeps, unchanged, the runs that start in the array and are not
\* dropped.
LEMMA ValidateRuns ==
  ASSUME NEW m \in Nat, NEW st \in Stores(m), RunsWhole(st),
         NEW n \in Nat, NEW dropped,
         dropped \subseteq {s \in 0 .. n - 1 :
                              resize(st, n).cells[s].kind = "OneStep"}
  PROVE  runs(Revalidated(st, n, dropped)) =
           {r \in runs(st) : r.start < n /\ r.start \notin dropped}
<1> DEFINE r == resize(st, n)
           v == Revalidated(st, n, dropped)
           Freed(i) == \E s \in dropped : s <= i /\ i < r.cells[s].at
<1>1. /\ r \in Stores(n)
      /\ \A i \in 0 .. n - 1 : r.cells[i] = IF i < m THEN st.cells[i] ELSE None
  BY ResizeShape
<1>2. \A i \in 0 .. n - 1 : r.cells[i].at \in Nat /\ r.cells[i] \in Cell
  BY <1>1, StoreShape
<1>3. /\ v \in Stores(n)
      /\ \A i \in 0 .. n - 1 :
           v.cells[i] = IF Freed(i) THEN None ELSE r.cells[i]
  BY <1>1, <1>2, CellShape DEF Revalidated, Stores
<1>4. dropped \subseteq 0 .. n - 1 /\ \A s \in dropped : r.cells[s].kind = "OneStep"
  OBVIOUS
<1> HIDE DEF r, v
<1>5. \A i \in 0 .. n - 1 : r.cells[i].kind = "OneStep" <=>
        i \in 0 .. m - 1 /\ st.cells[i].kind = "OneStep"
  BY <1>1, CellShape
<1>6. ASSUME NEW i \in 0 .. n - 1, r.cells[i].kind = "OneStep"
      PROVE  Freed(i) <=> i \in dropped
  <2>1. /\ i \in 0 .. m - 1 /\ st.cells[i].kind = "OneStep"
        /\ r.cells[i] = st.cells[i]
    BY <1>1, <1>5, <1>6
  <2>2. i < r.cells[i].at
    BY <2>1, RunsDisjoint
  <2>3. ASSUME NEW s \in dropped, s <= i, i < r.cells[s].at
        PROVE  s = i
    <3>1. /\ s \in 0 .. m - 1 /\ st.cells[s].kind = "OneStep"
          /\ r.cells[s] = st.cells[s]
      BY <1>1, <1>4, <1>5
    <3> QED BY <2>1, <2>2, <2>3, <3>1, RunsDisjoint
  <2> QED BY <2>2, <2>3
<1> HIDE DEF Freed
<1>7. \A i \in 0 .. n - 1 : v.cells[i].kind = "OneStep" <=>
        i \in 0 .. m - 1 /\ st.cells[i].kind = "OneStep" /\ i \notin dropped
  BY <1>3, <1>5, <1>6, CellShape
<1>8. \A i \in 0 .. n - 1 : v.cells[i].kind = "OneStep" => RunAt(v, i) = RunAt(st, i)
  <2> SUFFICES ASSUME NEW i \in 0 .. n - 1, v.cells[i].kind = "OneStep"
               PROVE  v.cells[i] = st.cells[i]
    BY DEF RunAt
  <2> QED BY <1>1, <1>3, <1>7, CellShape
<1>9. /\ \A x : x \in runs(v) <=>
           \E i \in 0 .. n - 1 : v.cells[i].kind = "OneStep" /\ x = RunAt(v, i)
      /\ \A x : x \in runs(st) <=>
           \E i \in 0 .. m - 1 : st.cells[i].kind = "OneStep" /\ x = RunAt(st, i)
      /\ \A i : RunAt(st, i).start = i
  BY <1>3, RunsMember
<1>10. \A x : x \in runs(v) <=> x \in runs(st) /\ x.start < n /\ x.start \notin dropped
  BY <1>7, <1>8, <1>9
<1> QED BY <1>10 DEF v

--------------------------------------------------------------------------------
\* Every forcing has a token and ends behind its start.  This much every store
\* keeps, also one whose runs were cut by a resize that no validate followed.
Sound(st) ==
  \A i \in 0 .. st.len - 1 :
    st.cells[i].kind = "OneStep" => st.cells[i].token \in Token /\ i < st.cells[i].at

\* A store whose cells are free, pointers, or forcings of a sound store is sound.
LEMMA SoundCells ==
  ASSUME NEW m \in Nat, NEW st \in Stores(m), Sound(st),
         NEW n \in Nat, NEW new \in Stores(n),
         \A i \in 0 .. n - 1 :
           \/ new.cells[i].kind # "OneStep"
           \/ i < m /\ new.cells[i] = st.cells[i]
           \/ new.cells[i].token \in Token /\ i < new.cells[i].at
  PROVE  Sound(new)
<1>1. st.len = m /\ new.len = n
  BY StoreShape
<1> QED
  BY <1>1 DEF Sound

\* Whole runs are sound.
LEMMA WholeIsSound ==
  ASSUME NEW n \in Nat, NEW st \in Stores(n), RunsWhole(st)
  PROVE  Sound(st)
BY StoreShape DEF Sound, RunsWhole

\* resize keeps a store sound, whether it grows or shrinks.
LEMMA ResizeSound ==
  ASSUME NEW m \in Nat, NEW st \in Stores(m), Sound(st), NEW n \in Nat
  PROVE  resize(st, n) \in Stores(n) /\ Sound(resize(st, n))
<1> DEFINE r == resize(st, n)
<1>1. /\ r \in Stores(n)
      /\ \A i \in 0 .. n - 1 : r.cells[i] = IF i < m THEN st.cells[i] ELSE None
  BY ResizeShape
<1> HIDE DEF r
<1>2. \A i \in 0 .. n - 1 :
        r.cells[i].kind # "OneStep" \/ (i < m /\ r.cells[i] = st.cells[i])
  BY <1>1, CellShape
<1>3. Sound(r)
  BY <1>1, <1>2, SoundCells
<1> QED
  BY <1>1, <1>3 DEF r

\* clear_by_offset keeps a store sound.
LEMMA ClearSound ==
  ASSUME NEW n \in Nat, NEW st \in Stores(n), Sound(st), NEW i \in Nat
  PROVE  clear_by_offset(st, i) \in Stores(n) /\ Sound(clear_by_offset(st, i))
<1> DEFINE s == RunStart(st, i)
           e == st.cells[s].at
           c == clear_by_offset(st, i)
<1>1. CASE ~ClearsAt(st, i)
  BY <1>1 DEF clear_by_offset
<1>2. CASE ClearsAt(st, i)
  <2>1. s \in Nat /\ s < n
    BY <1>2, StoreShape DEF ClearsAt, is_one_step_at
  <2>2. e \in Nat
    BY <2>1, StoreShape
  <2>3. c = FreeRange(st, s, e)
    BY <1>2 DEF clear_by_offset
  <2> HIDE DEF s, e, c
  <2>4. Emptied(FreeRange(st, s, e), n, st, s, e)
    BY <2>1, <2>2, FreeRangeFrees, Zenon
  <2>5. c \in Stores(n) /\ \A j \in 0 .. n - 1 :
          c.cells[j].kind # "OneStep" \/ (j < n /\ c.cells[j] = st.cells[j])
    BY <2>3, <2>4, CellShape DEF Emptied
  <2>6. Sound(c)
    BY <2>5, SoundCells
  <2> QED
    BY <2>5, <2>6 DEF c
<1> QED
  BY <1>1, <1>2

\* add keeps a store sound: its clearing loop does, and what it writes ends behind
\* its start.
LEMMA AddSound ==
  ASSUME NEW n \in Nat, NEW st \in Stores(n), Sound(st),
         NEW start \in Nat, NEW end \in Nat, NEW token \in Token
  PROVE  add(st, start, end, token) \in Stores(n) /\ Sound(add(st, start, end, token))
<1>1. CASE ~AddAccepts(st, start, end)
  BY <1>1 DEF add
<1>2. CASE AddAccepts(st, start, end)
  <2>1. start < end /\ end <= n
    BY <1>2, StoreShape DEF AddAccepts
  <2> DEFINE loop == ClearLoop(st, start, end)
             P == {i \in start .. end : loop[i] \in Stores(n) /\ Sound(loop[i])}
  <2>2. loop = [i \in start .. end |->
                  IF i = start THEN st ELSE clear_by_offset(loop[i - 1], i - 1)]
    BY <2>1, ClearLoopUnfolds
  <2> HIDE DEF loop
  <2>3. start \in P
    BY <2>1, <2>2
  <2>4. ASSUME NEW i \in start .. end - 1, i \in P
        PROVE  i + 1 \in P
    <3> DEFINE c == loop[i]
    <3>1. loop[i + 1] = clear_by_offset(c, i)
      BY <2>2
    <3>2. c \in Stores(n) /\ Sound(c) /\ i \in Nat /\ i + 1 \in start .. end
      BY <2>1, <2>4
    <3> HIDE DEF P, c
    <3>3. clear_by_offset(c, i) \in Stores(n) /\ Sound(clear_by_offset(c, i))
      BY <3>2, ClearSound
    <3> QED
      BY <3>1, <3>2, <3>3 DEF P
  <2>5. end \in P
    <3> HIDE DEF P
    <3>1. \A i \in start .. end : i \in P
      BY <2>3, <2>4, IntervalInduction
    <3> QED
      BY <2>1, <3>1
  <2> DEFINE c == loop[end]
             w == WriteRun(c, start, end, token)
  <2>6. c \in Stores(n) /\ Sound(c)
    BY <2>5
  <2> HIDE DEF P, c
  <2>7. w = [len |-> n,
             cells |-> [i \in 0 .. n - 1 |->
                          IF i = start THEN OneStep(token, end)
                          ELSE IF start < i /\ i < end THEN NoSearch(start)
                          ELSE c.cells[i]]]
    BY <2>6, StoreShape DEF WriteRun
  <2>8. w \in Stores(n)
    BY <2>6, <2>7, StoreShape, CellShape DEF Stores
  <2>9. \A i \in 0 .. n - 1 :
          w.cells[i] = IF i = start THEN OneStep(token, end)
                       ELSE IF start < i /\ i < end THEN NoSearch(start)
                       ELSE c.cells[i]
    BY <2>7
  <2>10. \A i \in 0 .. n - 1 :
           \/ w.cells[i].kind # "OneStep"
           \/ i < n /\ w.cells[i] = c.cells[i]
           \/ w.cells[i].token \in Token /\ i < w.cells[i].at
    BY <2>1, <2>9, CellShape
  <2> HIDE DEF w
  <2>11. Sound(w)
    BY <2>6, <2>8, <2>10, SoundCells
  <2>12. add(st, start, end, token) = w
    BY <1>2 DEF add, w, c, loop
  <2> QED
    BY <2>8, <2>11, <2>12
<1> QED
  BY <1>1, <1>2

\* Dropping forcings keeps a store sound.
LEMMA RevalidatedSound ==
  ASSUME NEW m \in Nat, NEW st \in Stores(m), Sound(st), NEW n \in Nat, NEW dropped
  PROVE  /\ Revalidated(st, n, dropped) \in Stores(n)
         /\ Sound(Revalidated(st, n, dropped))
<1> DEFINE r == resize(st, n)
           v == Revalidated(st, n, dropped)
<1>1. r \in Stores(n) /\ Sound(r)
  BY ResizeSound
<1>2. v = [len |-> n,
           cells |-> [i \in 0 .. n - 1 |->
                        IF \E s \in dropped : s <= i /\ i < r.cells[s].at
                        THEN None ELSE r.cells[i]]]
  BY DEF Revalidated
<1> HIDE DEF r
<1>3. v \in Stores(n)
  BY <1>1, <1>2, StoreShape, CellShape DEF Stores
<1>4. \A i \in 0 .. n - 1 :
        v.cells[i].kind # "OneStep" \/ (i < n /\ v.cells[i] = r.cells[i])
  BY <1>2, CellShape, SMTT(30)
<1> HIDE DEF v
<1>5. Sound(v)
  BY <1>1, <1>3, <1>4, SoundCells
<1> QED
  BY <1>3, <1>5 DEF v

\* diff_result keeps a store sound.
LEMMA DiffResultSound ==
  ASSUME NEW n \in Nat, NEW st \in Stores(n), Sound(st),
         NEW best, NEW other \in Seq(Span), NEW tail \in Nat
  PROVE  /\ diff_result(st, best, other, tail) \in Stores(n)
         /\ Sound(diff_result(st, best, other, tail))
<1> DEFINE loop == DiffLoop(st, best, other, tail)
           P == {k \in 0 .. Len(other) : loop[k] \in Stores(n) /\ Sound(loop[k])}
<1>1. Len(other) \in Nat
  OBVIOUS
<1>2. loop = [k \in 0 .. Len(other) |->
                IF k = 0 THEN st
                ELSE DiffStep(loop[k - 1], best, other, tail, k)]
  BY <1>1, DiffLoopUnfolds
<1> HIDE DEF loop
<1>3. 0 \in P
  BY <1>1, <1>2
<1>4. ASSUME NEW k \in 0 .. Len(other) - 1, k \in P
      PROVE  k + 1 \in P
  <2> DEFINE c == loop[k]
             end == IF k + 1 < Len(other) THEN other[k + 1 + 1].start ELSE tail
  <2>1. c \in Stores(n) /\ Sound(c)
    BY <1>4
  <2>2. loop[k + 1] = DiffStep(c, best, other, tail, k + 1)
    BY <1>1, <1>2
  <2>3. /\ other[k + 1].start \in Nat
        /\ other[k + 1].token \in Token
        /\ end \in Nat
    <3>1. \A j \in 1 .. Len(other) : other[j] \in Span
      OBVIOUS
    <3>2. \A j \in 1 .. Len(other) : other[j].start \in Nat /\ other[j].token \in Token
      BY <3>1 DEF Span
    <3>3. k + 1 \in 1 .. Len(other)
      BY <1>1
    <3>4. k + 1 < Len(other) => k + 1 + 1 \in 1 .. Len(other)
      BY <1>1
    <3> QED
      BY <3>2, <3>3, <3>4
  <2>4. DiffStep(c, best, other, tail, k + 1)
          \in {c, add(c, other[k + 1].start, end, other[k + 1].token)}
    BY DEF DiffStep
  <2> HIDE DEF c, end, P
  <2>5. /\ add(c, other[k + 1].start, end, other[k + 1].token) \in Stores(n)
        /\ Sound(add(c, other[k + 1].start, end, other[k + 1].token))
    BY <2>1, <2>3, AddSound
  <2>6. loop[k + 1] \in Stores(n) /\ Sound(loop[k + 1])
    BY <2>1, <2>2, <2>4, <2>5
  <2> QED
    BY <1>1, <2>6 DEF P
<1>5. \A k \in 0 .. Len(other) : k \in P
  <2> HIDE DEF P
  <2> QED
    BY <1>1, <1>3, <1>4, IntervalInduction
<1>6. Len(other) \in P
  BY <1>1, <1>5
<1> QED
  BY <1>6 DEF loop, diff_result

================================================================================
