------------------------- MODULE ConstraintStoreProofs -------------------------
(***************************************************************************)
(* Proofs about ConstraintStore, for every Token set, array bound and set   *)
(* of sentence rows: its runs stay whole, and it implements ForcedRuns.     *)
(***************************************************************************)
EXTENDS ConstraintStore, ConstraintCellsProofs

\* The inductive invariant: the store is an array within the bound, and every
\* run in it is whole.  Neither half is needed for the other to be stated, but
\* clear_by_offset keeps runs whole only if the back-pointers it follows are.
Inv == TypeOK /\ WellFormed

\* Each operation of the store takes a store with whole runs to another.
LEMMA NextPreservesInv == Inv /\ [Next]_store => Inv'
<1> SUFFICES ASSUME Inv, [Next]_store PROVE Inv'
  OBVIOUS
<1> USE MaxLenAssumption
<1>1. PICK m \in 0 .. MaxLen : store \in Stores(m)
  BY DEF Inv, TypeOK
<1>2. m \in Nat /\ RunsWhole(store) /\ store.len = m
  BY <1>1, StoreShape DEF Inv, WellFormed
<1>3. SUFFICES \E n \in 0 .. MaxLen : store' \in Stores(n) /\ RunsWhole(store')
  BY DEF Inv, TypeOK, WellFormed, RunsWhole, is_one_step_at
<1>4. ASSUME NEW n \in 0 .. MaxLen, Grow(n)
      PROVE  store' \in Stores(n) /\ RunsWhole(store')
  BY <1>1, <1>2, <1>4, GrowPreservesRuns DEF Grow
<1>5. ASSUME NEW start \in 0 .. MaxLen, NEW end \in 0 .. MaxLen,
             NEW token \in Token, Add(start, end, token)
      PROVE  store' \in Stores(m) /\ RunsWhole(store')
  BY <1>1, <1>2, <1>5, AddPreservesRuns DEF Add
<1>6. ASSUME NEW best \in Rows, NEW other \in Rows, NEW tail \in 0 .. MaxLen,
             DiffResult(best, other, tail)
      PROVE  store' \in Stores(m) /\ RunsWhole(store')
  BY <1>1, <1>2, <1>6, RowsAssumption, DiffResultPreservesRuns DEF DiffResult
<1>7. ASSUME NEW i \in 0 .. MaxLen, ClearByOffset(i)
      PROVE  store' \in Stores(m) /\ RunsWhole(store')
  BY <1>1, <1>2, <1>7, ClearPreservesRuns DEF ClearByOffset
<1>8. ASSUME NEW n \in 0 .. MaxLen, NEW spelled \in SUBSET (0 .. MaxLen),
             Validate(n, spelled)
      PROVE  store' \in Stores(n) /\ RunsWhole(store')
  <2> DEFINE r == resize(store, n)
             dropped == {s \in 0 .. r.len - 1 :
                           /\ r.cells[s].kind = "OneStep"
                           /\ \/ r.cells[s].at >= r.len
                              \/ ~(s \in spelled)}
  <2>1. r.len = n
    BY DEF resize
  <2>2. store' = Revalidated(store, n, dropped)
    BY <1>8, Zenon DEF Validate, validate, Dropped, Revalidated
  <2>3. /\ dropped \subseteq {s \in 0 .. n - 1 :
                                 resize(store, n).cells[s].kind = "OneStep"}
        /\ \A s \in 0 .. n - 1 :
             /\ resize(store, n).cells[s].kind = "OneStep"
             /\ resize(store, n).cells[s].at >= n
             => s \in dropped
    BY <2>1
  <2> HIDE DEF r, dropped
  <2>4. n \in Nat
    OBVIOUS
  <2>5. /\ Revalidated(store, n, dropped) \in Stores(n)
        /\ RunsWhole(Revalidated(store, n, dropped))
    BY <1>1, <1>2, <2>3, <2>4, ValidateMends
  <2> QED
    BY <2>2, <2>5
<1>9. ASSUME Clear
      PROVE  store' \in Stores(0) /\ RunsWhole(store')
  BY <1>9 DEF Clear, EmptyStore, Stores, RunsWhole
<1>10. ASSUME UNCHANGED store
       PROVE  store' \in Stores(m) /\ RunsWhole(store')
  BY <1>1, <1>2, <1>10
<1> QED
  BY <1>4, <1>5, <1>6, <1>7, <1>8, <1>9, <1>10 DEF Next

\* Every reachable store is an array of at most MaxLen cells.
THEOREM TypeCorrect == Spec => []TypeOK
<1>1. Init => Inv
  BY MaxLenAssumption
     DEF Init, Inv, TypeOK, WellFormed, EmptyStore, Stores, RunsWhole
<1>2. Inv => TypeOK
  BY DEF Inv
<1> QED
  BY <1>1, <1>2, NextPreservesInv, PTL DEF Spec

\* Every reachable store has whole runs: no sequence of add, diff_result,
\* clear_by_offset, validate, growing resize and clear leaves a NoSearch cell
\* without its OneStep, or a OneStep whose interior another run has taken.
THEOREM RunsStayWhole == Spec => []WellFormed
<1>1. Init => Inv
  BY MaxLenAssumption
     DEF Init, Inv, TypeOK, WellFormed, EmptyStore, Stores, RunsWhole
<1>2. Inv => WellFormed
  BY DEF Inv
<1> QED
  BY <1>1, <1>2, NextPreservesInv, PTL DEF Spec

--------------------------------------------------------------------------------
\* add does to the cells what Forced does to the runs.
LEMMA AddForces ==
  ASSUME NEW n \in Nat, NEW st \in Stores(n), RunsWhole(st),
         NEW start \in Nat, NEW end \in Nat, NEW token \in Token
  PROVE  runs(add(st, start, end, token)) =
           Abstract!Forced(runs(st), n, start, end, token)
BY AddRuns DEF Abstract!Forced, Abstract!Overlaps

\* diff_result's cells and the abstract row of forcings go through the same runs,
\* phrase by phrase.
LEMMA DiffResultRuns ==
  ASSUME NEW n \in Nat, NEW st \in Stores(n), RunsWhole(st),
         NEW best, NEW other \in Seq(Span), NEW tail \in Nat
  PROVE  runs(diff_result(st, best, other, tail)) =
           Abstract!RowForced(runs(st), n, best, other, tail)[Len(other)]
<1> DEFINE loop == DiffLoop(st, best, other, tail)
           End(k) == IF k < Len(other) THEN other[k + 1].start ELSE tail
           Step(rs, k) ==
             IF Abstract!Shared(best, other[k]) THEN rs
             ELSE Abstract!Forced(rs, n, other[k].start, End(k), other[k].token)
           Goes(f) == f = [k \in 0 .. Len(other) |->
                             IF k = 0 THEN runs(st) ELSE Step(f[k - 1], k)]
           after == CHOOSE f : Goes(f)
           g == [k \in 0 .. Len(other) |-> runs(loop[k])]
<1>1. Len(other) \in Nat
  OBVIOUS
<1>2. loop = [k \in 0 .. Len(other) |->
                IF k = 0 THEN st
                ELSE DiffStep(loop[k - 1], best, other, tail, k)]
  BY <1>1, DiffLoopUnfolds
<1>3. \A k \in 0 .. Len(other) : loop[k] \in Stores(n) /\ RunsWhole(loop[k])
  BY DiffLoopPreservesRuns
<1> HIDE DEF loop
<1>4. ASSUME NEW k \in 1 .. Len(other)
      PROVE  runs(loop[k]) = Step(runs(loop[k - 1]), k)
  <2> DEFINE c == loop[k - 1]
  <2>1. c \in Stores(n) /\ RunsWhole(c)
    BY <1>1, <1>3
  <2>2. loop[k] = DiffStep(c, best, other, tail, k)
    BY <1>1, <1>2
  <2>3. other[k].start \in Nat /\ other[k].token \in Token /\ End(k) \in Nat
    <3>1. \A j \in 1 .. Len(other) : other[j] \in Span
      OBVIOUS
    <3>2. \A j \in 1 .. Len(other) : other[j].start \in Nat /\ other[j].token \in Token
      BY <3>1 DEF Span
    <3>3. k < Len(other) => k + 1 \in 1 .. Len(other)
      BY <1>1
    <3> QED BY <3>2, <3>3
  <2>4. CASE Abstract!Shared(best, other[k])
    <3>1. loop[k] = c
      BY <2>2, <2>4 DEF DiffStep, Abstract!Shared
    <3> QED BY <3>1, <2>4
  <2>5. CASE ~Abstract!Shared(best, other[k])
    <3>1. loop[k] = add(c, other[k].start, End(k), other[k].token)
      BY <2>2, <2>5 DEF DiffStep, Abstract!Shared
    <3> DEFINE a == other[k].start
               e == End(k)
               t == other[k].token
    <3>2. a \in Nat /\ e \in Nat /\ t \in Token
      BY <2>3
    <3> HIDE DEF c, a, e, t
    <3>3. runs(add(c, a, e, t)) = Abstract!Forced(runs(c), n, a, e, t)
      BY <2>1, <3>2, AddForces
    <3> QED BY <2>5, <3>1, <3>3 DEF c, a, e, t
  <2> QED BY <2>4, <2>5
<1> HIDE DEF Step
<1>5. Goes(g)
  <2>1. \A k \in 0 .. Len(other) :
          g[k] = IF k = 0 THEN runs(st) ELSE Step(g[k - 1], k)
    <3> TAKE k \in 0 .. Len(other)
    <3>1. CASE k = 0
      BY <1>1, <1>2, <3>1
    <3>2. CASE k # 0
      <4>1. k \in 1 .. Len(other) /\ k - 1 \in 0 .. Len(other)
        BY <1>1, <3>2
      <4>2. g[k] = runs(loop[k]) /\ g[k - 1] = runs(loop[k - 1])
        BY <4>1
      <4>3. runs(loop[k]) = Step(runs(loop[k - 1]), k)
        BY <4>1, <1>4
      <4> QED BY <3>2, <4>2, <4>3
    <3> QED BY <3>1, <3>2
  <2> QED BY <2>1
<1>6. Goes(after)
  <2> HIDE DEF Goes, g
  <2> QED BY <1>5
<1> HIDE DEF after, g
<1>7. \A k \in 0 .. Len(other) : after[k] = g[k]
  <2> DEFINE P == {k \in 0 .. Len(other) : after[k] = g[k]}
  <2>1. 0 \in P
    <3>1. 0 \in 0 .. Len(other)
      BY <1>1
    <3> QED BY <3>1, <1>5, <1>6
  <2>2. ASSUME NEW k \in 0 .. Len(other) - 1, k \in P
        PROVE  k + 1 \in P
    <3>1. /\ after[k + 1] = Step(after[k], k + 1)
          /\ g[k + 1] = Step(g[k], k + 1)
      <4>1. k + 1 \in 0 .. Len(other) /\ k + 1 # 0 /\ k + 1 - 1 = k
        BY <1>1
      <4> QED BY <4>1, <1>5, <1>6
    <3> QED BY <1>1, <2>2, <3>1
  <2>3. \A k \in 0 .. Len(other) : k \in P
    <3> HIDE DEF P
    <3> QED BY <1>1, <2>1, <2>2, IntervalInduction
  <2> QED BY <2>3
<1>8. Abstract!RowForced(runs(st), n, best, other, tail) = after
  BY DEF Abstract!RowForced, after, Step
<1> QED BY <1>1, <1>7, <1>8 DEF diff_result, loop, g

\* Each operation on the cells is the operation of the same name on the runs.
LEMMA NextRefines == Inv /\ [Next]_store => [Abstract!Next]_<<runs(store), store.len>>
<1> SUFFICES ASSUME Inv, [Next]_store
             PROVE  \/ Abstract!Next
                    \/ runs(store') = runs(store) /\ store'.len = store.len
  BY DEF runs
<1> USE MaxLenAssumption
<1>1. PICK m \in 0 .. MaxLen : store \in Stores(m)
  BY DEF Inv, TypeOK
<1>2. m \in Nat /\ RunsWhole(store) /\ store.len = m
  BY <1>1, StoreShape DEF Inv, WellFormed
<1>3. ASSUME NEW n \in 0 .. MaxLen, Grow(n)
      PROVE  Abstract!Grow(n)
  <2>1. runs(store') = runs(store)
    BY <1>1, <1>2, <1>3, GrowRuns DEF Grow
  <2>2. store'.len = n /\ store.len <= n
    BY <1>2, <1>3 DEF Grow, resize
  <2> QED BY <2>1, <2>2 DEF Abstract!Grow, runs
<1>4. ASSUME NEW start \in 0 .. MaxLen, NEW end \in 0 .. MaxLen,
             NEW token \in Token, Add(start, end, token)
      PROVE  Abstract!Force(start, end, token)
  <2>1. runs(store') = Abstract!Forced(runs(store), store.len, start, end, token)
    BY <1>1, <1>2, <1>4, AddForces DEF Add
  <2>2. store' \in Stores(m)
    BY <1>1, <1>2, <1>4, AddPreservesRuns DEF Add
  <2>3. store'.len = store.len
    BY <1>2, <2>2, StoreShape
  <2> QED BY <2>1, <2>3 DEF Abstract!Force, runs
<1>5. ASSUME NEW best \in Rows, NEW other \in Rows, NEW tail \in 0 .. MaxLen,
             DiffResult(best, other, tail)
      PROVE  Abstract!ForceRow(best, other, tail)
  <2>0. other \in Seq(Span) /\ tail \in Nat
    BY RowsAssumption
  <2>1. runs(store') =
          Abstract!RowForced(runs(store), store.len, best, other, tail)[Len(other)]
    BY <1>1, <1>2, <1>5, <2>0, DiffResultRuns DEF DiffResult
  <2>2. store' \in Stores(m)
    BY <1>1, <1>2, <1>5, <2>0, DiffResultPreservesRuns DEF DiffResult
  <2>3. store'.len = store.len
    BY <1>2, <2>2, StoreShape
  <2> QED BY <2>1, <2>3 DEF Abstract!ForceRow, runs
<1>6. ASSUME NEW i \in 0 .. MaxLen, ClearByOffset(i)
      PROVE  Abstract!Unforce(i)
  <2>1. runs(store') = {r \in runs(store) : ~(r.start <= i /\ i < r.end)}
    BY <1>1, <1>2, <1>6, ClearRuns DEF ClearByOffset
  <2>2. store' \in Stores(m)
    BY <1>1, <1>2, <1>6, ClearPreservesRuns DEF ClearByOffset
  <2>3. store'.len = store.len
    BY <1>2, <2>2, StoreShape
  <2> QED BY <2>1, <2>3 DEF Abstract!Unforce, runs
<1>7. ASSUME NEW n \in 0 .. MaxLen, NEW spelled \in SUBSET (0 .. MaxLen),
             Validate(n, spelled)
      PROVE  Abstract!Revalidate(n, spelled)
  <2> DEFINE r == resize(store, n)
             dropped == {s \in 0 .. r.len - 1 :
                           /\ r.cells[s].kind = "OneStep"
                           /\ \/ r.cells[s].at >= r.len
                              \/ ~(s \in spelled)}
  <2>1. r.len = n
    BY DEF resize
  <2>2. store' = Revalidated(store, n, dropped)
    BY <1>7, Zenon DEF Validate, validate, Dropped, Revalidated
  <2>3. dropped \subseteq {s \in 0 .. n - 1 : resize(store, n).cells[s].kind = "OneStep"}
    BY <2>1
  <2>4. \A s \in 0 .. n - 1 : s \in dropped <=>
          /\ r.cells[s].kind = "OneStep"
          /\ r.cells[s].at >= n \/ s \notin spelled
    BY <2>1
  <2>5. \A s \in 0 .. n - 1 : r.cells[s] = IF s < m THEN store.cells[s] ELSE None
    BY <1>1, <1>2, ResizeShape
  <2> HIDE DEF r, dropped
  <2>6. runs(store') = {x \in runs(store) : x.start < n /\ x.start \notin dropped}
    BY <1>1, <1>2, <2>2, <2>3, ValidateRuns
  <2>7. ASSUME NEW x \in runs(store)
        PROVE  x.start < n /\ x.start \notin dropped <=> x.end < n /\ x.start \in spelled
    <3>1. PICK s \in 0 .. m - 1 :
            store.cells[s].kind = "OneStep" /\ x = RunAt(store, s)
      BY <1>1, <1>2, RunsMember
    <3>2. x.start = s /\ x.end = store.cells[s].at
      BY <3>1, <1>1, <1>2, RunsMember
    <3>3. store.cells[s].at \in Nat /\ s < store.cells[s].at
      BY <3>1, <1>1, <1>2, RunsDisjoint
    <3> QED BY <2>4, <2>5, <3>1, <3>2, <3>3
  <2>8. runs(store') = {x \in runs(store) : x.end < n /\ x.start \in spelled}
    BY <2>6, <2>7
  <2>9. store'.len = n
    BY <2>2 DEF Revalidated
  <2> QED BY <2>8, <2>9 DEF Abstract!Revalidate, runs
<1>8. ASSUME Clear
      PROVE  Abstract!ClearAll
  <2>1. runs(EmptyStore) = {} /\ EmptyStore.len = 0
    BY DEF EmptyStore, runs
  <2> QED BY <1>8, <2>1 DEF Clear, Abstract!ClearAll, runs
<1>9. CASE UNCHANGED store
  BY <1>9
<1>10. CASE Next
  BY <1>10, <1>3, <1>4, <1>5, <1>6, <1>7, <1>8 DEF Next, Abstract!Next
<1> QED BY <1>9, <1>10

\* The constraint store keeps the promise made to its callers: through every
\* sequence of calls its array of cells and back-pointers behaves as the set of
\* runs it stands for (constraint.rs:109-250), add replacing overlapped runs whole,
\* a clear inside a run removing it, validate keeping what fits and spells.
THEOREM StoreImplementsForcedRuns == Spec => ImplementsForcedRuns
<1>1. Init => Abstract!Init
  <2>1. runs(EmptyStore) = {} /\ EmptyStore.len = 0
    BY DEF EmptyStore, runs
  <2> QED BY <2>1 DEF Init, Abstract!Init
<1>2. Spec => []Inv
  <2>1. Init => Inv
    BY MaxLenAssumption
       DEF Init, Inv, TypeOK, WellFormed, EmptyStore, Stores, RunsWhole
  <2> QED BY <2>1, NextPreservesInv, PTL DEF Spec
<1> QED BY <1>1, <1>2, NextRefines, PTL DEF Spec, ImplementsForcedRuns, Abstract!Spec

================================================================================
