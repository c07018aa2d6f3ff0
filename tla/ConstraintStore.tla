---------------------------- MODULE ConstraintStore ----------------------------
(***************************************************************************)
(* The constraint store as a state machine: ConstraintCells' operations,    *)
(* called in any order and with any arguments, except that the array is     *)
(* only shrunk by validate, which also drops the forcings that overrun the  *)
(* new length.  That is the discipline of the store's own documentation     *)
(* (crates/oxpinyin-engine/src/constraint.rs:102-104: resizing "never drops *)
(* existing forcings").  Session shows where a caller departs from it.      *)
(***************************************************************************)
EXTENDS ConstraintCells

CONSTANTS MaxLen,   \* bound on the number of cells
          Rows      \* the sentence rows diff_result may be given

ASSUME MaxLenAssumption == MaxLen \in Nat

ASSUME RowsAssumption == Rows \subseteq Seq(Span)

VARIABLE store

Init == store = EmptyStore

Grow(n) == n >= store.len /\ store' = resize(store, n)

Add(start, end, token) == store' = add(store, start, end, token)

DiffResult(best, other, tail) == store' = diff_result(store, best, other, tail)

ClearByOffset(i) == store' = clear_by_offset(store, i)

\* `spelled` is where the spelling probe answers true: it depends on the
\* dictionary and the current parse, so any answer is possible.
Validate(n, spelled) ==
  store' = validate(store, n, LAMBDA start, end, token : start \in spelled)

Clear == store' = EmptyStore

Next ==
  \/ \E n \in 0 .. MaxLen : Grow(n)
  \/ \E start, end \in 0 .. MaxLen, token \in Token : Add(start, end, token)
  \/ \E best, other \in Rows, tail \in 0 .. MaxLen :
       DiffResult(best, other, tail)
  \/ \E i \in 0 .. MaxLen : ClearByOffset(i)
  \/ \E n \in 0 .. MaxLen, spelled \in SUBSET (0 .. MaxLen) :
       Validate(n, spelled)
  \/ Clear

Spec == Init /\ [][Next]_store

--------------------------------------------------------------------------------
\* The store is an array of cells no longer than MaxLen.
TypeOK == \E n \in 0 .. MaxLen : store \in Stores(n)

\* Whatever calls add, diff_result, clear_by_offset, validate and clear were
\* made, no call leaves half a run behind.
WellFormed == RunsWhole(store)

\* The array of cells behaves as the set of runs it stands for: add replaces
\* the overlapped runs whole, clear removes exactly the run at the offset, and
\* validate removes whole runs and changes no other (constraint.rs:109-221).
Abstract == INSTANCE ForcedRuns WITH forced <- runs(store), len <- store.len

ImplementsForcedRuns == Abstract!Spec
================================================================================
