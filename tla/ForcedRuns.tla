------------------------------- MODULE ForcedRuns -------------------------------
(***************************************************************************)
(* What the constraint store promises its callers: a set of forced runs    *)
(* over a matrix of `len` columns.  A new forcing replaces, whole, every    *)
(* run it overlaps; a clear anywhere inside a run removes that run; a       *)
(* revalidation keeps the runs that still fit and still spell, and changes  *)
(* none of them.  ConstraintStore implements this specification with an     *)
(* array of cells and back-pointers.                                        *)
(***************************************************************************)
EXTENDS Integers, Sequences

CONSTANTS Token, MaxLen, Rows

VARIABLES forced, len

Run == [start : Nat, end : Nat, token : Token]

Overlaps(r, start, end) == r.start < end /\ start < r.end

\* The runs after forcing `token` over [start, end), or the same runs if the
\* span is empty or does not fit.
Forced(rs, n, start, end, token) ==
  IF end <= n /\ start < end
  THEN {r \in rs : ~Overlaps(r, start, end)}
         \union {[start |-> start, end |-> end, token |-> token]}
  ELSE rs

Init == forced = {} /\ len = 0

Grow(n) == len <= n /\ len' = n /\ UNCHANGED forced

Force(start, end, token) ==
  /\ forced' = Forced(forced, len, start, end, token)
  /\ UNCHANGED len

\* Whether the row `best` has the phrase `span`, first among those that start there.
Shared(best, span) ==
  \E k \in 1 .. Len(best) :
    best[k] = span /\ \A j \in 1 .. k - 1 : best[j].start # span.start

\* The runs after each of the phrases of `other`, those it shares with `best`
\* passed over; a phrase ends where the next one starts, the last at `tail`.
RowForced(rs, n, best, other, tail) ==
  LET End(k) == IF k < Len(other) THEN other[k + 1].start ELSE tail
      after[k \in 0 .. Len(other)] ==
        IF k = 0 THEN rs
        ELSE IF Shared(best, other[k]) THEN after[k - 1]
        ELSE Forced(after[k - 1], n, other[k].start, End(k), other[k].token)
  IN after

\* Force the phrases by which the row `other` differs from the row `best`.
ForceRow(best, other, tail) ==
  /\ forced' = RowForced(forced, len, best, other, tail)[Len(other)]
  /\ UNCHANGED len

Unforce(i) ==
  /\ forced' = {r \in forced : ~(r.start <= i /\ i < r.end)}
  /\ UNCHANGED len

Revalidate(n, spelled) ==
  /\ forced' = {r \in forced : r.end < n /\ r.start \in spelled}
  /\ len' = n

ClearAll == forced' = {} /\ len' = 0

Next ==
  \/ \E n \in 0 .. MaxLen : Grow(n)
  \/ \E start, end \in 0 .. MaxLen, token \in Token : Force(start, end, token)
  \/ \E best, other \in Rows, tail \in 0 .. MaxLen : ForceRow(best, other, tail)
  \/ \E i \in 0 .. MaxLen : Unforce(i)
  \/ \E n \in 0 .. MaxLen, spelled \in SUBSET (0 .. MaxLen) :
       Revalidate(n, spelled)
  \/ ClearAll

Spec == Init /\ [][Next]_<<forced, len>>
================================================================================
