---------------------------- MODULE InstanceProofs ----------------------------
(***************************************************************************)
(* What the offset maps and the walk over separators answer, for parses of  *)
(* any length; and what an instance shows and lets its frontend choose, for *)
(* every set of parses, options and bounds: the rows listed are letters of  *)
(* the input, and a choose takes the row it named.                          *)
(***************************************************************************)
EXTENDS Instance, TLAPS, WellFoundedInduction

\* The spans of the keys and the ends of their syllables go one way: what the
\* parsers answer, key after key.
Ordered(keys, b) ==
  /\ Len(keys) \in Nat /\ DOMAIN keys = 1 .. Len(keys)
  /\ \A i \in DOMAIN keys : b[i] \in Nat /\ keys[i].end \in Nat
  /\ \A i, j \in DOMAIN keys : i < j => b[i] < b[j] /\ keys[i].end < keys[j].end

--------------------------------------------------------------------------------
\* Min is the one least element.
LEMMA MinIs ==
  ASSUME NEW S \in SUBSET Int, NEW m \in S, \A y \in S : m <= y
  PROVE  Min(S) = m
<1>1. \E x \in S : \A y \in S : x <= y
  BY Zenon
<1>2. Min(S) \in S /\ \A y \in S : Min(S) <= y
  BY <1>1, Zenon DEF Min
<1>3. Min(S) \in Int /\ m \in Int /\ Min(S) <= m /\ m <= Min(S)
  BY <1>2, Zenon
<1> QED
  BY <1>3

\* A nonempty set of naturals has a least element, and Min is it.
LEMMA MinExists ==
  ASSUME NEW S \in SUBSET Nat, S # {}
  PROVE  Min(S) \in S /\ \A y \in S : Min(S) <= y
<1> DEFINE R == OpToRel(<, Nat)
<1>1. R = {ss \in Nat \X Nat : ss[1] < ss[2]}
  BY Zenon DEF OpToRel
<1>2. IsWellFoundedOn(R, Nat)
  BY NatLessThanWellFounded, Zenon
<1> HIDE DEF R
<1>3. PICK x \in S : \A y \in S : ~ (<<y, x>> \in R)
  BY <1>2, WFMin, Zenon
<1>4. ASSUME NEW y \in S
      PROVE  x <= y
  <2>1. y \in Nat /\ x \in Nat /\ ~ (<<y, x>> \in R)
    BY <1>3, Zenon
  <2>2. y < x => <<y, x>> \in R
    BY <1>1, <2>1, Zenon
  <2> QED
    BY <2>1, <2>2
<1> QED
  BY <1>4, Zenon DEF Min

\* Max picks a member of a nonempty bounded set.
LEMMA MaxExists ==
  ASSUME NEW n \in Nat, NEW S \in SUBSET (0 .. n), S # {}
  PROVE  Max(S) \in S /\ Max(S) \in Nat
<1> DEFINE T == {i \in Nat : \E x \in S : i = n - x}
<1>1. T \in SUBSET Nat /\ T # {}
  <2>1. PICK x \in S : TRUE
    BY Zenon
  <2>2. n - x \in T
    OBVIOUS
  <2> QED
    BY <2>2, Zenon
<1>2. Min(T) \in T /\ \A i \in T : Min(T) <= i
  BY <1>1, MinExists, Zenon
<1>3. PICK m \in S : Min(T) = n - m
  BY <1>2, Zenon
<1>4. ASSUME NEW x \in S
      PROVE  x <= m
  <2>1. n - x \in T
    OBVIOUS
  <2>2. n - m <= n - x
    BY <1>2, <1>3, <2>1, Zenon
  <2> QED
    BY <2>2
<1>5. Max(S) \in S
  BY <1>4, Zenon DEF Max
<1>6. \A x \in S : x \in Nat
  OBVIOUS
<1> QED
  BY <1>5, <1>6, Zenon

--------------------------------------------------------------------------------
\* The offset answered for a phrase that ends at column c of the joined text is
\* looked up at the end of the key the phrase ends in, whatever the spans of the
\* keys in the two texts: no key is skipped and none is looked up twice
\* (offsets.rs, original_offset and session_column).
THEOREM AnswerMapsBack ==
  ASSUME NEW keys, NEW b, Ordered(keys, b), NEW consumed, NEW c \in Nat,
         NEW k \in DOMAIN keys, c <= b[k], \A j \in DOMAIN keys : j < k => b[j] < c
  PROVE  session_column(keys, b, original_offset(keys, b, consumed, c)) = b[k]
<1> DEFINE n == Len(keys)
<1>1. n \in Nat /\ DOMAIN keys = 1 .. n /\ k \in 1 .. n
  BY Zenon DEF Ordered
<1>2. \A i \in 1 .. n : b[i] \in Nat /\ keys[i].end \in Nat
  BY <1>1, Zenon DEF Ordered
<1>3. \A i, j \in 1 .. n : i < j => b[i] < b[j] /\ keys[i].end < keys[j].end
  BY <1>1, Zenon DEF Ordered
<1>4. original_offset(keys, b, consumed, c) = keys[k].end
  <2> DEFINE reach == {i \in DOMAIN keys : c <= b[i]}
  <2>1. k \in reach /\ reach \in SUBSET Int
    BY <1>1
  <2>2. \A y \in reach : k <= y
    BY <1>1, <1>2
  <2>3. Min(reach) = k
    BY <2>1, <2>2, MinIs, Zenon
  <2> QED
    BY <2>1, <2>3, Zenon DEF original_offset
<1>5. session_column(keys, b, keys[k].end) = b[k]
  <2> DEFINE past == {i \in DOMAIN keys : keys[k].end < keys[i].end}
  <2>1. \A i \in 1 .. n : i \in past <=> k < i
    BY <1>1, <1>2, <1>3
  <2>2. CASE k = n
    <3>1. past = {}
      BY <1>1, <2>1, <2>2
    <3> QED
      BY <1>1, <2>2, <3>1 DEF session_column
  <2>3. CASE k < n
    <3>1. k + 1 \in past /\ past \in SUBSET Int /\ \A y \in past : k + 1 <= y
      BY <1>1, <2>1, <2>3
    <3>2. Min(past) = k + 1
      BY <3>1, MinIs, Zenon
    <3>3. past # {} /\ Min(past) - 1 = k /\ k # 0
      BY <1>1, <3>1, <3>2
    <3> QED
      BY <3>3, Zenon DEF session_column
  <2> QED
    BY <1>1, <2>2, <2>3
<1> QED
  BY <1>4, <1>5, Zenon

\* An offset walked back over the separators passes the check that the cursor
\* calls abort on, in any matrix that does not start with a lone zero key: only
\* the column before it could fail the check, and the walk would have taken it
\* too (cursor.rs, zero_start_walk and check).
THEOREM WalkPassesCheck ==
  ASSUME NEW p, NEW offset \in Nat, ~lone_zero(p, 0)
  PROVE  check(p, zero_start_walk(p, offset)) = zero_start_walk(p, offset)
<1> DEFINE S == {offset} \union
                {i \in 1 .. offset - 1 : \A j \in i .. offset - 1 : lone_zero(p, j)}
           w == zero_start_walk(p, offset)
<1>1. S \in SUBSET Nat /\ S # {}
  OBVIOUS
<1>2. w = Min(S)
  BY Zenon DEF zero_start_walk
<1>3. w \in S /\ \A y \in S : w <= y
  BY <1>1, <1>2, MinExists
<1>4. ~ (w > 0 /\ lone_zero(p, w - 1))
  <2> SUFFICES ASSUME w > 0, lone_zero(p, w - 1)
               PROVE  FALSE
    BY Zenon
  <2> HIDE DEF w
  <2>1. w \in Nat /\ w <= offset /\ w - 1 \in 0 .. offset - 1
    BY <1>3
  <2>2. w - 1 # 0
    BY Zenon
  <2>3. \A j \in w .. offset - 1 : lone_zero(p, j)
    BY <1>3, <2>1
  <2>4. \A j \in w - 1 .. offset - 1 : lone_zero(p, j)
    BY <2>1, <2>3
  <2>5. w - 1 \in S
    BY <2>1, <2>2, <2>4
  <2> QED
    BY <1>3, <2>1, <2>5
<1> QED
  BY <1>4, Zenon DEF check

\* So neither the lookup offset of a cursor nor the key to the left of an accepted
\* offset is one the call aborts on, whatever the keys and separators of the
\* parse (cursor.rs, lookup_offset_over_spans and left_word_offset_over_spans).
THEOREM LeftwardNeverAborts ==
  ASSUME NEW p, Len(p.bytes) \in Nat, p.parsed \in Nat, ~lone_zero(p, 0),
         NEW offset \in Nat
  PROVE  /\ lookup_offset(p, offset) \in Nat
         /\ offset <= Len(p.bytes) /\ check(p, offset) # ZeroKey
              => left_offset(p, offset) \in Nat
<1>1. ASSUME NEW o \in Nat
      PROVE  check(p, zero_start_walk(p, o)) \in Nat
  <2> DEFINE S == {o} \union
                  {i \in 1 .. o - 1 : \A j \in i .. o - 1 : lone_zero(p, j)}
  <2>1. S \in SUBSET Nat /\ S # {}
    OBVIOUS
  <2>2. Min(S) \in Nat
    BY <2>1, MinExists, Zenon
  <2>3. zero_start_walk(p, o) \in Nat
    BY <2>2, Zenon DEF zero_start_walk
  <2> QED
    BY <2>3, WalkPassesCheck, Zenon
<1>2. lookup_offset(p, offset) \in Nat
  <2> DEFINE bound == Lesser(offset, Lesser(p.parsed, Len(p.bytes)))
             held == {0} \union {i \in 1 .. bound : ~is_empty(p, i)}
  <2>1. bound \in Nat
    BY Zenon DEF Lesser
  <2> HIDE DEF bound
  <2>2. held \in SUBSET (0 .. bound) /\ held # {}
    BY <2>1
  <2> HIDE DEF held
  <2>3. Max(held) \in Nat
    BY <2>1, <2>2, MaxExists, Zenon
  <2> QED
    BY <1>1, <2>3, Zenon DEF lookup_offset, held, bound
<1>3. ASSUME offset <= Len(p.bytes), check(p, offset) # ZeroKey
      PROVE  left_offset(p, offset) \in Nat
  <2> DEFINE left == {0} \union {i \in 1 .. offset - 1 : ends_with(p, i, offset)}
  <2>1. left \in SUBSET (0 .. offset) /\ left # {}
    OBVIOUS
  <2> HIDE DEF left
  <2>2. Max(left) \in Nat
    BY <2>1, MaxExists, Zenon
  <2> QED
    BY <1>1, <1>3, <2>2, SMTT(30) DEF left_offset, left
<1> QED
  BY <1>2, <1>3, Zenon

--------------------------------------------------------------------------------
\* A set of naturals (of loop indices) that holds its lower end and is closed
\* under successor up to its upper end holds the whole interval.
LEMMA LoopInduction ==
  ASSUME NEW a \in Nat, NEW b \in Nat, NEW P, a \in P,
         \A i \in a .. b - 1 : i \in P => i + 1 \in P
  PROVE  \A i \in a .. b : i \in P
<1> DEFINE T == {i \in a .. b : i \notin P}
<1>1. SUFFICES ASSUME T # {}
               PROVE  FALSE
  BY Zenon
<1>2. T \in SUBSET Nat
  OBVIOUS
<1> HIDE DEF T
<1>3. Min(T) \in T /\ \A y \in T : Min(T) <= y
  BY <1>1, <1>2, MinExists, Zenon
<1> DEFINE m == Min(T)
<1> HIDE DEF m
<1>4. m \in T /\ \A y \in T : m <= y
  BY <1>3, Zenon DEF m
<1>5. m \in Nat /\ a < m /\ m <= b /\ m \notin P
  BY <1>4 DEF T
<1>6. m - 1 \in a .. b - 1 /\ m - 1 \notin T
  BY <1>4, <1>5, <1>2
<1>7. m - 1 \in P
  BY <1>6 DEF T
<1>8. (m - 1) + 1 \in P
  BY <1>6, <1>7, Zenon
<1> QED
  BY <1>5, <1>8

\* The values of a loop from a to b.
LoopOf(g, a, b, V, start, Step) ==
  /\ g \in [a .. b -> V]
  /\ \A i \in a .. b : g[i] = IF i = a THEN start ELSE Step[<<g[i - 1], i>>]

\* A loop whose step stays in V has them.
LEMMA LoopRuns ==
  ASSUME NEW a \in Nat, NEW b \in Nat, a <= b, NEW V, NEW start \in V,
         NEW Step \in [V \X (a .. b) -> V]
  PROVE  \E g : LoopOf(g, a, b, V, start, Step)
<1> DEFINE Runs(g, m) ==
             /\ g \in [a .. m -> V]
             /\ \A i \in a .. m : g[i] = IF i = a THEN start ELSE Step[<<g[i - 1], i>>]
           P == {m \in a .. b : \E g : Runs(g, m)}
<1>1. a \in P
  <2> DEFINE g == [i \in a .. a |-> start]
  <2>1. Runs(g, a)
    OBVIOUS
  <2> HIDE DEF g, Runs
  <2> QED
    BY <2>1
<1>2. ASSUME NEW m \in a .. b - 1, m \in P
      PROVE  m + 1 \in P
  <2>1. PICK g : Runs(g, m)
    BY <1>2, Zenon
  <2>2. g[m] \in V /\ m + 1 \in a .. b
    BY <2>1
  <2>3. Step[<<g[m], m + 1>>] \in V
    BY <2>2, Zenon
  <2> DEFINE h == [i \in a .. m + 1 |-> IF i = m + 1 THEN Step[<<g[m], m + 1>>] ELSE g[i]]
  <2>4. h \in [a .. m + 1 -> V]
    BY <2>1, <2>3
  <2>5. ASSUME NEW i \in a .. m + 1
        PROVE  h[i] = IF i = a THEN start ELSE Step[<<h[i - 1], i>>]
    <3>1. CASE i = m + 1
      <4>1. h[m + 1] = Step[<<g[m], m + 1>>] /\ h[m] = g[m]
        OBVIOUS
      <4> HIDE DEF h
      <4>2. i - 1 = m /\ i # a
        BY <3>1
      <4> QED
        BY <3>1, <4>1, <4>2, Zenon
    <3>2. CASE i \in a + 1 .. m
      <4>1. h[i] = g[i] /\ h[i - 1] = g[i - 1] /\ i # a
        BY <3>2
      <4>2. g[i] = Step[<<g[i - 1], i>>]
        BY <2>1, <3>2, <4>1
      <4> HIDE DEF h
      <4> QED
        BY <4>1, <4>2, Zenon
    <3>3. CASE i = a
      <4>1. a \in a .. m /\ a # m + 1
        OBVIOUS
      <4>2. g[a] = start
        BY <2>1, <4>1, Zenon
      <4>3. h[a] = g[a]
        BY <4>1
      <4> HIDE DEF h
      <4> QED
        BY <3>3, <4>2, <4>3, Zenon
    <3> QED
      BY <3>1, <3>2, <3>3
  <2>6. Runs(h, m + 1)
    BY <2>4, <2>5, Zenon
  <2> HIDE DEF h, Runs
  <2> QED
    BY <2>2, <2>6, Zenon
<1>3. \A m \in a .. b : m \in P
  <2> HIDE DEF P
  <2> QED
    BY <1>1, <1>2, LoopInduction, Zenon
<1>4. \E g : Runs(g, b)
  BY <1>3
<1> QED
  BY <1>4, Zenon DEF LoopOf

\* The values of a loop stay in V when each step does.
LEMMA LoopStays ==
  ASSUME NEW a \in Nat, NEW b \in Nat, NEW V, NEW g, g[a] \in V,
         \A i \in a .. b : i # a /\ g[i - 1] \in V => g[i] \in V
  PROVE  \A i \in a .. b : g[i] \in V
<1> DEFINE P == {i \in Nat : g[i] \in V}
<1>1. a \in P
  BY Zenon
<1>2. ASSUME NEW i \in a .. b - 1, i \in P
      PROVE  i + 1 \in P
  <2>1. i + 1 \in a .. b /\ i + 1 # a /\ (i + 1) - 1 = i /\ i + 1 \in Nat
    OBVIOUS
  <2> QED
    BY <1>2, <2>1, Zenon
<1> HIDE DEF P
<1>3. \A i \in a .. b : i \in P
  BY <1>1, <1>2, LoopInduction, Zenon
<1> QED
  BY <1>3, Zenon DEF P

--------------------------------------------------------------------------------
\* The ends of a column, from the longest down, are ends of that column within
\* the text (candidates_at's rows, longest first).
LEMMA DescendingShape ==
  ASSUME NEW ends, NEW from \in Nat, NEW n \in Nat, from <= n
  PROVE  Descending(ends, from, n) \in Seq(ends \intersect (from + 1 .. n))
<1> DEFINE V == Seq(ends \intersect (from + 1 .. n))
           Body(v, e) == IF e \in ends THEN <<e>> \o v ELSE v
           Step == [x \in V \X (from .. n) |-> IF x[2] = from THEN x[1] ELSE Body(x[1], x[2])]
           Runs(g) == g = [e \in from .. n |-> IF e = from THEN <<>> ELSE Body(g[e - 1], e)]
           d == CHOOSE g : Runs(g)
<1>1. Descending(ends, from, n) = d[n]
  BY Zenon DEF Descending
<1>2. <<>> \in V /\ \A v \in V : \A e \in from .. n : e # from => Body(v, e) \in V
  <2>1. ASSUME NEW v \in V, NEW e \in from + 1 .. n, e \in ends
        PROVE  <<e>> \o v \in V
    BY <2>1
  <2>2. <<>> \in V
    OBVIOUS
  <2> HIDE DEF V
  <2> QED
    BY <2>1, <2>2
<1> HIDE DEF V, Body
<1>3. Step \in [V \X (from .. n) -> V]
  BY <1>2, Zenon
<1>4. PICK g : LoopOf(g, from, n, V, <<>>, Step)
  <2> HIDE DEF Step
  <2>1. from \in Nat /\ from <= n
    BY Zenon
  <2> QED
    BY <1>2, <1>3, <2>1, LoopRuns, Zenon
<1>5. \A e \in from .. n : e # from => Step[<<g[e - 1], e>>] = Body(g[e - 1], e)
  BY <1>4 DEF LoopOf
<1> HIDE DEF Step
<1>6. Runs(g)
  BY <1>4, <1>5, Zenon DEF LoopOf
<1>7. Runs(d)
  <2> HIDE DEF Runs
  <2> QED
    BY <1>6, Zenon
<1> HIDE DEF d
<1>8. d[from] \in V /\ \A e \in from .. n : e # from /\ d[e - 1] \in V => d[e] \in V
  BY <1>2, <1>7
<1>9. \A e \in from .. n : d[e] \in V
  <2>1. from \in Nat
    BY Zenon
  <2> QED
    BY <1>8, <2>1, LoopStays, Zenon
<1> QED
  BY <1>1, <1>9 DEF V

\* A concatenation holds the elements of both, in order: rows, syllables, keys.
LEMMA ConcatShape ==
  ASSUME NEW A, NEW s \in Seq(A), NEW t \in Seq(A)
  PROVE  s \o t \in Seq(A) /\ Len(s \o t) = Len(s) + Len(t)
  OBVIOUS

\* The joined text of the first k syllables is that of the first k - 1, an
\* apostrophe and the syllable (offsets.rs, session_text_of).
LEMMA JoinedTextShape ==
  ASSUME NEW keys \in Seq(Keys)
  PROVE  LET text == JoinedText(keys)
         IN /\ \A k \in 0 .. Len(keys) : text[k] \in Seq(Letters)
            /\ \A k \in 1 .. Len(keys) :
                 Len(text[k]) = IF k = 1 THEN Len(keys[1].syl)
                                ELSE Len(text[k - 1]) + 1 + Len(keys[k].syl)
<1> DEFINE n == Len(keys)
           V == Seq(Letters)
           Body(v, k) == IF k = 1 THEN keys[1].syl ELSE v \o <<Sep>> \o keys[k].syl
           Step == [x \in V \X (0 .. n) |-> IF x[2] = 0 THEN x[1] ELSE Body(x[1], x[2])]
           Runs(g) == g = [k \in 0 .. n |-> IF k = 0 THEN <<>> ELSE Body(g[k - 1], k)]
           d == CHOOSE g : Runs(g)
<1>0. n \in Nat /\ \A k \in 1 .. n : keys[k].syl \in V
  <2>1. n \in Nat /\ \A k \in 1 .. n : keys[k] \in Keys
    OBVIOUS
  <2> HIDE DEF V, n
  <2>2. \A key \in Keys : key.syl \in V
    BY Zenon DEF Keys, V
  <2> QED
    BY <2>1, <2>2, Zenon
<1>1. JoinedText(keys) = d
  BY Zenon DEF JoinedText
<1>2. ASSUME NEW v \in V, NEW k \in 0 .. n, k # 0
      PROVE  /\ Body(v, k) \in V
             /\ Len(Body(v, k)) = IF k = 1 THEN Len(keys[1].syl)
                                  ELSE Len(v) + 1 + Len(keys[k].syl)
  <2> DEFINE s == keys[k].syl
             u == <<Sep>>
  <2>0. Sep \in Letters
    BY Zenon DEF Letters
  <2>1. s \in V /\ u \in V /\ Len(u) = 1
    BY <1>0, <1>2, <2>0
  <2> HIDE DEF s, u
  <2>2. v \o u \in V /\ Len(v \o u) = Len(v) + 1
    BY <2>1, ConcatShape, Zenon
  <2> DEFINE w == v \o u
  <2> HIDE DEF w
  <2>3. w \o s \in V /\ Len(w \o s) = Len(w) + Len(s)
    BY <2>1, <2>2, ConcatShape, Zenon DEF w
  <2>4. CASE k = 1
    BY <2>1, <2>4, Zenon DEF s
  <2>5. CASE k # 1
    BY <2>2, <2>3, <2>5, Zenon DEF s, u, w
  <2> QED
    BY <2>4, <2>5, Zenon
<1>3. <<>> \in V
  OBVIOUS
<1> HIDE DEF V, Body, n
<1>4. Step \in [V \X (0 .. n) -> V]
  BY <1>2, Zenon
<1>5. PICK g : LoopOf(g, 0, n, V, <<>>, Step)
  <2> HIDE DEF Step
  <2>1. 0 \in Nat /\ 0 <= n
    BY <1>0
  <2> QED
    BY <1>0, <1>3, <1>4, <2>1, LoopRuns, Zenon
<1>6. \A k \in 0 .. n : k # 0 => Step[<<g[k - 1], k>>] = Body(g[k - 1], k)
  BY <1>0, <1>5 DEF LoopOf
<1> HIDE DEF Step
<1>7. Runs(g)
  BY <1>5, <1>6, Zenon DEF LoopOf
<1>8. Runs(d)
  <2> HIDE DEF Runs
  <2> QED
    BY <1>7, Zenon
<1> HIDE DEF d
<1>9. d[0] \in V /\ \A k \in 0 .. n : k # 0 /\ d[k - 1] \in V => d[k] \in V
  <2>1. \A v \in V : \A k \in 0 .. n : k # 0 => Body(v, k) \in V
    BY <1>2, Zenon
  <2> QED
    BY <1>0, <1>3, <1>8, <2>1
<1>10. \A k \in 0 .. n : d[k] \in V
  <2>1. 0 \in Nat
    BY Zenon
  <2> QED
    BY <1>0, <1>9, <2>1, LoopStays, Zenon
<1>11. ASSUME NEW k \in 1 .. n
       PROVE  Len(d[k]) = IF k = 1 THEN Len(keys[1].syl)
                          ELSE Len(d[k - 1]) + 1 + Len(keys[k].syl)
  <2>1. k \in 0 .. n /\ k # 0 /\ k - 1 \in 0 .. n
    BY <1>0
  <2>2. d[k] = Body(d[k - 1], k) /\ d[k - 1] \in V
    BY <1>8, <1>10, <2>1, Zenon
  <2> QED
    BY <1>2, <2>1, <2>2, Zenon
<1> QED
  BY <1>1, <1>10, <1>11, Zenon DEF V, n

\* The spans of keys.
Spans == [start : Nat, end : Nat]

\* The keys of the matrix have spans, the halves of the divided ones too
\* (matrix_keys).
LEMMA MatrixKeysShape ==
  ASSUME NEW p, p.parsed \in Nat, p.keys \in Seq(Keys)
  PROVE  matrix_keys(p) \in Seq(Spans)
<1> DEFINE n == Len(p.keys)
           V == Seq(Spans)
           Halves(key) ==
             IF key.cut = 0 \/ key.start + key.cut > p.parsed THEN <<>>
             ELSE <<[start |-> key.start, end |-> key.start + key.cut],
                    [start |-> key.start + key.cut, end |-> key.end]>>
           Body(v, k) == v \o Halves(p.keys[k])
           Step == [x \in V \X (0 .. n) |-> IF x[2] = 0 THEN x[1] ELSE Body(x[1], x[2])]
           Runs(g) == g = [k \in 0 .. n |-> IF k = 0 THEN <<>> ELSE Body(g[k - 1], k)]
           d == CHOOSE g : Runs(g)
           spans == [k \in DOMAIN p.keys |->
                       [start |-> p.keys[k].start, end |-> p.keys[k].end]]
<1>0. n \in Nat /\ DOMAIN p.keys = 1 .. n /\ \A k \in 1 .. n : p.keys[k] \in Keys
  OBVIOUS
<1>1. matrix_keys(p) = spans \o (IF Divides(p) THEN d[n] ELSE <<>>)
  BY Zenon DEF matrix_keys
<1>2. \A key \in Keys : /\ key.start \in Nat /\ key.end \in Nat /\ key.cut \in Nat
  BY Zenon DEF Keys
<1>3. ASSUME NEW key \in Keys
      PROVE  Halves(key) \in V
  <2> DEFINE x == [start |-> key.start, end |-> key.start + key.cut]
             y == [start |-> key.start + key.cut, end |-> key.end]
  <2>1. x \in Spans /\ y \in Spans
    BY <1>2 DEF Spans
  <2> HIDE DEF x, y
  <2>2. <<x, y>> \in V /\ <<>> \in V
    BY <2>1
  <2> HIDE DEF V
  <2> QED
    BY <2>2, Zenon DEF x, y
<1>4. spans \in V
  <2>1. \A k \in 1 .. n : spans[k] \in Spans
    BY <1>0, <1>2, Zenon DEF Spans
  <2>2. DOMAIN spans = 1 .. n
    BY <1>0, Zenon
  <2>3. spans = [k \in 1 .. n |-> spans[k]]
    BY <1>0, Zenon
  <2> HIDE DEF spans, n
  <2> QED
    BY <1>0, <2>1, <2>3
<1> HIDE DEF Halves, spans
<1>5. ASSUME NEW v \in V, NEW k \in 0 .. n, k # 0
      PROVE  Body(v, k) \in V
  <2>1. Halves(p.keys[k]) \in V
    BY <1>0, <1>3, <1>5
  <2> QED
    BY <2>1, ConcatShape, Zenon
<1>6. <<>> \in V
  OBVIOUS
<1> HIDE DEF V, Body, n
<1>7. Step \in [V \X (0 .. n) -> V]
  BY <1>5, Zenon
<1>8. PICK g : LoopOf(g, 0, n, V, <<>>, Step)
  <2> HIDE DEF Step
  <2>1. 0 \in Nat /\ 0 <= n
    BY <1>0
  <2> QED
    BY <1>0, <1>6, <1>7, <2>1, LoopRuns, Zenon
<1>9. \A k \in 0 .. n : k # 0 => Step[<<g[k - 1], k>>] = Body(g[k - 1], k)
  BY <1>0, <1>8 DEF LoopOf
<1> HIDE DEF Step
<1>10. Runs(g)
  BY <1>8, <1>9, Zenon DEF LoopOf
<1>11. Runs(d)
  <2> HIDE DEF Runs
  <2> QED
    BY <1>10, Zenon
<1> HIDE DEF d
<1>12. d[0] \in V /\ \A k \in 0 .. n : k # 0 /\ d[k - 1] \in V => d[k] \in V
  <2>1. \A v \in V : \A k \in 0 .. n : k # 0 => Body(v, k) \in V
    BY <1>5, Zenon
  <2> QED
    BY <1>0, <1>6, <1>11, <2>1
<1>13. \A k \in 0 .. n : d[k] \in V
  <2>1. 0 \in Nat
    BY Zenon
  <2> QED
    BY <1>0, <1>12, <2>1, LoopStays, Zenon
<1>14. d[n] \in V
  BY <1>0, <1>13
<1>15. (IF Divides(p) THEN d[n] ELSE <<>>) \in V
  BY <1>6, <1>14, Zenon
<1> QED
  BY <1>1, <1>4, <1>15, ConcatShape, Zenon DEF V

\* The ends of the keys of a column are offsets.
LEMMA EndsAtShape ==
  ASSUME NEW keys \in Seq(Spans), NEW i
  PROVE  EndsAt(keys, i) \in Seq(Nat)
<1> DEFINE n == Len(keys)
           V == Seq(Nat)
           Body(v, k) == IF keys[k].start = i THEN Append(v, keys[k].end) ELSE v
           Step == [x \in V \X (0 .. n) |-> IF x[2] = 0 THEN x[1] ELSE Body(x[1], x[2])]
           Runs(g) == g = [k \in 0 .. n |-> IF k = 0 THEN <<>> ELSE Body(g[k - 1], k)]
           d == CHOOSE g : Runs(g)
<1>0. n \in Nat /\ \A k \in 1 .. n : keys[k].end \in Nat
  <2>1. n \in Nat /\ \A k \in 1 .. n : keys[k] \in Spans
    OBVIOUS
  <2> QED
    BY <2>1, Zenon DEF Spans
<1>1. EndsAt(keys, i) = d[n]
  BY Zenon DEF EndsAt
<1>2. <<>> \in V /\ \A v \in V : \A k \in 0 .. n : k # 0 => Body(v, k) \in V
  <2>1. ASSUME NEW v \in V, NEW k \in 1 .. n
        PROVE  Append(v, keys[k].end) \in V
    BY <1>0
  <2>2. <<>> \in V
    OBVIOUS
  <2> HIDE DEF V
  <2> QED
    BY <1>0, <2>1, <2>2
<1> HIDE DEF V, Body, n
<1>3. Step \in [V \X (0 .. n) -> V]
  BY <1>2, Zenon
<1>4. PICK g : LoopOf(g, 0, n, V, <<>>, Step)
  <2> HIDE DEF Step
  <2>1. 0 \in Nat /\ 0 <= n
    BY <1>0
  <2> QED
    BY <1>0, <1>2, <1>3, <2>1, LoopRuns, Zenon
<1>5. \A k \in 0 .. n : k # 0 => Step[<<g[k - 1], k>>] = Body(g[k - 1], k)
  BY <1>0, <1>4 DEF LoopOf
<1> HIDE DEF Step
<1>6. Runs(g)
  BY <1>4, <1>5, Zenon DEF LoopOf
<1>7. Runs(d)
  <2> HIDE DEF Runs
  <2> QED
    BY <1>6, Zenon
<1> HIDE DEF d
<1>8. d[0] \in V /\ \A k \in 0 .. n : k # 0 /\ d[k - 1] \in V => d[k] \in V
  BY <1>0, <1>2, <1>7
<1>9. \A k \in 0 .. n : d[k] \in V
  <2>1. 0 \in Nat
    BY Zenon
  <2> QED
    BY <1>0, <1>8, <2>1, LoopStays, Zenon
<1> QED
  BY <1>0, <1>1, <1>9 DEF V

--------------------------------------------------------------------------------
\* A parse before its columns are built.
Unretained(p) ==
  /\ p = [mode |-> p.mode, input |-> p.input, word |-> p.word, divided |-> p.divided,
          bytes |-> p.bytes, parsed |-> p.parsed, keys |-> p.keys, cols |-> p.cols]
  /\ p.bytes \in Seq(Letters) /\ p.parsed \in Nat /\ p.keys \in Seq(Keys)

\* Building the columns makes it a parse and changes nothing else
\* (build_scan_matrix).
LEMMA RetainedShape ==
  ASSUME NEW p, Unretained(p)
  PROVE  LET r == Retained(p)
         IN /\ IsParse(r) /\ r.mode = p.mode /\ r.input = p.input
            /\ r.bytes = p.bytes /\ r.keys = p.keys
<1> DEFINE keys == matrix_keys(p)
           first == Min({p.keys[k].start : k \in DOMAIN p.keys} \union {p.parsed})
           reach == CHOOSE g : g = [i \in 0 .. Len(p.bytes) |->
             IF first <= i /\ i < p.parsed /\ ByteAt(p.bytes, i) = Sep
             THEN g[i + 1]
             ELSE UNION {{end} \union g[end] : end \in Range(EndsAt(keys, i))}]
           cols == [i \in 0 .. Len(p.bytes) |->
                      [ends |-> EndsAt(keys, i), reach |-> reach[i],
                       zero |-> zero_end(p, i)]]
<1>1. Retained(p) = [p EXCEPT !.cols = cols]
  BY Zenon DEF Retained
<1>2. keys \in Seq(Spans)
  BY MatrixKeysShape, Zenon DEF Unretained
<1> HIDE DEF keys, reach, first
<1>3. \A i \in 0 .. Len(p.bytes) : cols[i].ends \in Seq(Nat)
  <2> SUFFICES ASSUME NEW i \in 0 .. Len(p.bytes)
               PROVE  cols[i].ends \in Seq(Nat)
    BY Zenon
  <2>1. cols[i].ends = EndsAt(keys, i)
    BY Zenon
  <2>2. EndsAt(keys, i) \in Seq(Nat)
    BY <1>2, EndsAtShape, Zenon
  <2> QED
    BY <2>1, <2>2, Zenon
<1>4. DOMAIN cols = 0 .. Len(p.bytes)
  BY Zenon
<1> HIDE DEF cols
<1>5. Retained(p) = [mode |-> p.mode, input |-> p.input, word |-> p.word,
                     divided |-> p.divided, bytes |-> p.bytes, parsed |-> p.parsed,
                     keys |-> p.keys, cols |-> cols]
  <2>1. p = [mode |-> p.mode, input |-> p.input, word |-> p.word, divided |-> p.divided,
             bytes |-> p.bytes, parsed |-> p.parsed, keys |-> p.keys, cols |-> p.cols]
    BY Zenon DEF Unretained
  <2> QED
    BY <1>1, <2>1, Zenon
<1>6. p.bytes \in Seq(Letters) /\ p.parsed \in Nat /\ p.keys \in Seq(Keys)
  BY Zenon DEF Unretained
<1> QED
  BY <1>3, <1>4, <1>5, <1>6 DEF IsParse

\* The joined syllables of a transformed parse make a parse of the same keys
\* (exact_input).
LEMMA ExactInputShape ==
  ASSUME NEW p, IsParse(p)
  PROVE  LET r == exact_input(p)
         IN /\ IsParse(r) /\ r.mode = p.mode /\ r.input = p.input
            /\ p.keys # <<>> => r.keys # <<>>
<1> DEFINE n == Len(p.keys)
           text == JoinedText(p.keys)
           b == Boundaries(p.keys)
           joined == text[n]
           Span(k) == [p.keys[k] EXCEPT !.start = b[k] - Len(p.keys[k].syl), !.end = b[k]]
           spans == [k \in DOMAIN p.keys |-> Span(k)]
           q == [p EXCEPT !.bytes = joined, !.parsed = Len(joined), !.keys = spans]
<1>0. /\ p = [mode |-> p.mode, input |-> p.input, word |-> p.word, divided |-> p.divided,
              bytes |-> p.bytes, parsed |-> p.parsed, keys |-> p.keys, cols |-> p.cols]
      /\ p.keys \in Seq(Keys)
  BY Zenon DEF IsParse
<1>1. exact_input(p) = Retained(q)
  BY Zenon DEF exact_input
<1>2. n \in Nat /\ DOMAIN p.keys = 1 .. n /\ \A k \in 1 .. n : p.keys[k] \in Keys
  BY <1>0
<1>3. /\ \A k \in 0 .. n : text[k] \in Seq(Letters)
      /\ \A k \in 1 .. n :
           Len(text[k]) = IF k = 1 THEN Len(p.keys[1].syl)
                          ELSE Len(text[k - 1]) + 1 + Len(p.keys[k].syl)
  BY <1>0, JoinedTextShape, Zenon
<1>4. \A k \in 1 .. n : b[k] = Len(text[k])
  BY <1>2, Zenon DEF Boundaries
<1> HIDE DEF b, n
<1>5. \A k \in 1 .. n : Span(k) \in Keys
  <2> SUFFICES ASSUME NEW k \in 1 .. n
               PROVE  Span(k) \in Keys
    BY Zenon
  <2>1. p.keys[k] \in Keys /\ p.keys[k].syl \in Seq(Letters)
    BY <1>2, Zenon DEF Keys
  <2>2. Len(text[k]) \in Nat /\ Len(p.keys[k].syl) \in Nat
        /\ (k # 1 => Len(text[k - 1]) \in Nat)
    <3>1. text[k] \in Seq(Letters) /\ (k # 1 => text[k - 1] \in Seq(Letters))
      BY <1>2, <1>3
    <3> HIDE DEF text
    <3> QED
      BY <2>1, <3>1
  <2> HIDE DEF text
  <2>3. b[k] \in Nat /\ b[k] - Len(p.keys[k].syl) \in Nat
    <3>1. b[k] = Len(text[k])
      BY <1>4, Zenon
    <3>2. CASE k = 1
      <4>1. Len(text[k]) = Len(p.keys[k].syl)
        BY <1>3, <3>2, Zenon
      <4> QED
        BY <2>2, <3>1, <4>1
    <3>3. CASE k # 1
      <4>1. Len(text[k]) = Len(text[k - 1]) + 1 + Len(p.keys[k].syl)
        BY <1>3, <3>3, Zenon
      <4> DEFINE before == Len(text[k - 1])
                 syl == Len(p.keys[k].syl)
      <4>2. before \in Nat /\ syl \in Nat
        BY <2>2, <3>3, Zenon
      <4>3. b[k] = before + 1 + syl
        BY <3>1, <4>1, Zenon
      <4> HIDE DEF before, syl
      <4>4. b[k] \in Nat /\ b[k] - syl \in Nat
        BY <4>2, <4>3
      <4> QED
        BY <4>4, Zenon DEF syl
    <3> QED
      BY <3>2, <3>3, Zenon
  <2> QED
    BY <2>1, <2>3, Zenon DEF Keys
<1>6. spans \in Seq(Keys) /\ Len(spans) = n
  <2>1. spans = [k \in 1 .. n |-> Span(k)]
    BY <1>2, Zenon
  <2> HIDE DEF Span, spans
  <2> QED
    BY <1>2, <1>5, <2>1
<1>7. joined \in Seq(Letters) /\ Len(joined) \in Nat
  <2>1. joined \in Seq(Letters)
    BY <1>2, <1>3
  <2> HIDE DEF joined
  <2> QED
    BY <2>1
<1> HIDE DEF joined, spans
<1>8. q = [mode |-> p.mode, input |-> p.input, word |-> p.word, divided |-> p.divided,
           bytes |-> joined, parsed |-> Len(joined), keys |-> spans, cols |-> p.cols]
  <2> DEFINE len == Len(joined)
             q1 == [p EXCEPT !.bytes = joined]
             q2 == [q1 EXCEPT !.parsed = len]
  <2> HIDE DEF len
  <2>1. q1 = [mode |-> p.mode, input |-> p.input, word |-> p.word, divided |-> p.divided,
              bytes |-> joined, parsed |-> p.parsed, keys |-> p.keys, cols |-> p.cols]
    BY <1>0
  <2> HIDE DEF q1
  <2>2. q2 = [mode |-> p.mode, input |-> p.input, word |-> p.word, divided |-> p.divided,
              bytes |-> joined, parsed |-> len, keys |-> p.keys, cols |-> p.cols]
    BY <2>1
  <2> HIDE DEF q2
  <2>3. [q2 EXCEPT !.keys = spans]
          = [mode |-> p.mode, input |-> p.input, word |-> p.word, divided |-> p.divided,
             bytes |-> joined, parsed |-> len, keys |-> spans, cols |-> p.cols]
    BY <2>2
  <2> QED
    BY <2>3, Zenon DEF q1, q2, len
<1>9. Unretained(q) /\ q.mode = p.mode /\ q.input = p.input /\ q.keys = spans
  BY <1>6, <1>7, <1>8, Zenon DEF Unretained
<1> HIDE DEF q
<1>10. LET r == Retained(q)
       IN /\ IsParse(r) /\ r.mode = q.mode /\ r.input = q.input
          /\ r.bytes = q.bytes /\ r.keys = q.keys
  BY <1>9, RetainedShape, Zenon
<1>11. p.keys # <<>> => spans # <<>>
  BY <1>0, <1>6 DEF n
<1> QED
  BY <1>1, <1>9, <1>10, <1>11, Zenon

\* No parse is a parse without keys.
LEMMA NoParseShape ==
  /\ IsParse(NoParse) /\ NoParse.bytes = <<>> /\ NoParse.keys = <<>>
  /\ NoParse.mode = "none" /\ NoParse.cols[0].ends = <<>>
<1> DEFINE cols == [i \in {0} |-> [ends |-> <<>>, reach |-> {}, zero |-> FALSE]]
<1>1. DOMAIN cols = {0} /\ cols[0].ends = <<>>
  BY Zenon
<1> HIDE DEF cols
<1>2. NoParse = [mode |-> "none", input |-> "", word |-> "", divided |-> FALSE,
                 bytes |-> <<>>, parsed |-> 0, keys |-> <<>>, cols |-> cols]
  BY Zenon DEF NoParse, cols
<1>3. /\ NoParse.bytes = <<>> /\ NoParse.keys = <<>> /\ NoParse.mode = "none"
      /\ NoParse.cols = cols /\ NoParse.parsed = 0
  BY <1>2, Zenon
<1>4. NoParse = [mode |-> NoParse.mode, input |-> NoParse.input, word |-> NoParse.word,
                 divided |-> NoParse.divided, bytes |-> NoParse.bytes,
                 parsed |-> NoParse.parsed, keys |-> NoParse.keys, cols |-> NoParse.cols]
  BY <1>2, Zenon
<1>5. \A i \in 0 .. 0 : i = 0
  OBVIOUS
<1>6. 0 .. 0 = {0} /\ Len(<<>>) = 0 /\ <<>> \in Seq(Letters) /\ <<>> \in Seq(Keys)
      /\ <<>> \in Seq(Nat)
  OBVIOUS
<1>7. \A i \in 0 .. Len(NoParse.bytes) : NoParse.cols[i].ends \in Seq(Nat)
  BY <1>1, <1>3, <1>5, <1>6, Zenon
<1> QED
  BY <1>1, <1>3, <1>4, <1>6, <1>7 DEF IsParse

--------------------------------------------------------------------------------
\* The ends searched at an offset: none where no key can be matched.
Searched(s, offset) ==
  IF offset < SessionLen(s) /\ spans_a_matrix_key(s.of, offset)
  THEN offset + 1 .. SessionLen(s) ELSE {}

\* The rows a window at an offset may hold.
PhraseRow(s, offset, end) ==
  Row("phrase", Token("sys", Spelling(s.of.bytes, offset, end)), end - offset)
AddonRow(s, offset, end) ==
  Row("addon", Token("addon", Spelling(s.of.bytes, offset, end)), end - offset)
PlainRows(s, offset) ==
  {Row("sentence", NoToken, s.span), Row("longer", Token("sys", <<"longer">>), 0),
   Row("fallback", NoToken, SessionLen(s) - offset)}
RowsAt(s, offset) ==
  PlainRows(s, offset)
    \union {PhraseRow(s, offset, end) : end \in Searched(s, offset)}
    \union {AddonRow(s, offset, end) : end \in Searched(s, offset)}

\* A window holds no others: each phrase spells letters after the offset
\* (scan_window).
LEMMA CandidatesShape ==
  ASSUME NEW s, s.of.bytes \in Seq(Letters), NEW offset \in Nat
  PROVE  candidates_at(s, offset) \in Seq(RowsAt(s, offset))
<1> DEFINE n == SessionLen(s)
           A == RowsAt(s, offset)
           order == IF offset < n /\ spans_a_matrix_key(s.of, offset)
                    THEN Descending(s.of.cols[offset].reach, offset, n) ELSE <<>>
           longest == IF order = <<>> THEN <<>> ELSE <<Head(order)>>
           Phrases(lib, kind, es) ==
             [k \in DOMAIN es |-> Row(kind, Token(lib, Spelling(s.of.bytes, offset, es[k])),
                                      es[k] - offset)]
           sentence == IF s.span > 0 /\ s.sentence
                       THEN <<Row("sentence", NoToken, s.span)>> ELSE <<>>
           longer == IF s.of.keys = <<>> THEN <<>>
                     ELSE <<Row("longer", Token("sys", <<"longer">>), 0)>>
           fallback == IF order = <<>> /\ offset < n
                       THEN <<Row("fallback", NoToken, n - offset)>> ELSE <<>>
<1>1. candidates_at(s, offset)
        = sentence \o longer \o Phrases("addon", "addon", longest)
            \o Phrases("sys", "phrase", order) \o fallback
  BY Zenon DEF candidates_at
<1>2. n \in Nat
  BY DEF SessionLen
<1>3. order \in Seq(Searched(s, offset))
  <2>1. CASE offset < n /\ spans_a_matrix_key(s.of, offset)
    <3> DEFINE ends == s.of.cols[offset].reach
    <3>1. offset <= n
      BY <1>2, <2>1
    <3>2. Descending(ends, offset, n) \in Seq(ends \intersect (offset + 1 .. n))
      <4> HIDE DEF ends, n
      <4> QED
        BY <1>2, <3>1, DescendingShape, Zenon
    <3>3. Searched(s, offset) = offset + 1 .. n
      BY <2>1, Zenon DEF Searched
    <3>4. order = Descending(ends, offset, n)
      BY <2>1, Zenon
    <3> HIDE DEF ends, n, order
    <3>5. ends \intersect (offset + 1 .. n) \subseteq Searched(s, offset)
      BY <3>3, Zenon
    <3> QED
      BY <3>2, <3>4, <3>5
  <2>2. CASE ~(offset < n /\ spans_a_matrix_key(s.of, offset))
    <3>1. order = <<>>
      BY <2>2, Zenon
    <3> HIDE DEF order
    <3> QED
      BY <3>1
  <2> QED
    BY <2>1, <2>2, Zenon
<1> HIDE DEF order, n
<1>4. longest \in Seq(Searched(s, offset))
  BY <1>3
<1> HIDE DEF longest
<1>5. ASSUME NEW es \in Seq(Searched(s, offset))
      PROVE  Phrases("sys", "phrase", es) \in Seq(A) /\ Phrases("addon", "addon", es) \in Seq(A)
  <2>1. Len(es) \in Nat /\ DOMAIN es = 1 .. Len(es)
        /\ \A k \in 1 .. Len(es) : es[k] \in Searched(s, offset)
    OBVIOUS
  <2>2. \A k \in 1 .. Len(es) : PhraseRow(s, offset, es[k]) \in A
                                  /\ AddonRow(s, offset, es[k]) \in A
    BY <2>1, Zenon DEF RowsAt
  <2>3. Phrases("sys", "phrase", es) = [k \in 1 .. Len(es) |-> PhraseRow(s, offset, es[k])]
    BY <2>1, Zenon DEF PhraseRow
  <2>4. Phrases("addon", "addon", es) = [k \in 1 .. Len(es) |-> AddonRow(s, offset, es[k])]
    BY <2>1, Zenon DEF AddonRow
  <2> HIDE DEF Phrases, A
  <2> QED
    BY <2>1, <2>2, <2>3, <2>4
<1>6. sentence \in Seq(A) /\ longer \in Seq(A) /\ fallback \in Seq(A)
  <2> DEFINE r1 == Row("sentence", NoToken, s.span)
             r2 == Row("longer", Token("sys", <<"longer">>), 0)
             r3 == Row("fallback", NoToken, n - offset)
  <2>1. r1 \in A /\ r2 \in A /\ r3 \in A
    BY Zenon DEF RowsAt, PlainRows, n
  <2> HIDE DEF r1, r2, r3, A
  <2>2. <<r1>> \in Seq(A) /\ <<r2>> \in Seq(A) /\ <<r3>> \in Seq(A) /\ <<>> \in Seq(A)
    BY <2>1
  <2> QED
    BY <2>2, Zenon DEF r1, r2, r3
<1> DEFINE addons == Phrases("addon", "addon", longest)
           phrases == Phrases("sys", "phrase", order)
<1>7. addons \in Seq(A) /\ phrases \in Seq(A)
  BY <1>3, <1>4, <1>5, Zenon
<1> HIDE DEF addons, phrases, A, sentence, longer, fallback
<1>8. sentence \o longer \in Seq(A)
  BY <1>6, ConcatShape, Zenon
<1>9. sentence \o longer \o addons \in Seq(A)
  BY <1>7, <1>8, ConcatShape, Zenon
<1>10. sentence \o longer \o addons \o phrases \in Seq(A)
  BY <1>7, <1>9, ConcatShape, Zenon
<1>11. sentence \o longer \o addons \o phrases \o fallback \in Seq(A)
  BY <1>6, <1>10, ConcatShape, Zenon
<1> QED
  BY <1>1, <1>11, Zenon DEF addons, phrases, A

\* The rows of a window, each with its number there.
Listing(rows) == {[row |-> rows[k], source |-> k] : k \in DOMAIN rows}

\* The rows listed are rows of the window, each with its number there (the
\* snapshot of pinyin_guess_candidates).
LEMMA SnapshotShape ==
  ASSUME NEW S, NEW rows \in Seq(S), NEW midKey
  PROVE  SnapshotOf(rows, midKey) \in Seq(Listing(rows))
<1> DEFINE n == Len(rows)
           V == Seq(Listing(rows))
           Listed(row) == /\ row.kind # "fallback"
                          /\ midKey => row.kind \in {"sentence", "longer"}
           Body(v, k) == IF Listed(rows[k]) THEN Append(v, [row |-> rows[k], source |-> k])
                         ELSE v
           Step == [x \in V \X (0 .. n) |-> IF x[2] = 0 THEN x[1] ELSE Body(x[1], x[2])]
           Runs(g) == g = [k \in 0 .. n |-> IF k = 0 THEN <<>> ELSE Body(g[k - 1], k)]
           d == CHOOSE g : Runs(g)
<1>0. n \in Nat /\ DOMAIN rows = 1 .. n
  OBVIOUS
<1>1. SnapshotOf(rows, midKey) = d[n]
  BY Zenon DEF SnapshotOf
<1> HIDE DEF Listed
<1>2. <<>> \in V /\ \A v \in V : \A k \in 0 .. n : k # 0 => Body(v, k) \in V
  <2>1. \A k \in 1 .. n : [row |-> rows[k], source |-> k] \in Listing(rows)
    BY <1>0, Zenon DEF Listing
  <2>2. ASSUME NEW v \in V, NEW k \in 1 .. n
        PROVE  Append(v, [row |-> rows[k], source |-> k]) \in V
    <3> DEFINE x == [row |-> rows[k], source |-> k]
    <3>1. x \in Listing(rows)
      BY <2>1, Zenon
    <3> HIDE DEF x
    <3>2. Append(v, x) \in V
      BY <3>1
    <3> QED
      BY <3>2, Zenon DEF x
  <2>3. <<>> \in V
    OBVIOUS
  <2> HIDE DEF V
  <2> QED
    BY <1>0, <2>2, <2>3
<1> HIDE DEF V, Body, n
<1>3. Step \in [V \X (0 .. n) -> V]
  BY <1>2, Zenon
<1>4. PICK g : LoopOf(g, 0, n, V, <<>>, Step)
  <2> HIDE DEF Step
  <2>1. 0 \in Nat /\ 0 <= n
    BY <1>0
  <2> QED
    BY <1>0, <1>2, <1>3, <2>1, LoopRuns, Zenon
<1>5. \A k \in 0 .. n : k # 0 => Step[<<g[k - 1], k>>] = Body(g[k - 1], k)
  BY <1>0, <1>4 DEF LoopOf
<1> HIDE DEF Step
<1>6. Runs(g)
  BY <1>4, <1>5, Zenon DEF LoopOf
<1>7. Runs(d)
  <2> HIDE DEF Runs
  <2> QED
    BY <1>6, Zenon
<1> HIDE DEF d
<1>8. d[0] \in V /\ \A k \in 0 .. n : k # 0 /\ d[k - 1] \in V => d[k] \in V
  BY <1>0, <1>2, <1>7
<1>9. \A k \in 0 .. n : d[k] \in V
  <2>1. 0 \in Nat
    BY Zenon
  <2> QED
    BY <1>0, <1>8, <2>1, LoopStays, Zenon
<1> QED
  BY <1>0, <1>1, <1>9 DEF V

--------------------------------------------------------------------------------
\* The start of the separators before an offset is an offset.
LEMMA WalkOffset ==
  ASSUME NEW p, NEW offset \in Nat
  PROVE  zero_start_walk(p, offset) \in Nat
<1> DEFINE S == {offset} \union
                {i \in 1 .. offset - 1 : \A j \in i .. offset - 1 : lone_zero(p, j)}
<1>1. S \in SUBSET Nat /\ S # {}
  OBVIOUS
<1>2. zero_start_walk(p, offset) = Min(S)
  BY Zenon DEF zero_start_walk
<1> HIDE DEF S
<1> QED
  BY <1>1, <1>2, MinExists, Zenon

\* Every cursor call answers an offset or a refusal.
LEMMA CursorAnswers ==
  ASSUME NEW p, IsParse(p), NEW offset \in Nat
  PROVE  /\ lookup_offset(p, offset) \in Int
         /\ left_offset(p, offset) \in Int
         /\ right_offset(p, offset) \in Int
<1>1. Len(p.bytes) \in Nat /\ p.parsed \in Nat
  BY DEF IsParse
<1>2. \A x \in Int : check(p, x) \in Int
  BY DEF check, ZeroKey
<1>3. lookup_offset(p, offset) \in Int
  <2> DEFINE bound == Lesser(offset, Lesser(p.parsed, Len(p.bytes)))
             S == {0} \union {i \in 1 .. bound : ~is_empty(p, i)}
  <2>1. bound \in Nat
    BY <1>1, Zenon DEF Lesser
  <2> HIDE DEF bound
  <2>2. S \in SUBSET (0 .. bound) /\ S # {}
    BY <2>1
  <2>3. lookup_offset(p, offset) = check(p, zero_start_walk(p, Max(S)))
    BY Zenon DEF lookup_offset, bound
  <2> HIDE DEF S
  <2>4. Max(S) \in Nat
    BY <2>1, <2>2, MaxExists, Zenon
  <2>5. zero_start_walk(p, Max(S)) \in Nat
    BY <2>4, WalkOffset, Zenon
  <2> QED
    BY <1>2, <2>3, <2>5
<1>4. left_offset(p, offset) \in Int
  <2> DEFINE S == {0} \union {i \in 1 .. offset - 1 : ends_with(p, i, offset)}
  <2>1. S \in SUBSET (0 .. offset) /\ S # {}
    OBVIOUS
  <2>2. left_offset(p, offset) \in {OutOfRange, ZeroKey, check(p, zero_start_walk(p, Max(S)))}
    BY Zenon DEF left_offset
  <2> HIDE DEF S
  <2>3. Max(S) \in Nat
    BY <2>1, MaxExists, Zenon
  <2>4. zero_start_walk(p, Max(S)) \in Nat
    BY <2>3, WalkOffset, Zenon
  <2> QED
    BY <1>2, <2>2, <2>4 DEF OutOfRange, ZeroKey
<1>5. right_offset(p, offset) \in Int
  <2> DEFINE S == {i \in offset .. Len(p.bytes) : i = Len(p.bytes) \/ ~lone_zero(p, i)}
             right == Min(S)
             end == IF Real(p, right) # {} THEN Head(p.cols[right].ends) ELSE right + 1
  <2>1. CASE offset > Len(p.bytes)
    BY <2>1 DEF right_offset, OutOfRange
  <2>2. CASE offset <= Len(p.bytes)
    <3>1. S \in SUBSET Nat /\ S # {} /\ S \subseteq 0 .. Len(p.bytes)
      <4>1. Len(p.bytes) \in S
        BY <1>1, <2>2
      <4> QED
        BY <1>1, <4>1
    <3>2. right_offset(p, offset) \in {OutOfRange, ZeroKey, NoKey, check(p, end)}
      BY Zenon DEF right_offset
    <3> HIDE DEF S
    <3>3. right \in 0 .. Len(p.bytes)
      BY <3>1, MinExists, Zenon
    <3> HIDE DEF right
    <3>4. p.cols[right].ends \in Seq(Nat)
      BY <3>3, Zenon DEF IsParse
    <3>5. Real(p, right) # {} => p.cols[right].ends # <<>>
      BY DEF Real, Range
    <3>6. end \in Int
      <4> DEFINE ends == p.cols[right].ends
      <4>1. ends \in Seq(Nat) /\ (ends # <<>> => Head(ends) \in Nat)
        <5> HIDE DEF ends
        <5>1. ends \in Seq(Nat)
          BY <3>4, Zenon DEF ends
        <5> QED
          BY <5>1
      <4>2. right + 1 \in Int
        BY <1>1, <3>3
      <4> QED
        BY <3>5, <4>1, <4>2
    <3> HIDE DEF end
    <3> QED
      BY <1>2, <3>2, <3>6 DEF OutOfRange, ZeroKey, NoKey
  <2> QED
    BY <1>1, <2>1, <2>2
<1> QED
  BY <1>3, <1>4, <1>5, Zenon

\* So does the check of a lookup offset.
LEMMA LookupAnswers ==
  ASSUME NEW p, NEW len \in Nat, NEW offset \in Nat
  PROVE  validate_lookup_offset(p, len, offset) \in Int
<1>1. ASSUME NEW bytes
      PROVE  normalize_lookup_offset(bytes, offset) \in Int
  <2> DEFINE S == {offset} \union {i \in 1 .. offset - 1 :
                                     \A j \in i .. offset - 1 : ByteAt(bytes, j) = Sep}
  <2>1. S \in SUBSET Nat /\ S # {}
    OBVIOUS
  <2>2. normalize_lookup_offset(bytes, offset) \in {OutOfRange, offset, PastSeparator, Min(S)}
    BY Zenon DEF normalize_lookup_offset
  <2> HIDE DEF S
  <2>3. Min(S) \in Nat
    BY <2>1, MinExists, Zenon
  <2> QED
    BY <2>2, <2>3 DEF OutOfRange, PastSeparator
<1> DEFINE whole == normalize_lookup_offset(p.bytes, offset)
           prefix == normalize_lookup_offset(
                       SubSeq(p.bytes, 1, Lesser(p.parsed, Len(p.bytes))), offset)
<1>2. whole \in Int /\ prefix \in Int
  BY <1>1, Zenon
<1>3. validate_lookup_offset(p, len, offset) \in {OutOfRange, offset, whole, prefix}
  <2>1. p.mode \in {"zhuyin", "double"} \/ p.mode = "index"
        \/ ~(p.mode \in {"zhuyin", "double"} \/ p.mode = "index")
    BY Zenon
  <2> HIDE DEF whole, prefix
  <2> QED
    BY <2>1, Zenon DEF validate_lookup_offset, whole, prefix
<1> HIDE DEF whole, prefix
<1> QED
  BY <1>2, <1>3 DEF OutOfRange

\* The maps between the two texts answer offsets.
LEMMA MapsAnswer ==
  ASSUME NEW keys \in Seq(Keys), NEW consumed \in Nat, NEW offset
  PROVE  /\ session_column(keys, Boundaries(keys), offset) \in Nat
         /\ original_offset(keys, Boundaries(keys), consumed, offset) \in Nat
<1> DEFINE n == Len(keys)
           b == Boundaries(keys)
           text == JoinedText(keys)
<1>1. n \in Nat /\ DOMAIN keys = 1 .. n /\ \A k \in 1 .. n : keys[k].end \in Nat
  <2>1. n \in Nat /\ DOMAIN keys = 1 .. n /\ \A k \in 1 .. n : keys[k] \in Keys
    OBVIOUS
  <2> QED
    BY <2>1, Zenon DEF Keys
<1>2. \A k \in 1 .. n : b[k] \in Nat
  <2> SUFFICES ASSUME NEW k \in 1 .. n
               PROVE  b[k] \in Nat
    BY Zenon
  <2>1. \A i \in 0 .. n : text[i] \in Seq(Letters)
    BY JoinedTextShape, Zenon
  <2>2. b[k] = Len(text[k])
    BY <1>1, Zenon DEF Boundaries
  <2>3. text[k] \in Seq(Letters)
    BY <1>1, <2>1
  <2> HIDE DEF text
  <2> QED
    BY <2>2, <2>3
<1> HIDE DEF b
<1>3. session_column(keys, b, offset) \in Nat
  <2> DEFINE past == {k \in DOMAIN keys : offset < keys[k].end}
             passed == IF past = {} THEN n ELSE Min(past) - 1
  <2>1. past \in SUBSET Nat /\ past \subseteq 1 .. n
    BY <1>1
  <2>2. session_column(keys, b, offset) = IF passed = 0 THEN 0 ELSE b[passed]
    BY Zenon DEF session_column
  <2> HIDE DEF past
  <2>3. past # {} => Min(past) \in 1 .. n
    BY <2>1, MinExists, Zenon
  <2>4. passed \in 0 .. n
    BY <1>1, <2>3
  <2> HIDE DEF passed
  <2> QED
    BY <1>1, <1>2, <2>2, <2>4
<1>4. original_offset(keys, b, consumed, offset) \in Nat
  <2> DEFINE reach == {k \in DOMAIN keys : offset <= b[k]}
  <2>1. reach \in SUBSET Nat /\ reach \subseteq 1 .. n
    BY <1>1
  <2>2. original_offset(keys, b, consumed, offset)
          = IF reach = {} THEN consumed ELSE keys[Min(reach)].end
    BY Zenon DEF original_offset
  <2> HIDE DEF reach
  <2>3. reach # {} => Min(reach) \in 1 .. n
    BY <2>1, MinExists, Zenon
  <2> QED
    BY <1>1, <2>2, <2>3, Zenon
<1> QED
  BY <1>3, <1>4, Zenon DEF b

--------------------------------------------------------------------------------
\* The session holds a parse of plain full pinyin, or one that came with keys, or
\* none.
IsSession(s) ==
  /\ s = [of |-> s.of, word |-> s.word, consumed |-> s.consumed, forced |-> s.forced,
          span |-> s.span, sentence |-> s.sentence]
  /\ IsParse(s.of)
  /\ s.of.mode = "full" => s.of \in Parses
  /\ s.of.mode # "full" /\ s.of.keys = <<>> => s.of = NoParse

\* A row of a window at an anchor ends at an offset, unless it is one of those
\* placed at every offset, and an addon row has a token of the addon library.
IsRow(row) ==
  /\ row = Row(row.kind, row.token, row.span)
  /\ row.token = Token(row.token.lib, row.token.spells)
Windowed(row, anchor) ==
  /\ IsRow(row)
  /\ row.kind = "addon" => row.token.lib = "addon"
  /\ row.kind \notin {"sentence", "longer"} => anchor + row.span \in Nat
IsWindow(w) ==
  /\ w.anchor \in Nat
  /\ \A k \in DOMAIN w.rows : Windowed(w.rows[k], w.anchor)

IsFront(f) ==
  /\ f = [events |-> f.events, at |-> f.at, input |-> f.input, fresh |-> f.fresh,
          choice |-> f.choice]
  /\ f.at \in Nat

\* A row shown is the row of the window with its number, or that addon row
\* promoted.
ShownFrom(item, rows) ==
  /\ item.source \in DOMAIN rows
  /\ LET row == rows[item.source]
     IN item.row = row \/ (row.kind = "addon" /\ item.row = Promoted(row))

IsItem(item) == item = [row |-> item.row, source |-> item.source] /\ IsRow(item.row)

\* The inductive invariant: what the calls hand each other, the rows of the last
\* guess as the window still holds them, and the rows as letters of the input.
Held ==
  /\ live \in Words
  /\ parse # NoParse => parse \in Parses
  /\ plen \in Nat
  /\ IsSession(sess)
  /\ IsWindow(window)
  /\ IsFront(front)
  /\ \A i \in DOMAIN shown : IsItem(shown[i])
  /\ front.fresh => \A i \in DOMAIN shown : ShownFrom(shown[i], window.rows)
  /\ RowsOfThisInput

--------------------------------------------------------------------------------
\* The options change how the text is read, never the text (set_options).
LEMMA OptionsShape ==
  ASSUME NEW s, IsSession(s), NEW word \in Words
  PROVE  IsSession(set_options(s, word)) /\ set_options(s, word).of.bytes = s.of.bytes
<1> DEFINE p == s.of
           again == ParseOf("full", p.input, word)
           q == [p EXCEPT !.divided = ParseOf(p.mode, p.input, word).divided]
           of == IF p.mode = "none" \/ s.word = word THEN p
                 ELSE IF p.mode = "full" THEN again
                 ELSE IF Divides(q) = Divides(p) THEN q ELSE Retained(q)
<1>1. set_options(s, word) = [s EXCEPT !.word = word, !.of = of]
  BY Zenon DEF set_options
<1>2. /\ s = [of |-> s.of, word |-> s.word, consumed |-> s.consumed, forced |-> s.forced,
              span |-> s.span, sentence |-> s.sentence]
      /\ IsParse(p)
      /\ p.mode = "full" => p \in Parses
      /\ p.mode # "full" /\ p.keys = <<>> => p = NoParse
  BY Zenon DEF IsSession
<1> DEFINE Fine(o) == /\ IsParse(o) /\ o.bytes = p.bytes
                      /\ o.mode = "full" => o \in Parses
                      /\ o.mode # "full" /\ o.keys = <<>> => o = NoParse
<1>3. Fine(p)
  BY <1>2, Zenon
<1>4. p.mode = "full" => Fine(again)
  <2> SUFFICES ASSUME p.mode = "full"
               PROVE  Fine(again)
    BY Zenon
  <2>1. p \in Parses
    BY <1>2, Zenon
  <2>2. \E r \in Parses : r.mode = "full" /\ r.input = p.input /\ r.word = word
    BY <2>1, ParsesAssumption
  <2>3. again \in Parses /\ again.mode = "full" /\ again.input = p.input
    BY <2>2, Zenon DEF ParseOf
  <2> HIDE DEF again
  <2>4. IsParse(again) /\ again.bytes = p.bytes
    BY <2>1, <2>3, ParsesAssumption
  <2> QED
    BY <2>3, <2>4, Zenon
<1>5. p.mode # "none" /\ p.mode # "full" => Fine(q) /\ Fine(Retained(q))
  <2> SUFFICES ASSUME p.mode # "none", p.mode # "full"
               PROVE  Fine(q) /\ Fine(Retained(q))
    BY Zenon
  <2> DEFINE x == ParseOf(p.mode, p.input, word).divided
  <2>1. q = [p EXCEPT !.divided = x]
    BY Zenon
  <2> HIDE DEF x, q
  <2>2. q = [mode |-> p.mode, input |-> p.input, word |-> p.word, divided |-> x,
             bytes |-> p.bytes, parsed |-> p.parsed, keys |-> p.keys, cols |-> p.cols]
    <3>1. p = [mode |-> p.mode, input |-> p.input, word |-> p.word, divided |-> p.divided,
               bytes |-> p.bytes, parsed |-> p.parsed, keys |-> p.keys, cols |-> p.cols]
      BY <1>2, Zenon DEF IsParse
    <3> HIDE DEF p
    <3> QED
      BY <2>1, <3>1, Zenon
  <2>3. p.keys # <<>>
    BY <1>2, NoParseShape, Zenon
  <2>4. IsParse(q) /\ q.mode = p.mode /\ q.bytes = p.bytes /\ q.keys = p.keys
    BY <1>2, <2>2, Zenon DEF IsParse
  <2>5. Unretained(q)
    BY <2>4, Zenon DEF IsParse, Unretained
  <2>6. LET r == Retained(q)
        IN /\ IsParse(r) /\ r.mode = q.mode /\ r.input = q.input
           /\ r.bytes = q.bytes /\ r.keys = q.keys
    BY <2>5, RetainedShape, Zenon
  <2> QED
    BY <2>3, <2>4, <2>6, Zenon
<1>6. Fine(of)
  <2> HIDE DEF Fine, again, q, p
  <2> QED
    BY <1>3, <1>4, <1>5, Zenon
<1> HIDE DEF of
<1>7. set_options(s, word)
        = [of |-> of, word |-> word, consumed |-> s.consumed, forced |-> s.forced,
           span |-> s.span, sentence |-> s.sentence]
  BY <1>1, <1>2, Zenon
<1> QED
  BY <1>6, <1>7 DEF IsSession

\* Another composition offset, other forced runs or another span leave the text.
LEMMA TextStays ==
  ASSUME NEW s, IsSession(s), NEW t,
         t = [of |-> s.of, word |-> t.word, consumed |-> t.consumed, forced |-> t.forced,
              span |-> t.span, sentence |-> t.sentence]
  PROVE  IsSession(t) /\ t.of = s.of
<1>1. t.of = s.of
  OBVIOUS
<1> QED
  BY <1>1, Zenon DEF IsSession

\* A replaced text is the session's (replace_raw).
LEMMA ReplacedShape ==
  ASSUME NEW s, IsSession(s), NEW p, IsParse(p), p.mode = "full" => p \in Parses,
         p.mode # "full" /\ p.keys = <<>> => p = NoParse
  PROVE  IsSession(replace_raw(s, p))
<1> DEFINE r == replace_raw(s, p)
<1>1. s = [of |-> s.of, word |-> s.word, consumed |-> s.consumed, forced |-> s.forced,
           span |-> s.span, sentence |-> s.sentence]
  BY Zenon DEF IsSession
<1>2. PICK c : r = [s EXCEPT !.of = p, !.consumed = c]
  BY Zenon DEF replace_raw
<1> HIDE DEF r
<1>3. r = [of |-> p, word |-> s.word, consumed |-> c, forced |-> s.forced,
           span |-> s.span, sentence |-> s.sentence]
  BY <1>1, <1>2, Zenon
<1>4. IsSession(r)
  BY <1>3, Zenon DEF IsSession
<1> QED
  BY <1>4, Zenon DEF r

\* The keys of a transformed parse, joined, are such a text.
LEMMA ExactReplaces ==
  ASSUME NEW s, IsSession(s), NEW p \in Parses, p.mode # "full", p.keys # <<>>
  PROVE  IsSession(replace_raw(s, exact_input(p)))
<1>1. IsParse(p)
  BY ParsesAssumption, Zenon
<1>2. LET r == exact_input(p)
      IN /\ IsParse(r) /\ r.mode = p.mode /\ r.input = p.input
         /\ p.keys # <<>> => r.keys # <<>>
  BY <1>1, ExactInputShape, Zenon
<1> QED
  BY <1>2, ReplacedShape, Zenon

\* Only a parse with keys is searched (scan_window).
LEMMA SearchedHasKeys ==
  ASSUME NEW s, IsSession(s), NEW offset \in Nat, Searched(s, offset) # {}
  PROVE  s.of.keys # <<>> /\ s.of.bytes # <<>>
<1> DEFINE p == s.of
<1>1. offset < Len(p.bytes) /\ spans_a_matrix_key(p, offset)
  BY Zenon DEF Searched, SessionLen
<1>2. IsParse(p) /\ Len(p.bytes) \in Nat
  BY DEF IsSession, IsParse
<1>3. p.bytes # <<>>
  BY <1>1
<1>4. SUFFICES ASSUME p.keys = <<>>
               PROVE  FALSE
  BY <1>3, Zenon
<1>5. Real(p, offset) # {}
  BY <1>1, <1>4 DEF spans_a_matrix_key
<1>6. p.mode = "full"
  BY <1>3, <1>4, NoParseShape, Zenon DEF IsSession
<1>7. p \in Parses
  BY <1>6, Zenon DEF IsSession
<1>8. p.cols[offset].ends = <<>>
  BY <1>1, <1>2, <1>4, <1>7, ParsesAssumption
<1> QED
  BY <1>5, <1>8 DEF Real, Range

--------------------------------------------------------------------------------
\* A row spells letters of the bytes.
OfInput(row, bytes) ==
  \E start \in 0 .. Len(bytes) : \E end \in start .. Len(bytes) :
    row.token.spells = Spelling(bytes, start, end)

\* What RowsOfThisInput says of the rows shown.
AllOfInput ==
  \A i \in DOMAIN shown :
    shown[i].row.kind \in {"phrase", "addon"} =>
      mode_has_keys(Active) /\ OfInput(shown[i].row, sess.of.bytes)

\* RowsOfThisInput is AllOfInput, while the parse stands or the rows are fresh.
LEMMA RowsMeaning ==
  /\ RowsOfThisInput <=> (ParseStands \/ front.fresh => AllOfInput)
  /\ RowsOfThisInput' <=> (ParseStands' \/ front'.fresh => AllOfInput')
<1>1. RowsOfThisInput <=> (ParseStands \/ front.fresh => AllOfInput)
  BY Zenon DEF RowsOfThisInput, AllOfInput, OfInput, SessionLen
<1>2. RowsOfThisInput' <=> (ParseStands' \/ front'.fresh => AllOfInput')
  BY Zenon DEF RowsOfThisInput, AllOfInput, OfInput, SessionLen
<1> QED
  BY <1>1, <1>2, Zenon

\* Every parse starts without rows (begin_parse).
LEMMA ParsedHeld ==
  ASSUME NEW p, NEW s, NEW n, begin_parse(p, s, n), p # NoParse => p \in Parses,
         IsSession(s), n \in Nat, live' \in Words, IsFront(front')
  PROVE  Held'
<1>1. parse' = p /\ plen' = n /\ sess' = s /\ window' = NoWindow /\ shown' = <<>>
  BY Zenon DEF begin_parse
<1>2. DOMAIN shown' = {}
  BY <1>1
<1>3. AllOfInput'
  BY <1>2, Zenon DEF AllOfInput
<1>4. RowsOfThisInput'
  BY <1>3, RowsMeaning, Zenon
<1>5. NoWindow.anchor = 0 /\ NoWindow.rows = <<>>
  BY Zenon DEF NoWindow
<1>6. DOMAIN NoWindow.rows = {}
  BY <1>5
<1>7. IsWindow(NoWindow)
  BY <1>5, <1>6 DEF IsWindow
<1> QED
  BY <1>1, <1>2, <1>4, <1>7, Zenon DEF Held

\* A call that leaves the text, the rows and the window keeps what is held.
LEMMA KeptHeld ==
  ASSUME Held, UNCHANGED <<parse, plen, window, shown>>, live' \in Words,
         IsSession(sess'), sess'.of = sess.of, IsFront(front'),
         front'.fresh => front.fresh, front'.input = "parsed" => front.input = "parsed"
  PROVE  Held'
<1>1. Active' = Active
  BY Zenon DEF Active, ActiveOf
<1>2. AllOfInput => AllOfInput'
  BY <1>1, Zenon DEF AllOfInput
<1>3. RowsOfThisInput'
  BY <1>2, RowsMeaning, Zenon DEF Held, ParseStands
<1> QED
  BY <1>3, Zenon DEF Held

\* What the frontend notes of a call.
Notes(f, fresh, input) == IsFront(f) /\ f.fresh = fresh /\ f.input = input

\* One field of it changes, and the others are what they were.
LEMMA FrontShape ==
  ASSUME NEW f, IsFront(f), NEW x
  PROVE  /\ Notes([f EXCEPT !.events = x], f.fresh, f.input)
         /\ Notes([f EXCEPT !.choice = x], f.fresh, f.input)
         /\ x \in Nat => Notes([f EXCEPT !.at = x], f.fresh, f.input)
         /\ Notes([f EXCEPT !.fresh = x], x, f.input)
         /\ Notes([f EXCEPT !.input = x], f.fresh, x)
<1>1. f = [events |-> f.events, at |-> f.at, input |-> f.input, fresh |-> f.fresh,
           choice |-> f.choice]
  BY Zenon DEF IsFront
<1>2. [f EXCEPT !.events = x]
        = [events |-> x, at |-> f.at, input |-> f.input, fresh |-> f.fresh,
           choice |-> f.choice]
  BY <1>1
<1>3. [f EXCEPT !.choice = x]
        = [events |-> f.events, at |-> f.at, input |-> f.input, fresh |-> f.fresh,
           choice |-> x]
  BY <1>1
<1>4. [f EXCEPT !.at = x]
        = [events |-> f.events, at |-> x, input |-> f.input, fresh |-> f.fresh,
           choice |-> f.choice]
  BY <1>1
<1>5. [f EXCEPT !.fresh = x]
        = [events |-> f.events, at |-> f.at, input |-> f.input, fresh |-> x,
           choice |-> f.choice]
  BY <1>1
<1>6. [f EXCEPT !.input = x]
        = [events |-> f.events, at |-> f.at, input |-> x, fresh |-> f.fresh,
           choice |-> f.choice]
  BY <1>1
<1>7. f.at \in Nat
  BY Zenon DEF IsFront
<1> HIDE DEF IsFront
<1>8. ASSUME NEW e, NEW a, NEW i, NEW r, NEW c, NEW g,
             g = [events |-> e, at |-> a, input |-> i, fresh |-> r, choice |-> c]
      PROVE  a \in Nat => Notes(g, r, i)
  BY <1>8, Zenon DEF IsFront, Notes
<1> QED
  BY <1>2, <1>3, <1>4, <1>5, <1>6, <1>7, <1>8

\* The frontend as a parse leaves it (begin_parse).
LEMMA FrontStarts ==
  ASSUME NEW input
  PROVE  IsFront(Renewed(input)) /\ IsFront(NewFront) /\ NewFront.fresh = FALSE
<1>1. NewFront = [events |-> 0, at |-> 0, input |-> "none", fresh |-> FALSE,
                  choice |-> NoChoice]
  BY Zenon DEF NewFront
<1>2. IsFront(NewFront) /\ NewFront.fresh = FALSE
  BY <1>1, Zenon DEF IsFront
<1> DEFINE g == [NewFront EXCEPT !.events = front.events]
<1>3. IsFront(g)
  BY <1>2, FrontShape, Zenon DEF Notes
<1>4. Renewed(input) = [g EXCEPT !.input = input]
  BY Zenon DEF Renewed
<1> HIDE DEF g, Renewed
<1>5. IsFront([g EXCEPT !.input = input])
  BY <1>3, FrontShape, Zenon DEF Notes
<1> QED
  BY <1>2, <1>4, <1>5, Zenon

\* A call that reached the engine is counted, and nothing else of the frontend
\* changes with it.
LEMMA EventFront ==
  ASSUME NEW f, IsFront(f), Event(f)
  PROVE  IsFront(front') /\ front'.fresh = f.fresh /\ front'.input = f.input
<1> DEFINE e == f.events + 1
<1>1. front' = [f EXCEPT !.events = e]
  BY Zenon DEF Event
<1> HIDE DEF e
<1>2. f = [events |-> f.events, at |-> f.at, input |-> f.input, fresh |-> f.fresh,
           choice |-> f.choice] /\ f.at \in Nat
  BY Zenon DEF IsFront
<1>3. front' = [events |-> e, at |-> f.at, input |-> f.input, fresh |-> f.fresh,
                choice |-> f.choice]
  BY <1>1, <1>2, Zenon
<1> QED
  BY <1>2, <1>3, Zenon DEF IsFront

\* The frontend goes on as it was.
LEMMA LaterFront ==
  ASSUME Held
  PROVE  /\ IsFront(Later) /\ Later.fresh = front.fresh /\ Later.input = front.input
         /\ Event(Later) => /\ IsFront(front') /\ front'.fresh = front.fresh
                            /\ front'.input = front.input
<1>1. IsFront(front)
  BY Zenon DEF Held
<1>a. Notes([front EXCEPT !.choice = NoChoice], front.fresh, front.input)
  BY <1>1, FrontShape, Zenon
<1>2. IsFront(Later) /\ Later.fresh = front.fresh /\ Later.input = front.input
  BY <1>a, Zenon DEF Later, Notes
<1> QED
  BY <1>2, EventFront, Zenon

\* The parses: ParseMore, ParseFails and Reset.
LEMMA ParsesHeld ==
  ASSUME Held
  PROVE  /\ \A p \in Parses : ParseMore(p) \/ ParseFails(p) => Held'
         /\ Reset => Held'
<1>1. live \in Words /\ IsSession(sess)
  BY Zenon DEF Held
<1> DEFINE s == set_options(sess, live)
<1>2. IsSession(s)
  BY <1>1, OptionsShape, Zenon
<1> HIDE DEF s
<1>3. IsSession(replace_raw(s, NoParse))
  BY <1>2, NoParseShape, ReplacedShape, Zenon
<1>4. ASSUME NEW p \in Parses, p.mode = "full"
      PROVE  IsSession(replace_raw(s, p))
  BY <1>2, <1>4, ReplacedShape, ParsesAssumption, Zenon
<1>5. ASSUME NEW p \in Parses, p.mode # "full", p.keys # <<>>
      PROVE  IsSession(replace_raw(s, exact_input(p)))
  BY <1>2, <1>5, ExactReplaces, Zenon
<1>6. ASSUME NEW input, Event(Renewed(input))
      PROVE  IsFront(front')
  BY <1>6, FrontStarts, EventFront, Zenon
<1>7. ASSUME NEW p \in Parses, ParseMore(p)
      PROVE  Held'
  <2>1. IsFront(front') /\ live' \in Words /\ p.parsed \in Nat
    <3>1. Event(Renewed("parsed")) /\ live' = live
      BY <1>7, Zenon DEF ParseMore
    <3>2. p.parsed \in Nat
      BY ParsesAssumption, Zenon DEF IsParse
    <3> QED
      BY <1>1, <1>6, <3>1, <3>2, Zenon
  <2>2. \/ begin_parse(NoParse, replace_raw(s, NoParse), 0)
        \/ p.mode = "full" /\ begin_parse(NoParse, replace_raw(s, p), p.parsed)
        \/ p.mode # "full" /\ p.keys = <<>> /\ begin_parse(p, s, p.parsed)
        \/ /\ p.mode # "full" /\ p.keys # <<>>
           /\ begin_parse(p, replace_raw(s, exact_input(p)), p.parsed)
    BY <1>7, Zenon DEF ParseMore, s
  <2>3. CASE begin_parse(NoParse, replace_raw(s, NoParse), 0)
    BY <1>3, <2>1, <2>3, ParsedHeld, Zenon
  <2>4. CASE p.mode = "full" /\ begin_parse(NoParse, replace_raw(s, p), p.parsed)
    BY <1>4, <2>1, <2>4, ParsedHeld, Zenon
  <2>5. CASE p.mode # "full" /\ p.keys = <<>> /\ begin_parse(p, s, p.parsed)
    BY <1>2, <2>1, <2>5, ParsedHeld, Zenon
  <2>6. CASE /\ p.mode # "full" /\ p.keys # <<>>
             /\ begin_parse(p, replace_raw(s, exact_input(p)), p.parsed)
    BY <1>5, <2>1, <2>6, ParsedHeld, Zenon
  <2> QED
    BY <2>2, <2>3, <2>4, <2>5, <2>6, Zenon
<1>8. ASSUME NEW p \in Parses, ParseFails(p)
      PROVE  Held'
  <2>1. IsFront(front') /\ live' \in Words
    <3>1. Event(Renewed("none")) /\ live' = live
      BY <1>8, Zenon DEF ParseFails
    <3> QED
      BY <1>1, <1>6, <3>1, Zenon
  <2>2. \/ begin_parse(NoParse, s, 0)
        \/ p.mode = "full" /\ begin_parse(NoParse, replace_raw(s, p), 0)
        \/ /\ p.mode # "full" /\ p.keys # <<>>
           /\ begin_parse(NoParse, replace_raw(s, exact_input(p)), 0)
    BY <1>8, Zenon DEF ParseFails, s
  <2>3. CASE begin_parse(NoParse, s, 0)
    BY <1>2, <2>1, <2>3, ParsedHeld, Zenon
  <2>4. CASE p.mode = "full" /\ begin_parse(NoParse, replace_raw(s, p), 0)
    BY <1>4, <2>1, <2>4, ParsedHeld, Zenon
  <2>5. CASE /\ p.mode # "full" /\ p.keys # <<>>
             /\ begin_parse(NoParse, replace_raw(s, exact_input(p)), 0)
    BY <1>5, <2>1, <2>5, ParsedHeld, Zenon
  <2> QED
    BY <2>2, <2>3, <2>4, <2>5, Zenon
<1>9. ASSUME Reset
      PROVE  Held'
  <2> DEFINE t == [sess EXCEPT !.of = NoParse, !.consumed = 0, !.forced = {}, !.span = 0]
  <2>1. IsSession(t)
    <3>1. sess = [of |-> sess.of, word |-> sess.word, consumed |-> sess.consumed,
                  forced |-> sess.forced, span |-> sess.span, sentence |-> sess.sentence]
      BY <1>1, Zenon DEF IsSession
    <3> DEFINE t1 == [sess EXCEPT !.of = NoParse]
               t2 == [t1 EXCEPT !.consumed = 0]
               t3 == [t2 EXCEPT !.forced = {}]
    <3>a. t = [t3 EXCEPT !.span = 0]
      BY Zenon
    <3> HIDE DEF t
    <3>b. t1 = [of |-> NoParse, word |-> sess.word, consumed |-> sess.consumed,
                forced |-> sess.forced, span |-> sess.span, sentence |-> sess.sentence]
      BY <3>1
    <3> HIDE DEF t1
    <3>c. t2 = [of |-> NoParse, word |-> sess.word, consumed |-> 0,
                forced |-> sess.forced, span |-> sess.span, sentence |-> sess.sentence]
      BY <3>b
    <3> HIDE DEF t2
    <3>d. t3 = [of |-> NoParse, word |-> sess.word, consumed |-> 0, forced |-> {},
                span |-> sess.span, sentence |-> sess.sentence]
      BY <3>c
    <3> HIDE DEF t3
    <3>2. t = [of |-> NoParse, word |-> sess.word, consumed |-> 0, forced |-> {},
               span |-> 0, sentence |-> sess.sentence]
      BY <3>a, <3>d, Zenon
    <3> QED
      BY <3>2, NoParseShape, Zenon DEF IsSession
  <2>2. begin_parse(NoParse, t, 0) /\ front' = Renewed("none") /\ live' = live
    BY <1>9, Zenon DEF Reset
  <2> HIDE DEF t
  <2>3. IsFront(front')
    BY <2>2, FrontStarts, Zenon
  <2> QED
    BY <1>1, <2>1, <2>2, <2>3, ParsedHeld, Zenon
<1> QED
  BY <1>7, <1>8, <1>9, Zenon

\* What selecting, clearing and decoding change of the session is never its text.
LEMMA FieldsStay ==
  ASSUME NEW s, IsSession(s), NEW x
  PROVE  /\ IsSession([s EXCEPT !.consumed = x]) /\ [s EXCEPT !.consumed = x].of = s.of
         /\ IsSession([s EXCEPT !.forced = x]) /\ [s EXCEPT !.forced = x].of = s.of
         /\ IsSession([s EXCEPT !.span = x]) /\ [s EXCEPT !.span = x].of = s.of
         /\ IsSession([s EXCEPT !.sentence = x]) /\ [s EXCEPT !.sentence = x].of = s.of
<1>1. s = [of |-> s.of, word |-> s.word, consumed |-> s.consumed, forced |-> s.forced,
           span |-> s.span, sentence |-> s.sentence]
  BY Zenon DEF IsSession
<1> DEFINE a == [s EXCEPT !.consumed = x]
           b == [s EXCEPT !.forced = x]
           c == [s EXCEPT !.span = x]
           d == [s EXCEPT !.sentence = x]
<1>2. a = [of |-> s.of, word |-> s.word, consumed |-> x, forced |-> s.forced,
           span |-> s.span, sentence |-> s.sentence]
  BY <1>1
<1>3. b = [of |-> s.of, word |-> s.word, consumed |-> s.consumed, forced |-> x,
           span |-> s.span, sentence |-> s.sentence]
  BY <1>1
<1>4. c = [of |-> s.of, word |-> s.word, consumed |-> s.consumed, forced |-> s.forced,
           span |-> x, sentence |-> s.sentence]
  BY <1>1
<1>5. d = [of |-> s.of, word |-> s.word, consumed |-> s.consumed, forced |-> s.forced,
           span |-> s.span, sentence |-> x]
  BY <1>1
<1> HIDE DEF a, b, c, d
<1>6. ASSUME NEW t, NEW w, NEW k, NEW f, NEW n, NEW r,
             t = [of |-> s.of, word |-> w, consumed |-> k, forced |-> f, span |-> n,
                  sentence |-> r]
      PROVE  IsSession(t) /\ t.of = s.of
  <2>1. t = [of |-> s.of, word |-> t.word, consumed |-> t.consumed, forced |-> t.forced,
             span |-> t.span, sentence |-> t.sentence]
    BY <1>6, Zenon
  <2> QED
    BY <2>1, TextStays, Zenon
<1>7. IsSession(a) /\ a.of = s.of
  BY <1>2, <1>6, Zenon
<1>8. IsSession(b) /\ b.of = s.of
  BY <1>3, <1>6, Zenon
<1>9. IsSession(c) /\ c.of = s.of
  BY <1>4, <1>6, Zenon
<1>10. IsSession(d) /\ d.of = s.of
  BY <1>5, <1>6, Zenon
<1> QED
  BY <1>7, <1>8, <1>9, <1>10, Zenon DEF a, b, c, d

\* A decode reads the text of the session and leaves it (guess_sentence).
LEMMA DecodeShape ==
  ASSUME NEW s, IsSession(s)
  PROVE  IsSession(guess_sentence(s)) /\ guess_sentence(s).of = s.of
<1> DEFINE n == Max({0, s.of.parsed - s.consumed})
           m == s.of.parsed
           k == Kept(s)
           c == IF Kept(s) # s.forced \/ s.consumed = 0
                THEN Rebuilt(s.of, Kept(s)) ELSE s.consumed
           t1 == [s EXCEPT !.span = m]
           t2 == [t1 EXCEPT !.forced = k]
           t3 == [t2 EXCEPT !.consumed = c]
<1>1. guess_sentence(s) = [s EXCEPT !.span = n] \/ guess_sentence(s) = t3
  BY Zenon DEF guess_sentence, IsSession
<1> HIDE DEF n, m, k, c
<1>2. IsSession([s EXCEPT !.span = n]) /\ [s EXCEPT !.span = n].of = s.of
  BY FieldsStay, Zenon
<1>3. IsSession(t1) /\ t1.of = s.of
  BY FieldsStay, Zenon
<1> HIDE DEF t1
<1>4. IsSession(t2) /\ t2.of = s.of
  BY <1>3, FieldsStay, Zenon
<1> HIDE DEF t2
<1>5. IsSession(t3) /\ t3.of = s.of
  BY <1>4, FieldsStay, Zenon
<1> QED
  BY <1>1, <1>2, <1>5, Zenon

\* The parse the offset laws read is one (ActiveOf: the stored parse, or the
\* session's text as plain full pinyin).
LEMMA ActiveShape ==
  ASSUME Held
  PROVE  IsParse(Active)
<1>1. CASE parse # NoParse
  BY <1>1, ParsesAssumption, Zenon DEF Held, Active, ActiveOf
<1>2. CASE parse = NoParse /\ sess.of = NoParse
  BY <1>2, NoParseShape, Zenon DEF Active, ActiveOf
<1>3. CASE parse = NoParse /\ sess.of # NoParse
  <2> DEFINE p == sess.of
             q == [p EXCEPT !.mode = "full"]
  <2>1. Active = q
    BY <1>3, Zenon DEF Active, ActiveOf
  <2>2. IsParse(p)
    BY Zenon DEF Held, IsSession
  <2> HIDE DEF p
  <2>3. p = [mode |-> p.mode, input |-> p.input, word |-> p.word, divided |-> p.divided,
             bytes |-> p.bytes, parsed |-> p.parsed, keys |-> p.keys, cols |-> p.cols]
    BY <2>2, Zenon DEF IsParse
  <2>4. q = [mode |-> "full", input |-> p.input, word |-> p.word, divided |-> p.divided,
             bytes |-> p.bytes, parsed |-> p.parsed, keys |-> p.keys, cols |-> p.cols]
    BY <2>3
  <2> HIDE DEF q
  <2>5. /\ q = [mode |-> q.mode, input |-> q.input, word |-> q.word,
                divided |-> q.divided, bytes |-> q.bytes, parsed |-> q.parsed,
                keys |-> q.keys, cols |-> q.cols]
        /\ q.bytes = p.bytes /\ q.parsed = p.parsed /\ q.keys = p.keys /\ q.cols = p.cols
    BY <2>4, Zenon
  <2>6. IsParse(q)
    BY <2>2, <2>5, Zenon DEF IsParse
  <2> QED
    BY <2>1, <2>6, Zenon
<1> QED
  BY <1>1, <1>2, <1>3, Zenon

\* A sentence guess without keys drops the text only when no phrase is shown for it.
LEMMA DiscardHeld ==
  ASSUME Held, ~mode_has_keys(Active),
         sess' = [sess EXCEPT !.of = NoParse, !.consumed = 0, !.forced = {}],
         UNCHANGED <<live, parse, plen, window, shown>>, front' = Later
  PROVE  Held'
<1>1. IsFront(front') /\ front'.fresh = front.fresh /\ front'.input = front.input
  BY LaterFront, Zenon
<1>2. IsSession(sess')
  <2> DEFINE t1 == [sess EXCEPT !.of = NoParse]
             t2 == [t1 EXCEPT !.consumed = 0]
             t3 == [t2 EXCEPT !.forced = {}]
  <2>1. sess' = t3
    BY Zenon
  <2>2. sess = [of |-> sess.of, word |-> sess.word, consumed |-> sess.consumed,
                forced |-> sess.forced, span |-> sess.span, sentence |-> sess.sentence]
    BY Zenon DEF Held, IsSession
  <2>3. t1 = [of |-> NoParse, word |-> sess.word, consumed |-> sess.consumed,
              forced |-> sess.forced, span |-> sess.span, sentence |-> sess.sentence]
    BY <2>2
  <2> HIDE DEF t1
  <2>4. IsSession(t1)
    BY <2>3, NoParseShape, Zenon DEF IsSession
  <2>5. IsSession(t2)
    BY <2>4, FieldsStay, Zenon
  <2> HIDE DEF t2
  <2>6. IsSession(t3)
    BY <2>5, FieldsStay, Zenon
  <2> QED
    BY <2>1, <2>6, Zenon
<1>3. ParseStands' \/ front'.fresh => AllOfInput'
  <2>1. ParseStands' \/ front'.fresh => AllOfInput
    BY <1>1, RowsMeaning, Zenon DEF Held, ParseStands
  <2>2. AllOfInput => \A i \in DOMAIN shown : shown[i].row.kind \notin {"phrase", "addon"}
    BY Zenon DEF AllOfInput
  <2>3. (\A i \in DOMAIN shown : shown[i].row.kind \notin {"phrase", "addon"})
          => AllOfInput'
    BY Zenon DEF AllOfInput
  <2> QED
    BY <2>1, <2>2, <2>3, Zenon
<1>4. RowsOfThisInput'
  BY <1>3, RowsMeaning, Zenon
<1> QED
  BY <1>1, <1>2, <1>4, Zenon DEF Held

\* The calls that leave the rows and the text: the options word, the sentence
\* guess, the cleared constraint and the cursor moves.
LEMMA KeepingCalls ==
  ASSUME Held
  PROVE  /\ \A word \in Words : SetOptions(word) => Held'
         /\ GuessSentence => Held'
         /\ GuessSentenceFails => Held'
         /\ \A offset : ClearConstraint(offset) => Held'
<1>1. live \in Words /\ IsSession(sess) /\ IsFront(front)
  BY Zenon DEF Held
<1>2. /\ IsFront(Later) /\ Later.fresh = front.fresh /\ Later.input = front.input
      /\ Event(Later) => /\ IsFront(front') /\ front'.fresh = front.fresh
                         /\ front'.input = front.input
  BY LaterFront, Zenon
<1>3. ASSUME NEW word \in Words, SetOptions(word)
      PROVE  Held'
  <2>1. /\ live' = word /\ Event(Later) /\ sess' = sess
        /\ UNCHANGED <<parse, plen, window, shown>>
    BY <1>3, Zenon DEF SetOptions
  <2> QED
    BY <1>1, <1>2, <2>1, KeptHeld, Zenon
<1>4. ASSUME GuessSentence
      PROVE  Held'
  <2>1. /\ front' = Later /\ live' = live
        /\ UNCHANGED <<live, parse, plen, window, shown>>
    BY <1>4, Zenon DEF GuessSentence
  <2>2. \/ /\ ~mode_has_keys(Active)
           /\ sess' = [sess EXCEPT !.of = NoParse, !.consumed = 0, !.forced = {}]
        \/ sess' = guess_sentence(sess)
    BY <1>4, Zenon DEF GuessSentence
  <2>3. CASE /\ ~mode_has_keys(Active)
             /\ sess' = [sess EXCEPT !.of = NoParse, !.consumed = 0, !.forced = {}]
    BY <2>1, <2>3, DiscardHeld, Zenon
  <2>4. CASE sess' = guess_sentence(sess)
    <3>1. IsSession(sess') /\ sess'.of = sess.of
      BY <1>1, <2>4, DecodeShape, Zenon
    <3> QED
      BY <1>1, <1>2, <2>1, <3>1, KeptHeld, Zenon
  <2> QED
    BY <2>2, <2>3, <2>4, Zenon
<1>5. ASSUME GuessSentenceFails
      PROVE  Held'
  <2> DEFINE done == guess_sentence(sess)
             t == [sess EXCEPT !.span = 0]
  <2>1. /\ Event(Later) /\ live' = live
        /\ UNCHANGED <<parse, plen, window, shown>>
    BY <1>5, Zenon DEF GuessSentenceFails
  <2>2. \/ sess' \in {sess, done, [done EXCEPT !.span = 0]}
        \/ \E f : sess' = [t EXCEPT !.forced = f]
    BY <1>5, Zenon DEF GuessSentenceFails
  <2>3. IsSession(done) /\ done.of = sess.of /\ IsSession(t) /\ t.of = sess.of
    BY <1>1, DecodeShape, FieldsStay, Zenon
  <2> HIDE DEF done, t
  <2>4. IsSession([done EXCEPT !.span = 0]) /\ [done EXCEPT !.span = 0].of = sess.of
    <3>1. [done EXCEPT !.span = 0].of = done.of
      BY <2>3, FieldsStay, Zenon
    <3>2. IsSession([done EXCEPT !.span = 0])
      BY <2>3, FieldsStay, Zenon
    <3> QED
      BY <2>3, <3>1, <3>2, Zenon
  <2>5. ASSUME NEW f
        PROVE  IsSession([t EXCEPT !.forced = f]) /\ [t EXCEPT !.forced = f].of = sess.of
    <3>1. IsSession([t EXCEPT !.forced = f]) /\ [t EXCEPT !.forced = f].of = t.of
      BY <2>3, FieldsStay, Zenon
    <3> QED
      BY <2>3, <3>1, Zenon
  <2>6. IsSession(sess') /\ sess'.of = sess.of
    BY <1>1, <2>2, <2>3, <2>4, <2>5, Zenon
  <2> QED
    BY <1>1, <1>2, <2>1, <2>6, KeptHeld, Zenon
<1>6. ASSUME NEW offset, ClearConstraint(offset)
      PROVE  Held'
  <2>1. /\ front' = Later /\ live' = live
        /\ UNCHANGED <<parse, plen, window, shown>>
    BY <1>6, Zenon DEF ClearConstraint
  <2>2. PICK f, c : sess' = [sess EXCEPT !.forced = f, !.consumed = c]
    BY <1>6, Zenon DEF ClearConstraint
  <2> DEFINE t == [sess EXCEPT !.forced = f]
  <2>3. sess' = [t EXCEPT !.consumed = c]
    BY <2>2, Zenon
  <2>4. IsSession(t) /\ t.of = sess.of
    BY <1>1, FieldsStay, Zenon
  <2> HIDE DEF t
  <2>5. IsSession(sess') /\ sess'.of = sess.of
    BY <2>3, <2>4, FieldsStay, Zenon
  <2> QED
    BY <1>1, <1>2, <2>1, <2>5, KeptHeld, Zenon
<1> QED
  BY <1>3, <1>4, <1>5, <1>6, Zenon

\* The cursor moves: the frontend stays at an offset.
LEMMA MovesHeld ==
  ASSUME Held
  PROVE  /\ \A cursor \in Nat : LookupOffset(cursor) => Held'
         /\ MoveLeft => Held'
         /\ MoveRight => Held'
<1>1. live \in Words /\ IsSession(sess) /\ IsFront(front) /\ front.at \in Nat
  BY Zenon DEF Held, IsFront
<1>2. ASSUME Abort
      PROVE  Held'
  <2>1. live' = live /\ sess' = sess /\ front' = front /\ UNCHANGED <<parse, plen, window, shown>>
    BY <1>2, Zenon DEF Abort
  <2> QED
    BY <1>1, <2>1, KeptHeld, Zenon
<1>3. ASSUME NEW answer \in Nat, MovedTo(answer)
      PROVE  Held'
  <2>1. /\ live' = live /\ sess' = sess /\ front' = [Later EXCEPT !.at = answer]
        /\ UNCHANGED <<parse, plen, window, shown>>
    BY <1>3, Zenon DEF MovedTo
  <2>2. IsFront(Later) /\ Later.fresh = front.fresh /\ Later.input = front.input
    BY LaterFront, Zenon
  <2>a. Notes([Later EXCEPT !.at = answer], Later.fresh, Later.input)
    BY <2>2, FrontShape, Zenon
  <2>3. IsFront(front') /\ front'.fresh = front.fresh /\ front'.input = front.input
    BY <2>1, <2>2, <2>a, Zenon DEF Notes
  <2> QED
    BY <1>1, <2>1, <2>3, KeptHeld, Zenon
<1>4. IsParse(Active)
  BY ActiveShape, Zenon
<1>5. ASSUME NEW cursor \in Nat, LookupOffset(cursor)
      PROVE  Held'
  <2> DEFINE answer == lookup_offset(Active, cursor)
  <2>1. answer \in Int
    BY <1>4, CursorAnswers, Zenon
  <2>2. answer >= 0 /\ MovedTo(answer)
    BY <1>5, Zenon DEF LookupOffset
  <2> HIDE DEF answer
  <2> QED
    BY <1>3, <2>1, <2>2
<1>6. ASSUME MoveLeft
      PROVE  Held'
  <2> DEFINE answer == left_offset(Active, front.at)
  <2>1. answer \in Int
    BY <1>1, <1>4, CursorAnswers, Zenon
  <2>2. Abort \/ (~(answer < 0) /\ MovedTo(answer))
    BY <1>6, Zenon DEF MoveLeft
  <2> HIDE DEF answer
  <2>3. answer < 0 \/ answer \in Nat
    BY <2>1
  <2> QED
    BY <1>2, <1>3, <2>2, <2>3, Zenon
<1>7. ASSUME MoveRight
      PROVE  Held'
  <2> DEFINE answer == right_offset(Active, front.at)
  <2>1. answer \in Int
    BY <1>1, <1>4, CursorAnswers, Zenon
  <2>2. Abort \/ (~(answer < 0) /\ MovedTo(answer))
    BY <1>7, Zenon DEF MoveRight
  <2> HIDE DEF answer
  <2>3. answer < 0 \/ answer \in Nat
    BY <2>1
  <2> QED
    BY <1>2, <1>3, <2>2, <2>3, Zenon
<1> QED
  BY <1>5, <1>6, <1>7, Zenon

\* A row of a window ends at an offset, and a phrase of it spells letters of the
\* text (candidates_at).
LEMMA RowFacts ==
  ASSUME NEW s, IsSession(s), NEW anchor \in Nat, NEW row \in RowsAt(s, anchor)
  PROVE  /\ Windowed(row, anchor)
         /\ row.kind \in {"phrase", "addon"} =>
              OfInput(row, s.of.bytes) /\ s.of.keys # <<>> /\ s.of.bytes # <<>>
<1> DEFINE len == Len(s.of.bytes)
<1>1. len \in Nat /\ SessionLen(s) = len
  BY DEF IsSession, IsParse, SessionLen
<1>2. ASSUME NEW kind, NEW lib, NEW spells, NEW span,
             row = Row(kind, Token(lib, spells), span)
      PROVE  /\ IsRow(row) /\ row.kind = kind /\ row.span = span
             /\ row.token.lib = lib /\ row.token.spells = spells
  <2> DEFINE t == Token(lib, spells)
  <2>1. row = [kind |-> kind, token |-> t, span |-> span]
    BY <1>2, Zenon DEF Row
  <2>2. t = [lib |-> lib, spells |-> spells]
    BY Zenon DEF Token
  <2> HIDE DEF t
  <2>3. row.kind = kind /\ row.span = span /\ row.token = t
    BY <2>1, Zenon
  <2>4. t.lib = lib /\ t.spells = spells
    BY <2>2, Zenon
  <2> QED
    BY <2>1, <2>2, <2>3, <2>4, Zenon DEF IsRow, Row, Token
<1>3. CASE row = Row("sentence", NoToken, s.span)
  <2>1. IsRow(row) /\ row.kind = "sentence"
    BY <1>2, <1>3, Zenon DEF NoToken
  <2> QED
    BY <2>1, Zenon DEF Windowed
<1>4. CASE row = Row("longer", Token("sys", <<"longer">>), 0)
  <2>1. IsRow(row) /\ row.kind = "longer"
    BY <1>2, <1>4, Zenon
  <2> QED
    BY <2>1, Zenon DEF Windowed
<1>5. CASE row = Row("fallback", NoToken, SessionLen(s) - anchor)
  <2>1. IsRow(row) /\ row.kind = "fallback" /\ row.span = SessionLen(s) - anchor
    BY <1>2, <1>5, Zenon DEF NoToken
  <2>2. anchor + row.span \in Nat
    BY <1>1, <2>1
  <2> QED
    BY <2>1, <2>2, Zenon DEF Windowed
<1>6. ASSUME NEW end \in Searched(s, anchor),
             row = PhraseRow(s, anchor, end) \/ row = AddonRow(s, anchor, end)
      PROVE  /\ Windowed(row, anchor)
             /\ OfInput(row, s.of.bytes) /\ s.of.keys # <<>> /\ s.of.bytes # <<>>
  <2>1. end \in anchor + 1 .. len /\ anchor \in 0 .. len /\ end \in anchor .. len
    BY <1>1, <1>6 DEF Searched
  <2>2. /\ IsRow(row) /\ row.span = end - anchor
        /\ row.token.spells = Spelling(s.of.bytes, anchor, end)
        /\ row.kind = "phrase" \/ (row.kind = "addon" /\ row.token.lib = "addon")
    BY <1>2, <1>6 DEF PhraseRow, AddonRow
  <2>3. anchor + row.span \in Nat
    BY <1>1, <2>1, <2>2, SMTT(30)
  <2>4. Windowed(row, anchor)
    BY <2>2, <2>3, Zenon DEF Windowed
  <2>5. OfInput(row, s.of.bytes)
    BY <2>1, <2>2, Zenon DEF OfInput
  <2> QED
    BY <2>4, <2>5, SearchedHasKeys, Zenon
<1> QED
  BY <1>3, <1>4, <1>5, <1>6, Zenon DEF RowsAt, PlainRows

\* The lists a guess leaves: none, the one before over the same text, or the new.
LEMMA EmptiedHeld ==
  ASSUME Held, UNCHANGED <<live, parse, plen>>, shown' = <<>>,
         window' \in {window, NoWindow}, IsSession(sess'), IsFront(front')
  PROVE  Held'
<1>1. DOMAIN shown' = {}
  OBVIOUS
<1>2. IsWindow(window')
  BY DEF Held, IsWindow, NoWindow
<1>3. RowsOfThisInput'
  BY <1>1, RowsMeaning, Zenon DEF AllOfInput
<1> QED
  BY <1>1, <1>2, <1>3, Zenon DEF Held

\* Rows that stay are still of the text: the session may read it under other
\* options, but of a plain parse the frontend then no longer counts on them.
LEMMA RelistedHeld ==
  ASSUME Held, UNCHANGED <<live, parse, plen, window, shown>>, IsSession(sess'),
         sess'.of.bytes = sess.of.bytes, IsFront(front'), ~front'.fresh,
         front'.input = "parsed" =>
           front.input = "parsed" /\ (parse # NoParse \/ sess'.of = sess.of)
  PROVE  Held'
<1>1. ASSUME ParseStands'
      PROVE  AllOfInput'
  <2>1. Active' = Active
    BY <1>1, Zenon DEF ParseStands, Active, ActiveOf
  <2>2. AllOfInput
    BY <1>1, RowsMeaning, Zenon DEF Held, ParseStands
  <2> QED
    BY <2>1, <2>2, Zenon DEF AllOfInput
<1>2. RowsOfThisInput'
  BY <1>1, RowsMeaning, Zenon
<1> QED
  BY <1>2, Zenon DEF Held

\* The rows of a new window are listed as it holds them, and its phrases spell
\* letters of the text.
LEMMA ListedHeld ==
  ASSUME Held, UNCHANGED <<live, parse, plen>>, IsSession(sess'), IsFront(front'),
         parse # NoParse => mode_has_keys(parse),
         NEW anchor \in Nat, NEW midKey,
         window' = [anchor |-> anchor, rows |-> candidates_at(sess', anchor),
                    held |-> TRUE],
         shown' = SnapshotOf(candidates_at(sess', anchor), midKey)
  PROVE  Held'
<1> DEFINE s == sess'
           rows == candidates_at(s, anchor)
           S == RowsAt(s, anchor)
<1>1. rows \in Seq(S)
  BY CandidatesShape, Zenon DEF IsSession, IsParse
<1>2. window'.anchor = anchor /\ window'.rows = rows
  BY Zenon
<1>3. shown' \in Seq(Listing(rows))
  BY <1>1, SnapshotShape, Zenon
<1> HIDE DEF rows, S
<1>4. \A k \in DOMAIN rows : rows[k] \in S
  BY <1>1
<1>5. \A i \in DOMAIN shown' : shown'[i] \in Listing(rows)
  BY <1>3
<1>6. \A i \in DOMAIN shown' :
        \E k \in DOMAIN rows : shown'[i] = [row |-> rows[k], source |-> k]
  BY <1>5, Zenon DEF Listing
<1>7. ASSUME NEW k \in DOMAIN rows
      PROVE  /\ Windowed(rows[k], anchor)
             /\ rows[k].kind \in {"phrase", "addon"} =>
                  /\ OfInput(rows[k], s.of.bytes)
                  /\ s.of.keys # <<>> /\ s.of.bytes # <<>>
  BY <1>4, <1>7, RowFacts, Zenon DEF S
<1>8. IsWindow(window')
  BY <1>2, <1>7, Zenon DEF IsWindow
<1>9. ASSUME NEW i \in DOMAIN shown'
      PROVE  /\ shown'[i].source \in DOMAIN rows
             /\ shown'[i].row = rows[shown'[i].source]
             /\ shown'[i] = [row |-> shown'[i].row, source |-> shown'[i].source]
  BY <1>6, <1>9, SMTT(30)
<1>10. \A i \in DOMAIN shown' : IsItem(shown'[i])
  BY <1>7, <1>9, Zenon DEF IsItem, Windowed
<1>11. \A i \in DOMAIN shown' : ShownFrom(shown'[i], window'.rows)
  BY <1>2, <1>9, Zenon DEF ShownFrom
<1>12. s.of.keys # <<>> /\ s.of.bytes # <<>> => mode_has_keys(Active')
  <2>1. CASE parse # NoParse
    BY <2>1, Zenon DEF Active, ActiveOf
  <2>2. ASSUME parse = NoParse, s.of.keys # <<>>, s.of.bytes # <<>>
        PROVE  mode_has_keys(Active')
    <3>1. s.of # NoParse
      BY <2>2, NoParseShape, Zenon
    <3> DEFINE p == s.of
               q == [p EXCEPT !.mode = "full"]
    <3>2. Active' = q
      BY <2>2, <3>1, Zenon DEF Active, ActiveOf
    <3>3. IsParse(p)
      BY Zenon DEF IsSession
    <3>4. q.keys # <<>> /\ q.bytes # <<>>
      BY <2>2, <3>3, Zenon DEF IsParse
    <3> QED
      BY <3>2, <3>4, Zenon DEF mode_has_keys
  <2> QED
    BY <2>1, <2>2, Zenon
<1>13. AllOfInput'
  BY <1>7, <1>9, <1>12, Zenon DEF AllOfInput
<1>14. RowsOfThisInput'
  BY <1>13, RowsMeaning, Zenon
<1> QED
  BY <1>8, <1>10, <1>11, <1>14, Zenon DEF Held

\* What the frontend notes of a candidate guess.
LEMMA HeardFront ==
  ASSUME Held, NEW fresh, NEW remasked
  PROVE  LET f == [Later EXCEPT !.fresh = fresh,
                                !.input = IF remasked THEN "remasked" ELSE @]
         IN /\ IsFront(f) /\ f.fresh = fresh
            /\ f.input = "parsed" => front.input = "parsed" /\ ~remasked
<1> DEFINE g == [Later EXCEPT !.fresh = fresh]
           x == IF remasked THEN "remasked" ELSE g.input
           f == [g EXCEPT !.input = x]
<1>1. IsFront(Later) /\ Later.fresh = front.fresh /\ Later.input = front.input
  BY LaterFront, Zenon
<1>a. Notes([Later EXCEPT !.fresh = fresh], fresh, Later.input)
  BY <1>1, FrontShape, Zenon
<1>2. IsFront(g) /\ g.fresh = fresh /\ g.input = front.input
  BY <1>1, <1>a, Zenon DEF Notes
<1>3. x = "parsed" => front.input = "parsed" /\ ~remasked
  BY <1>2, Zenon
<1>4. [Later EXCEPT !.fresh = fresh, !.input = IF remasked THEN "remasked" ELSE @] = f
  BY Zenon
<1> HIDE DEF g, x
<1>b. Notes([g EXCEPT !.input = x], g.fresh, x)
  BY <1>2, FrontShape, Zenon
<1>5. IsFront(f) /\ f.fresh = g.fresh /\ f.input = x
  BY <1>b, Zenon DEF Notes
<1> QED
  BY <1>2, <1>3, <1>4, <1>5, Zenon

\* pinyin_guess_candidates.
LEMMA GuessHeld ==
  ASSUME Held, NEW offset \in Nat, NEW sentence, GuessCandidates(offset, sentence)
  PROVE  Held'
<1> DEFINE optioned == set_options(sess, live)
           s == [optioned EXCEPT !.sentence = sentence]
           at == validated_lookup_offset(ActiveOf(s), offset)
           anchor == session_offset(at)
           remasked == parse = NoParse /\ s.of # sess.of /\ front.input = "parsed"
           Heard(fresh) == [Later EXCEPT !.fresh = fresh,
                                         !.input = IF remasked THEN "remasked" ELSE @]
<1>1. live \in Words /\ IsSession(sess) /\ plen \in Nat
  BY Zenon DEF Held
<1>2. IsSession(optioned) /\ optioned.of.bytes = sess.of.bytes
  BY <1>1, OptionsShape, Zenon
<1>3. IsSession(s) /\ s.of = optioned.of
  BY <1>2, FieldsStay, Zenon
<1>4. at \in Int
  BY <1>1, LookupAnswers, Zenon DEF validated_lookup_offset
<1>5. parse # NoParse => parse.keys \in Seq(Keys)
  BY ParsesAssumption, Zenon DEF Held, IsParse
<1>6. at >= 0 => anchor \in Nat
  <2>1. CASE parse # NoParse
    <3>1. session_column(parse.keys, Boundaries(parse.keys), at) \in Nat
      BY <1>5, <2>1, MapsAnswer, Zenon
    <3> QED
      BY <2>1, <3>1, Zenon DEF session_offset
  <2>2. CASE parse = NoParse
    BY <1>4, <2>2 DEF session_offset
  <2> QED
    BY <2>1, <2>2, Zenon
<1>7. ASSUME NEW fresh
      PROVE  /\ IsFront(Heard(fresh)) /\ Heard(fresh).fresh = fresh
             /\ Heard(fresh).input = "parsed" =>
                  front.input = "parsed" /\ (parse # NoParse \/ s.of = sess.of)
  BY HeardFront, Zenon
<1>8. mode_has_keys(Active) /\ parse # NoParse => mode_has_keys(parse)
  BY Zenon DEF Active, ActiveOf
<1>9. UNCHANGED <<live, parse, plen>>
  BY Zenon DEF GuessCandidates
<1>10. \/ shown' = <<>> /\ window' = window /\ sess' = sess
           /\ front' = [Later EXCEPT !.fresh = FALSE]
       \/ sess' = s /\ front' = Heard(FALSE) /\ UNCHANGED <<window, shown>>
       \/ sess' = s /\ shown' = <<>> /\ UNCHANGED window
           /\ \E fresh : front' = Heard(fresh)
       \/ /\ mode_has_keys(Active) /\ sess' = s /\ at >= 0
          /\ window' = [anchor |-> anchor, rows |-> candidates_at(s, anchor),
                        held |-> TRUE]
          /\ \E midKey : shown' = SnapshotOf(candidates_at(s, anchor), midKey)
          /\ \E fresh : front' = Heard(fresh)
       \/ Event(Heard(FALSE)) /\ sess' \in {optioned, s} /\ UNCHANGED <<window, shown>>
       \/ /\ Event(Heard(FALSE)) /\ sess' = s /\ shown' = <<>>
          /\ window' \in {window, NoWindow}
  BY Zenon DEF GuessCandidates
<1> HIDE DEF optioned, s, at, anchor, Heard
<1>11. Event(Heard(FALSE)) =>
         /\ IsFront(front') /\ front'.fresh = FALSE /\ front'.input = Heard(FALSE).input
  BY <1>7, EventFront, Zenon
<1>12. CASE shown' = <<>> /\ window' = window /\ sess' = sess
              /\ front' = [Later EXCEPT !.fresh = FALSE]
  <2>1. IsFront(front')
    BY <1>12, LaterFront, FrontShape, Zenon DEF Notes
  <2> QED
    BY <1>1, <1>9, <1>12, <2>1, EmptiedHeld, Zenon
<1>13. CASE sess' = s /\ front' = Heard(FALSE) /\ UNCHANGED <<window, shown>>
  BY <1>2, <1>3, <1>7, <1>9, <1>13, RelistedHeld, Zenon
<1>14. CASE sess' = s /\ shown' = <<>> /\ UNCHANGED window
              /\ \E fresh : front' = Heard(fresh)
  <2>1. IsFront(front')
    BY <1>7, <1>14, Zenon
  <2> QED
    BY <1>3, <1>9, <1>14, <2>1, EmptiedHeld, Zenon
<1>15. CASE /\ mode_has_keys(Active) /\ sess' = s /\ at >= 0
            /\ window' = [anchor |-> anchor, rows |-> candidates_at(s, anchor),
                          held |-> TRUE]
            /\ \E midKey : shown' = SnapshotOf(candidates_at(s, anchor), midKey)
            /\ \E fresh : front' = Heard(fresh)
  <2>1. IsFront(front')
    BY <1>7, <1>15, Zenon
  <2>2. PICK midKey : shown' = SnapshotOf(candidates_at(s, anchor), midKey)
    BY <1>15, Zenon
  <2>3. /\ anchor \in Nat /\ IsSession(sess')
        /\ parse # NoParse => mode_has_keys(parse)
        /\ window' = [anchor |-> anchor, rows |-> candidates_at(sess', anchor),
                      held |-> TRUE]
        /\ shown' = SnapshotOf(candidates_at(sess', anchor), midKey)
    BY <1>3, <1>6, <1>8, <1>15, <2>2, Zenon
  <2> QED
    BY <1>9, <2>1, <2>3, ListedHeld, Zenon
<1>16. CASE Event(Heard(FALSE)) /\ sess' \in {optioned, s} /\ UNCHANGED <<window, shown>>
  <2>1. /\ IsSession(sess') /\ sess'.of = s.of /\ sess'.of.bytes = sess.of.bytes
    BY <1>2, <1>3, <1>16, Zenon
  <2>2. /\ IsFront(front') /\ ~front'.fresh
        /\ front'.input = "parsed" =>
             front.input = "parsed" /\ (parse # NoParse \/ sess'.of = sess.of)
    BY <1>7, <1>11, <1>16, <2>1, Zenon
  <2> QED
    BY <1>9, <1>16, <2>1, <2>2, RelistedHeld, Zenon
<1>17. CASE /\ Event(Heard(FALSE)) /\ sess' = s /\ shown' = <<>>
            /\ window' \in {window, NoWindow}
  BY <1>3, <1>9, <1>11, <1>17, EmptiedHeld, Zenon
<1> QED
  BY <1>10, <1>12, <1>13, <1>14, <1>15, <1>16, <1>17, Zenon

\* An addon row promoted is a phrase of the user library with the same letters
\* (choose_candidate).
LEMMA PromotedShape ==
  ASSUME NEW row, IsRow(row)
  PROVE  /\ IsRow(Promoted(row)) /\ Promoted(row).kind = "phrase"
         /\ Promoted(row).token.lib = "user"
         /\ Promoted(row).token.spells = row.token.spells
<1> DEFINE t == row.token
           u == [t EXCEPT !.lib = "user"]
           a == [row EXCEPT !.kind = "phrase"]
           b == [a EXCEPT !.token = u]
<1>1. row = [kind |-> row.kind, token |-> t, span |-> row.span]
  BY Zenon DEF IsRow, Row
<1>2. t = [lib |-> t.lib, spells |-> t.spells]
  BY Zenon DEF IsRow, Token
<1>3. a = [kind |-> "phrase", token |-> t, span |-> row.span]
  BY <1>1
<1>4. Promoted(row) = b
  BY <1>3, Zenon DEF Promoted
<1> HIDE DEF t, a
<1>5. u = [lib |-> "user", spells |-> t.spells]
  BY <1>2
<1> HIDE DEF u
<1>6. b = [kind |-> "phrase", token |-> u, span |-> row.span]
  BY <1>3
<1> HIDE DEF b
<1>7. b.kind = "phrase" /\ b.token = u /\ b.span = row.span
  BY <1>6, Zenon
<1>8. u.lib = "user" /\ u.spells = t.spells
  BY <1>5, Zenon
<1>9. IsRow(b)
  BY <1>5, <1>6, <1>7, <1>8, Zenon DEF IsRow, Row, Token
<1> QED
  BY <1>4, <1>7, <1>8, <1>9, Zenon DEF t

\* The token a choose records as taken, against the one of the row it named.
Agree(taken, token) ==
  /\ taken.spells = token.spells
  /\ taken = token \/ (token.lib = "user" /\ taken.lib = "addon")

\* The row a choose goes on with, the named one or its promotion, is still one of
\* the window's rows under its number, and the token taken agrees with it.
LEMMA ChosenRow ==
  ASSUME Held, front.fresh, NEW i \in DOMAIN shown, shown[i].row.kind # "longer",
         NEW promote \in BOOLEAN, promote => shown[i].row.kind = "addon",
         NEW now, now = IF promote THEN Promoted(shown[i].row) ELSE shown[i].row
  PROVE  LET k == shown[i].source
             row == window.rows[k]
         IN /\ IsRow(now) /\ now.token.spells = shown[i].row.token.spells
            /\ now.kind \in {"phrase", "addon"} => shown[i].row.kind \in {"phrase", "addon"}
            /\ k \in DOMAIN window.rows
            /\ now = row \/ (row.kind = "addon" /\ now = Promoted(row))
            /\ Agree(IF promote THEN now.token ELSE row.token, now.token)
            /\ now.kind # "sentence" => window.anchor + row.span \in Nat
<1> DEFINE named == shown[i].row
           k == shown[i].source
           row == window.rows[k]
<1>1. IsItem(shown[i]) /\ ShownFrom(shown[i], window.rows) /\ IsWindow(window)
  BY Zenon DEF Held
<1>2. IsRow(named)
  BY <1>1, Zenon DEF IsItem
<1>3. k \in DOMAIN window.rows /\ (named = row \/ (row.kind = "addon" /\ named = Promoted(row)))
  BY <1>1, Zenon DEF ShownFrom
<1>4. Windowed(row, window.anchor)
  BY <1>1, <1>3, Zenon DEF IsWindow
<1>5. IsRow(row) /\ (row.kind = "addon" => row.token.lib = "addon")
  BY <1>4, Zenon DEF Windowed
<1>6. row.kind \notin {"sentence", "longer"} => window.anchor + row.span \in Nat
  BY <1>4, Zenon DEF Windowed
<1> HIDE DEF named, k, row
<1>7. /\ named.kind # "longer"
      /\ promote => named.kind = "addon"
      /\ now = IF promote THEN Promoted(named) ELSE named
  BY Zenon DEF named
<1>8. CASE promote
  <2>1. /\ IsRow(Promoted(named)) /\ Promoted(named).kind = "phrase"
        /\ Promoted(named).token.spells = named.token.spells
    BY <1>2, PromotedShape, Zenon
  <2>2. named = row
    BY <1>3, <1>5, <1>7, <1>8, PromotedShape, Zenon
  <2>3. now = Promoted(named) /\ named.kind = "addon"
    BY <1>7, <1>8, Zenon
  <2>4. Agree(now.token, now.token)
    BY Zenon DEF Agree
  <2>5. window.anchor + row.span \in Nat
    BY <1>6, <2>2, <2>3, Zenon
  <2>6. now = Promoted(row) /\ row.kind = "addon"
    BY <2>2, <2>3, Zenon
  <2> QED
    BY <1>3, <1>8, <2>1, <2>3, <2>4, <2>5, <2>6, Zenon DEF named, k, row
<1>9. CASE ~promote
  <2>1. now = named
    BY <1>7, <1>9, Zenon
  <2>2. Agree(row.token, now.token)
    <3>1. CASE named = row
      BY <2>1, <3>1, Zenon DEF Agree
    <3>2. CASE row.kind = "addon" /\ named = Promoted(row)
      <4>1. /\ Promoted(row).token.lib = "user"
            /\ Promoted(row).token.spells = row.token.spells
        BY <1>5, PromotedShape, Zenon
      <4> QED
        BY <1>5, <2>1, <3>2, <4>1, Zenon DEF Agree
    <3> QED
      BY <1>3, <3>1, <3>2, Zenon
  <2>3. now.kind # "sentence" => window.anchor + row.span \in Nat
    BY <1>3, <1>6, <1>7, <2>1, Zenon
  <2> QED
    BY <1>2, <1>3, <1>9, <2>1, <2>2, <2>3, Zenon DEF named, k, row
<1> QED
  BY <1>8, <1>9, Zenon

\* The rows shown stand after a choose: only the named one is replaced, by a row of
\* the same letters.
LEMMA ChosenHeld ==
  ASSUME Held, front.fresh, NEW i \in DOMAIN shown, NEW now, IsRow(now),
         now.token.spells = shown[i].row.token.spells,
         now.kind \in {"phrase", "addon"} => shown[i].row.kind \in {"phrase", "addon"},
         ShownFrom([row |-> now, source |-> shown[i].source], window.rows),
         shown' = [shown EXCEPT ![i].row = now],
         UNCHANGED <<live, parse, plen>>, IsSession(sess'), sess'.of = sess.of,
         IsFront(front'),
         window' = window \/ (window' = NoWindow /\ ~front'.fresh)
  PROVE  Held'
<1> DEFINE item == [row |-> now, source |-> shown[i].source]
<1>1. IsItem(shown[i])
  BY Zenon DEF Held
<1>2. DOMAIN shown' = DOMAIN shown
  BY Zenon
<1>3. [shown[i] EXCEPT !.row = now] = item
  BY <1>1 DEF IsItem
<1>4. shown'[i] = item
  BY <1>3, Zenon
<1>5. \A j \in DOMAIN shown : j # i => shown'[j] = shown[j]
  BY Zenon
<1>6. item.row = now /\ item.source = shown[i].source
  BY Zenon
<1>7. ShownFrom(item, window.rows)
  BY Zenon
<1> HIDE DEF item
<1>8. IsItem(item)
  BY <1>6, Zenon DEF IsItem, item
<1>9. \A j \in DOMAIN shown' : IsItem(shown'[j])
  BY <1>2, <1>4, <1>5, <1>8, Zenon DEF Held
<1>10. \A j \in DOMAIN shown' : ShownFrom(shown'[j], window.rows)
  BY <1>2, <1>4, <1>5, <1>7, Zenon DEF Held
<1>11. AllOfInput
  BY RowsMeaning, Zenon DEF Held
<1>12. AllOfInput'
  <2> SUFFICES ASSUME NEW j \in DOMAIN shown',
                      shown'[j].row.kind \in {"phrase", "addon"}
               PROVE  mode_has_keys(Active') /\ OfInput(shown'[j].row, sess'.of.bytes)
    BY Zenon DEF AllOfInput
  <2>1. Active' = Active
    BY Zenon DEF Active, ActiveOf
  <2>2. CASE j # i
    BY <1>2, <1>5, <1>11, <2>1, <2>2, Zenon DEF AllOfInput
  <2>3. CASE j = i
    <3>1. shown'[j].row = now
      BY <1>4, <1>6, <2>3, Zenon
    <3>2. mode_has_keys(Active) /\ OfInput(shown[i].row, sess.of.bytes)
      BY <1>11, <3>1, Zenon DEF AllOfInput
    <3>3. OfInput(now, sess.of.bytes)
      BY <3>2, Zenon DEF OfInput
    <3> QED
      BY <2>1, <3>1, <3>2, <3>3, Zenon
  <2> QED
    BY <2>2, <2>3, Zenon
<1>13. RowsOfThisInput'
  BY <1>12, RowsMeaning, Zenon
<1>14. IsWindow(window')
  BY DEF Held, IsWindow, NoWindow
<1>15. front'.fresh => \A j \in DOMAIN shown' : ShownFrom(shown'[j], window'.rows)
  BY <1>10, Zenon
<1> QED
  BY <1>9, <1>13, <1>14, <1>15, Zenon DEF Held

\* A step keeps to what was shown: a choice it notes took the phrase named.
TakesShown ==
  LET c == front'.choice
  IN c # front.choice /\ c # NoChoice => Agree(c.taken, c.named)

\* pinyin_choose_candidate.
LEMMA ChooseHeld ==
  ASSUME Held, NEW i \in DOMAIN shown, Choose(i)
  PROVE  Held' /\ TakesShown
<1> DEFINE named == shown[i].row
           k == shown[i].source
           row == window.rows[k]
           end == window.anchor + row.span
           Trained == front' = Later /\ UNCHANGED <<sess, window>>
<1>1. front.fresh /\ UNCHANGED <<live, parse, plen>>
  BY Zenon DEF Choose
<1>2. live \in Words /\ IsSession(sess) /\ IsFront(front)
  BY Zenon DEF Held
<1>3. /\ IsFront(Later) /\ Later.fresh = front.fresh /\ Later.input = front.input
      /\ Event(Later) => /\ IsFront(front') /\ front'.fresh = front.fresh
                         /\ front'.input = front.input
  BY LaterFront, Zenon
<1>4. front' = Later \/ Event(Later) => front'.choice = NoChoice
  BY <1>2, Zenon DEF IsFront, Later, Event
<1>5. \/ named.kind = "longer" /\ Trained /\ UNCHANGED shown
      \/ \E promote \in BOOLEAN :
           LET now == IF promote THEN Promoted(named) ELSE named
               taken == IF promote THEN now.token ELSE row.token
               answer == AnswerOf(now, end)
           IN /\ named.kind # "longer"
              /\ promote => named.kind = "addon"
              /\ shown' = [shown EXCEPT ![i].row = now]
              /\ \/ Trained
                 \/ /\ sess' = select_inner(sess, window.anchor, row, taken)
                    /\ \/ /\ window' = NoWindow
                          /\ front' = [front EXCEPT
                               !.at = IF now.kind # "sentence" THEN answer ELSE @,
                               !.fresh = FALSE,
                               !.choice = [named |-> now.token, taken |-> taken,
                                           end |-> end, answer |-> answer]]
                       \/ Event(Later) /\ UNCHANGED window
  <2> DEFINE from == ChooseFrom
  <2>1. from.anchor = window.anchor /\ from.rows = window.rows
    BY Zenon DEF ChooseFrom
  <2> HIDE DEF from
  <2> QED
    BY <2>1, ZenonT(60) DEF Choose, from
<1>6. CASE named.kind = "longer" /\ Trained /\ UNCHANGED shown
  <2>1. Held'
    BY <1>1, <1>2, <1>3, <1>6, KeptHeld, Zenon
  <2> QED
    BY <1>4, <1>6, <2>1, Zenon DEF TakesShown
<1>7. ASSUME NEW promote \in BOOLEAN, NEW now, NEW taken, NEW answer,
             now = (IF promote THEN Promoted(named) ELSE named),
             taken = (IF promote THEN now.token ELSE row.token),
             answer = AnswerOf(now, end),
             named.kind # "longer", promote => named.kind = "addon",
             shown' = [shown EXCEPT ![i].row = now],
             \/ Trained
             \/ /\ sess' = select_inner(sess, window.anchor, row, taken)
                /\ \/ /\ window' = NoWindow
                      /\ front' = [front EXCEPT
                           !.at = IF now.kind # "sentence" THEN answer ELSE @,
                           !.fresh = FALSE,
                           !.choice = [named |-> now.token, taken |-> taken,
                                       end |-> end, answer |-> answer]]
                   \/ Event(Later) /\ UNCHANGED window
      PROVE  Held' /\ TakesShown
  <2>1. /\ IsRow(now) /\ now.token.spells = named.token.spells
        /\ now.kind \in {"phrase", "addon"} => named.kind \in {"phrase", "addon"}
        /\ k \in DOMAIN window.rows
        /\ now = row \/ (row.kind = "addon" /\ now = Promoted(row))
        /\ Agree(taken, now.token)
        /\ now.kind # "sentence" => end \in Nat
    BY <1>1, <1>7, ChosenRow, Zenon
  <2>2. ShownFrom([row |-> now, source |-> k], window.rows)
    BY <2>1, Zenon DEF ShownFrom
  <2>3. sess' = select_inner(sess, window.anchor, row, taken)
          => IsSession(sess') /\ sess'.of = sess.of
    <3> SUFFICES ASSUME sess' = select_inner(sess, window.anchor, row, taken)
                 PROVE  IsSession(sess') /\ sess'.of = sess.of
      BY Zenon
    <3>1. PICK f, c : sess' = [sess EXCEPT !.forced = f, !.consumed = c]
      BY Zenon DEF select_inner
    <3> DEFINE t == [sess EXCEPT !.forced = f]
    <3>2. sess' = [t EXCEPT !.consumed = c]
      BY <3>1, Zenon
    <3>3. IsSession(t) /\ t.of = sess.of
      BY <1>2, FieldsStay, Zenon
    <3> HIDE DEF t
    <3>4. IsSession([t EXCEPT !.consumed = c]) /\ [t EXCEPT !.consumed = c].of = t.of
      BY <3>3, FieldsStay, Zenon
    <3> QED
      BY <3>2, <3>3, <3>4, Zenon
  <2>4. ASSUME IsSession(sess'), sess'.of = sess.of, IsFront(front'),
               window' = window \/ (window' = NoWindow /\ ~front'.fresh)
        PROVE  Held'
    BY <1>1, <1>7, <2>1, <2>2, <2>4, ChosenHeld, Zenon
  <2>5. CASE Trained
    <3>1. Held'
      BY <1>2, <1>3, <2>4, <2>5, Zenon
    <3> QED
      BY <1>4, <2>5, <3>1, Zenon DEF TakesShown
  <2>6. CASE /\ sess' = select_inner(sess, window.anchor, row, taken)
             /\ Event(Later) /\ UNCHANGED window
    <3>1. Held'
      BY <1>3, <2>3, <2>4, <2>6, Zenon
    <3> QED
      BY <1>4, <2>6, <3>1, Zenon DEF TakesShown
  <2>7. CASE /\ sess' = select_inner(sess, window.anchor, row, taken)
             /\ window' = NoWindow
             /\ front' = [front EXCEPT
                  !.at = IF now.kind # "sentence" THEN answer ELSE @,
                  !.fresh = FALSE,
                  !.choice = [named |-> now.token, taken |-> taken,
                              end |-> end, answer |-> answer]]
    <3> DEFINE at == IF now.kind # "sentence" THEN answer ELSE front.at
               choice == [named |-> now.token, taken |-> taken, end |-> end,
                          answer |-> answer]
               f == [front EXCEPT !.at = at]
               g == [f EXCEPT !.fresh = FALSE]
    <3>1. front' = [g EXCEPT !.choice = choice]
      BY <2>7, Zenon
    <3>2. at \in Nat
      <4>1. CASE now.kind = "sentence"
        BY <1>2, <4>1, Zenon DEF IsFront
      <4>2. CASE now.kind # "sentence" /\ parse = NoParse
        BY <1>7, <2>1, <4>2, Zenon DEF AnswerOf
      <4>3. CASE now.kind # "sentence" /\ parse # NoParse
        <5>1. parse.keys \in Seq(Keys) /\ parse.parsed \in Nat
          BY <4>3, ParsesAssumption, Zenon DEF Held, IsParse
        <5>2. original_offset(parse.keys, Boundaries(parse.keys), parse.parsed, end)
                \in Nat
          BY <5>1, MapsAnswer, Zenon
        <5> QED
          BY <1>7, <4>3, <5>2, Zenon DEF AnswerOf
      <4> QED
        BY <4>1, <4>2, <4>3, Zenon
    <3>3. choice.named = now.token /\ choice.taken = taken
      BY Zenon
    <3> HIDE DEF at, choice
    <3>4. Notes(f, front.fresh, front.input)
      BY <1>2, <3>2, FrontShape, Zenon
    <3>a. IsFront(f)
      BY <3>4, Zenon DEF Notes
    <3> HIDE DEF f
    <3>5. Notes(g, FALSE, f.input)
      BY <3>a, FrontShape, Zenon
    <3>6. IsFront(g) /\ g.fresh = FALSE
      BY <3>5, Zenon DEF Notes
    <3> HIDE DEF g
    <3>7. Notes([g EXCEPT !.choice = choice], g.fresh, g.input)
      BY <3>6, FrontShape, Zenon
    <3>8. IsFront(front') /\ ~front'.fresh
      BY <3>1, <3>6, <3>7, Zenon DEF Notes
    <3>9. front'.choice = choice
      BY <3>1, <3>6, Zenon DEF IsFront
    <3>10. Held'
      BY <2>3, <2>4, <2>7, <3>8, Zenon
    <3> QED
      BY <2>1, <3>3, <3>9, <3>10, Zenon DEF TakesShown
  <2> QED
    BY <1>7, <2>5, <2>6, <2>7, Zenon
<1> QED
  BY <1>5, <1>6, <1>7, Zenon

\* Every call but a choose forgets the last choice, or changes nothing of the
\* frontend.
LEMMA OthersChooseNothing ==
  ASSUME Held, Next, \A i \in DOMAIN shown : ~Choose(i)
  PROVE  TakesShown
<1>1. SUFFICES front' = front \/ front'.choice = NoChoice
  BY Zenon DEF TakesShown
<1> DEFINE Quiet(f) == IsFront(f) /\ f.choice = NoChoice
<1>2. ASSUME NEW f, Quiet(f), NEW x
      PROVE  [f EXCEPT !.events = x].choice = NoChoice
  BY <1>2, Zenon DEF IsFront
<1>3. ASSUME NEW f, Quiet(f), NEW x
      PROVE  [f EXCEPT !.at = x].choice = NoChoice
  BY <1>3, Zenon DEF IsFront
<1>4. ASSUME NEW f, Quiet(f), NEW x
      PROVE  [f EXCEPT !.fresh = x].choice = NoChoice
  BY <1>4, Zenon DEF IsFront
<1>5. ASSUME NEW f, Quiet(f), NEW x
      PROVE  [f EXCEPT !.input = x].choice = NoChoice
  BY <1>5, Zenon DEF IsFront
<1>6. Quiet(Later)
  <2>1. IsFront(front)
    BY Zenon DEF Held
  <2>2. Later.choice = NoChoice
    BY <2>1, Zenon DEF IsFront, Later
  <2> QED
    BY <2>2, LaterFront, Zenon
<1>7. Quiet(NewFront)
  BY FrontStarts, Zenon DEF NewFront
<1>8. ASSUME NEW input
      PROVE  Quiet(Renewed(input))
  <2> DEFINE f == [NewFront EXCEPT !.events = front.events]
  <2>1. IsFront(f)
    BY FrontStarts, FrontShape, Zenon DEF Notes
  <2>2. f.choice = NoChoice
    BY <1>2, <1>7, Zenon
  <2>3. Renewed(input) = [f EXCEPT !.input = input]
    BY Zenon DEF Renewed
  <2> HIDE DEF f
  <2>4. [f EXCEPT !.input = input].choice = NoChoice
    BY <1>5, <2>1, <2>2, Zenon
  <2> QED
    BY <2>3, <2>4, FrontStarts, Zenon
<1>9. ASSUME NEW fresh, NEW remasked
      PROVE  Quiet([Later EXCEPT !.fresh = fresh,
                                 !.input = IF remasked THEN "remasked" ELSE @])
  <2> DEFINE f == [Later EXCEPT !.fresh = fresh]
             x == IF remasked THEN "remasked" ELSE f.input
  <2>1. IsFront(f)
    BY LaterFront, FrontShape, Zenon DEF Notes
  <2>2. f.choice = NoChoice
    BY <1>4, <1>6, Zenon
  <2>3. [Later EXCEPT !.fresh = fresh, !.input = IF remasked THEN "remasked" ELSE @]
          = [f EXCEPT !.input = x]
    BY Zenon
  <2> HIDE DEF f, x
  <2>4. IsFront([f EXCEPT !.input = x])
    BY <2>1, FrontShape, Zenon DEF Notes
  <2>5. [f EXCEPT !.input = x].choice = NoChoice
    BY <1>5, <2>1, <2>2, Zenon
  <2> QED
    BY <2>3, <2>4, <2>5, Zenon
<1>10. ASSUME NEW f, Quiet(f), Event(f)
       PROVE  front'.choice = NoChoice
  BY <1>2, <1>10, Zenon DEF Event
<1> HIDE DEF Quiet
<1>11. ASSUME NEW f, Quiet(f), front' = f
       PROVE  front'.choice = NoChoice
  BY <1>11, Zenon DEF Quiet
<1>12. ASSUME NEW p, ParseMore(p) \/ ParseFails(p)
       PROVE  front'.choice = NoChoice
  BY <1>8, <1>10, <1>12, Zenon DEF ParseMore, ParseFails
<1>13. ASSUME NEW word, SetOptions(word)
       PROVE  front'.choice = NoChoice
  BY <1>6, <1>10, <1>13, Zenon DEF SetOptions
<1>14. ASSUME GuessSentence \/ GuessSentenceFails
       PROVE  front'.choice = NoChoice
  BY <1>6, <1>10, <1>11, <1>14, Zenon DEF GuessSentence, GuessSentenceFails
<1>15. ASSUME NEW offset, NEW sentence, GuessCandidates(offset, sentence)
       PROVE  front'.choice = NoChoice
  <2>1. \/ front' = [Later EXCEPT !.fresh = FALSE]
        \/ \E fresh, remasked :
             LET f == [Later EXCEPT !.fresh = fresh,
                                    !.input = IF remasked THEN "remasked" ELSE @]
             IN front' = f \/ Event(f)
    BY <1>15, Zenon DEF GuessCandidates
  <2> QED
    BY <1>4, <1>6, <1>9, <1>10, <1>11, <2>1, Zenon
<1>16. ASSUME NEW offset, ClearConstraint(offset)
       PROVE  front'.choice = NoChoice
  BY <1>6, <1>11, <1>16, Zenon DEF ClearConstraint
<1>17. ASSUME NEW answer, MovedTo(answer)
       PROVE  front'.choice = NoChoice
  BY <1>3, <1>6, <1>17, Zenon DEF MovedTo
<1>18. Abort => front' = front
  BY Zenon DEF Abort
<1>19. ASSUME NEW cursor, LookupOffset(cursor)
       PROVE  front'.choice = NoChoice
  BY <1>17, <1>19, Zenon DEF LookupOffset
<1>20. MoveLeft \/ MoveRight => front' = front \/ front'.choice = NoChoice
  BY <1>17, <1>18, Zenon DEF MoveLeft, MoveRight
<1>21. Reset => front'.choice = NoChoice
  BY <1>8, <1>11, Zenon DEF Reset
<1> QED
  BY <1>12, <1>13, <1>14, <1>15, <1>16, <1>19, <1>20, <1>21, Zenon DEF Next

\* A fresh instance has no input, no parse and no rows (pinyin_alloc_instance).
LEMMA InitHeld ==
  ASSUME Init
  PROVE  Held
<1>1. live \in Words /\ parse = NoParse /\ plen = 0 /\ sess = NewSession
      /\ window = NoWindow /\ shown = <<>> /\ front = NewFront
  BY Zenon DEF Init
<1>2. IsSession(sess)
  <2>1. sess = [of |-> NoParse, word |-> sess.word, consumed |-> 0, forced |-> {},
                span |-> 0, sentence |-> TRUE]
    BY <1>1, Zenon DEF NewSession
  <2> QED
    BY <2>1, NoParseShape DEF IsSession
<1>3. DOMAIN shown = {}
  BY <1>1
<1>4. IsWindow(window)
  BY <1>1 DEF IsWindow, NoWindow
<1>5. IsFront(front)
  BY <1>1, FrontStarts, Zenon
<1>6. RowsOfThisInput
  BY <1>3, RowsMeaning, Zenon DEF AllOfInput
<1> QED
  BY <1>1, <1>2, <1>3, <1>4, <1>5, <1>6, Zenon DEF Held

\* Every step of the instance keeps the inductive invariant, and takes what it
\* shows.
LEMMA StepHeld ==
  ASSUME Held, [Next]_vars
  PROVE  Held' /\ [TakesShown]_vars
<1>1. CASE UNCHANGED vars
  <2>1. live' = live /\ sess' = sess /\ front' = front
        /\ UNCHANGED <<parse, plen, window, shown>>
    BY <1>1, Zenon DEF vars
  <2>2. Held'
    BY <2>1, KeptHeld, Zenon DEF Held
  <2> QED
    BY <1>1, <2>2, Zenon
<1>2. CASE Next
  <2>1. CASE \E i \in DOMAIN shown : Choose(i)
    BY <2>1, ChooseHeld, Zenon
  <2>2. CASE \A i \in DOMAIN shown : ~Choose(i)
    <3>1. front.at \in Nat /\ 0 \in Nat /\ IsParse(Active)
      BY ActiveShape, Zenon DEF Held, IsFront
    <3>2. \A cursor \in 0 .. Len(Active.bytes) : cursor \in Nat
      BY <3>1 DEF IsParse
    <3>3. ASSUME NEW offset \in {0, front.at}, NEW sentence \in BOOLEAN,
                 GuessCandidates(offset, sentence)
          PROVE  Held'
      BY <3>1, <3>3, GuessHeld, Zenon
    <3>4. Held'
      BY <1>2, <2>2, <3>2, <3>3, ParsesHeld, KeepingCalls, MovesHeld, Zenon DEF Next
    <3> QED
      BY <1>2, <2>2, <3>4, OthersChooseNothing, Zenon
  <2> QED
    BY <2>1, <2>2, Zenon
<1> QED
  BY <1>1, <1>2, Zenon

\* The inductive invariant of the instance.
THEOREM InstanceHeld == Spec => []Held
<1>1. Init => Held
  BY InitHeld, Zenon
<1>2. Held /\ [Next]_vars => Held'
  BY StepHeld, Zenon
<1> QED
  BY <1>1, <1>2, PTL DEF Spec

\* While the last parse stands, and whenever the rows shown are those of the last
\* guess, every phrase listed spells letters of the input: no row outlives its
\* buffer (begin_parse, pinyin_guess_candidates, instance.rs:333-344).
THEOREM RowsStayOfThisInput == Spec => []RowsOfThisInput
<1>1. Held => RowsOfThisInput
  BY Zenon DEF Held
<1> QED
  BY <1>1, InstanceHeld, PTL

\* A choose takes the phrase the frontend named, whatever was un-forced, decoded or
\* moved since the guess (choose_candidate, candidates.rs:478-499, 612-614).
THEOREM ChoosesShown == Spec => ChoosesWhatIsShown
<1> DEFINE Takes == LET c == front'.choice
                    IN c # front.choice /\ c # NoChoice =>
                         /\ c.taken.spells = c.named.spells
                         /\ c.taken = c.named \/ (c.named.lib = "user" /\ c.taken.lib = "addon")
<1>1. Held /\ [Next]_vars => [Takes]_vars
  BY StepHeld, Zenon DEF TakesShown, Agree
<1> QED
  BY <1>1, InstanceHeld, PTL DEF Spec, ChoosesWhatIsShown

================================================================================
