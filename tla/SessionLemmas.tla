----------------------------- MODULE SessionLemmas -----------------------------
(***************************************************************************)
(* What the operators of Session compute, for every set of letters, phrases *)
(* and inputs: the text and the tokens of joined pieces, the record rebuilt  *)
(* from the forcings, the parse bound and the rows of the constrained walk.  *)
(* Then the shape of its state, which holds whatever calls are made and      *)
(* whichever of them fail, and what stands in the candidate list.            *)
(***************************************************************************)
EXTENDS Session, ConstraintCellsProofs

--------------------------------------------------------------------------------
\* The phrases, the tokens and the bytes of a record are sequences.  Two of the
\* same elements are the same,
LEMMA SameElements ==
  ASSUME NEW A, NEW s \in Seq(A), NEW t \in Seq(A),
         Len(s) = Len(t), \A i \in 1 .. Len(s) : s[i] = t[i]
  PROVE  s = t
  OBVIOUS

\* a concatenation holds the elements of both, in order,
LEMMA ConcatShape ==
  ASSUME NEW A, NEW s \in Seq(A), NEW t \in Seq(A)
  PROVE  /\ s \o t \in Seq(A) /\ Len(s \o t) = Len(s) + Len(t)
         /\ \A i \in 1 .. Len(s) + Len(t) :
              (s \o t)[i] = IF i <= Len(s) THEN s[i] ELSE t[i - Len(s)]
  OBVIOUS

\* and a push is a concatenation with the one element.
LEMMA AppendConcat ==
  ASSUME NEW A, NEW s \in Seq(A), NEW e \in A
  PROVE  Append(s, e) = s \o <<e>>
  OBVIOUS

\* Concatenation, for proofs that need nothing of it.
Join(s, t) == s \o t

\* Joined's loop: the pieces joined up to each index.
Joining(seqs) ==
  CHOOSE g : g = [i \in 0 .. Len(seqs) |->
                    IF i = 0 THEN <<>> ELSE Join(g[i - 1], seqs[i])]

\* That loop is well defined.
LEMMA JoinedUnfolds ==
  ASSUME NEW seqs, Len(seqs) \in Nat
  PROVE  /\ Joined(seqs) = Joining(seqs)[Len(seqs)]
         /\ Joining(seqs) =
              [i \in 0 .. Len(seqs) |->
                 IF i = 0 THEN <<>> ELSE Join(Joining(seqs)[i - 1], seqs[i])]
<1> DEFINE Runs(g, m) == g = [i \in 0 .. m |->
                                IF i = 0 THEN <<>> ELSE Join(g[i - 1], seqs[i])]
           P == {m \in 0 .. Len(seqs) : \E g : Runs(g, m)}
<1>1. 0 \in P
  <2> DEFINE g == [i \in 0 .. 0 |-> <<>>]
  <2>1. Runs(g, 0)
    OBVIOUS
  <2> HIDE DEF Runs, g
  <2> QED
    BY <2>1
<1>2. ASSUME NEW m \in 0 .. Len(seqs) - 1, m \in P
      PROVE  m + 1 \in P
  <2>1. PICK g : Runs(g, m)
    BY <1>2, Zenon
  <2> DEFINE h == [i \in 0 .. m + 1 |->
                     IF i = m + 1 THEN Join(g[m], seqs[m + 1]) ELSE g[i]]
  <2>2. \A i \in 0 .. m : h[i] = g[i]
    OBVIOUS
  <2>3. \A i \in 0 .. m + 1 :
          h[i] = IF i = 0 THEN <<>> ELSE Join(h[i - 1], seqs[i])
    <3> TAKE i \in 0 .. m + 1
    <3>1. CASE i = m + 1
      BY <2>2, <3>1
    <3>2. CASE i \in 1 .. m
      <4>1. g[i] = Join(g[i - 1], seqs[i])
        BY <2>1, <3>2
      <4>2. h[i] = g[i] /\ h[i - 1] = g[i - 1]
        BY <3>2, <2>2
      <4> QED
        BY <3>2, <4>1, <4>2
    <3>3. CASE i = 0
      BY <2>1, <2>2, <3>3
    <3> QED
      BY <3>1, <3>2, <3>3
  <2>4. Runs(h, m + 1)
    BY <2>3, Zenon
  <2> HIDE DEF Runs, h
  <2> QED
    BY <2>4
<1>3. Len(seqs) \in P
  <2> HIDE DEF P
  <2>1. \A m \in 0 .. Len(seqs) : m \in P
    BY <1>1, <1>2, IntervalInduction, Zenon
  <2> QED
    BY <2>1
<1>4. \E g : g = [i \in 0 .. Len(seqs) |->
                   IF i = 0 THEN <<>> ELSE Join(g[i - 1], seqs[i])]
  BY <1>3, Zenon
<1>5. Joined(seqs) = Joining(seqs)[Len(seqs)]
  BY Zenon DEF Joined, Joining, Join
<1>6. Joining(seqs) =
        [i \in 0 .. Len(seqs) |->
           IF i = 0 THEN <<>> ELSE Join(Joining(seqs)[i - 1], seqs[i])]
  BY <1>4, Zenon DEF Joining
<1> QED
  BY <1>5, <1>6, Zenon

\* No pieces have no text.
LEMMA JoinedNone == Joined(<<>>) = <<>>
<1>1. Len(<<>>) = 0 /\ 0 \in Nat /\ 0 \in 0 .. 0
  OBVIOUS
<1> DEFINE g == Joining(<<>>)
<1>2. /\ Joined(<<>>) = g[Len(<<>>)]
      /\ g = [i \in 0 .. Len(<<>>) |-> IF i = 0 THEN <<>> ELSE Join(g[i - 1], <<>>[i])]
  BY <1>1, JoinedUnfolds, Zenon
<1> HIDE DEF g
<1> QED
  BY <1>1, <1>2, Zenon

\* Joining one more piece appends it to the text joined before.
LEMMA JoinedAppend ==
  ASSUME NEW S, NEW seqs \in Seq(Seq(S)), NEW x \in Seq(S)
  PROVE  /\ Joined(Append(seqs, x)) = Joined(seqs) \o x
         /\ Joined(seqs) \in Seq(S)
<1> DEFINE n == Len(seqs)
           more == Append(seqs, x)
           f == Joining(seqs)
           g == Joining(more)
<1>1. /\ n \in Nat /\ Len(more) = n + 1 /\ more[n + 1] = x
      /\ \A i \in 1 .. n : more[i] = seqs[i] /\ seqs[i] \in Seq(S)
      /\ more \in Seq(Seq(S))
  OBVIOUS
<1>2. /\ Joined(more) = g[n + 1]
      /\ g = [i \in 0 .. n + 1 |-> IF i = 0 THEN <<>> ELSE Join(g[i - 1], more[i])]
  <2>1. Len(more) \in Nat
    BY <1>1
  <2> HIDE DEF more
  <2> QED
    BY <2>1, <1>1, JoinedUnfolds, Zenon
<1>3. /\ Joined(seqs) = f[n]
      /\ f = [i \in 0 .. n |-> IF i = 0 THEN <<>> ELSE Join(f[i - 1], seqs[i])]
  BY <1>1, JoinedUnfolds, Zenon
<1> DEFINE P == {i \in 0 .. n : f[i] = g[i] /\ f[i] \in Seq(S)}
<1> HIDE DEF f, g, n, more
<1>4. 0 \in P
  <2>1. <<>> \in Seq(S)
    OBVIOUS
  <2> QED
    BY <1>1, <1>2, <1>3, <2>1
<1>5. ASSUME NEW i \in 0 .. n - 1, i \in P
      PROVE  i + 1 \in P
  <2>1. i + 1 \in 0 .. n /\ i + 1 \in 1 .. n /\ i + 1 # 0 /\ (i + 1) - 1 = i
    BY <1>1
  <2>2. f[i + 1] = Join(f[i], seqs[i + 1])
    BY <1>3, <2>1, Zenon
  <2>3. g[i + 1] = Join(g[i], more[i + 1])
    BY <1>1, <1>2, SMTT(30)
  <2>4. more[i + 1] = seqs[i + 1] /\ seqs[i + 1] \in Seq(S)
    BY <1>1, <2>1, Zenon
  <2>5. f[i] = g[i] /\ f[i] \in Seq(S)
    BY <1>5, Zenon
  <2>6. f[i + 1] \in Seq(S)
    BY <2>2, <2>4, <2>5 DEF Join
  <2> QED
    BY <2>1, <2>2, <2>3, <2>4, <2>5, <2>6, Zenon
<1>6. \A i \in 0 .. n : i \in P
  <2> HIDE DEF P
  <2> QED
    BY <1>1, <1>4, <1>5, IntervalInduction, Zenon
<1>7. f[n] = g[n] /\ f[n] \in Seq(S)
  BY <1>1, <1>6
<1>8. g[n + 1] = Join(g[n], x)
  BY <1>1, <1>2
<1> QED
  BY <1>2, <1>3, <1>7, <1>8, Zenon DEF more, Join

\* Joining the pieces of two sequences joins their texts.
LEMMA JoinedConcat ==
  ASSUME NEW S, NEW s \in Seq(Seq(S)), NEW t \in Seq(Seq(S))
  PROVE  /\ Joined(s \o t) = Joined(s) \o Joined(t)
         /\ Joined(s) \in Seq(S)
<1> DEFINE n == Len(t)
           P == {k \in 0 .. n :
                   Joined(s \o SubSeq(t, 1, k)) =
                     Joined(s) \o Joined(SubSeq(t, 1, k))}
<1>1. n \in Nat
  OBVIOUS
<1>2. \A q \in Seq(Seq(S)) : Joined(q) \in Seq(S)
  <2> TAKE q \in Seq(Seq(S))
  <2> <<>> \in Seq(S)
    OBVIOUS
  <2> QED
    BY JoinedAppend, Zenon
<1>3. 0 \in P
  <2>1. SubSeq(t, 1, 0) = <<>>
    OBVIOUS
  <2>2. Joined(<<>>) = <<>>
    BY JoinedNone, Zenon
  <2>3. s \o <<>> = s
    OBVIOUS
  <2>4. Joined(s) \o <<>> = Joined(s)
    BY <1>2
  <2>5. Joined(s \o SubSeq(t, 1, 0)) =
          Joined(s) \o Joined(SubSeq(t, 1, 0))
    BY <2>1, <2>2, <2>3, <2>4, Zenon
  <2>6. 0 \in 0 .. n
    BY <1>1
  <2> QED
    BY <2>5, <2>6, Zenon
<1>4. ASSUME NEW k \in 0 .. n - 1, k \in P
      PROVE  k + 1 \in P
  <2> DEFINE u == SubSeq(t, 1, k)
             v == SubSeq(t, 1, k + 1)
             x == t[k + 1]
  <2>1. u \in Seq(Seq(S)) /\ x \in Seq(S)
    BY <1>1
  <2>2. v = u \o <<x>>
    <3>1. k + 1 \in 1 .. Len(t) /\ 1 \in 1 .. Len(t) /\ (k + 1) - 1 = k
      BY <1>1
    <3> QED
      BY <3>1
  <2>3. Joined(s \o u) = Joined(s) \o Joined(u)
    BY <1>4, Zenon
  <2> HIDE DEF u, v, x, n
  <2>4. v = Append(u, x)
    BY <2>1, <2>2
  <2>5. s \o v = Append(s \o u, x) /\ s \o u \in Seq(Seq(S))
    <3>1. s \o u \in Seq(Seq(S))
      BY <2>1
    <3>2. <<x>> \in Seq(Seq(S))
      BY <2>1
    <3>3. s \o (u \o <<x>>) = (s \o u) \o <<x>>
      BY <2>1, <3>2
    <3> QED
      BY <2>1, <2>2, <3>1, <3>3, AppendConcat, Zenon
  <2>6. Joined(s \o v) = (Joined(s) \o Joined(u)) \o x
    <3>1. Joined(Append(s \o u, x)) = Joined(s \o u) \o x
      BY <2>1, <2>5, JoinedAppend, Zenon
    <3> QED
      BY <2>3, <2>5, <3>1, Zenon
  <2>7. Joined(v) = Joined(u) \o x
    BY <2>1, <2>4, JoinedAppend, Zenon
  <2>8. Joined(s) \in Seq(S) /\ Joined(u) \in Seq(S)
    BY <1>2, <2>1, Zenon
  <2>9. (Joined(s) \o Joined(u)) \o x = Joined(s) \o (Joined(u) \o x)
    <3> DEFINE a == Joined(s)
               b == Joined(u)
    <3>1. a \in Seq(S) /\ b \in Seq(S) /\ x \in Seq(S)
      BY <2>1, <2>8, Zenon
    <3> HIDE DEF a, b
    <3>2. (a \o b) \o x = a \o (b \o x)
      BY <3>1
    <3> QED
      BY <3>2, Zenon DEF a, b
  <2>10. Joined(s \o v) = Joined(s) \o Joined(v)
    BY <2>6, <2>7, <2>9, Zenon
  <2> QED
    BY <1>1, <2>10 DEF v
<1>5. n \in P
  <2> HIDE DEF P, n
  <2>1. \A k \in 0 .. n : k \in P
    BY <1>1, <1>3, <1>4, IntervalInduction, Zenon
  <2> QED
    BY <1>1, <2>1
<1>6. SubSeq(t, 1, n) = t
  OBVIOUS
<1> QED
  BY <1>2, <1>5, <1>6, Zenon

\* One piece is its own text.
LEMMA JoinedOne ==
  ASSUME NEW S, NEW x \in Seq(S)
  PROVE  Joined(<<x>>) = x
<1>1. Append(<<>>, x) = <<x>>
  OBVIOUS
<1>2. Joined(<<>>) = <<>>
  BY JoinedNone, Zenon
<1>3. <<>> \in Seq(Seq(S)) /\ <<>> \o x = x
  OBVIOUS
<1> QED
  BY <1>1, <1>2, <1>3, JoinedAppend, Zenon

\* Joining one-element pieces gives the sequence of the elements.
LEMMA JoinedSingles ==
  ASSUME NEW S, NEW a \in Seq(S)
  PROVE  Joined([k \in 1 .. Len(a) |-> <<a[k]>>]) = a
<1> DEFINE n == Len(a)
           Single(m) == [k \in 1 .. m |-> <<a[k]>>]
           P == {m \in 0 .. n : Joined(Single(m)) = SubSeq(a, 1, m)}
<1>1. n \in Nat /\ \A k \in 1 .. n : a[k] \in S
  OBVIOUS
<1>2. 0 \in P
  <2>1. Single(0) = <<>>
    OBVIOUS
  <2>2. Joined(<<>>) = <<>>
    BY JoinedNone, Zenon
  <2>3. SubSeq(a, 1, 0) = <<>>
    OBVIOUS
  <2>4. 0 \in 0 .. n
    BY <1>1
  <2> QED
    BY <2>1, <2>2, <2>3, <2>4, Zenon
<1>3. ASSUME NEW m \in 0 .. n - 1, m \in P
      PROVE  m + 1 \in P
  <2> DEFINE x == <<a[m + 1]>>
             u == Single(m)
             v == Single(m + 1)
  <2>1. m \in Nat /\ m + 1 \in 1 .. n /\ a[m + 1] \in S /\ x \in Seq(S)
    BY <1>1
  <2>2. u \in Seq(Seq(S)) /\ Len(u) = m
    BY <1>1, <2>1
  <2>3. v \in Seq(Seq(S)) /\ Len(v) = m + 1
    BY <1>1, <2>1
  <2>4. \A k \in 1 .. m + 1 : v[k] = IF k <= m THEN u[k] ELSE x
    BY <2>1
  <2>5. Append(u, x) \in Seq(Seq(S)) /\ Len(Append(u, x)) = m + 1
    BY <2>1, <2>2
  <2>6. \A k \in 1 .. m + 1 : Append(u, x)[k] = IF k <= m THEN u[k] ELSE x
    <3> HIDE DEF u, x
    <3> QED
      BY <2>1, <2>2
  <2>7. v = Append(u, x)
    <3> HIDE DEF u, v, x
    <3> QED
      BY <2>3, <2>4, <2>5, <2>6
  <2>8. Joined(v) = Joined(u) \o x
    <3> HIDE DEF u, v, x
    <3> QED
      BY <2>1, <2>2, <2>7, JoinedAppend, Zenon
  <2>9. Joined(u) = SubSeq(a, 1, m)
    BY <1>3, Zenon
  <2>10. SubSeq(a, 1, m + 1) = SubSeq(a, 1, m) \o x
    <3>1. 1 \in 1 .. Len(a) /\ m + 1 \in 1 .. Len(a) /\ (m + 1) - 1 = m
      BY <1>1
    <3> QED
      BY <3>1
  <2>11. Joined(v) = SubSeq(a, 1, m + 1)
    BY <2>8, <2>9, <2>10, Zenon
  <2>12. m + 1 \in 0 .. n
    BY <1>1
  <2> QED
    BY <2>11, <2>12, Zenon
<1>4. n \in P
  <2> HIDE DEF P, n
  <2>1. \A k \in 0 .. n : k \in P
    BY <1>1, <1>2, <1>3, IntervalInduction, Zenon
  <2> QED
    BY <1>1, <2>1
<1>5. Joined(Single(n)) = SubSeq(a, 1, n)
  BY <1>4, Zenon
<1> QED
  BY <1>5

--------------------------------------------------------------------------------
\* A piece of text, and the pieces of a sequence of spans.
Piece == [token : Token \union {NoToken}, bytes : Seq(Letters)]
PhrasesOf(spans) == [k \in DOMAIN spans |-> Phrase(spans[k].token)]

\* Phrases and raw letters are pieces; the keys a phrase spells are letters.
LEMMA PieceShape ==
  /\ \A t \in Token : /\ Spelling[t] \in Seq(Letters) /\ Spelling[t] # <<>>
                       /\ Phrase(t) \in Piece /\ Phrase(t).token = t
                       /\ Phrase(t).bytes = Spelling[t]
  /\ \A b \in Seq(Letters) : /\ Raw(b) \in Piece /\ Raw(b).token = NoToken
                              /\ Raw(b).bytes = b
<1>1. \A t \in Token : Spelling[t] \in Seq(Letters) /\ Spelling[t] # <<>>
  <2> TAKE t \in Token
  <2>1. Spelling[t] \in Seq(Keys) /\ Spelling[t] # <<>>
    BY SpellingAssumption, Zenon
  <2>2. Keys \subseteq Letters
    BY Zenon DEF Letters
  <2> QED
    BY <2>1, <2>2
<1> QED
  BY <1>1, Zenon DEF Phrase, Raw, Piece

\* The text and the tokens of joined pieces are joined.
LEMMA PiecesConcat ==
  ASSUME NEW s \in Seq(Piece), NEW t \in Seq(Piece)
  PROVE  /\ BytesOf(s \o t) = BytesOf(s) \o BytesOf(t)
         /\ TokensOf(s \o t) = TokensOf(s) \o TokensOf(t)
         /\ BytesOf(s) \in Seq(Letters)
         /\ TokensOf(s) \in Seq(Token)
<1> DEFINE Bs(q) == [k \in DOMAIN q |-> q[k].bytes]
           Ts(q) == [k \in DOMAIN q |-> IF q[k].token = NoToken THEN <<>>
                                        ELSE <<q[k].token>>]
<1>1. ASSUME NEW q \in Seq(Piece)
      PROVE  /\ Bs(q) \in Seq(Seq(Letters)) /\ Len(Bs(q)) = Len(q)
             /\ \A k \in 1 .. Len(q) : Bs(q)[k] = q[k].bytes
             /\ Ts(q) \in Seq(Seq(Token)) /\ Len(Ts(q)) = Len(q)
             /\ \A k \in 1 .. Len(q) : Ts(q)[k] = IF q[k].token = NoToken THEN <<>>
                                                ELSE <<q[k].token>>
  <2>1. Len(q) \in Nat /\ DOMAIN q = 1 .. Len(q)
    OBVIOUS
  <2>2. \A k \in 1 .. Len(q) : q[k] \in Piece
    OBVIOUS
  <2>3. \A k \in 1 .. Len(q) : q[k].bytes \in Seq(Letters)
    BY <2>2, Zenon DEF Piece
  <2>4. \A k \in 1 .. Len(q) : q[k].token = NoToken \/ q[k].token \in Token
    BY <2>2, Zenon DEF Piece
  <2>5. \A k \in 1 .. Len(q) : (IF q[k].token = NoToken THEN <<>> ELSE <<q[k].token>>)
                                \in Seq(Token)
    BY <2>4
  <2>6. Bs(q) \in [1 .. Len(q) -> Seq(Letters)]
    BY <2>1, <2>3, Zenon
  <2>7. Ts(q) \in [1 .. Len(q) -> Seq(Token)]
    BY <2>1, <2>5, Zenon
  <2> QED
    BY <2>1, <2>6, <2>7
<1>2. s \o t \in Seq(Piece) /\ Len(s \o t) = Len(s) + Len(t)
  OBVIOUS
<1>3. \A k \in 1 .. Len(s) + Len(t) :
        (s \o t)[k] = IF k <= Len(s) THEN s[k] ELSE t[k - Len(s)]
  OBVIOUS
<1>4. Len(s) \in Nat /\ Len(t) \in Nat
  OBVIOUS
<1> DEFINE st == s \o t
<1> HIDE DEF Bs, Ts, st
<1>5. Bs(st) = Bs(s) \o Bs(t)
  <2>1. Bs(st) \in Seq(Seq(Letters)) /\ Len(Bs(st)) = Len(s) + Len(t)
    BY <1>1, <1>2, Zenon DEF st
  <2>2. Bs(s) \o Bs(t) \in Seq(Seq(Letters)) /\ Len(Bs(s) \o Bs(t)) = Len(s) + Len(t)
    <3>1. /\ Bs(s) \in Seq(Seq(Letters)) /\ Len(Bs(s)) = Len(s)
          /\ Bs(t) \in Seq(Seq(Letters)) /\ Len(Bs(t)) = Len(t)
      BY <1>1, Zenon
    <3> DEFINE a == Bs(s)
               b == Bs(t)
    <3> HIDE DEF a, b
    <3>2. a \in Seq(Seq(Letters)) /\ b \in Seq(Seq(Letters))
      BY <3>1, Zenon DEF a, b
    <3>3. a \o b \in Seq(Seq(Letters)) /\ Len(a \o b) = Len(a) + Len(b)
      BY <3>2
    <3> QED
      BY <3>1, <3>3, Zenon DEF a, b
  <2>3. ASSUME NEW k \in 1 .. Len(s) + Len(t)
        PROVE  Bs(st)[k] = (Bs(s) \o Bs(t))[k]
    <3>1. Bs(st)[k] = st[k].bytes
      BY <1>1, <1>2, Zenon DEF st
    <3>2. (Bs(s) \o Bs(t))[k] = IF k <= Len(s) THEN Bs(s)[k] ELSE Bs(t)[k - Len(s)]
      BY <1>1
    <3>3. CASE k <= Len(s)
      BY <1>1, <1>3, <1>4, <3>1, <3>2, <3>3 DEF st
    <3>4. CASE ~(k <= Len(s))
      <4>1. k - Len(s) \in 1 .. Len(t)
        BY <1>4, <3>4
      <4>2. Bs(t)[k - Len(s)] = t[k - Len(s)].bytes
        BY <1>1, <4>1, Zenon
      <4>3. st[k] = t[k - Len(s)]
        BY <1>3, <3>4, Zenon DEF st
      <4> QED
        BY <3>1, <3>2, <3>4, <4>2, <4>3, Zenon
    <3> QED
      BY <3>3, <3>4, Zenon
  <2> QED
    BY <2>1, <2>2, <2>3, SameElements, Zenon
<1>6. Ts(st) = Ts(s) \o Ts(t)
  <2>1. Ts(st) \in Seq(Seq(Token)) /\ Len(Ts(st)) = Len(s) + Len(t)
    BY <1>1, <1>2, Zenon DEF st
  <2>2. Ts(s) \o Ts(t) \in Seq(Seq(Token)) /\ Len(Ts(s) \o Ts(t)) = Len(s) + Len(t)
    <3>1. /\ Ts(s) \in Seq(Seq(Token)) /\ Len(Ts(s)) = Len(s)
          /\ Ts(t) \in Seq(Seq(Token)) /\ Len(Ts(t)) = Len(t)
      BY <1>1, Zenon
    <3> DEFINE a == Ts(s)
               b == Ts(t)
    <3> HIDE DEF a, b
    <3>2. a \in Seq(Seq(Token)) /\ b \in Seq(Seq(Token))
      BY <3>1, Zenon DEF a, b
    <3>3. a \o b \in Seq(Seq(Token)) /\ Len(a \o b) = Len(a) + Len(b)
      BY <3>2
    <3> QED
      BY <3>1, <3>3, Zenon DEF a, b
  <2>3. ASSUME NEW k \in 1 .. Len(s) + Len(t)
        PROVE  Ts(st)[k] = (Ts(s) \o Ts(t))[k]
    <3>1. Ts(st)[k] = IF st[k].token = NoToken THEN <<>> ELSE <<st[k].token>>
      BY <1>1, <1>2, Zenon DEF st
    <3>2. (Ts(s) \o Ts(t))[k] = IF k <= Len(s) THEN Ts(s)[k] ELSE Ts(t)[k - Len(s)]
      BY <1>1
    <3>3. CASE k <= Len(s)
      <4>1. k \in 1 .. Len(s)
        BY <1>4, <3>3
      <4>2. Ts(s)[k] = IF s[k].token = NoToken THEN <<>> ELSE <<s[k].token>>
        BY <1>1, <4>1, Zenon
      <4>3. st[k] = s[k]
        BY <1>3, <3>3, Zenon DEF st
      <4> QED
        BY <3>1, <3>2, <3>3, <4>2, <4>3, Zenon
    <3>4. CASE ~(k <= Len(s))
      <4>1. k - Len(s) \in 1 .. Len(t)
        BY <1>4, <3>4
      <4>2. Ts(t)[k - Len(s)] = IF t[k - Len(s)].token = NoToken THEN <<>>
                                ELSE <<t[k - Len(s)].token>>
        BY <1>1, <4>1, Zenon
      <4>3. st[k] = t[k - Len(s)]
        BY <1>3, <3>4, Zenon DEF st
      <4> QED
        BY <3>1, <3>2, <3>4, <4>2, <4>3, Zenon
    <3> QED
      BY <3>3, <3>4, Zenon
  <2> QED
    BY <2>1, <2>2, <2>3, SameElements, Zenon
<1>7. /\ Joined(Bs(s) \o Bs(t)) = Joined(Bs(s)) \o Joined(Bs(t))
      /\ Joined(Bs(s)) \in Seq(Letters)
  BY <1>1, JoinedConcat, Zenon
<1>8. /\ Joined(Ts(s) \o Ts(t)) = Joined(Ts(s)) \o Joined(Ts(t))
      /\ Joined(Ts(s)) \in Seq(Token)
  BY <1>1, JoinedConcat, Zenon
<1>9. /\ BytesOf(s) = Joined(Bs(s)) /\ BytesOf(t) = Joined(Bs(t))
      /\ BytesOf(st) = Joined(Bs(st))
      /\ TokensOf(s) = Joined(Ts(s)) /\ TokensOf(t) = Joined(Ts(t))
      /\ TokensOf(st) = Joined(Ts(st))
  BY Zenon DEF BytesOf, TokensOf, Bs, Ts
<1> QED
  BY <1>5, <1>6, <1>7, <1>8, <1>9, Zenon DEF st

\* No piece has no text, and one piece has its own.
LEMMA FewPieces ==
  /\ BytesOf(<<>>) = <<>> /\ TokensOf(<<>>) = <<>>
  /\ \A p \in Piece :
       /\ BytesOf(<<p>>) = p.bytes
       /\ TokensOf(<<p>>) = IF p.token = NoToken THEN <<>> ELSE <<p.token>>
<1>1. BytesOf(<<>>) = <<>> /\ TokensOf(<<>>) = <<>>
  <2>1. Joined(<<>>) = <<>>
    BY JoinedNone, Zenon
  <2>2. [k \in DOMAIN <<>> |-> <<>>[k].bytes] = <<>>
    OBVIOUS
  <2>3. [k \in DOMAIN <<>> |-> IF <<>>[k].token = NoToken THEN <<>>
                               ELSE <<(<<>>)[k].token>>] = <<>>
    OBVIOUS
  <2> QED
    BY <2>1, <2>2, <2>3, Zenon DEF BytesOf, TokensOf
<1>2. ASSUME NEW p \in Piece
      PROVE  /\ BytesOf(<<p>>) = p.bytes
             /\ TokensOf(<<p>>) = IF p.token = NoToken THEN <<>> ELSE <<p.token>>
  <2> DEFINE token == IF p.token = NoToken THEN <<>> ELSE <<p.token>>
  <2>1. p.bytes \in Seq(Letters) /\ token \in Seq(Token)
    BY DEF Piece
  <2>2. [k \in DOMAIN <<p>> |-> <<p>>[k].bytes] = <<p.bytes>>
    OBVIOUS
  <2>3. [k \in DOMAIN <<p>> |-> IF <<p>>[k].token = NoToken THEN <<>>
                                ELSE <<(<<p>>)[k].token>>] = <<token>>
    OBVIOUS
  <2> HIDE DEF token
  <2>4. Joined(<<p.bytes>>) = p.bytes /\ Joined(<<token>>) = token
    BY <2>1, JoinedOne, Zenon
  <2>5. BytesOf(<<p>>) = p.bytes
    BY <2>2, <2>4, Zenon DEF BytesOf
  <2>6. TokensOf(<<p>>) = token
    BY <2>3, <2>4, Zenon DEF TokensOf
  <2> QED
    BY <2>5, <2>6, Zenon DEF token
<1> QED
  BY <1>1, <1>2, Zenon

\* The tokens of a row's phrases are the tokens of its spans.
LEMMA SpanTokens ==
  ASSUME NEW spans \in Seq(Span)
  PROVE  /\ PhrasesOf(spans) \in Seq(Piece)
         /\ Len(PhrasesOf(spans)) = Len(spans)
         /\ [k \in DOMAIN spans |-> spans[k].token] \in Seq(Token)
         /\ TokensOf(PhrasesOf(spans)) = [k \in DOMAIN spans |-> spans[k].token]
<1> DEFINE n == Len(spans)
           toks == [k \in 1 .. n |-> spans[k].token]
           ps == PhrasesOf(spans)
<1>1. n \in Nat /\ DOMAIN spans = 1 .. n /\ \A k \in 1 .. n : spans[k] \in Span
  OBVIOUS
<1>2. \A k \in 1 .. n : spans[k].token \in Token
  BY <1>1, Zenon DEF Span
<1>3. toks \in Seq(Token) /\ Len(toks) = n /\ \A k \in 1 .. n : toks[k] = spans[k].token
  BY <1>1, <1>2
<1>4. ps \in [1 .. n -> Piece] /\ \A k \in 1 .. n : ps[k].token = spans[k].token
  <2>1. ps = [k \in 1 .. n |-> Phrase(spans[k].token)]
    BY <1>1, Zenon DEF PhrasesOf
  <2>2. \A k \in 1 .. n : /\ Phrase(spans[k].token) \in Piece
                          /\ Phrase(spans[k].token).token = spans[k].token
    BY <1>2, PieceShape, Zenon
  <2> QED
    BY <2>1, <2>2, Zenon
<1>5. ps \in Seq(Piece) /\ Len(ps) = n /\ DOMAIN ps = 1 .. n
  BY <1>1, <1>4
<1>6. [k \in DOMAIN ps |-> IF ps[k].token = NoToken THEN <<>> ELSE <<ps[k].token>>]
        = [k \in 1 .. n |-> <<toks[k]>>]
  BY <1>2, <1>3, <1>4, <1>5, NoTokenAssumption, Zenon
<1>7. Joined([k \in 1 .. Len(toks) |-> <<toks[k]>>]) = toks
  <2> HIDE DEF toks
  <2> QED
    BY <1>3, JoinedSingles, Zenon
<1>8. TokensOf(ps) = toks
  <2> HIDE DEF ps, toks, n
  <2> QED
    BY <1>3, <1>6, <1>7, Zenon DEF TokensOf
<1> QED
  BY <1>1, <1>3, <1>5, <1>8, Zenon

\* A slice of an input is letters; adjacent slices join.
LEMMA SliceShape ==
  ASSUME NEW text \in Seq(Letters), NEW a \in Nat, NEW b \in Nat, b <= Len(text)
  PROVE  /\ Slice(text, a, b) \in Seq(Letters)
         /\ a <= b => Len(Slice(text, a, b)) = b - a
<1>1. \A i \in a + 1 .. b : text[i] \in Letters
  OBVIOUS
<1>2. a + 1 \in Int /\ b \in Int
  OBVIOUS
<1>3. /\ SubSeq(text, a + 1, b) \in Seq(Letters)
      /\ Len(SubSeq(text, a + 1, b)) = IF a + 1 <= b THEN b - (a + 1) + 1 ELSE 0
  BY <1>1, <1>2
<1> QED
  BY <1>3 DEF Slice

\* Adjoining slices of the input are one slice.
LEMMA SliceJoin ==
  ASSUME NEW text \in Seq(Letters), NEW a \in Nat, NEW b \in Nat, NEW c \in Nat,
         a <= b, b <= c, c <= Len(text)
  PROVE  Slice(text, a, b) \o Slice(text, b, c) = Slice(text, a, c)
<1>1. /\ a + 1 \in 1 .. Len(text) + 1 /\ b \in (a + 1) - 1 .. Len(text)
      /\ c \in b .. Len(text)
  OBVIOUS
<1> QED
  BY <1>1 DEF Slice

\* Two inputs that agree on their first letters have the same slices there.
LEMMA SliceAgree ==
  ASSUME NEW text \in Seq(Letters), NEW other \in Seq(Letters), NEW c \in Nat,
         c <= Len(text), c <= Len(other), \A k \in 1 .. c : text[k] = other[k],
         NEW a \in Nat, NEW b \in Nat, b <= c
  PROVE  Slice(text, a, b) = Slice(other, a, b)
<1> DEFINE s == Slice(text, a, b)
           t == Slice(other, a, b)
           n == b - (a + 1) + 1
<1>1. a + 1 \in Int /\ b \in Int /\ Len(text) \in Nat /\ Len(other) \in Nat
  OBVIOUS
<1>2. ASSUME NEW i \in a + 1 .. b PROVE text[i] \in Letters /\ other[i] \in Letters
                                        /\ text[i] = other[i]
  <2>1. i \in 1 .. c /\ i \in 1 .. Len(text) /\ i \in 1 .. Len(other)
    BY <1>1
  <2> QED
    BY <2>1
<1>3. /\ s \in Seq(Letters) /\ Len(s) = (IF a + 1 <= b THEN n ELSE 0)
      /\ \A i \in 1 .. n : s[i] = text[a + 1 + i - 1]
  BY <1>1, <1>2 DEF Slice
<1>4. /\ t \in Seq(Letters) /\ Len(t) = (IF a + 1 <= b THEN n ELSE 0)
      /\ \A i \in 1 .. n : t[i] = other[a + 1 + i - 1]
  BY <1>1, <1>2 DEF Slice
<1> HIDE DEF s, t
<1>5. ASSUME NEW i \in 1 .. Len(s) PROVE s[i] = t[i]
  <2>1. i \in 1 .. n /\ a + 1 + i - 1 \in a + 1 .. b
    BY <1>3
  <2> QED
    BY <1>2, <1>3, <1>4, <2>1, Zenon
<1>6. s = t
  BY <1>3, <1>4, <1>5
<1> QED
  BY <1>6, Zenon DEF s, t

--------------------------------------------------------------------------------
\* The loop over the forcings is well defined.
LEMMA RebuildUnfolds ==
  ASSUME NEW text, NEW st, st.len \in Nat
  PROVE  RebuildLoop(text, st) =
           [i \in 0 .. st.len |->
              IF i = 0 THEN [parts |-> <<>>, cursor |-> 0, history |-> <<>>]
              ELSE RebuildStep(text, st.cells[i - 1], i - 1,
                               RebuildLoop(text, st)[i - 1])]
<1> DEFINE n == st.len
           start == [parts |-> <<>>, cursor |-> 0, history |-> <<>>]
           Step(i, d) == RebuildStep(text, st.cells[i - 1], i - 1, d)
           Runs(g, m) == g = [i \in 0 .. m |-> IF i = 0 THEN start ELSE Step(i, g[i - 1])]
           P == {m \in 0 .. n : \E g : Runs(g, m)}
<1> HIDE DEF start, Step
<1>1. 0 \in P
  <2> DEFINE g == [i \in 0 .. 0 |-> start]
  <2>1. Runs(g, 0)
    OBVIOUS
  <2> HIDE DEF Runs, g
  <2> QED
    BY <2>1
<1>2. ASSUME NEW m \in 0 .. n - 1, m \in P
      PROVE  m + 1 \in P
  <2>1. PICK g : Runs(g, m)
    BY <1>2, Zenon
  <2> DEFINE h == [i \in 0 .. m + 1 |-> IF i = m + 1 THEN Step(m + 1, g[m]) ELSE g[i]]
  <2>2. \A i \in 0 .. m : h[i] = g[i]
    OBVIOUS
  <2>3. \A i \in 0 .. m + 1 : h[i] = IF i = 0 THEN start ELSE Step(i, h[i - 1])
    <3> TAKE i \in 0 .. m + 1
    <3>1. CASE i = m + 1
      BY <2>2, <3>1
    <3>2. CASE i \in 1 .. m
      <4>1. g[i] = Step(i, g[i - 1])
        BY <2>1, <3>2
      <4>2. h[i] = g[i] /\ h[i - 1] = g[i - 1]
        BY <3>2, <2>2
      <4> QED
        BY <3>2, <4>1, <4>2
    <3>3. CASE i = 0
      BY <2>1, <2>2, <3>3
    <3> QED
      BY <3>1, <3>2, <3>3
  <2>4. Runs(h, m + 1)
    BY <2>3, Zenon
  <2> HIDE DEF Runs, h
  <2> QED
    BY <2>4
<1>3. n \in P
  <2> HIDE DEF P
  <2>1. \A m \in 0 .. n : m \in P
    BY <1>1, <1>2, IntervalInduction, Zenon
  <2> QED
    BY <2>1
<1>4. \E g : g = [i \in 0 .. n |-> IF i = 0 THEN start ELSE Step(i, g[i - 1])]
  BY <1>3, Zenon
<1> DEFINE loop == CHOOSE g :
             g = [i \in 0 .. n |-> IF i = 0 THEN start ELSE Step(i, g[i - 1])]
<1>5. RebuildLoop(text, st) = loop
  BY Zenon DEF RebuildLoop, Step, start
<1>6. loop = [i \in 0 .. n |-> IF i = 0 THEN start ELSE Step(i, loop[i - 1])]
  BY <1>4, Zenon
<1> HIDE DEF loop
<1> QED
  BY <1>5, <1>6, Zenon DEF Step, start

\* What the loop has put together on reaching column i.
Rebuilding == [parts : Seq(Piece), cursor : Nat, history : Seq(Token)]

\* One step of the loop keeps text and tokens together.
LEMMA RebuildStepShape ==
  ASSUME NEW text \in Seq(Letters), NEW cell \in Cell, NEW start \in Nat,
         cell.kind = "OneStep" => cell.token \in Token,
         NEW done \in Rebuilding, TokensOf(done.parts) = done.history,
         NEW next, next = RebuildStep(text, cell, start, done)
  PROVE  next \in Rebuilding /\ TokensOf(next.parts) = next.history
<1>1. CASE cell.kind # "OneStep"
  BY <1>1, Zenon DEF RebuildStep
<1>2. CASE cell.kind = "OneStep"
  <2> DEFINE gap == GapBefore(text, done.cursor, start)
             x == Phrase(cell.token)
  <2>1. next = [parts |-> done.parts \o gap \o <<x>>, cursor |-> cell.at,
                history |-> Append(done.history, cell.token)]
    BY <1>2, Zenon DEF RebuildStep
  <2>2. /\ done.parts \in Seq(Piece) /\ done.cursor \in Nat
        /\ done.history \in Seq(Token) /\ cell.at \in Nat /\ cell.token \in Token
    BY <1>2, Zenon DEF Rebuilding, Cell
  <2>3. gap \in Seq(Piece) /\ TokensOf(gap) = <<>>
    <3>1. CASE gap = <<>>
      BY <3>1, FewPieces
    <3>2. CASE gap # <<>>
      <4> DEFINE p == Raw(Slice(text, done.cursor, start))
      <4>1. gap = <<p>> /\ start <= Len(text)
        BY <3>2, Zenon DEF GapBefore
      <4>2. p \in Piece /\ p.token = NoToken
        BY <2>2, <4>1, SliceShape, PieceShape, Zenon
      <4> HIDE DEF p, gap
      <4>3. TokensOf(<<p>>) = <<>>
        BY <4>2, FewPieces, Zenon
      <4>4. <<p>> \in Seq(Piece)
        BY <4>2
      <4> QED
        BY <4>1, <4>3, <4>4, Zenon
    <3> QED
      BY <3>1, <3>2, Zenon
  <2>4. /\ x \in Piece /\ x.token = cell.token /\ <<x>> \in Seq(Piece)
        /\ x.token # NoToken
    BY <2>2, PieceShape, NoTokenAssumption
  <2>5. TokensOf(<<x>>) = <<cell.token>>
    BY <2>4, FewPieces, Zenon
  <2> HIDE DEF gap, x
  <2> DEFINE a == done.parts \o gap
  <2>6. /\ a \in Seq(Piece) /\ TokensOf(a) = done.history \o <<>>
    BY <2>2, <2>3, PiecesConcat, ConcatShape, Zenon
  <2> HIDE DEF a
  <2>7. a \o <<x>> \in Seq(Piece)
    BY <2>4, <2>6
  <2>8. TokensOf(a \o <<x>>) = TokensOf(a) \o <<cell.token>>
    BY <2>4, <2>5, <2>6, PiecesConcat, Zenon
  <2> DEFINE b == a \o <<x>>
             hist == done.history
             tok == cell.token
  <2>9. hist \in Seq(Token) /\ tok \in Token
    BY <2>2, Zenon
  <2> HIDE DEF b, hist, tok
  <2>10. hist \o <<>> = hist
    BY <2>9
  <2>11. Append(hist, tok) = hist \o <<tok>> /\ Append(hist, tok) \in Seq(Token)
    BY <2>9
  <2>12. TokensOf(b) = Append(hist, tok)
    BY <2>6, <2>8, <2>10, <2>11, Zenon DEF b, hist, tok
  <2>13. next = [parts |-> b, cursor |-> cell.at, history |-> Append(hist, tok)]
    BY <2>1, Zenon DEF a, b, hist, tok
  <2>14. b \in Seq(Piece)
    BY <2>7, Zenon DEF b
  <2> QED
    BY <2>2, <2>11, <2>12, <2>13, <2>14 DEF Rebuilding
<1> QED
  BY <1>1, <1>2, Zenon

\* On reaching any column the loop has kept text and tokens together.
LEMMA RebuildLoopShape ==
  ASSUME NEW text \in Seq(Letters), NEW n \in Nat, NEW st \in Stores(n), Sound(st)
  PROVE  \A i \in 0 .. n :
           /\ RebuildLoop(text, st)[i] \in Rebuilding
           /\ TokensOf(RebuildLoop(text, st)[i].parts) = RebuildLoop(text, st)[i].history
<1> DEFINE loop == RebuildLoop(text, st)
           start == [parts |-> <<>>, cursor |-> 0, history |-> <<>>]
           P == {i \in 0 .. n : /\ loop[i] \in Rebuilding
                                /\ TokensOf(loop[i].parts) = loop[i].history}
<1>1. st.len = n /\ \A i \in 0 .. n - 1 : st.cells[i] \in Cell
  BY StoreShape, Zenon
<1>2. loop = [i \in 0 .. n |->
                IF i = 0 THEN start
                ELSE RebuildStep(text, st.cells[i - 1], i - 1, loop[i - 1])]
  BY <1>1, RebuildUnfolds, Zenon
<1> HIDE DEF loop
<1>3. 0 \in P
  <2>1. loop[0] = start /\ 0 \in 0 .. n
    BY <1>2
  <2>2. start \in Rebuilding
    BY DEF Rebuilding
  <2>3. TokensOf(start.parts) = start.history
    BY FewPieces, Zenon
  <2> QED
    BY <2>1, <2>2, <2>3, Zenon
<1>4. ASSUME NEW i \in 0 .. n - 1, i \in P
      PROVE  i + 1 \in P
  <2> DEFINE done == loop[i]
             cell == st.cells[i]
             next == loop[i + 1]
  <2>1. done \in Rebuilding /\ TokensOf(done.parts) = done.history
    BY <1>4, Zenon
  <2>2. cell \in Cell /\ (cell.kind = "OneStep" => cell.token \in Token)
    BY <1>1, Zenon DEF Sound
  <2>3. i + 1 \in 0 .. n /\ i + 1 # 0 /\ (i + 1) - 1 = i /\ i \in Nat
    OBVIOUS
  <2>4. next = RebuildStep(text, cell, i, done)
    BY <1>2, <2>3, Zenon
  <2> HIDE DEF done, cell, next, P
  <2>5. next \in Rebuilding /\ TokensOf(next.parts) = next.history
    BY <2>1, <2>2, <2>3, <2>4, RebuildStepShape, Zenon
  <2> QED
    BY <2>3, <2>5, Zenon DEF P, next
<1>5. \A i \in 0 .. n : i \in P
  <2> HIDE DEF P
  <2> QED
    BY <1>3, <1>4, IntervalInduction, Zenon
<1> QED
  BY <1>5, Zenon DEF loop

\* A selection record.
Record ==
  [parts : Seq(Piece), consumed : Nat, history : Seq(Token), committed : BOOLEAN]

\* The record of no selection.
LEMMA NoRecordShape ==
  NoRecord \in Record /\ TokensOf(NoRecord.parts) = NoRecord.history
BY FewPieces DEF NoRecord, Record

\* Lesser is the minimum.
LEMMA LesserShape ==
  ASSUME NEW a \in Nat, NEW b \in Nat
  PROVE  Lesser(a, b) \in Nat /\ Lesser(a, b) <= b /\ Lesser(a, b) <= a
         /\ (a <= b => Lesser(a, b) = a) /\ (b <= a => Lesser(a, b) = b)
BY DEF Lesser

\* A rebuilt record ends within the input, and its text shows its tokens.
LEMMA RebuildShape ==
  ASSUME NEW text \in Seq(Letters), NEW n \in Nat, NEW st \in Stores(n), Sound(st),
         NEW r, r = rebuild_from_constraints(text, st)
  PROVE  /\ r \in Record /\ r.consumed <= Len(text)
         /\ TokensOf(r.parts) = r.history
<1> DEFINE done == RebuildLoop(text, st)[st.len]
<1>1. st.len = n /\ n \in 0 .. n
  BY StoreShape
<1>2. done \in Rebuilding /\ TokensOf(done.parts) = done.history
  BY <1>1, RebuildLoopShape, Zenon
<1>3. r = IF done.history = <<>> THEN NoRecord
          ELSE [parts |-> done.parts, consumed |-> Lesser(done.cursor, Len(text)),
                history |-> done.history, committed |-> FALSE]
  BY Zenon DEF rebuild_from_constraints
<1> HIDE DEF done
<1>4. /\ done.parts \in Seq(Piece) /\ done.cursor \in Nat /\ done.history \in Seq(Token)
      /\ Len(text) \in Nat
  BY <1>2 DEF Rebuilding
<1>5. Lesser(done.cursor, Len(text)) \in Nat /\ Lesser(done.cursor, Len(text)) <= Len(text)
  BY <1>4, LesserShape, Zenon
<1>6. CASE done.history = <<>>
  BY <1>3, <1>4, <1>6, NoRecordShape DEF NoRecord
<1>7. CASE done.history # <<>>
  BY <1>2, <1>3, <1>4, <1>5, <1>7, SMTT(30) DEF Record
<1> QED
  BY <1>6, <1>7, Zenon

--------------------------------------------------------------------------------
\* Every forcing of `st` spells over its span of `text`.
Spelled(text, st) ==
  \A s \in 0 .. st.len - 1 :
    st.cells[s].kind = "OneStep" =>
      /\ st.cells[s].at <= Len(text)
      /\ Slice(text, s, st.cells[s].at) = Spelling[st.cells[s].token]

\* What one step of the loop adds to a text that reaches up to the cursor.
LEMMA RebuildStepText ==
  ASSUME NEW text \in Seq(Letters), NEW cell \in Cell, NEW start \in Nat,
         cell.kind = "OneStep", cell.token \in Token,
         start < cell.at, cell.at <= Len(text),
         Slice(text, start, cell.at) = Spelling[cell.token],
         NEW done \in Rebuilding, done.cursor <= start,
         BytesOf(done.parts) = Slice(text, 0, done.cursor),
         NEW next, next = RebuildStep(text, cell, start, done)
  PROVE  /\ next.cursor = cell.at
         /\ BytesOf(next.parts) = Slice(text, 0, cell.at)
<1> DEFINE gap == GapBefore(text, done.cursor, start)
           x == Phrase(cell.token)
           a == done.parts \o gap
           b == a \o <<x>>
<1>1. next = [parts |-> b, cursor |-> cell.at,
              history |-> Append(done.history, cell.token)]
  BY Zenon DEF RebuildStep
<1>2. done.parts \in Seq(Piece) /\ done.cursor \in Nat /\ cell.at \in Nat
      /\ start <= Len(text) /\ Len(text) \in Nat
  BY DEF Rebuilding, Cell
<1>3. gap \in Seq(Piece) /\ BytesOf(gap) = Slice(text, done.cursor, start)
  <2>1. CASE done.cursor < start
    <3> DEFINE q == Slice(text, done.cursor, start)
               p == Raw(q)
    <3>1. gap = <<p>>
      BY <1>2, <2>1, Zenon DEF GapBefore
    <3>2. p \in Piece /\ p.bytes = q
      BY <1>2, SliceShape, PieceShape, Zenon
    <3> HIDE DEF p, q, gap
    <3>3. BytesOf(<<p>>) = q
      BY <3>2, FewPieces, Zenon
    <3>4. <<p>> \in Seq(Piece)
      BY <3>2, SMTT(30)
    <3> QED
      BY <3>1, <3>3, <3>4, Zenon DEF q
  <2>2. CASE done.cursor = start
    <3>1. gap = <<>>
      BY <2>2 DEF GapBefore
    <3>2. Slice(text, start, start) = <<>>
      BY DEF Slice
    <3> QED
      BY <2>2, <3>1, <3>2, FewPieces
  <2> QED
    BY <1>2, <2>1, <2>2, SMTT(30)
<1>4. x \in Piece /\ x.bytes = Spelling[cell.token] /\ <<x>> \in Seq(Piece)
  BY PieceShape, SMTT(30)
<1>5. BytesOf(<<x>>) = Slice(text, start, cell.at)
  BY <1>4, FewPieces, Zenon
<1> HIDE DEF gap, x
<1>6. a \in Seq(Piece)
  BY <1>2, <1>3
<1>7. BytesOf(a) = BytesOf(done.parts) \o BytesOf(gap)
  BY <1>2, <1>3, PiecesConcat, Zenon
<1> HIDE DEF a
<1>8. BytesOf(b) = BytesOf(a) \o BytesOf(<<x>>)
  BY <1>4, <1>6, PiecesConcat, Zenon
<1> DEFINE c == done.cursor
           e == cell.at
<1>c. c \in Nat /\ e \in Nat /\ 0 \in Nat /\ 0 <= c /\ c <= start /\ 0 <= start
      /\ start <= e /\ start <= Len(text) /\ e <= Len(text)
  BY <1>2
<1> HIDE DEF c, e
<1>9. Slice(text, 0, c) \o Slice(text, c, start) = Slice(text, 0, start)
  BY <1>c, SliceJoin, Zenon
<1>10. Slice(text, 0, start) \o Slice(text, start, e) = Slice(text, 0, e)
  BY <1>c, SliceJoin, Zenon
<1>11. BytesOf(b) = Slice(text, 0, cell.at)
  BY <1>3, <1>5, <1>7, <1>8, <1>9, <1>10, Zenon DEF c, e
<1> HIDE DEF b
<1> QED
  BY <1>1, <1>11, SMTT(30)

\* What the loop knows at column i, over whole runs that spell: the text reaches
\* up to the cursor, which is past the runs seen and not past one to come.
RebuiltTo(text, st, i, done) ==
  /\ done.cursor <= Len(text)
  /\ BytesOf(done.parts) = Slice(text, 0, done.cursor)
  /\ \A j \in 0 .. st.len - 1 :
       st.cells[j].kind = "OneStep" =>
         IF j < i THEN st.cells[j].at <= done.cursor /\ done.history # <<>>
         ELSE done.cursor <= j

\* The loop keeps the text in step with the input.
LEMMA RebuildLoopText ==
  ASSUME NEW text \in Seq(Letters), NEW n \in Nat, NEW st \in Stores(n),
         RunsWhole(st), Spelled(text, st)
  PROVE  \A i \in 0 .. n : RebuiltTo(text, st, i, RebuildLoop(text, st)[i])
<1> DEFINE loop == RebuildLoop(text, st)
           start == [parts |-> <<>>, cursor |-> 0, history |-> <<>>]
           P == {i \in 0 .. n : RebuiltTo(text, st, i, loop[i])}
<1>1. st.len = n /\ \A i \in 0 .. n - 1 : st.cells[i] \in Cell
  BY StoreShape, Zenon
<1>s. Sound(st)
  BY WholeIsSound, Zenon
<1>r. \A i \in 0 .. n : loop[i] \in Rebuilding
  BY <1>s, RebuildLoopShape, Zenon
<1>2. loop = [i \in 0 .. n |->
                IF i = 0 THEN start
                ELSE RebuildStep(text, st.cells[i - 1], i - 1, loop[i - 1])]
  BY <1>1, RebuildUnfolds, Zenon
<1> HIDE DEF loop
<1>3. 0 \in P
  <2>1. loop[0] = start /\ 0 \in 0 .. n
    BY <1>2
  <2>2. BytesOf(start.parts) = <<>>
    BY FewPieces, Zenon
  <2>3. Slice(text, 0, 0) = <<>>
    BY DEF Slice
  <2>4. Len(text) \in Nat
    OBVIOUS
  <2>5. RebuiltTo(text, st, 0, start)
    BY <1>1, <2>2, <2>3, <2>4 DEF RebuiltTo
  <2> QED
    BY <2>1, <2>5, Zenon
<1>4. ASSUME NEW i \in 0 .. n - 1, i \in P
      PROVE  i + 1 \in P
  <2> DEFINE done == loop[i]
             cell == st.cells[i]
             next == loop[i + 1]
  <2>1. done \in Rebuilding /\ RebuiltTo(text, st, i, done)
    BY <1>r, <1>4, Zenon
  <2>2. i + 1 \in 0 .. n /\ i + 1 # 0 /\ (i + 1) - 1 = i /\ i \in Nat
    OBVIOUS
  <2>3. next = RebuildStep(text, cell, i, done)
    BY <1>2, <2>2, Zenon
  <2>4. cell \in Cell
    BY <1>1, Zenon
  <2> HIDE DEF done, next, P
  <2>5. CASE cell.kind # "OneStep"
    <3>1. next = done
      BY <2>3, <2>5, Zenon DEF RebuildStep
    <3>2. RebuiltTo(text, st, i + 1, done)
      BY <1>1, <2>1, <2>5, SMTT(30) DEF RebuiltTo
    <3> QED
      BY <2>2, <3>1, <3>2, Zenon DEF P, next
  <2>6. CASE cell.kind = "OneStep"
    <3>1. cell.token \in Token /\ i < cell.at
      BY <1>1, <2>6, Zenon DEF RunsWhole
    <3>2. cell.at <= Len(text) /\ Slice(text, i, cell.at) = Spelling[cell.token]
      BY <1>1, <2>6, Zenon DEF Spelled
    <3>3. done.cursor <= i /\ BytesOf(done.parts) = Slice(text, 0, done.cursor)
      BY <1>1, <2>1, <2>6 DEF RebuiltTo
    <3>4. next.cursor = cell.at /\ BytesOf(next.parts) = Slice(text, 0, cell.at)
      <4> HIDE DEF cell
      <4> QED
        BY <2>1, <2>2, <2>3, <2>4, <2>6, <3>1, <3>2, <3>3, RebuildStepText, SMTT(30)
    <3>5. next.history # <<>>
      <4> DEFINE h == done.history
                 t == cell.token
      <4>1. h \in Seq(Token) /\ t \in Token
        BY <2>1, <3>1, Zenon DEF Rebuilding
      <4>2. next.history = Append(h, t)
        BY <2>3, <2>6, Zenon DEF RebuildStep
      <4> HIDE DEF h, t
      <4> QED
        BY <4>1, <4>2, SMTT(30)
    <3>6. \A j \in 0 .. n - 1 : st.cells[j].kind = "OneStep" =>
            IF j < i + 1 THEN st.cells[j].at <= cell.at ELSE cell.at <= j
      <4> SUFFICES ASSUME NEW j \in 0 .. n - 1, st.cells[j].kind = "OneStep"
                   PROVE  IF j < i + 1 THEN st.cells[j].at <= cell.at ELSE cell.at <= j
        BY Zenon
      <4>1. cell.at \in Nat /\ st.cells[j].at \in Nat /\ cell.at <= n /\ st.cells[j].at <= n
        BY <1>1, <2>6, Zenon DEF RunsWhole, Cell
      <4>2. CASE j < i
        BY <1>1, <2>6, <3>1, <4>1, <4>2, SMTT(30) DEF RunsWhole
      <4>3. CASE j = i
        BY <4>1, <4>3, SMTT(30)
      <4>4. CASE j > i
        BY <1>1, <2>6, <3>1, <4>1, <4>4, SMTT(30) DEF RunsWhole
      <4> QED
        BY <4>2, <4>3, <4>4, SMTT(30)
    <3>7. RebuiltTo(text, st, i + 1, next)
      <4> HIDE DEF cell
      <4> QED
        BY <1>1, <3>2, <3>4, <3>5, <3>6, Zenon DEF RebuiltTo
    <3> QED
      BY <2>2, <3>7, Zenon DEF P, next
  <2> QED
    BY <2>5, <2>6, Zenon
<1>5. \A i \in 0 .. n : i \in P
  <2> HIDE DEF P
  <2> QED
    BY <1>3, <1>4, IntervalInduction, Zenon
<1> QED
  BY <1>5, Zenon DEF loop

\* A record rebuilt from whole runs that spell holds exactly the letters up to
\* its offset, and the offset is behind every run.
LEMMA RebuildText ==
  ASSUME NEW text \in Seq(Letters), NEW n \in Nat, NEW st \in Stores(n),
         RunsWhole(st), Spelled(text, st),
         NEW r, r = rebuild_from_constraints(text, st)
  PROVE  /\ BytesOf(r.parts) = Slice(text, 0, r.consumed)
         /\ \A s \in 0 .. n - 1 : st.cells[s].kind = "OneStep" =>
              st.cells[s].at <= r.consumed /\ r.history # <<>>
<1> DEFINE done == RebuildLoop(text, st)[st.len]
<1>1. st.len = n /\ n \in 0 .. n
  BY StoreShape, SMTT(30)
<1>2. done \in Rebuilding
  BY <1>1, WholeIsSound, RebuildLoopShape, Zenon
<1>3. RebuiltTo(text, st, n, done)
  BY <1>1, RebuildLoopText, Zenon
<1>4. r = IF done.history = <<>> THEN NoRecord
          ELSE [parts |-> done.parts, consumed |-> Lesser(done.cursor, Len(text)),
                history |-> done.history, committed |-> FALSE]
  BY Zenon DEF rebuild_from_constraints
<1> HIDE DEF done
<1>5. /\ done.cursor \in Nat /\ Len(text) \in Nat /\ done.cursor <= Len(text)
      /\ BytesOf(done.parts) = Slice(text, 0, done.cursor)
      /\ \A s \in 0 .. n - 1 : st.cells[s].kind = "OneStep" =>
           st.cells[s].at <= done.cursor /\ done.history # <<>>
  BY <1>1, <1>2, <1>3, SMTT(30) DEF RebuiltTo, Rebuilding
<1>6. Lesser(done.cursor, Len(text)) = done.cursor
  BY <1>5, LesserShape, Zenon
<1>7. CASE done.history = <<>>
  <2>1. r = NoRecord
    BY <1>4, <1>7, Zenon
  <2>2. BytesOf(NoRecord.parts) = <<>> /\ NoRecord.consumed = 0
    BY FewPieces, Zenon DEF NoRecord
  <2>3. Slice(text, 0, 0) = <<>>
    BY DEF Slice
  <2> QED
    BY <1>5, <1>7, <2>1, <2>2, <2>3, Zenon
<1>8. CASE done.history # <<>>
  BY <1>4, <1>5, <1>6, <1>8, SMTT(30)
<1> QED
  BY <1>7, <1>8, Zenon

--------------------------------------------------------------------------------
\* The keys from any offset of the input end somewhere: at the first letter that
\* is no key, or with the input.
LEMMA BoundFromShape ==
  ASSUME NEW text \in Seq(Letters), NEW from \in 0 .. Len(text)
  PROVE  /\ BoundFrom(text, from) \in from .. Len(text)
         /\ \A k \in from + 1 .. BoundFrom(text, from) : text[k] \in Keys
         /\ BoundFrom(text, from) < Len(text) =>
              text[BoundFrom(text, from) + 1] \notin Keys
<1> DEFINE n == Len(text)
           Ends(b) == /\ \A k \in from + 1 .. b : text[k] \in Keys
                      /\ b < n => text[b + 1] \notin Keys
           P == {b \in from .. n : \A k \in from + 1 .. b : text[k] \in Keys}
<1>1. n \in Nat /\ from \in Nat /\ from <= n
  OBVIOUS
<1> HIDE DEF n
<1>2. \E b \in from .. n : Ends(b)
  <2> SUFFICES ASSUME \A b \in from .. n : ~Ends(b) PROVE FALSE
    BY Zenon
  <2>1. from \in P
    BY <1>1
  <2>2. ASSUME NEW i \in from .. n - 1, i \in P PROVE i + 1 \in P
    <3>1. i \in from .. n /\ i < n /\ i + 1 \in from .. n
      BY <1>1
    <3>2. text[i + 1] \in Keys
      BY <2>2, <3>1, Zenon
    <3>3. \A k \in from + 1 .. i + 1 : text[k] \in Keys
      <4> TAKE k \in from + 1 .. i + 1
      <4>1. k = i + 1 \/ k \in from + 1 .. i
        BY <1>1
      <4> QED
        BY <2>2, <3>2, <4>1, Zenon
    <3> QED
      BY <3>1, <3>3, Zenon
  <2>3. \A i \in from .. n : i \in P
    <3> HIDE DEF P
    <3> QED
      BY <1>1, <2>1, <2>2, IntervalInduction, Zenon
  <2>4. n \in from .. n /\ ~(n < n)
    BY <1>1
  <2> QED
    BY <2>3, <2>4, Zenon
<1>3. BoundFrom(text, from) = CHOOSE b \in from .. n : Ends(b)
  BY Zenon DEF BoundFrom, n
<1>4. BoundFrom(text, from) \in from .. n /\ Ends(BoundFrom(text, from))
  <2> HIDE DEF Ends
  <2> QED
    BY <1>2, <1>3, Zenon
<1> QED
  BY <1>4, Zenon DEF n

\* An input of keys is parsed to its end.
LEMMA BoundOfKeys ==
  ASSUME NEW text \in Seq(Letters), text \in Seq(Keys), NEW from \in 0 .. Len(text)
  PROVE  BoundFrom(text, from) = Len(text)
<1> DEFINE b == BoundFrom(text, from)
<1>1. b \in from .. Len(text) /\ (b < Len(text) => text[b + 1] \notin Keys)
  BY BoundFromShape, Zenon
<1>2. \A k \in 1 .. Len(text) : text[k] \in Keys
  OBVIOUS
<1> HIDE DEF b
<1>3. Len(text) \in Nat
  OBVIOUS
<1>4. b < Len(text) => b + 1 \in 1 .. Len(text)
  BY <1>1, <1>3
<1> QED
  BY <1>1, <1>2, <1>3, <1>4 DEF b

\* The matrix of the input is within it.
LEMMA BoundShape ==
  ASSUME NEW text \in Seq(Letters)
  PROVE  Bound(text) \in 0 .. Len(text) /\ Bound(text) \in Nat
BY BoundFromShape DEF Bound

--------------------------------------------------------------------------------
\* A walk position's segmentations, given those of the later positions.
RowFrom(i, token, rest) == <<[start |-> i, token |-> token]>> \o rest
Prefixed(i, f, rests) == {RowFrom(i, f[1], rest) : rest \in rests}
WalkFrom(text, st, i, bound, walk) ==
  IF i = bound THEN {<<>>}
  ELSE UNION {Prefixed(i, f, walk[f[2]]) : f \in Steps(text, st, i, bound)}

\* A step of the walk places a phrase the input spells, and goes forward.
LEMMA StepsShape ==
  ASSUME NEW text \in Seq(Letters), NEW n \in Nat, NEW st \in Stores(n), Sound(st),
         NEW bound \in Nat, NEW i \in Nat, NEW f \in Steps(text, st, i, bound)
  PROVE  /\ f[1] \in Token /\ f[2] \in i + 1 .. bound
         /\ Slice(text, i, f[2]) = Spelling[f[1]]
         /\ CellKind(st, i) # "NoSearch"
         /\ CellKind(st, i) = "OneStep" => f[1] = st.cells[i].token /\ f[2] = st.cells[i].at
         /\ CellKind(st, i) # "OneStep" =>
              \A c \in i + 1 .. f[2] : CellKind(st, c) # "NoSearch"
<1>1. st.len = n /\ \A c \in 0 .. n - 1 : st.cells[c] \in Cell
  BY StoreShape, Zenon
<1>2. CellKind(st, i) # "NoSearch"
  BY Zenon DEF Steps
<1>3. CASE CellKind(st, i) = "OneStep"
  <2>1. f \in Spanning(text, i, bound, {<<st.cells[i].token, st.cells[i].at>>})
    BY <1>3, Zenon DEF Steps
  <2>2. /\ f = <<st.cells[i].token, st.cells[i].at>> /\ f[2] <= bound
        /\ Slice(text, i, f[2]) = Spelling[f[1]]
    BY <2>1, Zenon DEF Spanning
  <2>3. i \in 0 .. n - 1 /\ st.cells[i].kind = "OneStep"
    BY <1>1, <1>3 DEF CellKind
  <2>4. st.cells[i].token \in Token /\ i < st.cells[i].at /\ st.cells[i].at \in Nat
    BY <1>1, <2>3, Zenon DEF Sound, Cell
  <2> QED
    BY <1>2, <1>3, <2>2, <2>4, SMTT(30)
<1>4. CASE CellKind(st, i) # "OneStep"
  <2>1. f \in widen_free_span(text, st, i, bound)
    BY <1>2, <1>4, Zenon DEF Steps
  <2>2. /\ f \in Spanning(text, i, bound, {<<t, i + Len(Spelling[t])>> : t \in Token})
        /\ \A c \in i + 1 .. f[2] : CellKind(st, c) # "NoSearch"
    BY <2>1, Zenon DEF widen_free_span
  <2>3. /\ f \in {<<t, i + Len(Spelling[t])>> : t \in Token} /\ f[2] <= bound
        /\ Slice(text, i, f[2]) = Spelling[f[1]]
    BY <2>2, Zenon DEF Spanning
  <2>4. PICK t \in Token : f = <<t, i + Len(Spelling[t])>>
    BY <2>3, Zenon
  <2>5. Spelling[t] \in Seq(Letters) /\ Spelling[t] # <<>>
    BY PieceShape, Zenon
  <2>6. Len(Spelling[t]) \in Nat /\ Len(Spelling[t]) > 0
    <3> DEFINE w == Spelling[t]
    <3> HIDE DEF w
    <3>1. w \in Seq(Letters) /\ w # <<>>
      BY <2>5, Zenon DEF w
    <3>2. Len(w) \in Nat /\ Len(w) > 0
      BY <3>1
    <3> QED
      BY <3>2, Zenon DEF w
  <2>7. f[1] = t /\ f[2] = i + Len(Spelling[t])
    BY <2>4, Zenon
  <2>8. f[2] \in i + 1 .. bound
    BY <2>3, <2>6, <2>7
  <2> QED
    BY <1>2, <1>4, <2>2, <2>3, <2>7, <2>8, Zenon
<1> QED
  BY <1>3, <1>4, Zenon

\* A position's segmentations depend on the later positions only.
LEMMA WalkFromLater ==
  ASSUME NEW text \in Seq(Letters), NEW n \in Nat, NEW st \in Stores(n), Sound(st),
         NEW bound \in Nat, NEW i \in Nat, NEW g, NEW h,
         \A j \in i + 1 .. bound : g[j] = h[j]
  PROVE  WalkFrom(text, st, i, bound, g) = WalkFrom(text, st, i, bound, h)
<1>1. \A f \in Steps(text, st, i, bound) : g[f[2]] = h[f[2]]
  BY StepsShape, Zenon
<1>2. {Prefixed(i, f, g[f[2]]) : f \in Steps(text, st, i, bound)}
        = {Prefixed(i, f, h[f[2]]) : f \in Steps(text, st, i, bound)}
  BY <1>1, Zenon
<1> QED
  BY <1>2, Zenon DEF WalkFrom

\* The walk is the function its equation describes.
LEMMA WalkUnfolds ==
  ASSUME NEW text \in Seq(Letters), NEW n \in Nat, NEW st \in Stores(n), Sound(st),
         NEW bound \in Nat, NEW from \in 0 .. bound
  PROVE  Walk(text, st, from, bound) =
           [i \in from .. bound |->
              WalkFrom(text, st, i, bound, Walk(text, st, from, bound))]
<1> DEFINE Step(i, g) == WalkFrom(text, st, i, bound, g)
           Runs(g, a) == g = [i \in a .. bound |-> Step(i, g)]
           P == {k \in 0 .. bound - from : \E g : Runs(g, bound - k)}
<1>1. ASSUME NEW i \in Nat, NEW g, NEW h, \A j \in i + 1 .. bound : g[j] = h[j]
      PROVE  Step(i, g) = Step(i, h)
  BY <1>1, WalkFromLater
<1>2. bound - from \in Nat /\ from \in Nat
  OBVIOUS
<1> HIDE DEF Step
<1>3. 0 \in P
  <2> DEFINE g == [i \in bound .. bound |-> Step(i, <<>>)]
  <2>1. \A i \in bound .. bound : i \in Nat /\ \A j \in i + 1 .. bound : g[j] = <<>>[j]
    OBVIOUS
  <2>2. \A i \in bound .. bound : Step(i, <<>>) = Step(i, g)
    <3> HIDE DEF g
    <3> QED
      BY <1>1, <2>1, Zenon
  <2>3. [i \in bound .. bound |-> Step(i, g)] = [i \in bound .. bound |-> Step(i, <<>>)]
    <3> HIDE DEF g
    <3> QED
      BY <2>2, Zenon
  <2>4. Runs(g, bound)
    BY <2>3, Zenon
  <2> HIDE DEF Runs, g
  <2>5. bound - 0 = bound /\ 0 \in 0 .. bound - from
    OBVIOUS
  <2> QED
    BY <2>4, <2>5, Zenon
<1>4. ASSUME NEW k \in 0 .. (bound - from) - 1, k \in P
      PROVE  k + 1 \in P
  <2> DEFINE a == bound - k
             b == bound - (k + 1)
  <2>1. PICK g : Runs(g, a)
    BY <1>4, Zenon
  <2> DEFINE h == [i \in b .. bound |-> IF i = b THEN Step(i, g) ELSE g[i]]
  <2>2. a \in Nat /\ b \in Nat /\ b + 1 = a /\ a <= bound /\ k + 1 \in 0 .. bound - from
    BY <1>2
  <2> HIDE DEF a, b
  <2>3. \A i \in a .. bound : h[i] = g[i]
    BY <2>2
  <2>4. \A i \in b .. bound : Step(i, g) = Step(i, h)
    <3> TAKE i \in b .. bound
    <3>1. i \in Nat /\ \A j \in i + 1 .. bound : g[j] = h[j]
      BY <2>2, <2>3
    <3> HIDE DEF h
    <3> QED
      BY <1>1, <3>1, Zenon
  <2>5. \A i \in a .. bound : g[i] = Step(i, g)
    BY <2>1, Zenon
  <2>6. \A i \in b .. bound : h[i] = Step(i, g)
    <3> TAKE i \in b .. bound
    <3>1. i = b \/ i \in a .. bound
      BY <2>2
    <3> QED
      BY <2>2, <2>5, <3>1, Zenon
  <2>7. h = [i \in b .. bound |-> h[i]]
    BY Zenon
  <2> HIDE DEF h
  <2>8. [i \in b .. bound |-> h[i]] = [i \in b .. bound |-> Step(i, h)]
    BY <2>4, <2>6, Zenon
  <2>9. Runs(h, b)
    BY <2>7, <2>8, Zenon
  <2> HIDE DEF Runs
  <2> QED
    BY <2>2, <2>9, Zenon DEF b
<1>5. \A k \in 0 .. bound - from : k \in P
  <2> HIDE DEF P
  <2> QED
    BY <1>2, <1>3, <1>4, IntervalInduction, Zenon
<1>6. \E g : g = [i \in from .. bound |-> Step(i, g)]
  <2>1. bound - from \in 0 .. bound - from /\ bound - (bound - from) = from
    BY <1>2
  <2> QED
    BY <1>5, <2>1, Zenon
<1> DEFINE walk == CHOOSE g : g = [i \in from .. bound |-> Step(i, g)]
<1>7. Walk(text, st, from, bound) = walk
  BY Zenon DEF Walk, Step, WalkFrom, Prefixed, RowFrom
<1>8. walk = [i \in from .. bound |-> Step(i, walk)]
  BY <1>6, Zenon
<1> HIDE DEF walk
<1> QED
  BY <1>7, <1>8, Zenon DEF Step

\* Induction from the last position to the first.
LEMMA DownwardInduction ==
  ASSUME NEW from \in Nat, NEW bound \in Nat, NEW Q,
         bound \in Q,
         \A i \in from .. bound - 1 : (\A j \in i + 1 .. bound : j \in Q) => i \in Q
  PROVE  \A i \in from .. bound : i \in Q
<1> DEFINE P == {k \in Nat : \A j \in bound - k .. bound : j >= from => j \in Q}
<1>1. 0 \in P
  OBVIOUS
<1>2. ASSUME NEW k \in 0 .. bound - 1, k \in P
      PROVE  k + 1 \in P
  <2>1. ASSUME NEW j \in bound - (k + 1) .. bound, j >= from
        PROVE  j \in Q
    <3>1. CASE j \in bound - k .. bound
      BY <1>2, <2>1, <3>1, Zenon
    <3>2. CASE j = bound - (k + 1)
      <4>1. j \in from .. bound - 1 /\ \A l \in j + 1 .. bound : l \in Q
        BY <1>2, <2>1, <3>2
      <4> QED
        BY <4>1, Zenon
    <3> QED
      BY <3>1, <3>2
  <2> QED
    BY <2>1
<1>3. \A k \in 0 .. bound : k \in P
  <2> HIDE DEF P
  <2> QED
    BY <1>1, <1>2, IntervalInduction, Zenon
<1>4. bound \in 0 .. bound /\ bound - bound = 0
  OBVIOUS
<1> QED
  BY <1>3, <1>4

\* A row that begins with the phrase t at i.
LEMMA RowBegins ==
  \A i \in Nat : \A t \in Token : \A rest \in Seq(Span) :
    /\ RowFrom(i, t, rest) \in Seq(Span) /\ RowFrom(i, t, rest) # <<>>
    /\ BytesOf(PhrasesOf(RowFrom(i, t, rest)))
         = Join(Spelling[t], BytesOf(PhrasesOf(rest)))
    /\ [start |-> i, token |-> t] \in Range(RowFrom(i, t, rest))
    /\ Range(rest) \subseteq Range(RowFrom(i, t, rest))
<1> TAKE i \in Nat
<1> TAKE t \in Token
<1> TAKE rest \in Seq(Span)
<1> DEFINE seg == RowFrom(i, t, rest)
           x == [start |-> i, token |-> t]
           one == <<x>>
<1>1. x \in Span /\ x.token = t
  BY Zenon DEF Span
<1> HIDE DEF x
<1>2. one \in Seq(Span) /\ Len(one) = 1 /\ one[1] = x
  BY <1>1
<1>3. seg = one \o rest
  BY Zenon DEF x, RowFrom
<1> HIDE DEF one, seg
<1>4. /\ seg \in Seq(Span) /\ Len(seg) = 1 + Len(rest)
      /\ \A k \in 1 .. 1 + Len(rest) : seg[k] = IF k <= 1 THEN one[k] ELSE rest[k - 1]
  <2> DEFINE both == one \o rest
  <2>1. one \in Seq(Span)
    BY <1>2, Zenon
  <2>2. /\ both \in Seq(Span) /\ Len(both) = Len(one) + Len(rest)
        /\ \A k \in 1 .. Len(one) + Len(rest) :
             both[k] = IF k <= Len(one) THEN one[k] ELSE rest[k - Len(one)]
    BY <2>1
  <2>3. seg = both
    BY <1>3, Zenon
  <2> HIDE DEF both
  <2> QED
    BY <1>2, <2>2, <2>3, Zenon
<1>5. Len(rest) \in Nat
  OBVIOUS
<1>6. seg # <<>> /\ seg[1] = x /\ 1 \in DOMAIN seg
  BY <1>2, <1>4, <1>5
<1>7. \A k \in 1 .. Len(rest) : seg[k + 1] = rest[k] /\ k + 1 \in DOMAIN seg
  <2> TAKE k \in 1 .. Len(rest)
  <2>1. k + 1 \in 1 .. 1 + Len(rest) /\ ~(k + 1 <= 1) /\ (k + 1) - 1 = k
    BY <1>5
  <2> QED
    BY <1>4, <2>1
<1>8. x \in Range(seg)
  BY <1>6, Zenon DEF Range
<1>9. Range(rest) \subseteq Range(seg)
  <2> SUFFICES ASSUME NEW y \in Range(rest) PROVE y \in Range(seg)
    BY Zenon
  <2>1. PICK k \in 1 .. Len(rest) : y = rest[k]
    BY DEF Range
  <2>2. y = seg[k + 1] /\ k + 1 \in DOMAIN seg
    BY <1>7, <2>1, Zenon
  <2> QED
    BY <2>2, Zenon DEF Range
<1> DEFINE first == Phrase(t)
           ps == PhrasesOf(rest)
           all == PhrasesOf(seg)
<1>10. first \in Piece /\ first.bytes = Spelling[t]
  BY PieceShape, Zenon
<1>11. ps \in Seq(Piece) /\ all \in Seq(Piece) /\ Len(all) = Len(seg) /\ Len(ps) = Len(rest)
  BY <1>4, SpanTokens, Zenon
<1>12. all[1] = first
  BY <1>1, <1>6, Zenon DEF PhrasesOf
<1>13. \A k \in 1 .. Len(rest) : all[k + 1] = ps[k]
  BY <1>5, <1>7 DEF PhrasesOf
<1> HIDE DEF first, ps, all
<1>14. all = <<first>> \o ps
  <2> DEFINE head == <<first>>
  <2>1. head \in Seq(Piece) /\ Len(head) = 1 /\ head[1] = first
    BY <1>10
  <2> HIDE DEF head
  <2> DEFINE both == head \o ps
  <2>2. /\ both \in Seq(Piece) /\ Len(both) = Len(head) + Len(ps)
        /\ \A k \in 1 .. Len(head) + Len(ps) :
             both[k] = IF k <= Len(head) THEN head[k] ELSE ps[k - Len(head)]
    <3>1. head \in Seq(Piece)
      BY <2>1, Zenon
    <3>2. ps \in Seq(Piece)
      BY <1>11, Zenon
    <3> QED
      BY <3>1, <3>2
  <2> HIDE DEF both
  <2>3. /\ both \in Seq(Piece) /\ Len(both) = 1 + Len(ps)
        /\ \A k \in 1 .. 1 + Len(ps) : both[k] = IF k <= 1 THEN head[k] ELSE ps[k - 1]
    BY <2>1, <2>2, Zenon
  <2>4. \A k \in 1 .. 1 + Len(ps) : all[k] = both[k]
    <3> TAKE k \in 1 .. 1 + Len(ps)
    <3>1. CASE k = 1
      BY <1>12, <2>1, <2>3, <3>1
    <3>2. CASE k # 1
      <4>1. k - 1 \in 1 .. Len(rest) /\ (k - 1) + 1 = k /\ ~(k <= 1)
        BY <1>5, <1>11, <3>2
      <4>2. all[k] = ps[k - 1]
        BY <1>13, <4>1, Zenon
      <4> QED
        BY <2>3, <4>1, <4>2, Zenon
    <3> QED
      BY <3>1, <3>2, Zenon
  <2>5. all = both
    BY <1>4, <1>11, <2>3, <2>4
  <2> QED
    BY <2>5, Zenon DEF both, head
<1>15. BytesOf(<<first>>) = Spelling[t] /\ <<first>> \in Seq(Piece)
  <2>1. BytesOf(<<first>>) = first.bytes
    BY <1>10, FewPieces, Zenon
  <2>2. <<first>> \in Seq(Piece)
    BY <1>10
  <2> QED
    BY <1>10, <2>1, <2>2, Zenon
<1>16. BytesOf(<<first>> \o ps) = BytesOf(<<first>>) \o BytesOf(ps)
  BY <1>11, <1>15, PiecesConcat, Zenon
<1>17. BytesOf(all) = Join(Spelling[t], BytesOf(ps))
  BY <1>14, <1>15, <1>16, Zenon DEF Join
<1> QED
  BY <1>4, <1>6, <1>8, <1>9, <1>17, Zenon DEF x, all, ps, seg

\* The segmentation `seg` covers the letters from i to the bound exactly.
Covers(text, i, bound, seg) ==
  /\ seg \in Seq(Span)
  /\ i < bound => seg # <<>>
  /\ BytesOf(PhrasesOf(seg)) = Slice(text, i, bound)

\* It carries the forcing at s, or covers the one letter of it with a phrase
\* that starts before.
SteppedOver(s, seg) ==
  \E x \in Range(seg) : x.start < s /\ s + 1 <= x.start + Len(Spelling[x.token])
Carries(st, s, seg) ==
  \/ [start |-> s, token |-> st.cells[s].token] \in Range(seg)
  \/ st.cells[s].at = s + 1 /\ SteppedOver(s, seg)

\* It carries, or covers, the forcings from i on.
Honours(st, i, bound, seg) ==
  \A s \in 0 .. st.len - 1 :
    /\ st.cells[s].kind = "OneStep" /\ i <= s /\ st.cells[s].at <= bound
    => Carries(st, s, seg)

\* Every segmentation that starts at i before the bound is a step at i and a
\* segmentation of what follows.
Begins(text, st, from, bound) ==
  \A i \in from .. bound - 1 : \A seg \in Walk(text, st, from, bound)[i] :
    \E f \in Steps(text, st, i, bound) :
      \E rest \in Walk(text, st, from, bound)[f[2]] : seg = RowFrom(i, f[1], rest)

\* A segmentation of a position before the end begins with a step.
LEMMA WalkBegins ==
  ASSUME NEW text \in Seq(Letters), NEW n \in Nat, NEW st \in Stores(n), Sound(st),
         NEW bound \in Nat, NEW from \in 0 .. bound
  PROVE  Begins(text, st, from, bound)
<1> DEFINE walk == Walk(text, st, from, bound)
<1> SUFFICES ASSUME NEW i \in from .. bound - 1, NEW seg \in walk[i]
             PROVE  \E f \in Steps(text, st, i, bound) :
                      \E rest \in walk[f[2]] : seg = RowFrom(i, f[1], rest)
  BY Zenon DEF Begins
<1>1. walk = [j \in from .. bound |-> WalkFrom(text, st, j, bound, walk)]
  BY WalkUnfolds
<1> HIDE DEF walk
<1>2. i \in from .. bound /\ i # bound
  OBVIOUS
<1>3. walk[i] = WalkFrom(text, st, i, bound, walk)
  BY <1>1, <1>2, Zenon
<1>4. walk[i] = UNION {Prefixed(i, f, walk[f[2]]) : f \in Steps(text, st, i, bound)}
  BY <1>2, <1>3, Zenon DEF WalkFrom
<1>5. PICK f \in Steps(text, st, i, bound) : seg \in Prefixed(i, f, walk[f[2]])
  BY <1>4, Zenon DEF walk
<1>6. PICK rest \in walk[f[2]] : seg = RowFrom(i, f[1], rest)
  BY <1>5, Zenon DEF Prefixed
<1> QED
  BY <1>5, <1>6, Zenon DEF walk

\* At the end of the walk there is nothing to place.
LEMMA WalkEnds ==
  ASSUME NEW text \in Seq(Letters), NEW n \in Nat, NEW st \in Stores(n), Sound(st),
         NEW bound \in Nat, NEW from \in 0 .. bound
  PROVE  Walk(text, st, from, bound)[bound] = {<<>>}
<1> DEFINE walk == Walk(text, st, from, bound)
<1>1. walk = [j \in from .. bound |-> WalkFrom(text, st, j, bound, walk)]
  BY WalkUnfolds
<1> HIDE DEF walk
<1>2. bound \in from .. bound
  OBVIOUS
<1>3. walk[bound] = WalkFrom(text, st, bound, bound, walk)
  BY <1>1, <1>2, Zenon
<1> QED
  BY <1>3, Zenon DEF WalkFrom, walk

\* Every segmentation spells the letters it covers.
LEMMA WalkCovers ==
  ASSUME NEW text \in Seq(Letters), NEW n \in Nat, NEW st \in Stores(n), Sound(st),
         NEW bound \in 0 .. Len(text), NEW from \in 0 .. bound
  PROVE  \A seg \in Segmentations(text, st, from, bound) : Covers(text, from, bound, seg)
<1> DEFINE walk == Walk(text, st, from, bound)
           Q == {i \in from .. bound : \A seg \in walk[i] : Covers(text, i, bound, seg)}
<1>1. bound \in Nat /\ from \in Nat /\ from \in from .. bound /\ bound \in from .. bound
      /\ bound <= Len(text)
  OBVIOUS
<1>b. \A i \in from .. bound - 1 : \A seg \in walk[i] :
        \E f \in Steps(text, st, i, bound) :
          \E rest \in walk[f[2]] : seg = RowFrom(i, f[1], rest)
  <2>1. Begins(text, st, from, bound)
    BY <1>1, WalkBegins, Zenon
  <2> QED
    BY <2>1, Zenon DEF Begins
<1>2. bound \in Q
  <2>1. walk[bound] = {<<>>}
    BY <1>1, WalkEnds, Zenon
  <2>2. Slice(text, bound, bound) = <<>>
    BY DEF Slice
  <2>3. PhrasesOf(<<>>) = <<>>
    BY DEF PhrasesOf
  <2>4. BytesOf(PhrasesOf(<<>>)) = <<>>
    BY <2>3, FewPieces, Zenon
  <2>5. <<>> \in Seq(Span)
    OBVIOUS
  <2>6. Covers(text, bound, bound, <<>>)
    BY <1>1, <2>2, <2>4, <2>5 DEF Covers
  <2> QED
    BY <1>1, <2>1, <2>6, Zenon
<1>3. ASSUME NEW i \in from .. bound - 1, \A j \in i + 1 .. bound : j \in Q
      PROVE  i \in Q
  <2>1. ASSUME NEW seg \in walk[i]
        PROVE  Covers(text, i, bound, seg)
    <3>1. PICK f \in Steps(text, st, i, bound) : \E rest \in walk[f[2]] :
             seg = RowFrom(i, f[1], rest)
      BY <1>b, <2>1, Zenon
    <3>2. PICK rest \in walk[f[2]] : seg = RowFrom(i, f[1], rest)
      BY <3>1, Zenon
    <3>3. /\ i \in Nat /\ f[1] \in Token /\ f[2] \in i + 1 .. bound
          /\ Slice(text, i, f[2]) = Spelling[f[1]]
      <4>1. i \in Nat
        BY <1>1
      <4> QED
        BY <1>1, <4>1, StepsShape, SMTT(30)
    <3>4. Covers(text, f[2], bound, rest)
      BY <1>3, <3>2, <3>3, Zenon
    <3>5. rest \in Seq(Span) /\ BytesOf(PhrasesOf(rest)) = Slice(text, f[2], bound)
      BY <3>4, Zenon DEF Covers
    <3> DEFINE t == f[1]
               e == f[2]
    <3>6. t \in Token /\ e \in Nat /\ i <= e /\ e <= bound
      BY <1>1, <3>3
    <3> HIDE DEF t, e, walk
    <3>7. /\ seg \in Seq(Span) /\ seg # <<>>
          /\ BytesOf(PhrasesOf(seg)) = Join(Spelling[t], BytesOf(PhrasesOf(rest)))
      <4>1. seg = RowFrom(i, t, rest)
        BY <3>2, Zenon DEF t
      <4>2. i \in Nat /\ t \in Token /\ rest \in Seq(Span)
        BY <3>3, <3>5, <3>6, Zenon
      <4> QED
        BY <4>1, <4>2, RowBegins, Zenon
    <3>8. Slice(text, i, e) \o Slice(text, e, bound) = Slice(text, i, bound)
      <4>1. /\ text \in Seq(Letters) /\ i \in Nat /\ bound \in Nat
            /\ i <= e /\ e <= bound /\ bound <= Len(text)
        BY <1>1, <3>3, <3>6, Zenon
      <4> QED
        BY <3>6, <4>1, SliceJoin, Zenon
    <3>9. BytesOf(PhrasesOf(seg)) = Slice(text, i, bound)
      BY <3>3, <3>5, <3>7, <3>8, Zenon DEF t, e, Join
    <3> QED
      BY <3>7, <3>9, Zenon DEF Covers
  <2> QED
    BY <2>1
<1>4. \A i \in from .. bound : i \in Q
  <2> HIDE DEF Q
  <2> QED
    BY <1>1, <1>2, <1>3, DownwardInduction, Zenon
<1> QED
  BY <1>1, <1>4, Zenon DEF Segmentations

\* The walk cannot step over a forcing of two letters or more: every
\* segmentation carries it.  One of one letter is carried or stepped over.
LEMMA WalkHonours ==
  ASSUME NEW text \in Seq(Letters), NEW n \in Nat, NEW st \in Stores(n), RunsWhole(st),
         NEW bound \in 0 .. Len(text), NEW from \in 0 .. bound
  PROVE  \A seg \in Segmentations(text, st, from, bound) : Honours(st, from, bound, seg)
<1> DEFINE walk == Walk(text, st, from, bound)
           Q == {i \in from .. bound :
                   \A seg \in walk[i] : seg \in Seq(Span) /\ Honours(st, i, bound, seg)}
<1>1. bound \in Nat /\ from \in Nat /\ from \in from .. bound /\ bound \in from .. bound
  OBVIOUS
<1>s. Sound(st)
  BY WholeIsSound, Zenon
<1>c. st.len = n /\ \A c \in 0 .. n - 1 : st.cells[c] \in Cell /\ st.cells[c].at \in Nat
  BY StoreShape, Zenon DEF Cell
<1>b. \A i \in from .. bound - 1 : \A seg \in walk[i] :
        \E f \in Steps(text, st, i, bound) :
          \E rest \in walk[f[2]] : seg = RowFrom(i, f[1], rest)
  <2>1. Begins(text, st, from, bound)
    BY <1>1, <1>s, WalkBegins, Zenon
  <2> QED
    BY <2>1, Zenon DEF Begins
<1>2. bound \in Q
  <2>1. walk[bound] = {<<>>}
    BY <1>1, <1>s, WalkEnds, Zenon
  <2>2. ASSUME NEW s \in 0 .. n - 1, st.cells[s].kind = "OneStep", bound <= s,
               st.cells[s].at <= bound
        PROVE  FALSE
    <3>1. s < st.cells[s].at
      BY <1>s, <1>c, <2>2, Zenon DEF Sound
    <3> QED
      BY <1>1, <1>c, <2>2, <3>1
  <2>4. \A seg : Honours(st, bound, bound, seg)
    BY <1>c, <2>2, Zenon DEF Honours
  <2>3. <<>> \in Seq(Span)
    OBVIOUS
  <2> QED
    BY <1>1, <2>1, <2>4, <2>3, Zenon
<1>3. ASSUME NEW i \in from .. bound - 1, \A j \in i + 1 .. bound : j \in Q
      PROVE  i \in Q
  <2>1. ASSUME NEW seg \in walk[i]
        PROVE  seg \in Seq(Span) /\ Honours(st, i, bound, seg)
    <3>1. PICK f \in Steps(text, st, i, bound) : \E rest \in walk[f[2]] :
             seg = RowFrom(i, f[1], rest)
      BY <1>b, <2>1, Zenon
    <3>2. PICK rest \in walk[f[2]] : seg = RowFrom(i, f[1], rest)
      BY <3>1, Zenon
    <3>i. i \in Nat
      BY <1>1
    <3>3. /\ f[1] \in Token /\ f[2] \in i + 1 .. bound
          /\ Slice(text, i, f[2]) = Spelling[f[1]]
          /\ CellKind(st, i) # "NoSearch"
          /\ CellKind(st, i) = "OneStep" => f[1] = st.cells[i].token /\ f[2] = st.cells[i].at
          /\ CellKind(st, i) # "OneStep" =>
               \A c \in i + 1 .. f[2] : CellKind(st, c) # "NoSearch"
      BY <1>1, <1>s, <3>i, StepsShape, SMTT(30)
    <3>4. rest \in Seq(Span) /\ Honours(st, f[2], bound, rest)
      BY <1>3, <3>2, <3>3, Zenon
    <3> DEFINE t == f[1]
               e == f[2]
    <3> HIDE DEF t, e, walk
    <3>5. /\ seg \in Seq(Span) /\ [start |-> i, token |-> t] \in Range(seg)
          /\ Range(rest) \subseteq Range(seg)
      <4>1. seg = RowFrom(i, t, rest) /\ t \in Token
        BY <3>2, <3>3, Zenon DEF t
      <4> QED
        BY <3>i, <3>4, <4>1, RowBegins, Zenon
    <3>7. e \in Nat /\ i < e /\ e = i + Len(Spelling[t])
      <4>1. e \in i + 1 .. bound /\ Slice(text, i, e) = Spelling[t]
        BY <3>3, Zenon DEF e, t
      <4>2. Len(Slice(text, i, e)) = e - i
        BY <1>1, <3>i, <4>1 DEF Slice
      <4> DEFINE w == Spelling[t]
      <4>3. Len(w) = e - i
        BY <4>1, <4>2, Zenon DEF w
      <4> HIDE DEF w
      <4>4. e \in Nat /\ i < e /\ e = i + Len(w)
        BY <1>1, <3>i, <4>1, <4>3
      <4> QED
        BY <4>4, Zenon DEF w
    <3>6. ASSUME NEW s \in 0 .. n - 1, st.cells[s].kind = "OneStep", i <= s,
                 st.cells[s].at <= bound
          PROVE  Carries(st, s, seg)
      <4>0. s \in Nat /\ s < st.cells[s].at /\ st.cells[s].at \in Nat
        <5>1. s < st.cells[s].at
          BY <1>s, <1>c, <3>6, Zenon DEF Sound
        <5> QED
          BY <1>c, <3>6, <5>1
      <4>1. CASE s = i
        <5>1. CellKind(st, i) = "OneStep"
          BY <1>c, <3>6, <4>1, SMTT(30) DEF CellKind
        <5> QED
          BY <3>3, <3>5, <4>1, <5>1, Zenon DEF t, Carries
      <4>2. CASE e <= s
        <5>1. Carries(st, s, rest)
          BY <1>c, <3>4, <3>6, <4>2, Zenon DEF Honours, e
        <5> QED
          BY <3>5, <5>1, Zenon DEF Carries, SteppedOver
      <4>3. CASE i < s /\ s < e
        <5>1. CASE CellKind(st, i) = "OneStep"
          <6>1. st.cells[i].kind = "OneStep" /\ i \in 0 .. n - 1 /\ s < st.cells[i].at
            BY <1>c, <3>i, <3>3, <4>3, <5>1, SMTT(30) DEF CellKind, e
          <6>2. s \in i + 1 .. st.cells[i].at - 1
            BY <1>c, <3>i, <4>3, <6>1
          <6>3. st.cells[s].kind = "NoSearch"
            BY <1>c, <6>1, <6>2, Zenon DEF RunsWhole
          <6> QED
            BY <3>6, <6>3, Zenon
        <5>2. CASE CellKind(st, i) # "OneStep" /\ s + 1 < st.cells[s].at
          <6>0. st.cells[s].at <= n /\ st.cells[s + 1].kind = "NoSearch" /\ s + 1 \in 0 .. n - 1
            BY <1>c, <3>6, <5>2, SMTT(30) DEF RunsWhole
          <6>1. CellKind(st, s + 1) = "NoSearch"
            BY <1>c, <6>0 DEF CellKind
          <6>2. s + 1 \in i + 1 .. f[2]
            BY <3>i, <3>3, <4>3, SMTT(30) DEF e
          <6> QED
            BY <3>3, <5>2, <6>1, <6>2, Zenon
        <5>3. CASE st.cells[s].at = s + 1
          <6> DEFINE x == [start |-> i, token |-> t]
          <6>1. x \in Range(seg) /\ x.start = i /\ x.token = t
            BY <3>5, Zenon
          <6> HIDE DEF x
          <6>2. s + 1 <= e
            BY <3>7, <4>0, <4>3
          <6>3. s + 1 <= i + Len(Spelling[t])
            BY <3>7, <6>2, Zenon
          <6>4. SteppedOver(s, seg)
            BY <4>3, <6>1, <6>3, Zenon DEF SteppedOver
          <6> QED
            BY <5>3, <6>4, Zenon DEF Carries
        <5>4. st.cells[s].at = s + 1 \/ s + 1 < st.cells[s].at
          BY <4>0
        <5> QED
          BY <5>1, <5>2, <5>3, <5>4, Zenon
      <4> QED
        BY <3>i, <3>7, <3>6, <4>0, <4>1, <4>2, <4>3
    <3> QED
      BY <1>c, <3>5, <3>6, Zenon DEF Honours
  <2> QED
    BY <2>1, SMTT(30)
<1>4. \A i \in from .. bound : i \in Q
  <2> HIDE DEF Q
  <2> QED
    BY <1>1, <1>2, <1>3, DownwardInduction, Zenon
<1> QED
  BY <1>1, <1>4, Zenon DEF Segmentations

\* The elements of such a row.
LEMMA RowElements ==
  \A i \in Nat : \A t \in Token : \A rest \in Seq(Span) :
    /\ Len(RowFrom(i, t, rest)) = Len(rest) + 1
    /\ RowFrom(i, t, rest)[1] = [start |-> i, token |-> t]
    /\ \A k \in 1 .. Len(rest) : RowFrom(i, t, rest)[k + 1] = rest[k]
<1> TAKE i \in Nat
<1> TAKE t \in Token
<1> TAKE rest \in Seq(Span)
<1> DEFINE x == [start |-> i, token |-> t]
           one == <<x>>
<1>1. x \in Span
  BY Zenon DEF Span
<1> HIDE DEF x
<1>2. one \in Seq(Span) /\ Len(one) = 1 /\ one[1] = x
  BY <1>1
<1> HIDE DEF one
<1>3. Len(rest) \in Nat
  OBVIOUS
<1>4. /\ Len(one \o rest) = Len(one) + Len(rest)
      /\ \A k \in 1 .. Len(one) + Len(rest) :
           (one \o rest)[k] = IF k <= Len(one) THEN one[k] ELSE rest[k - Len(one)]
  BY <1>2, ConcatShape, Zenon
<1> DEFINE all == one \o rest
<1> HIDE DEF all
<1>5. Len(all) = 1 + Len(rest) /\ \A k \in 1 .. 1 + Len(rest) :
        all[k] = IF k <= 1 THEN one[k] ELSE rest[k - 1]
  BY <1>2, <1>4, Zenon DEF all
<1>6. Len(all) = Len(rest) + 1
  BY <1>3, <1>5
<1>7. all[1] = x
  BY <1>2, <1>3, <1>5
<1>8. ASSUME NEW k \in 1 .. Len(rest) PROVE all[k + 1] = rest[k]
  <2>1. k + 1 \in 1 .. 1 + Len(rest) /\ ~(k + 1 <= 1) /\ (k + 1) - 1 = k
    BY <1>3
  <2> QED
    BY <1>5, <2>1, Zenon
<1>9. RowFrom(i, t, rest) = all
  BY Zenon DEF RowFrom, all, one, x
<1> QED
  BY <1>6, <1>7, <1>8, <1>9, Zenon DEF x

\* Each phrase of the segmentation `seg` spells the letters up to the next one,
\* the last one those up to the bound; the first one starts at i.
Split(text, i, bound, seg) ==
  /\ seg \in Seq(Span)
  /\ i < bound => seg # <<>> /\ seg[1].start = i
  /\ i = bound => seg = <<>>
  /\ \A k \in 1 .. Len(seg) :
       /\ PhraseRun(seg, bound, k).end <= bound
       /\ Slice(text, seg[k].start, PhraseRun(seg, bound, k).end) = Spelling[seg[k].token]

\* Every segmentation is split so.
LEMMA WalkSplits ==
  ASSUME NEW text \in Seq(Letters), NEW n \in Nat, NEW st \in Stores(n), Sound(st),
         NEW bound \in 0 .. Len(text), NEW from \in 0 .. bound
  PROVE  \A seg \in Segmentations(text, st, from, bound) : Split(text, from, bound, seg)
<1> DEFINE walk == Walk(text, st, from, bound)
           Q == {i \in from .. bound : \A seg \in walk[i] : Split(text, i, bound, seg)}
<1>1. bound \in Nat /\ from \in Nat /\ from \in from .. bound /\ bound \in from .. bound
      /\ bound <= Len(text)
  OBVIOUS
<1>b. \A i \in from .. bound - 1 : \A seg \in walk[i] :
        \E f \in Steps(text, st, i, bound) :
          \E rest \in walk[f[2]] : seg = RowFrom(i, f[1], rest)
  <2>1. Begins(text, st, from, bound)
    BY <1>1, WalkBegins, Zenon
  <2> QED
    BY <2>1, Zenon DEF Begins
<1>2. bound \in Q
  <2>1. walk[bound] = {<<>>}
    BY <1>1, WalkEnds, Zenon
  <2>2. <<>> \in Seq(Span) /\ Len(<<>>) = 0
    OBVIOUS
  <2>3. Split(text, bound, bound, <<>>)
    BY <1>1, <2>2 DEF Split
  <2> QED
    BY <1>1, <2>1, <2>3, Zenon
<1>3. ASSUME NEW i \in from .. bound - 1, \A j \in i + 1 .. bound : j \in Q
      PROVE  i \in Q
  <2>1. ASSUME NEW seg \in walk[i]
        PROVE  Split(text, i, bound, seg)
    <3>1. PICK f \in Steps(text, st, i, bound) : \E rest \in walk[f[2]] :
             seg = RowFrom(i, f[1], rest)
      BY <1>b, <2>1, Zenon
    <3>2. PICK rest \in walk[f[2]] : seg = RowFrom(i, f[1], rest)
      BY <3>1, Zenon
    <3>i. i \in Nat
      BY <1>1
    <3>3. /\ f[1] \in Token /\ f[2] \in i + 1 .. bound
          /\ Slice(text, i, f[2]) = Spelling[f[1]]
      BY <1>1, <3>i, StepsShape, SMTT(30)
    <3> DEFINE t == f[1]
               e == f[2]
    <3>4. Split(text, e, bound, rest)
      BY <1>3, <3>2, <3>3, Zenon
    <3>5. /\ t \in Token /\ e \in Nat /\ i < e /\ e <= bound
          /\ Slice(text, i, e) = Spelling[t]
      BY <1>1, <3>i, <3>3, SMTT(30)
    <3>6. seg = RowFrom(i, t, rest)
      BY <3>2, Zenon
    <3> HIDE DEF t, e, walk
    <3>7. /\ rest \in Seq(Span) /\ Len(rest) \in Nat
          /\ e < bound => rest # <<>> /\ rest[1].start = e
          /\ e = bound => rest = <<>>
          /\ \A k \in 1 .. Len(rest) :
               /\ PhraseRun(rest, bound, k).end <= bound
               /\ Slice(text, rest[k].start, PhraseRun(rest, bound, k).end)
                    = Spelling[rest[k].token]
      BY <3>4, SMTT(30) DEF Split
    <3>8. seg \in Seq(Span) /\ seg # <<>>
      BY <3>i, <3>5, <3>6, <3>7, RowBegins, Zenon
    <3>9. /\ Len(seg) = Len(rest) + 1 /\ seg[1] = [start |-> i, token |-> t]
          /\ \A k \in 1 .. Len(rest) : seg[k + 1] = rest[k]
      <4>1. rest \in Seq(Span) /\ t \in Token
        BY <3>5, <3>7, Zenon
      <4>2. /\ Len(RowFrom(i, t, rest)) = Len(rest) + 1
            /\ RowFrom(i, t, rest)[1] = [start |-> i, token |-> t]
            /\ \A k \in 1 .. Len(rest) : RowFrom(i, t, rest)[k + 1] = rest[k]
        BY <3>i, <4>1, RowElements, ZenonT(40)
      <4> QED
        BY <3>6, <4>2, Zenon
    <3>10. PhraseRun(seg, bound, 1).end = e
      <4>1. CASE e = bound
        <5>1. Len(rest) = 0
          BY <3>7, <4>1, SMTT(30)
        <5> QED
          BY <3>9, <4>1, <5>1, SMTT(30) DEF PhraseRun
      <4>2. CASE e < bound
        <5>1. Len(rest) > 0 /\ rest[1].start = e
          BY <3>7, <4>2, SMTT(30)
        <5>2. 1 < Len(seg) /\ seg[1 + 1] = rest[1]
          BY <3>7, <3>9, <5>1, SMTT(30)
        <5> QED
          BY <5>1, <5>2, Zenon DEF PhraseRun
      <4> QED
        BY <1>1, <3>5, <4>1, <4>2, SMTT(30)
    <3>11. ASSUME NEW k \in 1 .. Len(rest)
           PROVE  /\ seg[k + 1] = rest[k]
                  /\ PhraseRun(seg, bound, k + 1).end = PhraseRun(rest, bound, k).end
      <4>1. CASE k < Len(rest)
        <5>1. k + 1 \in 1 .. Len(rest) /\ k + 1 < Len(seg)
          BY <3>7, <3>9, <4>1, SMTT(30)
        <5>2. seg[k + 1 + 1] = rest[k + 1]
          BY <3>9, <5>1, Zenon
        <5> QED
          BY <3>9, <4>1, <5>1, <5>2, Zenon DEF PhraseRun
      <4>2. CASE ~(k < Len(rest))
        <5>1. ~(k + 1 < Len(seg))
          BY <3>7, <3>9, <4>2, SMTT(30)
        <5> QED
          BY <3>9, <4>2, <5>1, Zenon DEF PhraseRun
      <4> QED
        BY <4>1, <4>2, Zenon
    <3>12. ASSUME NEW k \in 1 .. Len(seg)
           PROVE  /\ PhraseRun(seg, bound, k).end <= bound
                  /\ Slice(text, seg[k].start, PhraseRun(seg, bound, k).end)
                       = Spelling[seg[k].token]
      <4>1. CASE k = 1
        BY <3>5, <3>9, <3>10, <4>1, SMTT(30)
      <4>2. CASE k # 1
        <5> DEFINE j == k - 1
        <5>1. j \in 1 .. Len(rest) /\ j + 1 = k
          BY <3>7, <3>9, <4>2, SMTT(30)
        <5> HIDE DEF j
        <5>2. /\ seg[k] = rest[j]
              /\ PhraseRun(seg, bound, k).end = PhraseRun(rest, bound, j).end
          BY <3>11, <5>1, Zenon
        <5> QED
          BY <3>7, <5>1, <5>2, Zenon
      <4> QED
        BY <4>1, <4>2, Zenon
    <3> QED
      BY <1>1, <3>8, <3>9, <3>12, SMTT(30) DEF Split
  <2> QED
    BY <2>1
<1>4. \A i \in from .. bound : i \in Q
  <2> HIDE DEF Q
  <2> QED
    BY <1>1, <1>2, <1>3, DownwardInduction, Zenon
<1> QED
  BY <1>1, <1>4, Zenon DEF Segmentations

--------------------------------------------------------------------------------
\* The state of a session: every component has its type, the composition offset
\* is within the input, the forcings go forward, and each sentence row is the
\* prefix it was decoded behind and its phrases.
SentRow == [spans : Seq(Span), text : Seq(Piece), span : Nat]
Sentence == [rows : Seq(SentRow), history : Seq(Token), prefix : Seq(Piece)]
Cand == [token : Token \union {NoToken}, piece : Piece, advance : Nat]
CandList == [anchor : Nat, scanned : SUBSET Cand, rows : Seq(SentRow),
             state : {"built", "empty", "stale"}]
Phases == {"changed", "guessed", "keyless", "failed"}

GoodStore(st) == st.len \in Nat /\ st \in Stores(st.len) /\ Sound(st)
GoodRecord(r, text) == r \in Record /\ r.consumed <= Len(text)

Shape ==
  /\ raw \in Seq(Letters)
  /\ GoodRecord(rec, raw)
  /\ GoodStore(store)
  /\ sent \in Sentence
  /\ list \in CandList
  /\ phase \in Phases

\* The list is the one of a guess that stands, and empty after a choose that
\* failed.
Listed ==
  /\ phase = "guessed" => list.state = "stale" \/ list = BuiltList(raw, rec, sent)
  /\ phase = "failed" => list = NoList

--------------------------------------------------------------------------------
\* A sound array is a good store, and the empty one is.
LEMMA GoodStores ==
  /\ \A n \in Nat : \A st \in Stores(n) : Sound(st) => GoodStore(st)
  /\ GoodStore(EmptyStore) /\ EmptyStore \in Stores(0) /\ RunsWhole(EmptyStore)
<1>1. \A n \in Nat : \A st \in Stores(n) : Sound(st) => GoodStore(st)
  BY StoreShape, Zenon DEF GoodStore
<1>2. EmptyStore \in Stores(0)
  BY CellShape DEF EmptyStore, Stores
<1>3. RunsWhole(EmptyStore) /\ Sound(EmptyStore)
  BY SMTT(30) DEF EmptyStore, RunsWhole, Sound
<1> QED
  BY <1>1, <1>2, <1>3, Zenon

\* What validate makes of a good store is good.
LEMMA ValidatedGood ==
  ASSUME NEW st, GoodStore(st), NEW text \in Seq(Letters)
  PROVE  /\ Validated(st, text) \in Stores(Bound(text) + 1)
         /\ GoodStore(Validated(st, text))
<1>1. Bound(text) + 1 \in Nat
  BY BoundShape
<1>2. Validated(st, text) = Revalidated(st, Bound(text) + 1, DroppedOver(st, text))
  BY Zenon DEF Validated, validate, DroppedOver
<1>3. /\ Validated(st, text) \in Stores(Bound(text) + 1)
      /\ Sound(Validated(st, text))
  BY <1>1, <1>2, RevalidatedSound, Zenon DEF GoodStore
<1> QED
  BY <1>1, <1>3, GoodStores, Zenon

\* A record rebuilt over an input is good for it, and shows its tokens.
LEMMA RebuildGood ==
  ASSUME NEW text \in Seq(Letters), NEW st, GoodStore(st)
  PROVE  /\ GoodRecord(rebuild_from_constraints(text, st), text)
         /\ TokensOf(rebuild_from_constraints(text, st).parts)
              = rebuild_from_constraints(text, st).history
BY RebuildShape, Zenon DEF GoodStore, GoodRecord

\* The candidates of a window are rows of a list.
LEMMA WindowShape ==
  ASSUME NEW text \in Seq(Letters), NEW anchor \in Nat
  PROVE  scan_window(text, anchor) \subseteq Cand
<1> SUFFICES ASSUME NEW c \in scan_window(text, anchor) PROVE c \in Cand
  BY Zenon
<1>1. CASE PhrasesAt(text, anchor) # {}
  <2>1. PICK t \in Token : c = [token |-> t, piece |-> Phrase(t), advance |-> Len(Spelling[t])]
    BY <1>1, Zenon DEF scan_window, PhrasesAt
  <2>2. Phrase(t) \in Piece /\ Spelling[t] \in Seq(Letters)
    BY PieceShape, Zenon
  <2>3. Len(Spelling[t]) \in Nat
    BY <2>2
  <2> QED
    BY <2>1, <2>2, <2>3, Zenon DEF Cand
<1>2. CASE PhrasesAt(text, anchor) = {}
  <2> DEFINE rest == Slice(text, anchor, Len(text))
  <2>1. c = [token |-> NoToken, piece |-> Raw(rest), advance |-> Len(rest)]
    BY <1>2, Zenon DEF scan_window
  <2>2. rest \in Seq(Letters)
    BY SliceShape
  <2> HIDE DEF rest
  <2>3. Raw(rest) \in Piece /\ Len(rest) \in Nat
    BY <2>2, PieceShape
  <2> QED
    BY <2>1, <2>3, Zenon DEF Cand
<1> QED
  BY <1>1, <1>2, Zenon

\* A built list, an empty and a stale one are lists.
LEMMA ListShape ==
  /\ NoList \in CandList /\ [NoList EXCEPT !.state = "stale"] \in CandList
  /\ \A text \in Seq(Letters) : \A r \in Record : \A s \in Sentence :
       BuiltList(text, r, s) \in CandList
<1>1. NoList \in CandList /\ [NoList EXCEPT !.state = "stale"] \in CandList
  <2>1. <<>> \in Seq(SentRow) /\ {} \in SUBSET Cand /\ 0 \in Nat
    OBVIOUS
  <2>2. NoList \in CandList
    BY <2>1, Zenon DEF NoList, CandList
  <2>3. \A l \in CandList : [l EXCEPT !.state = "stale"] \in CandList
    BY Zenon DEF CandList
  <2> QED
    BY <2>2, <2>3, Zenon
<1>2. ASSUME NEW text \in Seq(Letters), NEW r \in Record, NEW s \in Sentence
      PROVE  BuiltList(text, r, s) \in CandList
  <2>1. r.consumed \in Nat /\ s.rows \in Seq(SentRow)
    BY Zenon DEF Record, Sentence
  <2>2. scan_window(text, r.consumed) \subseteq Cand
    BY <2>1, WindowShape, Zenon
  <2> QED
    BY <2>1, <2>2, Zenon DEF BuiltList, CandList
<1> QED
  BY <1>1, <1>2, Zenon

\* The list a select reads is a list.
LEMMA ShownShape ==
  ASSUME Shape
  PROVE  refresh_candidates \in CandList
BY ListShape, Zenon DEF Shape, GoodRecord, refresh_candidates

\* The rows of a guess carry its prefix and the segmentations they were made from.
RowsOver(rows, prefix, segs, span) ==
  /\ rows \in Seq(SentRow)
  /\ \A k \in DOMAIN rows :
       /\ rows[k].spans \in segs /\ rows[k].span = span
       /\ rows[k].text = Join(prefix, PhrasesOf(rows[k].spans))

\* The lists a guess may make have such rows.
LEMMA RowListShape ==
  ASSUME NEW prefix \in Seq(Piece), NEW segs, \A seg \in segs : seg \in Seq(Span),
         NEW span \in Nat, NEW rows \in RowLists(prefix, segs, span)
  PROVE  RowsOver(rows, prefix, segs, span)
<1>1. PICK l \in UNION {[1 .. n -> segs] : n \in 0 .. MaxRows} :
        rows = [k \in DOMAIN l |-> Row(prefix, l[k], span)]
  BY Zenon DEF RowLists
<1>2. PICK n \in 0 .. MaxRows : l \in [1 .. n -> segs]
  BY <1>1, Zenon
<1>3. n \in Nat
  BY <1>2, MaxRowsAssumption
<1>4. ASSUME NEW k \in 1 .. n
      PROVE  /\ rows[k] \in SentRow
             /\ rows[k].spans \in segs /\ rows[k].span = span
             /\ rows[k].text = Join(prefix, PhrasesOf(rows[k].spans))
  <2> DEFINE seg == l[k]
             ps == PhrasesOf(seg)
  <2>1. seg \in segs /\ seg \in Seq(Span)
    BY <1>2, Zenon
  <2>2. rows[k] = Row(prefix, seg, span)
    BY <1>1, <1>2, Zenon
  <2> HIDE DEF seg
  <2>3. ps \in Seq(Piece)
    BY <2>1, SpanTokens, Zenon
  <2>4. rows[k] = [spans |-> seg, text |-> prefix \o ps, span |-> span]
    BY <2>2, Zenon DEF Row, PhrasesOf
  <2> HIDE DEF ps
  <2>5. prefix \o ps \in Seq(Piece)
    BY <2>3
  <2>6. rows[k] \in SentRow
    BY <2>1, <2>4, <2>5, SMTT(30) DEF SentRow
  <2> QED
    BY <2>1, <2>4, <2>6, SMTT(30) DEF ps, Join
<1>5. DOMAIN rows = 1 .. n /\ rows = [k \in 1 .. n |-> rows[k]]
  BY <1>1, <1>2, Zenon
<1>6. rows \in Seq(SentRow)
  <2>1. \A k \in 1 .. n : rows[k] \in SentRow
    BY <1>4, Zenon
  <2>2. rows \in [1 .. n -> SentRow]
    BY <1>5, <2>1, Zenon
  <2> QED
    BY <1>3, <2>2
<1> QED
  BY <1>4, <1>5, <1>6, Zenon DEF RowsOver

--------------------------------------------------------------------------------
\* A sentence without rows has the shape of one.
LEMMA NoSentenceShape == NoSentence \in Sentence
<1>1. <<>> \in Seq(SentRow) /\ <<>> \in Seq(Token) /\ <<>> \in Seq(Piece)
  OBVIOUS
<1> QED
  BY <1>1, Zenon DEF NoSentence, Sentence

\* The first input is empty and nothing is selected.
LEMMA InitShape == Init => Shape
<1> SUFFICES ASSUME Init PROVE Shape
  BY Zenon
<1>1. raw \in Seq(Letters) /\ Len(raw) = 0
  BY DEF Init
<1>2. GoodRecord(rec, raw)
  BY <1>1, NoRecordShape DEF Init, GoodRecord, NoRecord
<1> QED
  BY <1>1, <1>2, GoodStores, NoSentenceShape, ListShape, Zenon DEF Init, Shape, Phases

\* Clamping a record makes it good for any input.
LEMMA ClampGood ==
  ASSUME NEW r \in Record, NEW text \in Seq(Letters)
  PROVE  /\ GoodRecord(clamp_consumed(r, text), text)
         /\ clamp_consumed(r, text).parts = r.parts
         /\ clamp_consumed(r, text).history = r.history
         /\ clamp_consumed(r, text).consumed = Lesser(r.consumed, Len(text))
<1>1. Len(text) \in Nat
  OBVIOUS
<1>2. r.consumed \in Nat
  BY Zenon DEF Record
<1>3. /\ Lesser(r.consumed, Len(text)) \in Nat
      /\ Lesser(r.consumed, Len(text)) <= Len(text)
  BY <1>1, <1>2, LesserShape, Zenon
<1> QED
  BY <1>3, Zenon DEF clamp_consumed, GoodRecord, Record

\* The record ReplaceRaw leaves is good for the new input.
LEMMA RefillGood ==
  ASSUME Shape, NEW text \in Seq(Letters)
  PROVE  GoodRecord(refill_raw(text), text)
<1>1. rec \in Record /\ GoodStore(store)
  BY Zenon DEF Shape, GoodRecord
<1>2. rebuild_from_constraints(text, store) \in Record
  BY <1>1, RebuildGood, Zenon DEF GoodRecord
<1> QED
  BY <1>1, <1>2, ClampGood, Zenon DEF refill_raw

\* So is a record reconciled with it.
LEMMA ReconcileGood ==
  ASSUME Shape, NEW text \in Seq(Letters), NEW r, GoodRecord(r, text)
  PROVE  GoodRecord(reconcile_replaced_selection(text, r), text)
<1>1. GoodStore(Validated(store, text))
  BY ValidatedGood, Zenon DEF Shape
<1>2. GoodRecord(rebuild_from_constraints(text, Validated(store, text)), text)
  BY <1>1, RebuildGood, Zenon
<1>3. GoodRecord(rebuild_from_constraints(text, EmptyStore), text)
  BY GoodStores, RebuildGood, Zenon
<1> QED
  BY <1>2, <1>3, Zenon DEF reconcile_replaced_selection

\* The input replaced.
LEMMA ReplaceShape ==
  ASSUME Shape, NEW text \in Inputs, ReplaceRaw(text)
  PROVE  Shape'
<1>1. text \in Seq(Letters) /\ raw' = text
  BY InputsAssumption, Zenon DEF ReplaceRaw
<1>2. GoodRecord(rec', text)
  BY <1>1, RefillGood, ReconcileGood, Zenon DEF ReplaceRaw
<1>3. list' \in CandList
  <2>1. rec' \in Record /\ sent \in Sentence /\ list \in CandList
    BY <1>2, Zenon DEF Shape, GoodRecord
  <2>2. refresh_after_parse(text, rec', sent) => list' \in CandList
    BY <1>1, <2>1, ListShape, Zenon DEF refresh, refresh_after_parse
  <2> QED
    BY <2>1, <2>2, Zenon DEF ReplaceRaw
<1> QED
  BY <1>1, <1>2, <1>3, Zenon DEF ReplaceRaw, Shape, Phases

\* type_pinyin.
LEMMA TypeShape ==
  ASSUME Shape, NEW letter \in Keys, type_pinyin(letter)
  PROVE  Shape'
<1>1. raw \in Seq(Letters) /\ raw' \in Seq(Letters) /\ raw' = Append(raw, letter)
  BY InputsAssumption, Zenon DEF type_pinyin, Shape
<1>2. Len(raw') = Len(raw) + 1
  <2>1. letter \in Letters
    BY Zenon DEF Letters
  <2> QED
    BY <1>1, <2>1
<1>3. rec' = rec /\ rec \in Record /\ rec.consumed <= Len(raw) /\ rec.consumed \in Nat
  BY Zenon DEF type_pinyin, Shape, GoodRecord, Record
<1>4. Len(raw) \in Nat
  BY <1>1
<1>5. GoodRecord(rec', raw')
  BY <1>2, <1>3, <1>4 DEF GoodRecord
<1>6. list' \in CandList
  BY <1>1, <1>3, ListShape, Zenon DEF type_pinyin, refresh, Shape
<1> QED
  BY <1>1, <1>5, <1>6, Zenon DEF type_pinyin, Shape, Phases

\* erase, whether it removes a letter or un-selects.
LEMMA EraseShape ==
  ASSUME Shape, erase
  PROVE  Shape'
<1>0. raw \in Seq(Letters) /\ Len(raw) \in Nat /\ rec \in Record
      /\ rec.consumed \in Nat /\ rec.consumed <= Len(raw)
  BY SMTT(30) DEF Shape, GoodRecord, Record
<1>1. raw' \in Seq(Letters) /\ GoodRecord(rec', raw') /\ GoodStore(store')
  <2>1. CASE /\ rec.consumed < Len(raw) /\ raw' = Slice(raw, 0, Len(raw) - 1)
             /\ UNCHANGED <<rec, store>>
    <3>1. raw' = SubSeq(raw, 1, Len(raw) - 1)
      BY <2>1 DEF Slice
    <3>2. /\ SubSeq(raw, 1, Len(raw) - 1) \in Seq(Letters)
          /\ Len(SubSeq(raw, 1, Len(raw) - 1)) = Len(raw) - 1
      <4>1. \A i \in 1 .. Len(raw) - 1 : raw[i] \in Letters
        BY <1>0
      <4>2. 1 \in Int /\ Len(raw) - 1 \in Int
        BY <1>0
      <4>3. /\ SubSeq(raw, 1, Len(raw) - 1) \in Seq(Letters)
            /\ Len(SubSeq(raw, 1, Len(raw) - 1)) =
                 IF 1 <= Len(raw) - 1 THEN (Len(raw) - 1) - 1 + 1 ELSE 0
        BY <1>0, <4>1, <4>2
      <4> DEFINE front == SubSeq(raw, 1, Len(raw) - 1)
                 n == Len(raw)
      <4>4. front \in Seq(Letters) /\ Len(front) = IF 1 <= n - 1 THEN (n - 1) - 1 + 1 ELSE 0
        BY <4>3, Zenon
      <4>5. n \in Nat /\ n > 0
        BY <1>0, <2>1
      <4> HIDE DEF front, n
      <4>6. front \in Seq(Letters) /\ Len(front) = n - 1
        BY <4>4, <4>5
      <4> QED
        BY <4>6, Zenon DEF front, n
    <3> QED
      BY <1>0, <2>1, <3>1, <3>2 DEF GoodRecord, Shape
  <2>2. CASE rec' = NoRecord /\ store' = EmptyStore /\ UNCHANGED raw
    BY <1>0, <2>2, NoRecordShape, GoodStores DEF GoodRecord, NoRecord
  <2> QED
    BY <2>1, <2>2, Zenon DEF erase
<1>2. list' \in CandList
  BY <1>1, ListShape, Zenon DEF erase, refresh, Shape, GoodRecord
<1> QED
  BY <1>1, <1>2, Zenon DEF erase, Shape, Phases

--------------------------------------------------------------------------------
\* What a choose leaves, once its record and store are good.
LEMMA ChosenShape ==
  ASSUME Shape, Chosen, GoodRecord(rec', raw), GoodStore(store')
  PROVE  Shape'
<1>1. raw' = raw /\ sent' = sent /\ raw \in Seq(Letters) /\ sent \in Sentence
  BY Zenon DEF Chosen, Shape
<1>2. list' \in CandList
  BY <1>1, ListShape, Zenon DEF Chosen, refresh, GoodRecord
<1>3. phase' \in Phases
  BY Zenon DEF Chosen, Phases
<1> QED
  BY <1>1, <1>2, <1>3, Zenon DEF Shape

\* A store resized to the input and forced at a span is good.
LEMMA ForcedGood ==
  ASSUME Shape, NEW start \in Nat, NEW end \in Nat, NEW token \in Token
  PROVE  GoodStore(add(resize(store, Len(raw) + 1), start, end, token))
<1> DEFINE n == Len(raw) + 1
           sized == resize(store, n)
<1>1. n \in Nat
  BY DEF Shape
<1> HIDE DEF n
<1>2. sized \in Stores(n) /\ Sound(sized)
  BY <1>1, ResizeSound, Zenon DEF Shape, GoodStore
<1> HIDE DEF sized
<1>3. add(sized, start, end, token) \in Stores(n) /\ Sound(add(sized, start, end, token))
  BY <1>1, <1>2, AddSound, Zenon
<1> QED
  BY <1>1, <1>3, GoodStores, Zenon DEF sized, n

\* A scanned row chosen at any offset of the input.
LEMMA SelectScannedShape ==
  ASSUME Shape, NEW anchor \in 0 .. Len(raw), NEW cand \in Cand,
         SelectScanned(anchor, cand)
  PROVE  Shape'
<1> DEFINE to == anchor + cand.advance
           end == Lesser(to, Len(raw))
           gap == IF rec.consumed < anchor
                  THEN <<Raw(Slice(raw, rec.consumed, anchor))>> ELSE <<>>
<1>0. /\ raw \in Seq(Letters) /\ Len(raw) \in Nat /\ anchor \in Nat /\ anchor <= Len(raw)
      /\ rec.parts \in Seq(Piece) /\ rec.history \in Seq(Token) /\ rec.consumed \in Nat
      /\ GoodStore(store)
  BY DEF Shape, GoodRecord, Record
<1>1. /\ cand.token \in Token \union {NoToken} /\ cand.piece \in Piece
      /\ cand.advance \in Nat
  BY Zenon DEF Cand
<1>2. end \in Nat /\ end <= Len(raw)
  <2>1. to \in Nat
    BY <1>0, <1>1
  <2> HIDE DEF to
  <2> QED
    BY <1>0, <2>1, LesserShape, Zenon
<1>3. CASE anchor < rec.consumed /\ select_behind(anchor, end, cand.token)
  <2> HIDE DEF end
  <2>1. cand.token \in Token
    BY <1>1, <1>3, Zenon DEF select_behind
  <2>2. GoodStore(store') /\ rec' = rebuild_from_constraints(raw, store') /\ Chosen
    BY <1>0, <1>2, <1>3, <2>1, ForcedGood, Zenon DEF select_behind
  <2>3. GoodRecord(rec', raw)
    BY <1>0, <2>2, RebuildGood, Zenon
  <2> QED
    BY <2>2, <2>3, ChosenShape, Zenon
<1>4. CASE ~(anchor < rec.consumed /\ select_behind(anchor, end, cand.token))
  <2>1. /\ store' = IF cand.token = NoToken THEN store
                    ELSE add(resize(store, Len(raw) + 1), anchor, end, cand.token)
        /\ rec' = [parts |-> rec.parts \o gap \o <<cand.piece>>,
                   consumed |-> end,
                   history |-> rec.history \o TokensOf(<<cand.piece>>),
                   committed |-> end >= Len(raw)]
        /\ Chosen
    BY <1>4, Zenon DEF SelectScanned
  <2> HIDE DEF end
  <2>2. GoodStore(store')
    BY <1>0, <1>1, <1>2, <2>1, ForcedGood, Zenon
  <2>3. gap \in Seq(Piece)
    <3> DEFINE q == Slice(raw, rec.consumed, anchor)
    <3>1. q \in Seq(Letters)
      BY <1>0, SliceShape, Zenon
    <3> HIDE DEF q
    <3>2. Raw(q) \in Piece
      BY <3>1, PieceShape, Zenon
    <3>3. <<Raw(q)>> \in Seq(Piece) /\ <<>> \in Seq(Piece)
      BY <3>2
    <3> QED
      BY <3>3, Zenon DEF q
  <2> HIDE DEF gap
  <2> DEFINE one == <<cand.piece>>
             a == rec.parts \o gap
             parts == a \o one
             learnt == TokensOf(one)
             history == rec.history \o learnt
  <2>4. one \in Seq(Piece)
    BY <1>1
  <2> HIDE DEF one
  <2>5. a \in Seq(Piece)
    BY <1>0, <2>3
  <2> HIDE DEF a
  <2>6. parts \in Seq(Piece)
    BY <2>4, <2>5
  <2>7. learnt \in Seq(Token)
    BY <2>4, PiecesConcat, Zenon
  <2> HIDE DEF learnt
  <2>8. history \in Seq(Token)
    BY <1>0, <2>7
  <2>9. rec' = [parts |-> parts, consumed |-> end, history |-> history,
                committed |-> end >= Len(raw)]
    BY <2>1, Zenon DEF one, a, learnt
  <2> HIDE DEF parts, history
  <2>10. (end >= Len(raw)) \in BOOLEAN
    OBVIOUS
  <2>11. GoodRecord(rec', raw)
    BY <1>2, <2>6, <2>8, <2>9, <2>10, Zenon DEF GoodRecord, Record
  <2> QED
    BY <2>1, <2>2, <2>11, ChosenShape, Zenon
<1> QED
  BY <1>3, <1>4, Zenon

\* A sentence row chosen, whether the guess still has it or not.
LEMMA SelectRowShape ==
  ASSUME Shape, NEW anchor \in 0 .. Len(raw), NEW shown \in Seq(SentRow),
         NEW k \in DOMAIN shown, SelectRow(anchor, shown, k)
  PROVE  Shape'
<1> DEFINE to == anchor + shown[k].span
           end == Lesser(to, Len(raw))
           row == sent.rows[k]
           tokens == [j \in DOMAIN row.spans |-> row.spans[j].token]
<1>0. /\ raw \in Seq(Letters) /\ Len(raw) \in Nat /\ anchor \in Nat
      /\ rec \in Record /\ GoodStore(store)
      /\ sent.rows \in Seq(SentRow) /\ sent.history \in Seq(Token)
  BY DEF Shape, GoodRecord, Sentence
<1>1. shown[k].span \in Nat /\ shown[k].text \in Seq(Piece)
  <2>1. shown[k] \in SentRow
    OBVIOUS
  <2> QED
    BY <2>1, Zenon DEF SentRow
<1>2. end \in Nat /\ end <= Len(raw)
  <2>1. to \in Nat
    BY <1>0, <1>1
  <2> HIDE DEF to
  <2> QED
    BY <1>0, <2>1, LesserShape, Zenon
<1> HIDE DEF end
<1>3. CASE k \notin DOMAIN sent.rows
  <2>1. /\ rec' = [rec EXCEPT !.parts = shown[k].text, !.consumed = end]
        /\ store' = store /\ Chosen
    BY <1>3, Zenon DEF SelectRow, end
  <2>2. GoodRecord(rec', raw)
    BY <1>0, <1>1, <1>2, <2>1, Zenon DEF GoodRecord, Record
  <2> QED
    BY <1>0, <2>1, <2>2, ChosenShape, Zenon
<1>4. CASE k \in DOMAIN sent.rows
  <2>1. /\ rec' = [parts |-> row.text, consumed |-> end,
                   history |-> sent.history \o tokens,
                   committed |-> end >= Len(raw)]
        /\ store' = diff_result(resize(store, Len(raw) + 1),
                                sent.rows[1].spans, row.spans, Len(raw))
        /\ Chosen
    BY <1>4, Zenon DEF SelectRow, end
  <2>2. row \in SentRow
    BY <1>0, <1>4, SMTT(30)
  <2> HIDE DEF row
  <2>3. row.text \in Seq(Piece) /\ row.spans \in Seq(Span)
    BY <2>2, Zenon DEF SentRow
  <2>4. tokens \in Seq(Token)
    BY <2>3, SpanTokens, Zenon
  <2> HIDE DEF tokens
  <2> DEFINE history == sent.history \o tokens
  <2>5. history \in Seq(Token)
    BY <1>0, <2>4
  <2>6. rec' = [parts |-> row.text, consumed |-> end, history |-> history,
                committed |-> end >= Len(raw)]
    BY <2>1, Zenon
  <2> HIDE DEF history
  <2>7. (end >= Len(raw)) \in BOOLEAN
    OBVIOUS
  <2>8. GoodRecord(rec', raw)
    BY <1>2, <2>3, <2>5, <2>6, <2>7, Zenon DEF GoodRecord, Record
  <2>9. GoodStore(store')
    <3> DEFINE n == Len(raw) + 1
               sized == resize(store, n)
               best == sent.rows[1].spans
    <3>1. n \in Nat
      BY <1>0
    <3>2. store' = diff_result(sized, best, row.spans, Len(raw))
      BY <2>1, Zenon
    <3> HIDE DEF n, best
    <3>3. sized \in Stores(n) /\ Sound(sized)
      BY <1>0, <3>1, ResizeSound, Zenon DEF GoodStore
    <3> HIDE DEF sized
    <3>4. store' \in Stores(n) /\ Sound(store')
      BY <1>0, <2>3, <3>1, <3>2, <3>3, DiffResultSound, Zenon
    <3> QED
      BY <3>1, <3>4, GoodStores, Zenon
  <2> QED
    BY <2>1, <2>8, <2>9, ChosenShape, Zenon
<1> QED
  BY <1>3, <1>4, Zenon

\* A row of the list chosen at the composition offset.
LEMMA SelectShape ==
  ASSUME Shape, Select
  PROVE  Shape'
<1>1. rec.consumed \in 0 .. Len(raw)
  BY DEF Shape, GoodRecord, Record
<1> DEFINE shown == refresh_candidates
<1>2. shown \in CandList
  BY ShownShape, Zenon
<1>3. shown.scanned \subseteq Cand /\ shown.rows \in Seq(SentRow)
  BY <1>2, Zenon DEF CandList
<1>4. \/ \E cand \in shown.scanned : SelectScanned(rec.consumed, cand)
      \/ \E k \in DOMAIN shown.rows : SelectRow(rec.consumed, shown.rows, k)
  BY Zenon DEF Select
<1> HIDE DEF shown
<1> QED
  BY <1>1, <1>3, <1>4, SelectScannedShape, SelectRowShape, Zenon

\* The row chosen at a caller's offset.
LEMMA SelectAnchoredShape ==
  ASSUME Shape, NEW anchor \in 0 .. Len(raw), SelectAnchored(anchor)
  PROVE  Shape'
<1>1. raw \in Seq(Letters) /\ Len(raw) \in Nat /\ sent.rows \in Seq(SentRow)
  BY DEF Shape, Sentence
<1>2. scan_window(raw, anchor) \subseteq Cand
  BY <1>1, WindowShape
<1>3. \/ \E cand \in scan_window(raw, anchor) : SelectScanned(anchor, cand)
      \/ \E k \in DOMAIN sent.rows : SelectRow(anchor, sent.rows, k)
  BY Zenon DEF SelectAnchored
<1> QED
  BY <1>1, <1>2, <1>3, SelectScannedShape, SelectRowShape, Zenon

\* A forcing taken back.
LEMMA ClearShape ==
  ASSUME Shape, NEW offset \in 0 .. Len(raw), clear_constraint(offset)
  PROVE  Shape'
<1>1. offset \in Nat /\ raw \in Seq(Letters) /\ GoodStore(store)
  BY DEF Shape
<1>2. store' \in Stores(store.len) /\ Sound(store') /\ store.len \in Nat
  BY <1>1, ClearSound, Zenon DEF clear_constraint, GoodStore
<1>3. GoodStore(store')
  BY <1>2, GoodStores, Zenon
<1>4. GoodRecord(rec', raw)
  BY <1>1, <1>3, RebuildGood, Zenon DEF clear_constraint
<1> QED
  BY <1>3, <1>4, Zenon DEF clear_constraint, Shape, Phases

--------------------------------------------------------------------------------
\* The rows of a guess over the letters from `from` to `bound`, around the
\* forcings of `st` and behind `prefix`.
DecodedRows(rows, prefix, st, from, bound) ==
  RowsOver(rows, prefix, Segmentations(raw, st, from, bound), bound - from)

\* What any decode gives has the shape of rows.
LEMMA DecodeShape ==
  ASSUME Shape, NEW st, GoodStore(st), NEW prefix \in Seq(Piece),
         NEW bound \in 0 .. Len(raw), NEW from \in 0 .. bound,
         NEW rows \in RowLists(prefix, Segmentations(raw, st, from, bound), bound - from)
  PROVE  DecodedRows(rows, prefix, st, from, bound)
<1> DEFINE segs == Segmentations(raw, st, from, bound)
<1>1. raw \in Seq(Letters) /\ bound - from \in Nat
  BY DEF Shape
<1>2. \A seg \in segs : Covers(raw, from, bound, seg)
  BY <1>1, WalkCovers, Zenon DEF GoodStore
<1>3. \A seg \in segs : seg \in Seq(Span)
  BY <1>2, Zenon DEF Covers
<1> DEFINE n == bound - from
<1>4. n \in Nat /\ rows \in RowLists(prefix, segs, n)
  BY <1>1, Zenon
<1> HIDE DEF segs, n
<1>5. RowsOver(rows, prefix, segs, n)
  BY <1>3, <1>4, RowListShape, Zenon
<1> QED
  BY <1>5, Zenon DEF DecodedRows, segs, n

\* The record a full guess leaves.
GuessedRecord(st) ==
  IF DroppedOver(store, raw) # {} \/ (is_active(st) /\ rec.history = <<>>)
  THEN rebuild_from_constraints(raw, st) ELSE rec

\* The ways a full guess ends.
LEMMA GuessFullCases ==
  ASSUME Shape, GuessFull
  PROVE  \/ Bound(raw) = 0 /\ GuessNothing
         \/ Bound(raw) > 0 /\ ValidateFailed
         \/ /\ Bound(raw) > 0
            /\ store' = Validated(store, raw) /\ rec' = GuessedRecord(store')
            /\ GuessFailed
         \/ /\ Bound(raw) > 0
            /\ store' = Validated(store, raw) /\ rec' = GuessedRecord(store')
            /\ DecodedRows(sent'.rows, <<>>, store', 0, Bound(raw))
            /\ sent' = [rows |-> sent'.rows, history |-> <<>>, prefix |-> <<>>]
            /\ refresh_after_parse(raw, rec', sent')
            /\ phase' = Guessed(list') /\ raw' = raw
<1>1. Bound(raw) \in 0 .. Len(raw) /\ 0 \in 0 .. Bound(raw) /\ Bound(raw) - 0 = Bound(raw)
  BY BoundShape DEF Shape
<1>2. GoodStore(Validated(store, raw))
  BY ValidatedGood, Zenon DEF Shape
<1>3. ASSUME NEW rows \in RowLists(<<>>, Segmentations(raw, store', 0, Bound(raw)), Bound(raw)),
             store' = Validated(store, raw)
      PROVE  DecodedRows(rows, <<>>, store', 0, Bound(raw))
  <2>1. <<>> \in Seq(Piece)
    OBVIOUS
  <2> DEFINE st == Validated(store, raw)
  <2> HIDE DEF st
  <2>2. DecodedRows(rows, <<>>, st, 0, Bound(raw))
    BY <1>1, <1>2, <1>3, <2>1, DecodeShape, Zenon DEF st
  <2> QED
    BY <1>3, <2>2, Zenon DEF st
<1> QED
  BY <1>3, SMTT(30) DEF GuessFull, GuessedRecord

\* The ways a guess over what follows the selection ends.
LEMMA RemainingCases ==
  ASSUME Shape, guess_over_remaining
  PROVE  LET bound == BoundFrom(raw, rec.consumed)
         IN  /\ bound \in rec.consumed .. Len(raw)
             /\ \/ GuessNothing
                \/ GuessFailed /\ UNCHANGED <<rec, store>>
                \/ /\ bound > rec.consumed
                   /\ DecodedRows(sent'.rows, rec.parts, EmptyStore, rec.consumed, bound)
                   /\ sent' = [rows |-> sent'.rows, history |-> rec.history,
                               prefix |-> rec.parts]
                   /\ refresh_after_parse(raw, rec, sent')
                   /\ phase' = Guessed(list') /\ UNCHANGED <<raw, rec, store>>
<1> DEFINE from == rec.consumed
           bound == BoundFrom(raw, from)
<1>1. from \in 0 .. Len(raw) /\ raw \in Seq(Letters) /\ rec.parts \in Seq(Piece)
  BY DEF Shape, GoodRecord, Record
<1>2. bound \in from .. Len(raw)
  BY <1>1, BoundFromShape, Zenon
<1>3. bound \in 0 .. Len(raw) /\ from \in 0 .. bound
  BY <1>1, <1>2
<1>4. ASSUME NEW rows \in RowLists(rec.parts, Segmentations(raw, EmptyStore, from, bound),
                                    bound - from)
      PROVE  DecodedRows(rows, rec.parts, EmptyStore, from, bound)
  <2> HIDE DEF from, bound
  <2> QED
    BY <1>1, <1>3, <1>4, GoodStores, DecodeShape, Zenon
<1> QED
  BY <1>2, <1>4, SMTT(30) DEF guess_over_remaining

\* A guess that finds no keys.
LEMMA GuessNothingShape ==
  ASSUME Shape, GuessNothing
  PROVE  Shape'
BY NoSentenceShape, Zenon DEF GuessNothing, Shape, Phases

\* A guess that a dictionary read ended.
LEMMA GuessFailedShape ==
  ASSUME Shape, GuessFailed, GoodRecord(rec', raw), GoodStore(store')
  PROVE  Shape'
BY NoSentenceShape, Zenon DEF GuessFailed, Shape, Phases

\* A guess that decoded its rows.
LEMMA DecodedShape ==
  ASSUME Shape, GoodRecord(rec', raw), GoodStore(store'), raw' = raw,
         NEW st, NEW from, NEW bound,
         DecodedRows(sent'.rows, sent'.prefix, st, from, bound),
         sent' = [rows |-> sent'.rows, history |-> sent'.history, prefix |-> sent'.prefix],
         sent'.history \in Seq(Token), sent'.prefix \in Seq(Piece),
         refresh_after_parse(raw, rec', sent'), phase' = Guessed(list')
  PROVE  Shape'
<1>1. raw \in Seq(Letters) /\ rec' \in Record
  BY Zenon DEF Shape, GoodRecord
<1>2. sent' \in Sentence
  BY Zenon DEF DecodedRows, RowsOver, Sentence
<1>3. list' \in CandList
  BY <1>1, <1>2, ListShape, Zenon DEF refresh, refresh_after_parse
<1>4. phase' \in Phases
  BY Zenon DEF Guessed, Phases
<1> QED
  BY <1>1, <1>2, <1>3, <1>4, Zenon DEF Shape

\* A guess over no input.
LEMMA GuessEmptyShape ==
  ASSUME Shape, GuessEmpty
  PROVE  Shape'
<1>1. GoodRecord(rec', raw)
  BY NoRecordShape DEF GuessEmpty, GoodRecord, NoRecord
<1> QED
  BY <1>1, GoodStores, NoSentenceShape, Zenon DEF GuessEmpty, Shape, Phases

\* The record of a full guess is good.
LEMMA GuessedRecordGood ==
  ASSUME Shape, NEW st, GoodStore(st)
  PROVE  GoodRecord(GuessedRecord(st), raw)
BY RebuildGood, Zenon DEF GuessedRecord, Shape

\* A guess over the whole input.
LEMMA GuessFullShape ==
  ASSUME Shape, GuessFull
  PROVE  Shape'
<1>0. GoodStore(Validated(store, raw)) /\ GoodRecord(rec, raw) /\ GoodStore(store)
  BY ValidatedGood, Zenon DEF Shape
<1>1. CASE GuessNothing
  BY <1>1, GuessNothingShape, Zenon
<1>2. CASE ValidateFailed
  <2>1. PICK at \in Probed(store, raw) :
          store' = Revalidated(store, Bound(raw) + 1,
                               {s \in DroppedOver(store, raw) : s < at})
    BY <1>2, Zenon DEF ValidateFailed
  <2> DEFINE some == {s \in DroppedOver(store, raw) : s < at}
             n == Bound(raw) + 1
  <2>2. n \in Nat /\ store' = Revalidated(store, n, some)
    BY <2>1, BoundShape DEF Shape
  <2> HIDE DEF some, n
  <2>3. store' \in Stores(n) /\ Sound(store')
    BY <1>0, <2>2, RevalidatedSound, Zenon DEF GoodStore
  <2>4. GoodStore(store')
    BY <2>2, <2>3, GoodStores, Zenon
  <2> QED
    BY <1>0, <1>2, <2>4, GuessFailedShape, Zenon DEF ValidateFailed
<1>3. CASE store' = Validated(store, raw) /\ rec' = GuessedRecord(store') /\ GuessFailed
  BY <1>0, <1>3, GuessedRecordGood, GuessFailedShape, Zenon
<1>4. CASE /\ store' = Validated(store, raw) /\ rec' = GuessedRecord(store')
           /\ DecodedRows(sent'.rows, <<>>, store', 0, Bound(raw))
           /\ sent' = [rows |-> sent'.rows, history |-> <<>>, prefix |-> <<>>]
           /\ refresh_after_parse(raw, rec', sent')
           /\ phase' = Guessed(list') /\ raw' = raw
  <2>1. GoodStore(store') /\ GoodRecord(rec', raw)
    BY <1>0, <1>4, GuessedRecordGood, Zenon
  <2>2. sent'.history = <<>> /\ sent'.prefix = <<>>
    BY <1>4
  <2>3. sent'.history \in Seq(Token) /\ sent'.prefix \in Seq(Piece)
    BY <2>2
  <2> DEFINE st == store'
             bound == Bound(raw)
  <2>4. DecodedRows(sent'.rows, sent'.prefix, st, 0, bound)
    BY <1>4, <2>2, Zenon
  <2> HIDE DEF st, bound
  <2> QED
    BY <1>4, <2>1, <2>2, <2>3, <2>4, DecodedShape, Zenon
<1> QED
  BY <1>1, <1>2, <1>3, <1>4, GuessFullCases, Zenon

\* A guess over what follows the selection.
LEMMA RemainingShape ==
  ASSUME Shape, guess_over_remaining
  PROVE  Shape'
<1>0. /\ GoodRecord(rec, raw) /\ GoodStore(store)
      /\ rec.parts \in Seq(Piece) /\ rec.history \in Seq(Token)
  BY Zenon DEF Shape, GoodRecord, Record
<1> DEFINE from == rec.consumed
           bound == BoundFrom(raw, from)
<1>1. CASE GuessNothing
  BY <1>1, GuessNothingShape, Zenon
<1>2. CASE GuessFailed /\ UNCHANGED <<rec, store>>
  BY <1>0, <1>2, GuessFailedShape, Zenon
<1>3. CASE /\ DecodedRows(sent'.rows, rec.parts, EmptyStore, from, bound)
           /\ sent' = [rows |-> sent'.rows, history |-> rec.history, prefix |-> rec.parts]
           /\ refresh_after_parse(raw, rec, sent')
           /\ phase' = Guessed(list') /\ UNCHANGED <<raw, rec, store>>
  <2>1. sent'.history = rec.history /\ sent'.prefix = rec.parts
    BY <1>3
  <2> HIDE DEF from, bound
  <2>2. refresh_after_parse(raw, rec', sent') /\ rec' = rec /\ store' = store /\ raw' = raw
    BY <1>3, Zenon
  <2> QED
    BY <1>0, <1>3, <2>1, <2>2, DecodedShape, Zenon
<1> QED
  BY <1>1, <1>2, <1>3, RemainingCases, Zenon

\* guess_sentence and guess_sentence_with_prefix are one of the three guesses.
LEMMA GuessIsOne ==
  ASSUME guess_sentence \/ guess_sentence_with_prefix
  PROVE  \/ GuessEmpty
         \/ /\ raw # <<>> /\ rec.consumed < Len(raw) /\ ~is_active(store)
            /\ guess_over_remaining
         \/ raw # <<>> /\ GuessFull
BY Zenon DEF guess_sentence, guess_sentence_with_prefix

\* The input discarded.
LEMMA DiscardShape ==
  ASSUME Shape, discard_composition \/ reset
  PROVE  Shape'
<1>1. raw' = <<>> /\ rec' = NoRecord /\ store' = EmptyStore /\ list' = NoList
      /\ phase' = "changed" /\ sent' \in Sentence
  BY NoSentenceShape, Zenon DEF discard_composition, reset, Shape
<1>2. raw' \in Seq(Letters) /\ Len(raw') = 0
  BY <1>1
<1>3. GoodRecord(rec', raw')
  BY <1>1, <1>2, NoRecordShape, SMTT(30) DEF GoodRecord, NoRecord
<1> QED
  BY <1>1, <1>2, <1>3, GoodStores, ListShape, Zenon DEF Shape, Phases

\* Every step keeps the shape.
LEMMA StepShape ==
  ASSUME Shape, [Next]_vars
  PROVE  Shape'
<1>1. CASE Next
  <2>1. ASSUME NEW text \in Inputs, ReplaceRaw(text) PROVE Shape'
    BY <2>1, ReplaceShape, Zenon
  <2>2. ASSUME NEW letter \in Keys, type_pinyin(letter) PROVE Shape'
    BY <2>2, TypeShape, Zenon
  <2>3. CASE erase
    BY <2>3, EraseShape, Zenon
  <2>4. CASE Select
    BY <2>4, SelectShape, Zenon
  <2>5. ASSUME NEW anchor \in 0 .. Len(raw), SelectAnchored(anchor) PROVE Shape'
    BY <2>5, SelectAnchoredShape, Zenon
  <2>6. ASSUME NEW offset \in 0 .. Len(raw), clear_constraint(offset) PROVE Shape'
    BY <2>6, ClearShape, Zenon
  <2>7. CASE guess_sentence \/ guess_sentence_with_prefix
    BY <2>7, GuessIsOne, GuessEmptyShape, RemainingShape, GuessFullShape, Zenon
  <2>8. CASE discard_composition \/ reset
    BY <2>8, DiscardShape, Zenon
  <2> QED
    BY <1>1, <2>1, <2>2, <2>3, <2>4, <2>5, <2>6, <2>7, <2>8, Zenon DEF Next
<1>2. CASE UNCHANGED vars
  BY <1>2, Zenon DEF vars, Shape
<1> QED
  BY <1>1, <1>2, Zenon

\* The state keeps its shape whatever calls a frontend makes in whatever order
\* and whichever of them fail.
THEOREM SessionTypeCorrect == Spec => []Shape
<1>1. Init => Shape
  BY InitShape, Zenon
<1>2. Shape /\ [Next]_vars => Shape'
  BY StepShape, Zenon
<1> QED
  BY <1>1, <1>2, PTL DEF Spec

\* The composition offset never passes the end of the input (record.rs:34-37).
THEOREM CursorStaysInInput == Spec => []CursorInInput
<1>1. Shape => CursorInInput
  BY Zenon DEF Shape, GoodRecord, CursorInInput
<1> QED
  BY <1>1, SessionTypeCorrect, PTL

--------------------------------------------------------------------------------
\* A row chosen, of the list or at a caller's offset.
LEMMA ChooseIsOne ==
  ASSUME Select \/ (\E anchor \in 0 .. Len(raw) : SelectAnchored(anchor))
  PROVE  Chosen
BY Zenon DEF Select, SelectAnchored, SelectScanned, SelectRow, select_behind

\* A guess that stands has built its list or left it to the next read.
LEMMA GuessLists ==
  ASSUME NEW r, NEW s, refresh_after_parse(raw, r, s), phase' = Guessed(list')
  PROVE  /\ phase' # "failed"
         /\ phase' = "guessed" => list'.state = "stale" \/ list' = BuiltList(raw, r, s)
BY Zenon DEF refresh_after_parse, refresh, Guessed, NoList

\* Every step keeps the list current.
LEMMA StepListed ==
  ASSUME Shape, Listed, [Next]_vars
  PROVE  Listed'
<1>1. CASE UNCHANGED vars
  BY <1>1, Zenon DEF vars, Listed
<1>2. CASE phase' = "changed" \/ phase' = "keyless"
  BY <1>2, Zenon DEF Listed
<1>3. CASE Chosen
  BY <1>3, Zenon DEF Chosen, Listed
<1>4. CASE GuessFull
  <2>1. CASE GuessNothing \/ GuessFailed \/ ValidateFailed
    BY <1>2, <2>1, Zenon DEF GuessNothing, GuessFailed, ValidateFailed
  <2>2. CASE refresh_after_parse(raw, rec', sent') /\ phase' = Guessed(list') /\ raw' = raw
    BY <2>2, GuessLists, Zenon DEF Listed
  <2> QED
    BY <1>4, <2>1, <2>2, GuessFullCases, Zenon
<1>5. CASE guess_over_remaining
  <2>1. CASE GuessNothing \/ GuessFailed
    BY <1>2, <2>1, Zenon DEF GuessNothing, GuessFailed
  <2>2. CASE /\ refresh_after_parse(raw, rec, sent') /\ phase' = Guessed(list')
             /\ UNCHANGED <<raw, rec, store>>
    BY <2>2, GuessLists, Zenon DEF Listed
  <2> QED
    BY <1>5, <2>1, <2>2, RemainingCases, Zenon
<1>6. CASE guess_sentence \/ guess_sentence_with_prefix
  BY <1>2, <1>4, <1>5, <1>6, GuessIsOne, Zenon DEF GuessEmpty
<1>7. CASE Next
  BY <1>2, <1>3, <1>6, <1>7, ChooseIsOne
    ,
     Zenon
     DEF Next, ReplaceRaw, type_pinyin, erase, clear_constraint, discard_composition, reset
<1> QED
  BY <1>1, <1>7, Zenon

\* The list a disciplined frontend chooses from.
LEMMA ShownIsCurrent ==
  ASSUME Listed
  PROVE  /\ phase = "guessed" => refresh_candidates = BuiltList(raw, rec, sent)
         /\ phase = "failed" => refresh_candidates = NoList
<1>1. NoList.state # "stale"
  BY Zenon DEF NoList
<1> QED
  BY <1>1, Zenon DEF Listed, refresh_candidates

================================================================================
