--------------------------- MODULE CountCacheProofs ---------------------------
(***************************************************************************)
(* For any number of reading and writing threads, any predecessors and any *)
(* grams: the count memo never answers with a gram of an older generation, *)
(* the gate is closed only over an empty container, and the two locks are  *)
(* never taken in a cycle.                                                 *)
(***************************************************************************)
EXTENDS CountCache, TLAPS

\* The memo a reader starts from is a well-typed empty one.
LEMMA NewCacheType ==
    ASSUME NEW g \in Nat
    PROVE  /\ NewCache(g) \in CountCaches
           /\ NewCache(g).generation = g
           /\ \A p \in Prevs : NewCache(g).bigram_rows[p] = NoGram
  BY DEF NewCache, CountCaches, Rows, NoRows

\* The opened store satisfies the invariant: nobody holds a lock, there is no
\* memo, and open_session computed the gate.
LEMMA CacheInit == Init => CacheInv
  <1> SUFFICES ASSUME Init PROVE CacheInv
    OBVIOUS
  <1>1. CacheTypeOK
    BY NewCacheType, LocksAssumption DEF Init, CacheTypeOK, Labels, Rows
  <1>2. Holders
    BY LocksAssumption DEF Init, Holders
  <1>3. CachesAgree
    BY DEF Init, CachesAgree
  <1>4. GateAgrees
    BY DEF Init, GateAgrees
  <1> QED BY <1>1, <1>2, <1>3, <1>4 DEF CacheInv

\* A reader's step keeps the invariant.
LEMMA CacheRead ==
    ASSUME CacheInv, NEW r \in Readers, Read(r)
    PROVE  CacheInv'
  <1> USE LocksAssumption DEF CacheInv
  <1>1. CASE \E p \in Prevs : ReadGate(r, p)
    <2> PICK p \in Prevs : ReadGate(r, p) BY <1>1
    <2>1. CacheTypeOK'
      BY DEF CacheTypeOK, ReadGate, Goto, Labels
    <2>2. Holders'
      BY DEF CacheTypeOK, Holders, ReadGate, Goto
    <2>3. CachesAgree'
      BY DEF CacheTypeOK, CachesAgree, Agrees, Changing, ReadGate, Goto
    <2>4. GateAgrees'
      BY DEF CacheTypeOK, GateAgrees, ReadGate, Goto
    <2> QED BY <2>1, <2>2, <2>3, <2>4
  <1>2. CASE LockCache(r)
    <2>1. CacheTypeOK'
      BY <1>2 DEF CacheTypeOK, LockCache, Goto, Labels, threadVars
    <2>2. Holders'
      BY <1>2 DEF CacheTypeOK, Holders, LockCache, Goto
    <2>3. CachesAgree'
      BY <1>2 DEF CacheTypeOK, CachesAgree, Agrees, Changing, LockCache, Goto, threadVars
    <2>4. GateAgrees'
      BY <1>2 DEF CacheTypeOK, GateAgrees, LockCache, Goto
    <2> QED BY <2>1, <2>2, <2>3, <2>4
  <1>3. CASE LockOffsets(r)
    <2>1. CacheTypeOK'
      BY <1>3 DEF CacheTypeOK, LockOffsets, Goto, Labels, threadVars
    <2>2. Holders'
      BY <1>3 DEF CacheTypeOK, Holders, LockOffsets, Goto
    <2>3. CachesAgree'
      BY <1>3 DEF CacheTypeOK, CachesAgree, Agrees, Changing, LockOffsets, Goto, threadVars
    <2>4. GateAgrees'
      BY <1>3 DEF CacheTypeOK, GateAgrees, LockOffsets, Goto
    <2> QED BY <2>1, <2>2, <2>3, <2>4
  <1>4. CASE TakeCache(r)
    <2> DEFINE kept == CHOOSE c \in count_cache : TRUE
               hit == \E c \in count_cache : c.generation = write_generation
               new == IF hit THEN kept ELSE NewCache(write_generation)
    <2>1. hit => kept \in count_cache /\ kept.generation = write_generation
      BY DEF CacheTypeOK
    <2>2. NewCache(write_generation) \in CountCaches /\
          Agrees(NewCache(write_generation)) /\
          NewCache(write_generation).generation = write_generation
      BY NewCacheType DEF CacheTypeOK, Agrees
    <2>3. new \in CountCaches /\ Agrees(new) /\ new.generation = write_generation
      BY <2>1, <2>2 DEF CacheTypeOK, CachesAgree
    <2>4. current' = [current EXCEPT ![r] = new] /\ count_cache' = {}
      BY <1>4 DEF TakeCache
    <2> HIDE DEF new, kept, hit
    <2>5. CacheTypeOK'
      BY <1>4, <2>3, <2>4 DEF CacheTypeOK, TakeCache, Goto, Labels
    <2>6. Holders'
      BY <1>4 DEF CacheTypeOK, Holders, TakeCache, Goto
    <2>7. CachesAgree'
      BY <1>4, <2>3, <2>4 DEF CacheTypeOK, CachesAgree, Agrees, Changing, TakeCache, Goto
    <2>8. GateAgrees'
      BY <1>4 DEF CacheTypeOK, GateAgrees, TakeCache, Goto
    <2> QED BY <2>5, <2>6, <2>7, <2>8
  <1>5. CASE \E full \in BOOLEAN : BigramRow(r, full)
    <2> PICK full \in BOOLEAN : BigramRow(r, full) BY <1>5
    <2> DEFINE old == current[r]
               memo == old.bigram_rows[asked[r]]
               base == IF full THEN NoRows ELSE old.bigram_rows
               rows == IF memo # NoGram \/ grams[asked[r]] = NoGram
                         THEN old.bigram_rows
                         ELSE [base EXCEPT ![asked[r]] = grams[asked[r]]]
               now == [old EXCEPT !.bigram_rows = rows]
    <2>1. pc[r] = "taken" /\ old \in CountCaches /\ asked[r] \in Prevs
      BY DEF BigramRow, CacheTypeOK
    <2>2. base \in Rows /\ rows \in Rows
      BY <2>1 DEF CacheTypeOK, CountCaches, Rows, NoRows
    <2>3. ~Changing
      BY <2>1 DEF Holders, Changing, CacheTypeOK
    <2>4. Agrees(old) /\ old.generation = write_generation
      BY <2>1 DEF CachesAgree
    <2>5. \A p \in Prevs : rows[p] \in {NoGram, grams[p]}
      BY <2>1, <2>2, <2>3, <2>4 DEF Agrees, CountCaches, Rows, NoRows, CacheTypeOK
    <2>6. now \in CountCaches /\ now.generation = write_generation
            /\ now.bigram_rows = rows
      BY <2>1, <2>2, <2>4 DEF CountCaches
    <2>7. current' = [current EXCEPT ![r] = now]
      BY <2>1 DEF BigramRow, CacheTypeOK
    <2>8. answer'[r] \in Grams \cup {NoGram} /\ answer' \in [Readers -> Grams \cup {NoGram}]
      BY <2>1 DEF BigramRow, CacheTypeOK, CountCaches, Rows
    <2> HIDE DEF now, rows, base, memo, old
    <2>9. CacheTypeOK'
      BY <2>6, <2>7, <2>8 DEF CacheTypeOK, BigramRow, Goto, Labels
    <2>10. Holders'
      BY <2>1 DEF CacheTypeOK, Holders, BigramRow, Goto
    <2>11. CachesAgree'
      <3>1. Agrees(now)
        BY <2>5, <2>6 DEF Agrees, CacheTypeOK
      <3>2. write_generation' = write_generation /\ grams' = grams
              /\ count_cache' = count_cache /\ (Changing' <=> Changing)
        BY <2>1 DEF BigramRow, Goto, Changing, CacheTypeOK
      <3>3. \A c \in count_cache' : Agrees(c)'
        BY <3>2 DEF Agrees, CachesAgree
      <3>4. ASSUME NEW q \in Readers, pc'[q] \in {"taken", "read"}
            PROVE  Agrees(current[q])'
        <4>1. CASE q = r
          BY <4>1, <2>7, <3>1, <3>2 DEF Agrees, CacheTypeOK
        <4>2. CASE q # r
          <5>1. current'[q] = current[q] /\ pc'[q] = pc[q]
            BY <4>2, <2>7 DEF BigramRow, Goto, CacheTypeOK
          <5> QED BY <5>1, <3>2, <3>4 DEF Agrees, CachesAgree
        <4> QED BY <4>1, <4>2
      <3>5. \A q \in Readers : pc'[q] = "taken" =>
              current'[q].generation = write_generation'
        BY <2>7, <3>2 DEF BigramRow, Goto, CachesAgree, CacheTypeOK
      <3> QED BY <3>3, <3>4, <3>5 DEF CachesAgree
    <2>12. GateAgrees'
      BY DEF CacheTypeOK, GateAgrees, BigramRow, Goto
    <2> QED BY <2>9, <2>10, <2>11, <2>12
  <1>6. CASE PutCache(r)
    <2>1. CacheTypeOK'
      BY <1>6 DEF CacheTypeOK, PutCache, Goto, Labels, threadVars
    <2>2. Holders'
      BY <1>6 DEF CacheTypeOK, Holders, PutCache, Goto
    <2>3. CachesAgree'
      BY <1>6 DEF CacheTypeOK, CachesAgree, Agrees, Changing, PutCache, Goto, threadVars
    <2>4. GateAgrees'
      BY <1>6 DEF CacheTypeOK, GateAgrees, PutCache, Goto
    <2> QED BY <2>1, <2>2, <2>3, <2>4
  <1>7. CASE Again(r)
    <2>1. CacheTypeOK'
      BY <1>7 DEF CacheTypeOK, Again, Goto, Labels, threadVars
    <2>2. Holders'
      BY <1>7 DEF CacheTypeOK, Holders, Again, Goto
    <2>3. CachesAgree'
      BY <1>7 DEF CacheTypeOK, CachesAgree, Agrees, Changing, Again, Goto, threadVars
    <2>4. GateAgrees'
      BY <1>7 DEF CacheTypeOK, GateAgrees, Again, Goto
    <2> QED BY <2>1, <2>2, <2>3, <2>4
  <1> QED BY <1>1, <1>2, <1>3, <1>4, <1>5, <1>6, <1>7 DEF Read

\* A writer's step keeps the invariant: what it changes under the offsets
\* lock is covered by Changing until the generation moves past every memo.
LEMMA CacheWrite ==
    ASSUME CacheInv, NEW w \in Writers, Write(w)
    PROVE  CacheInv'
  <1> USE LocksAssumption DEF CacheInv
  <1>1. CASE BeginWrite(w)
    <2>1. CacheTypeOK'
      BY <1>1 DEF CacheTypeOK, BeginWrite, Goto, Labels, threadVars
    <2>2. Holders'
      BY <1>1 DEF CacheTypeOK, Holders, BeginWrite, Goto
    <2>3. CachesAgree'
      BY <1>1 DEF CacheTypeOK, CachesAgree, Agrees, Changing, BeginWrite, Goto, threadVars
    <2>4. GateAgrees'
      BY <1>1 DEF CacheTypeOK, GateAgrees, BeginWrite, Goto
    <2> QED BY <2>1, <2>2, <2>3, <2>4
  <1>2. CASE \E p \in Prevs, g \in Grams : StoreGram(w, p, g)
    <2> PICK p \in Prevs, g \in Grams : StoreGram(w, p, g) BY <1>2
    <2>1. CacheTypeOK'
      BY DEF CacheTypeOK, StoreGram, Goto, Labels, threadVars, Rows
    <2>2. Holders'
      BY DEF CacheTypeOK, Holders, StoreGram, Goto
    <2>3. Changing' /\ pc'[w] = "gateOn"
      BY DEF CacheTypeOK, Changing, StoreGram, Goto
    <2>4. CachesAgree'
      BY <2>3 DEF CacheTypeOK, CachesAgree, Agrees, StoreGram, Goto, threadVars
    <2>5. \A v \in Writers : pc'[v] # "gateOff"
      BY DEF CacheTypeOK, Holders, StoreGram, Goto
    <2>6. GateAgrees'
      BY <2>3, <2>5 DEF GateAgrees
    <2> QED BY <2>1, <2>2, <2>4, <2>6
  <1>3. CASE \E kept \in SUBSET Prevs, items \in BOOLEAN : MaskGrams(w, kept, items)
    <2> PICK kept \in SUBSET Prevs, items \in BOOLEAN : MaskGrams(w, kept, items)
      BY <1>3
    <2>0. pc' = [pc EXCEPT ![w] = "gateOn"] \/
          (pc' = [pc EXCEPT ![w] = "gateOff"] /\ grams' = NoRows)
      BY DEF MaskGrams, Goto
    <2>1. CacheTypeOK'
      BY <2>0 DEF CacheTypeOK, MaskGrams, Labels, threadVars, Rows
    <2>2. Holders'
      BY <2>0 DEF CacheTypeOK, Holders, MaskGrams
    <2>3. Changing'
      BY <2>0 DEF CacheTypeOK, Changing
    <2>4. CachesAgree'
      BY <2>0, <2>3 DEF CacheTypeOK, CachesAgree, Agrees, MaskGrams, threadVars
    <2>5. \A v \in Writers : v # w => pc'[v] \notin {"gateOff", "gateOn"}
      BY <2>0 DEF CacheTypeOK, Holders, MaskGrams
    <2>6. GateAgrees'
      BY <2>0, <2>5 DEF GateAgrees, CacheTypeOK
    <2> QED BY <2>1, <2>2, <2>4, <2>6
  <1>4. CASE SetGate(w)
    <2>1. CacheTypeOK'
      BY <1>4 DEF CacheTypeOK, SetGate, Goto, Labels, threadVars
    <2>2. Holders'
      BY <1>4 DEF CacheTypeOK, Holders, SetGate, Goto
    <2>3. CachesAgree'
      BY <1>4 DEF CacheTypeOK, CachesAgree, Agrees, Changing, SetGate, Goto, threadVars
    <2>4. GateAgrees'
      BY <1>4 DEF CacheTypeOK, GateAgrees, Holders, SetGate, Goto
    <2> QED BY <2>1, <2>2, <2>3, <2>4
  <1>5. CASE BumpGeneration(w)
    <2>1. CacheTypeOK'
      BY <1>5 DEF CacheTypeOK, BumpGeneration, Goto, Labels, threadVars
    <2>2. Holders'
      BY <1>5 DEF CacheTypeOK, Holders, BumpGeneration, Goto
    <2>3. \A r \in Readers : pc[r] # "taken"
      BY <1>5 DEF CacheTypeOK, Holders, BumpGeneration
    <2>4. \A c \in CountCaches : Agrees(c) => Agrees(c)'
      BY <1>5 DEF CacheTypeOK, Agrees, BumpGeneration, CountCaches
    <2>5. CachesAgree'
      <3>1. \A r \in Readers : pc'[r] = pc[r] /\ current'[r] \in CountCaches
              /\ current'[r] = current[r]
        BY <1>5 DEF CacheTypeOK, BumpGeneration, Goto, threadVars
      <3>2. \A c \in count_cache' : Agrees(c)'
        BY <1>5, <2>4 DEF BumpGeneration, CacheTypeOK, CachesAgree
      <3>3. \A r \in Readers : pc'[r] \in {"taken", "read"} => Agrees(current[r])'
        BY <1>5, <3>1 DEF Agrees, CachesAgree, CacheTypeOK, BumpGeneration, CountCaches
      <3> QED BY <2>3, <3>1, <3>2, <3>3 DEF CachesAgree
    <2>6. GateAgrees'
      BY <1>5 DEF CacheTypeOK, GateAgrees, BumpGeneration, Goto
    <2> QED BY <2>1, <2>2, <2>5, <2>6
  <1>6. CASE DropOffsets(w)
    <2>1. CacheTypeOK'
      BY <1>6 DEF CacheTypeOK, DropOffsets, Goto, Labels, threadVars
    <2>2. Holders'
      BY <1>6 DEF CacheTypeOK, Holders, DropOffsets, Goto
    <2>3. CachesAgree'
      BY <1>6 DEF CacheTypeOK, CachesAgree, Agrees, Changing, DropOffsets, Goto, threadVars
    <2>4. GateAgrees'
      BY <1>6 DEF CacheTypeOK, GateAgrees, DropOffsets, Goto
    <2> QED BY <2>1, <2>2, <2>3, <2>4
  <1>7. CASE ClearCache(w)
    <2>1. CacheTypeOK'
      BY <1>7 DEF CacheTypeOK, ClearCache, Goto, Labels, threadVars
    <2>2. Holders'
      BY <1>7 DEF CacheTypeOK, Holders, ClearCache, Goto
    <2>3. CachesAgree'
      BY <1>7 DEF CacheTypeOK, CachesAgree, Agrees, Changing, ClearCache, Goto, threadVars
    <2>4. GateAgrees'
      BY <1>7 DEF CacheTypeOK, GateAgrees, ClearCache, Goto
    <2> QED BY <2>1, <2>2, <2>3, <2>4
  <1> QED BY <1>1, <1>2, <1>3, <1>4, <1>5, <1>6, <1>7 DEF Write

\* Stuttering changes nothing the invariant reads.
LEMMA CacheStutter == CacheInv /\ UNCHANGED vars => CacheInv'
  BY SMTT(30) DEF CacheInv, CacheTypeOK, Holders, CachesAgree, Agrees, Changing,
         GateAgrees, vars

\* The memo, the locks and the gate stay consistent in every behaviour, for
\* any set of threads.
THEOREM CacheCoherent == Spec => []CacheInv
  <1>1. CacheInv /\ [Next]_vars => CacheInv'
    BY CacheRead, CacheWrite, CacheStutter DEF Next
  <1> QED BY CacheInit, <1>1, PTL DEF Spec

\* No writer holds the offsets lock while it waits for the cache lock, so the
\* decode's cache-then-offsets order meets no opposite order.
THEOREM LocksInOrder == Spec => []LockOrder
  <1>1. CacheInv => LockOrder
    BY DEF CacheInv, Holders, LockOrder, CacheTypeOK
  <1> QED BY CacheCoherent, <1>1, PTL

\* A gate read as closed hides no committed gram: the reads that answer zero
\* without a lock lose nothing.
THEOREM ClosedGateSound == Spec => []ClosedGateMeansNoGram
  <1>1. CacheInv => ClosedGateMeansNoGram
    BY DEF CacheInv, Holders, GateAgrees, ClosedGateMeansNoGram, CacheTypeOK
  <1> QED BY CacheCoherent, <1>1, PTL

\* A decode reads the container's current gram through the memo, whatever
\* writers commit around it.
THEOREM MemoNeverStale == Spec => ReadsCurrentGram
  <1>1. ASSUME CacheInv, [Next]_vars,
               NEW r \in Readers, pc[r] = "taken", pc'[r] = "read"
        PROVE  answer'[r] = grams[asked[r]]
    <2>1. \E full \in BOOLEAN : BigramRow(r, full)
      <3>1. pc' # pc
        BY <1>1
      <3>2. \A q \in Readers : q # r => ~Read(q)
        BY <1>1 DEF CacheInv, CacheTypeOK, Read, ReadGate, LockCache,
             LockOffsets, TakeCache, BigramRow, PutCache, Again, Goto
      <3>3. \A w \in Writers : ~Write(w)
        BY <1>1, LocksAssumption DEF CacheInv, CacheTypeOK, Write, BeginWrite,
             StoreGram, MaskGrams, SetGate, BumpGeneration, DropOffsets,
             ClearCache, Goto
      <3>4. Read(r)
        BY <1>1, <3>1, <3>2, <3>3 DEF Next, vars
      <3> QED BY <1>1, <3>4 DEF CacheInv, CacheTypeOK, Read, ReadGate,
             LockCache, LockOffsets, TakeCache, PutCache, Again, Goto
    <2>2. PICK full \in BOOLEAN : BigramRow(r, full)
      BY <2>1
    <2>3. ~Changing
      BY <1>1, LocksAssumption DEF CacheInv, Holders, Changing, CacheTypeOK
    <2>4. current[r].bigram_rows[asked[r]] \in {NoGram, grams[asked[r]]}
      BY <1>1, <2>3 DEF CacheInv, CachesAgree, Agrees, CacheTypeOK
    <2> QED BY <1>1, <2>2, <2>4 DEF BigramRow, CacheInv, CacheTypeOK
  <1>2. CacheInv /\ [Next]_vars =>
          [\A r \in Readers : pc[r] = "taken" /\ pc'[r] = "read" =>
              answer'[r] = grams[asked[r]]]_vars
    BY <1>1
  <1> QED BY CacheCoherent, <1>2, PTL DEF Spec, ReadsCurrentGram
=============================================================================
