----------------------------- MODULE CountCache -----------------------------
(***************************************************************************)
(* The decode-time count memo of the user store and the locks around it    *)
(* (crates/oxpinyin-user/src/store.rs).                                    *)
(*                                                                         *)
(* A reader takes the cache lock and then the offsets lock; a writer takes *)
(* the offsets lock, changes the user bigram, publishes the gate and the   *)
(* generation, drops the offsets lock and only then takes the cache lock   *)
(* to clear the memo.  The two atomics `has_user_data` and                 *)
(* `write_generation` are read without a lock on the way in.  Each step    *)
(* below is one lock or atomic access.                                     *)
(*                                                                         *)
(* Several readers may share a store; a writer holds it by `&mut`, so      *)
(* today it overlaps nobody.  Next lets every thread fall between the      *)
(* steps of every other: it has all the orders of the code and more.       *)
(***************************************************************************)
EXTENDS Integers

CONSTANTS
    Readers,        \* threads inside count_delta
    Writers,        \* threads inside a mutation
    Prevs,          \* predecessors a gram is stored under
    Grams,          \* the raw grams
    NoGram,         \* no gram under this predecessor
    Nobody,         \* a lock nobody holds
    MaxWrites       \* bound on write_generation

ASSUME LocksAssumption ==
    /\ Readers \cap Writers = {}
    /\ Nobody \notin Readers \cup Writers
    /\ NoGram \notin Grams
    /\ MaxWrites \in Nat

VARIABLES
    grams,              \* StoreInner.bigram_db
    has_user_data,      \* the gate in front of the count reads
    write_generation,
    count_cache,        \* {} or {a CountCache}
    cache_lock,         \* who holds the count_cache mutex
    offsets_lock,       \* who holds the offsets mutex
    pc,                 \* where each thread stands
    asked,              \* a reader's predecessor
    current,            \* the CountCache a reader has taken
    answer              \* the gram a reader saw

vars == <<grams, has_user_data, write_generation, count_cache, cache_lock,
          offsets_lock, pc, asked, current, answer>>
threadVars == <<asked, current, answer>>

Rows == [Prevs -> Grams \cup {NoGram}]
CountCaches == [generation : Nat, bigram_rows : Rows]
NoRows == [p \in Prevs |-> NoGram]

\* CountCache::new
NewCache(g) == [generation |-> g, bigram_rows |-> NoRows]

\* open_session: the gate is recomputed from what the profile held.
Init ==
    /\ grams \in Rows
    /\ has_user_data \in BOOLEAN
    /\ (grams # NoRows) => has_user_data
    /\ write_generation = 0
    /\ count_cache = {}
    /\ cache_lock = Nobody /\ offsets_lock = Nobody
    /\ pc = [t \in Readers \cup Writers |-> "idle"]
    /\ asked \in [Readers -> Prevs]
    /\ current = [r \in Readers |-> NewCache(0)]
    /\ answer = [r \in Readers |-> NoGram]

Goto(t, label) == pc' = [pc EXCEPT ![t] = label]

-----------------------------------------------------------------------------
\* Readers: count_delta and with_count_cache.

\* A closed gate answers zero from the one atomic.
ReadGate(r, p) ==
    /\ pc[r] = "idle"
    /\ asked' = [asked EXCEPT ![r] = p]
    /\ IF has_user_data
         THEN Goto(r, "gated") /\ UNCHANGED answer
         ELSE Goto(r, "done") /\ answer' = [answer EXCEPT ![r] = NoGram]
    /\ UNCHANGED <<grams, has_user_data, write_generation, count_cache,
                   cache_lock, offsets_lock, current>>

LockCache(r) ==
    /\ pc[r] = "gated" /\ cache_lock = Nobody
    /\ cache_lock' = r
    /\ Goto(r, "cache")
    /\ UNCHANGED <<grams, has_user_data, write_generation, count_cache,
                   offsets_lock, threadVars>>

LockOffsets(r) ==
    /\ pc[r] = "cache" /\ offsets_lock = Nobody
    /\ offsets_lock' = r
    /\ Goto(r, "both")
    /\ UNCHANGED <<grams, has_user_data, write_generation, count_cache,
                   cache_lock, threadVars>>

TrustsCacheUnchecked(r) ==
    /\ pc[r] = "both"
    /\ current' = [current EXCEPT ![r] =
         IF count_cache # {} THEN CHOOSE c \in count_cache : TRUE
                             ELSE NewCache(write_generation)]
    /\ count_cache' = {}
    /\ Goto(r, "taken")
    /\ UNCHANGED <<grams, has_user_data, write_generation, cache_lock,
                   offsets_lock, asked, answer>>

\* `cache.take()`: kept when its generation is the current one.
TakeCache(r) ==
    /\ pc[r] = "both"
    /\ current' = [current EXCEPT ![r] =
         IF \E c \in count_cache : c.generation = write_generation
           THEN CHOOSE c \in count_cache : TRUE
           ELSE NewCache(write_generation)]
    /\ count_cache' = {}
    /\ Goto(r, "taken")
    /\ UNCHANGED <<grams, has_user_data, write_generation, cache_lock,
                   offsets_lock, asked, answer>>

\* CountCache::bigram_row: a memoised gram, or the container's, memoised
\* when there is one; a full memo is reset first.  Then the offsets guard
\* is dropped.
BigramRow(r, full) ==
    LET c    == current[r]
        memo == c.bigram_rows[asked[r]]
        base == IF full THEN NoRows ELSE c.bigram_rows
    IN  /\ pc[r] = "taken"
        /\ answer' = [answer EXCEPT ![r] =
                        IF memo # NoGram THEN memo ELSE grams[asked[r]]]
        /\ current' = [current EXCEPT ![r].bigram_rows =
             IF memo # NoGram \/ grams[asked[r]] = NoGram
               THEN c.bigram_rows
               ELSE [base EXCEPT ![asked[r]] = grams[asked[r]]]]
        /\ offsets_lock' = Nobody
        /\ Goto(r, "read")
        /\ UNCHANGED <<grams, has_user_data, write_generation, count_cache,
                       cache_lock, asked>>

\* The memo goes back and the cache lock is dropped with the guard.
PutCache(r) ==
    /\ pc[r] = "read"
    /\ count_cache' = {current[r]}
    /\ cache_lock' = Nobody
    /\ Goto(r, "done")
    /\ UNCHANGED <<grams, has_user_data, write_generation, offsets_lock,
                   threadVars>>

Again(r) ==
    /\ pc[r] = "done"
    /\ Goto(r, "idle")
    /\ UNCHANGED <<grams, has_user_data, write_generation, count_cache,
                   cache_lock, offsets_lock, threadVars>>

-----------------------------------------------------------------------------
\* Writers: every mutation of the session.

BeginWrite(w) ==
    /\ pc[w] = "idle" /\ offsets_lock = Nobody
    /\ write_generation < MaxWrites
    /\ offsets_lock' = w
    /\ Goto(w, "locked")
    /\ UNCHANGED <<grams, has_user_data, write_generation, count_cache,
                   cache_lock, threadVars>>

\* `store_gram` (update, set_bigram_count): the gate will be set.
StoreGram(w, p, g) ==
    /\ pc[w] = "locked"
    /\ grams' = [grams EXCEPT ![p] = g]
    /\ Goto(w, "gateOn")
    /\ UNCHANGED <<has_user_data, write_generation, count_cache, cache_lock,
                   offsets_lock, threadVars>>

MaskIgnoresGrams(w, kept, items) ==
    /\ pc[w] = "locked"
    /\ grams' = [p \in Prevs |-> IF p \in kept THEN grams[p] ELSE NoGram]
    /\ Goto(w, IF items THEN "gateOn" ELSE "gateOff")
    /\ UNCHANGED <<has_user_data, write_generation, count_cache, cache_lock,
                   offsets_lock, threadVars>>

\* A mask, a removal or a library transition: it leaves the grams of some
\* predecessors, and the gate is recomputed from them and from whether the
\* arenas and buffers still hold an item.
MaskGrams(w, kept, items) ==
    /\ pc[w] = "locked"
    /\ grams' = [p \in Prevs |-> IF p \in kept THEN grams[p] ELSE NoGram]
    /\ Goto(w, IF grams' # NoRows \/ items THEN "gateOn" ELSE "gateOff")
    /\ UNCHANGED <<has_user_data, write_generation, count_cache, cache_lock,
                   offsets_lock, threadVars>>

\* mark_committed_write, in its four steps.
SetGate(w) ==
    /\ pc[w] \in {"gateOn", "gateOff"}
    /\ has_user_data' = (pc[w] = "gateOn")
    /\ Goto(w, "bump")
    /\ UNCHANGED <<grams, write_generation, count_cache, cache_lock,
                   offsets_lock, threadVars>>

DropsGuardFirst(w) ==
    /\ pc[w] = "bump"
    /\ offsets_lock' = Nobody
    /\ Goto(w, "clear")
    /\ UNCHANGED <<grams, has_user_data, write_generation, count_cache,
                   cache_lock, threadVars>>

BumpGeneration(w) ==
    /\ pc[w] = "bump"
    /\ write_generation' = write_generation + 1
    /\ Goto(w, "drop")
    /\ UNCHANGED <<grams, has_user_data, count_cache, cache_lock,
                   offsets_lock, threadVars>>

KeepsOffsets(w) ==
    /\ pc[w] = "drop"
    /\ Goto(w, "clear")
    /\ UNCHANGED <<grams, has_user_data, write_generation, count_cache,
                   cache_lock, offsets_lock, threadVars>>

DropOffsets(w) ==
    /\ pc[w] = "drop"
    /\ offsets_lock' = Nobody
    /\ Goto(w, "clear")
    /\ UNCHANGED <<grams, has_user_data, write_generation, count_cache,
                   cache_lock, threadVars>>

ClearCache(w) ==
    /\ pc[w] = "clear" /\ cache_lock = Nobody
    /\ count_cache' = {}
    /\ Goto(w, "idle")
    /\ UNCHANGED <<grams, has_user_data, write_generation, cache_lock,
                   offsets_lock, threadVars>>

Read(r) ==
    \/ \E p \in Prevs : ReadGate(r, p)
    \/ LockCache(r) \/ LockOffsets(r) \/ TakeCache(r)
    \/ \E full \in BOOLEAN : BigramRow(r, full)
    \/ PutCache(r) \/ Again(r)
Write(w) ==
    \/ BeginWrite(w)
    \/ \E p \in Prevs, g \in Grams : StoreGram(w, p, g)
    \/ \E kept \in SUBSET Prevs, items \in BOOLEAN : MaskGrams(w, kept, items)
    \/ SetGate(w) \/ BumpGeneration(w) \/ DropOffsets(w) \/ ClearCache(w)
Next == (\E r \in Readers : Read(r)) \/ (\E w \in Writers : Write(w))
Spec == Init /\ [][Next]_vars

-----------------------------------------------------------------------------
Labels == {"idle", "gated", "cache", "both", "taken", "read", "done",
           "locked", "gateOn", "gateOff", "bump", "drop", "clear"}

\* Every variable keeps its Rust type; the memo is absent or one CountCache.
CacheTypeOK ==
    /\ grams \in Rows
    /\ has_user_data \in BOOLEAN
    /\ write_generation \in Nat
    /\ count_cache \subseteq CountCaches
    /\ \A c, d \in count_cache : c = d
    /\ cache_lock \in Readers \cup {Nobody}
    /\ offsets_lock \in Readers \cup Writers \cup {Nobody}
    /\ pc \in [Readers \cup Writers -> Labels]
    /\ asked \in [Readers -> Prevs]
    /\ current \in [Readers -> CountCaches]
    /\ answer \in [Readers -> Grams \cup {NoGram}]

\* No thread that holds the offsets lock waits for the cache lock, which is
\* what keeps a reader (cache, then offsets) and a writer (offsets, then
\* cache) from waiting on each other: mark_committed_write drops the guard
\* before it clears the memo.
LockOrder ==
    \A w \in Writers : pc[w] = "clear" => offsets_lock # w

\* A closed gate means no gram: outside a writer's own critical section,
\* `has_user_data = false` is only seen when the container is empty, so the
\* reads that answer zero without a lock lose nothing.
ClosedGateMeansNoGram ==
    (~has_user_data /\ offsets_lock \notin Writers) => grams = NoRows

\* What a decode reads through the memo is the gram the container holds at
\* that moment, never one of an older generation, whatever writers committed
\* between the gate, the two locks and the read.
ReadsCurrentGram ==
    [][\A r \in Readers : pc[r] = "taken" /\ pc'[r] = "read" =>
          answer'[r] = grams[asked[r]]]_vars

\* Why: a writer that has changed the container and not yet moved the
\* generation still holds the offsets lock, and every copy of the memo that
\* carries the current generation agrees with the container otherwise.
Changing == \E w \in Writers : pc[w] \in {"gateOn", "gateOff", "bump"}
Agrees(c) ==
    /\ c.generation <= write_generation
    /\ c.generation = write_generation /\ ~Changing =>
         \A p \in Prevs : c.bigram_rows[p] \in {NoGram, grams[p]}
Holders ==
    /\ \A r \in Readers :
         /\ (cache_lock = r) <=> pc[r] \in {"cache", "both", "taken", "read"}
         /\ (offsets_lock = r) <=> pc[r] \in {"both", "taken"}
         /\ pc[r] \in {"idle", "gated", "cache", "both", "taken", "read", "done"}
    /\ \A w \in Writers :
         /\ (offsets_lock = w) <=>
              pc[w] \in {"locked", "gateOn", "gateOff", "bump", "drop"}
         /\ pc[w] \in {"idle", "locked", "gateOn", "gateOff", "bump", "drop", "clear"}
CachesAgree ==
    /\ \A c \in count_cache : Agrees(c)
    /\ \A r \in Readers :
         /\ pc[r] \in {"taken", "read"} => Agrees(current[r])
         /\ pc[r] = "taken" => current[r].generation = write_generation
GateAgrees ==
    /\ ~has_user_data => grams = NoRows \/ \E w \in Writers : pc[w] = "gateOn"
    /\ \A w \in Writers : pc[w] = "gateOff" => grams = NoRows

\* The inductive invariant: who holds which lock, that every copy of the
\* memo agrees with the container at its own generation, and that the gate
\* closes only over an empty container.
CacheInv == CacheTypeOK /\ Holders /\ CachesAgree /\ GateAgrees
=============================================================================
