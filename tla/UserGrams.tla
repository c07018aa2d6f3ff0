------------------------------ MODULE UserGrams ------------------------------
(***************************************************************************)
(* The user bigram of a session: training, predicted selections and masks  *)
(* over the raw grams (crates/oxpinyin-user/src/store.rs, seed.rs).        *)
(*                                                                         *)
(* A sentence is trained in two passes: every step is first replayed on    *)
(* copies (check_training_step), and only when none faults are the steps   *)
(* observed.  Grams come from disk and may be malformed.  What the phrase  *)
(* index answers to a unigram add is an input here: `accepted` is its      *)
(* answer, `items` whether an arena or buffer still holds an item.         *)
(***************************************************************************)
EXTENDS SingleGram, FiniteSets

CONSTANTS
    Tokens,             \* phrase tokens, natural numbers
    Prevs,              \* the tokens that come to precede another
    Profiles,           \* the user bigrams a session may be opened with
    SystemGrams,        \* the rows the system bigram may hold
    InitialSeed, ExpandFactor, CeilingSeed,
    MaxSteps,           \* bound on the steps of one trained sentence
    MaxWrites           \* bound on write_generation

ASSUME TokensAssumption ==
    Tokens \subseteq Nat /\ Prevs \subseteq Tokens /\ MaxWrites \in Nat

VARIABLES
    grams,              \* StoreInner.bigram_db: [Prevs -> gram]
    foreign_key,        \* the container holds a key that is no token
    bigram_failed,      \* the container is the failed Berkeley DB one
    has_user_data, write_generation, dirty,
    steps,              \* checked steps of the sentence still to observe
    fault,              \* TrainingCheck.fault of the last training call
    result,             \* what the last mutation answered
    loaded              \* the grams the session was opened with (history)

vars == <<grams, foreign_key, bigram_failed, has_user_data, write_generation,
          dirty, steps, fault, result, loaded>>
fixed == <<foreign_key, bigram_failed, loaded>>

Steps == [prev : Prevs, cur : Tokens]
Empty == [p \in Prevs |-> NoGram]

Init ==
    /\ bigram_failed \in BOOLEAN
    /\ grams \in Profiles
    /\ bigram_failed => grams = Empty
    /\ foreign_key \in BOOLEAN
    /\ bigram_failed => ~foreign_key
    /\ has_user_data \in {grams # Empty \/ foreign_key, TRUE}
    /\ write_generation = 0
    /\ dirty = FALSE
    /\ steps = <<>> /\ fault = "none" /\ result = "ok"
    /\ loaded = grams

-----------------------------------------------------------------------------
\* seed.rs
Least(a, b) == IF a < b THEN a ELSE b
Most(a, b) == IF a < b THEN b ELSE a
training_seed(freq) ==
    IF freq = NoFreq THEN InitialSeed
    ELSE Least((Most(freq, InitialSeed) * ExpandFactor) % Word, CeilingSeed)
predicted_seed == InitialSeed

SkipsOverflowGuard(row, cur) ==
    LET gram == IF row = NoGram THEN new_gram ELSE row
        freq == get_freq(gram, cur)
        seed == training_seed(freq)
        grown == IF freq = NoFreq THEN insert_freq(gram, cur, 0) ELSE gram
        set  == set_freq(grown, cur, WrappingAdd(Most(freq, 0), seed))
    IN  IF set = NoGram THEN [err |-> "set_freq_miss", gram |-> NoGram]
        ELSE [err |-> "ok",
              gram |-> set_total_freq(set, Least(gram.total + seed, Word - 1))]

\* trained_gram: [err, gram], gram = NoGram when the overflow guard skips the
\* store.
trained_gram(row, cur) ==
    LET gram == IF row = NoGram THEN new_gram ELSE row
        freq == get_freq(gram, cur)
        seed == training_seed(freq)
        grown == IF freq = NoFreq THEN insert_freq(gram, cur, 0) ELSE gram
        total == WrappingAdd(gram.total, seed)
        set  == set_freq(grown, cur, WrappingAdd(Most(freq, 0), seed))
    IN  IF gram.len = "short" THEN [err |-> "short", gram |-> NoGram]
        ELSE IF seed > 0 /\ gram.total > total
          THEN [err |-> "ok", gram |-> NoGram]
        ELSE IF set = NoGram
          THEN [err |-> "set_freq_miss", gram |-> NoGram]
        ELSE [err |-> "ok", gram |-> set_total_freq(set, total)]

\* predicted_gram: no overflow guard, both fields wrap.
predicted_gram(row, cur) ==
    LET gram == IF row = NoGram THEN new_gram ELSE row
        freq == get_freq(gram, cur)
        set  == IF freq = NoFreq
                  THEN insert_freq(gram, cur, predicted_seed)
                  ELSE set_freq(gram, cur, WrappingAdd(freq, predicted_seed))
    IN  set_total_freq(set, WrappingAdd(gram.total, predicted_seed))

-----------------------------------------------------------------------------
\* bigram_row: behind the user-data gate.
bigram_row(prev) == IF has_user_data THEN grams[prev] ELSE NoGram

ChecksStoredRows(check, step) ==
    LET row == bigram_row(step.prev)
        trained == trained_gram(row, step.cur)
    IN  IF check.fault # "none" THEN check
        ELSE IF bigram_failed THEN [check EXCEPT !.fault = "failed_store"]
        ELSE IF row.len = "short" THEN [check EXCEPT !.fault = "short"]
        ELSE IF row.len = "partial" THEN [check EXCEPT !.fault = "partial"]
        ELSE IF trained.err # "ok" THEN [check EXCEPT !.fault = trained.err]
        ELSE check

\* check_training_step_with: one step on the rows the earlier steps of the
\* call left; `seen` are the predecessors replayed so far.
check_training_step(check, step) ==
    LET row == IF step.prev \in check.seen THEN check.grams[step.prev]
               ELSE bigram_row(step.prev)
        trained == trained_gram(row, step.cur)
    IN  IF check.fault # "none" THEN check
        ELSE IF bigram_failed THEN [check EXCEPT !.fault = "failed_store"]
        ELSE IF row.len = "short" THEN [check EXCEPT !.fault = "short"]
        ELSE IF row.len = "partial" THEN [check EXCEPT !.fault = "partial"]
        ELSE IF trained.err # "ok" THEN [check EXCEPT !.fault = trained.err]
        ELSE [check EXCEPT
                !.grams[step.prev] = IF trained.gram = NoGram THEN row
                                     ELSE trained.gram,
                !.seen = @ \cup {step.prev}]

\* begin_training_steps and every step's check, nothing stored.
CheckTraining(script) ==
    LET check == FoldLeft(check_training_step,
                          [grams |-> Empty, seen |-> {}, fault |-> "none"],
                          script)
    IN  /\ steps = <<>>
        /\ write_generation + Len(script) <= MaxWrites
        /\ fault' = check.fault
        /\ steps' = IF check.fault = "none" THEN script ELSE <<>>
        /\ UNCHANGED <<grams, has_user_data, write_generation, dirty, result,
                       fixed>>

\* mark_committed_write
mark_committed_write(user_data) ==
    /\ write_generation < MaxWrites
    /\ has_user_data' = user_data
    /\ write_generation' = write_generation + 1

\* update(Training) under observe_selection: the checked steps in order.
ObserveSelection ==
    LET step == Head(steps)
        row == grams[step.prev]
        trained == trained_gram(row, step.cur)
        err == IF has_partial_tail(row) THEN "partial"
               ELSE IF row.len = "short" THEN "short"
               ELSE trained.err
    IN  /\ steps # <<>>
        /\ steps' = IF err = "ok" THEN Tail(steps) ELSE <<>>
        /\ IF err # "ok"
             THEN /\ result' = err
                  /\ UNCHANGED <<grams, has_user_data, write_generation, dirty>>
             ELSE /\ grams' = IF trained.gram = NoGram \/ bigram_failed THEN grams
                              ELSE [grams EXCEPT ![step.prev] = trained.gram]
                  /\ mark_committed_write(TRUE)
                  /\ result' = IF bigram_failed /\ trained.gram # NoGram
                                 THEN "failed_store" ELSE "ok"
                  /\ dirty' = (dirty \/ result' = "ok")
        /\ UNCHANGED <<fault, fixed>>

\* update(Predicted) under observe_predicted: the unigram add comes first,
\* and its refusal leaves the gram alone.
ObservePredicted(prev, cur, accepted) ==
    LET row == grams[prev]
    IN  /\ steps = <<>>
        /\ IF has_partial_tail(row)
             THEN /\ result' = "partial"
                  /\ UNCHANGED <<grams, has_user_data, write_generation>>
             ELSE /\ mark_committed_write(TRUE)
                  /\ grams' = IF row.len = "short" \/ ~accepted \/ bigram_failed
                                THEN grams
                              ELSE [grams EXCEPT ![prev] = predicted_gram(row, cur)]
                  /\ result' = IF ~accepted THEN "overflow"
                               ELSE IF row.len = "short" THEN "short" ELSE "ok"
        /\ UNCHANGED <<dirty, steps, fault, fixed>>

\* observe_predicted_prefix trains the unigram only.
ObservePredictedPrefix(accepted) ==
    /\ steps = <<>>
    /\ mark_committed_write(TRUE)
    /\ result' = IF accepted THEN "ok" ELSE "overflow"
    /\ UNCHANGED <<grams, dirty, steps, fault, fixed>>

-----------------------------------------------------------------------------
\* gram_mask_fault_over, without its order: which fault is met first does not
\* matter, since any refuses the whole mask.
Residual(gram, masked) ==
    LET left == mask_out(gram, masked)
    IN  removes(gram, masked) /\ get_length(left) = 0 /\ left.total # 0
gram_mask_fault(masked) ==
    \/ foreign_key
    \/ \E p \in Prevs \ masked :
         \/ grams[p].len \in {"short", "partial"}
         \/ grams[p].len = "whole" /\ Residual(grams[p], masked)

KeepsEmptied(masked) ==
    [p \in Prevs |->
       IF p \in masked \/ grams[p] = NoGram THEN NoGram
       ELSE mask_out(grams[p], masked)]

\* mask_grams_over: a selected key goes, an emptied gram goes, an untouched
\* one stays as it is.
mask_grams(masked) ==
    [p \in Prevs |->
       LET left == mask_out(grams[p], masked)
       IN  IF p \in masked \/ grams[p] = NoGram THEN NoGram
           ELSE IF ~removes(grams[p], masked) THEN grams[p]
           ELSE IF get_length(left) = 0 THEN NoGram ELSE left]

ForgetsUntouched(masked) ==
    \E p \in Prevs \ masked :
        removes(grams[p], masked) /\ mask_grams(masked)[p] # NoGram

\* mask_grams_over's answer: whether a gram remains.
remaining(masked) ==
    \E p \in Prevs \ masked :
        grams[p] # NoGram /\ (removes(grams[p], masked) => mask_grams(masked)[p] # NoGram)

\* mask_out and remove_user_phrase: the bigram side.
MaskOut(masked, items) ==
    /\ steps = <<>>
    /\ IF gram_mask_fault(masked)
         THEN /\ result' = "mask_fault"
              /\ UNCHANGED <<grams, has_user_data, write_generation>>
         ELSE /\ grams' = mask_grams(masked)
              /\ mark_committed_write(remaining(masked) \/ items)
              /\ result' = "ok"
    /\ UNCHANGED <<dirty, steps, fault, fixed>>

\* replace_user_arena and apply_system_libraries: the gate is recomputed from
\* the grams and from the items the libraries hold now.
LibraryTransition(items) ==
    /\ steps = <<>>
    /\ mark_committed_write(items \/ grams # Empty \/ foreign_key)
    /\ result' = "ok"
    /\ UNCHANGED <<grams, dirty, steps, fault, fixed>>

\* A save that wrote everything.
Save ==
    /\ steps = <<>> /\ dirty
    /\ dirty' = FALSE
    /\ UNCHANGED <<grams, has_user_data, write_generation, steps, fault,
                   result, fixed>>

Scripts == UNION {[1..n -> Steps] : n \in 1..MaxSteps}
Next ==
    \/ \E script \in Scripts : CheckTraining(script)
    \/ ObserveSelection
    \/ \E prev \in Prevs, cur \in Tokens, accepted \in BOOLEAN :
          ObservePredicted(prev, cur, accepted)
    \/ \E accepted \in BOOLEAN : ObservePredictedPrefix(accepted)
    \/ \E masked \in (SUBSET Tokens) \ {{}}, items \in BOOLEAN : MaskOut(masked, items)
    \/ \E items \in BOOLEAN : LibraryTransition(items)
    \/ Save
Spec == Init /\ [][Next]_vars

-----------------------------------------------------------------------------
\* A sentence is trained whole or not at all: once check_training_step has
\* passed every step on copies, no step faults when update runs it on the
\* stored grams, though an earlier step of the same sentence has changed
\* them by then and the check read them behind the user-data gate.
CheckedStepsCommit ==
    [][steps # <<>> /\ steps' # steps => result' = "ok"]_vars

\* What the session trains and masks keeps a gram's total equal to the sum of
\* its frequencies, through every wrap and overflow guard: a gram that was
\* balanced and ordered when it was loaded, or was made here, is never left
\* by a mask with no item and a total, the state the mask refuses (and the
\* upstream library dies on).
Balanced(gram) == gram.len = "whole" => gram.total = FreqSum(gram.items) % Word
OwnGramsLeaveNoResidue ==
    \A p \in Prevs, masked \in SUBSET Tokens :
        Balanced(loaded[p]) /\ is_strictly_ordered(loaded[p]) /\ grams[p].len = "whole"
          => ~Residual(grams[p], masked)

\* An answered mask leaves no trace of a masked token: not as a predecessor,
\* not as an item of another gram; and no gram it emptied stays behind.
MaskLeavesNoTrace ==
    [][\A masked \in SUBSET Tokens, items \in BOOLEAN :
         MaskOut(masked, items) /\ result' = "ok" =>
           \A p \in Prevs :
             /\ p \in masked => grams'[p] = NoGram
             /\ \A i \in DOMAIN grams'[p].items : grams'[p].items[i].token \notin masked
             /\ get_length(grams'[p]) = 0 => get_length(grams[p]) = 0 \/ grams'[p] = NoGram
      ]_vars

\* A store without user data holds no gram, so the reads behind the gate
\* (bigram_row, count_delta, the training check) see what the ungated ones
\* see; a mask recomputes the gate from what its walk left.
GateSound == ~has_user_data => grams = Empty

\* On rows that were strictly ordered when loaded, the two reads that stand
\* for a merge (get_freq_merged, search_merged) answer what the merged row
\* would: training and masking never put a row out of order.
MergedReadsExact ==
    \A p \in Prevs, system \in SystemGrams :
        is_strictly_ordered(loaded[p]) /\ grams[p].len = "whole" =>
          LET merged == merge_single_gram(system, grams[p])
          IN  \A t, u \in Tokens :
                /\ get_freq_merged(system, grams[p], t) = get_freq(merged, t)
                /\ search_merged(system, grams[p], t, u) = search(merged, t, u)
=============================================================================
