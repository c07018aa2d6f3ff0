----------------------------- MODULE MCUserGrams -----------------------------
(***************************************************************************)
(* Three tokens, two of them predecessors, 4-bit words and seeds scaled to *)
(* them: a trained frequency can reach the ceiling, wrap when doubled and  *)
(* meet the overflow guard within the bound on writes.                     *)
(***************************************************************************)
EXTENDS UserGrams

Gram(total, items) == [len |-> "whole", total |-> total, items |-> items]

Short == [len |-> "short", total |-> 0, items |-> <<>>]
Partial == [len |-> "partial", total |-> 3, items |-> <<Item(2, 3)>>]

\* A new profile; a row about to overflow; an unsorted row on which a second
\* training step misses the item it inserted though the first does not; a
\* row whose total is not the sum of its items; a value shorter than its
\* total beside a good row; a partial item.
MCProfiles ==
    { <<NoGram, NoGram>>,
      <<Gram(14, <<Item(1, 8), Item(2, 6)>>), NoGram>>,
      <<Gram(4, <<Item(3, 1), Item(1, 1), Item(3, 1), Item(1, 1)>>), NoGram>>,
      <<Gram(5, <<Item(2, 1)>>), NoGram>>,
      <<Short, Gram(2, <<Item(3, 2)>>)>>,
      <<Partial, NoGram>> }

MCSystemGrams ==
    { Gram(9, <<Item(1, 4), Item(3, 5)>>), Gram(15, <<Item(2, 15)>>) }
=============================================================================
