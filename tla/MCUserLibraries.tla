--------------------------- MODULE MCUserLibraries ---------------------------
(***************************************************************************)
(* Two USER_FILE libraries of two slots, texts of one and two characters,  *)
(* two initials, totals of four bits.  A session opens over no chunk, over *)
(* one whose stored total lies away from its items, over a torn phrase     *)
(* record, and over a profile of three items, one with a reading that was  *)
(* never indexed.                                                          *)
(***************************************************************************)
EXTENDS UserLibraries

K1 == [i |-> 1, f |-> 1]
K2 == [i |-> 1, f |-> 2]
K3 == [i |-> 2, f |-> 1]
K0 == [i |-> 1, f |-> 0]
J0 == [i |-> 2, f |-> 0]
Entry(text, keys) == [text |-> text, keys |-> keys]

MCEntries == {Entry(<<1>>, <<K1>>), Entry(<<1>>, <<K2>>), Entry(<<1>>, <<K3>>),
              Entry(<<1, 2>>, <<K2, K1>>)}
MCAddonItems == {[text |-> <<1>>, readings |-> <<<<K1>>, <<K2>>>>]}
MCReadingOrder == <<<<K1>>, <<K2>>, <<K3>>, <<K2, K1>>>>
MCKeyOrder == <<<<K0>>, <<K0, K0>>, <<J0>>, <<K1>>, <<K2>>, <<K2, K1>>, <<K3>>>>
MCTextOrder == <<<<1>>, <<1, 2>>>>

NoRows == [rows |-> <<>>, torn |-> {}]
Fresh == [chunks |-> [l \in Libs |-> NoLibrary], table |-> NoRows, rows |-> <<>>]

SavedItem == [text |-> <<1>>, unigram |-> 3,
              prons |-> <<[keys |-> <<K1>>, freq |-> 1]>>]
Saved(total) ==
    [chunks |-> [l \in Libs |-> IF l = Addon THEN NoLibrary
                                ELSE [items |-> 1 :> SavedItem, total |-> total]],
     table |-> [NoRows EXCEPT !.rows = <<1>> :> <<Token(2, 1)>>],
     rows |-> <<K0>> :> <<Index!IndexItem(<<K1>>, Token(2, 1))>>
              @@ <<K1>> :> <<Index!IndexItem(<<K1>>, Token(2, 1))>>]
Torn == [Saved(3) EXCEPT !.table.torn = {<<1, 2>>}]

Pron(keys) == [keys |-> keys, freq |-> 4]
At(keys, token) == Index!IndexItem(keys, token)
Full ==
    LET a == Token(1, 1)  b == Token(2, 1)  c == Token(2, 2)
    IN  [chunks |->
           <<[items |-> <<[text |-> <<1>>, unigram |-> 4,
                           prons |-> <<Pron(<<K1>>), Pron(<<K2>>)>>]>>,
              total |-> 4],
             [items |-> <<[text |-> <<1>>, unigram |-> 4,
                           prons |-> <<Pron(<<K1>>), Pron(<<K3>>)>>],
                          [text |-> <<1, 2>>, unigram |-> 3,
                           prons |-> <<Pron(<<K2, K1>>)>>]>>,
              total |-> 9]>>,
         table |-> [torn |-> {},
                    rows |-> <<1>> :> <<a, b>> @@ <<1, 2>> :> <<c>>],
         rows |-> <<K0>> :> <<At(<<K1>>, a), At(<<K1>>, b), At(<<K2>>, a)>>
               @@ <<K1>> :> <<At(<<K1>>, a), At(<<K1>>, b)>>
               @@ <<K2>> :> <<At(<<K2>>, a)>>
               @@ <<K0, K0>> :> <<At(<<K2, K1>>, c)>>
               @@ <<K2, K1>> :> <<At(<<K2, K1>>, c)>>]
MCDisks == {Fresh, Saved(13), Torn, Full}
=============================================================================
