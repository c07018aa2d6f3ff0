------------------------------- MODULE MCSession -------------------------------
(***************************************************************************)
(* Small instances of Session: inputs over two keys and one letter that is *)
(* no key, and phrases that share a spelling or contain each other.        *)
(***************************************************************************)
EXTENDS Session

CONSTANTS A1, A2, B, AB, AAB   \* phrases, named for the letters they spell

MCKeys == {"a", "b"}
MCSpelling == [t \in Token |-> CASE t \in {A1, A2} -> <<"a">>
                                [] t = B -> <<"b">>
                                [] t = AB -> <<"a", "b">>
                                [] t = AAB -> <<"a", "a", "b">>]

\* Every input of keys up to MaxInput letters.
KeyInputs == UNION {[1 .. n -> MCKeys] : n \in 0 .. MaxInput}

\* A few inputs, one of them of a letter that ends the parse.
FewInputs == {<<>>, <<"a">>, <<"x">>, <<"a", "b">>}

================================================================================
