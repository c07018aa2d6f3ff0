------------------------------ MODULE MCInstance ------------------------------
(***************************************************************************)
(* Small instances of Instance: buffers with a divided key, separators      *)
(* inside and at the end, keys whose reading depends on the options, parses *)
(* without keys, and the transformed modes whose joined text is longer than *)
(* the bytes typed.                                                         *)
(***************************************************************************)
EXTENDS Instance

\* "div" has USE_DIVIDED_TABLE, "vu" the correction of v to u.
MCWords == {"div", "vu"}

Key(start, end, syl, cut) == [start |-> start, end |-> end, syl |-> syl, cut |-> cut]
Read(mode, input, words, bytes, parsed, keys) ==
  {Retained([mode |-> mode, input |-> input, word |-> w, divided |-> w = "div",
             bytes |-> bytes, parsed |-> parsed, keys |-> keys, cols |-> <<>>])
     : w \in words}

\* Letters that no offset falls between stand as one.
Xian == <<"xi", "an">>
Ni == <<"ni">>

FullParses ==
  Read("full", "", MCWords, <<>>, 0, <<>>)
  \union Read("full", "'", MCWords, <<Sep>>, 1, <<>>)
  \union Read("full", "ni'jv", {"div"}, Ni \o <<Sep, "jv">>, 2, <<Key(0, 1, Ni, 0)>>)
  \union Read("full", "ni'jv", {"vu"}, Ni \o <<Sep, "jv">>, 3,
              <<Key(0, 1, Ni, 0), Key(2, 3, <<"ju">>, 0)>>)
  \union Read("full", "n", {"div"}, <<"n">>, 0, <<>>)
  \union Read("full", "n", {"vu"}, <<"n">>, 1, <<Key(0, 1, <<"n">>, 0)>>)

TransformedParses ==
  Read("index", "hsian'ni", MCWords, <<"h", "s", "ian", Sep, "ni">>, 5,
       <<Key(0, 3, Xian, 1), Key(4, 5, Ni, 0)>>)
  \union Read("double", "!", MCWords, <<"!">>, 0, <<>>)
  \union Read("zhuyin", "su5", MCWords, <<"s", "u", "5">>, 3,
              <<Key(0, 2, Ni, 0), Key(2, 3, <<"zh", "i">>, 0)>>)

MCParses == FullParses \union TransformedParses

================================================================================
