-------------------------- MODULE MCSubIndexJournal --------------------------
EXTENDS SubIndexJournal, TLC

Item(u, c) == [unigram |-> u, prons |-> <<[keys |-> "p", freq |-> c]>>]
Long(u, c) == [unigram |-> u, prons |-> <<[keys |-> "p", freq |-> c],
                                          [keys |-> "q", freq |-> 1]>>]
Short == [unigram |-> 7, prons |-> <<>>]
Add(s, i) == [kind |-> "ADD", slot |-> s, new |-> i, short |-> FALSE]
ShortAdd(s) == [kind |-> "ADD", slot |-> s, new |-> Item(0, 0), short |-> TRUE]
Remove_(s, i) == [kind |-> "REMOVE", slot |-> s, old |-> i, short |-> FALSE]
ShortRemove(s) == [kind |-> "REMOVE", slot |-> s, old |-> Short, short |-> TRUE]
Modify(s, i, j) ==
    [kind |-> "MODIFY", slot |-> s, old |-> i, new |-> j, short |-> FALSE]
Header(a, b) == [kind |-> "HEADER", old |-> a, new |-> b]

\* A chunk with a hole at 2, one of its total not the sum of its items, and
\* the chunk an upgrade installs.
Shipped == [items |-> (1 :> Item(1, 1)) @@ (3 :> Long(2, 1)), words |-> 4, total |-> 4]
Upgraded == [items |-> (1 :> Item(1, 1)) @@ (2 :> Item(3, 2)), words |-> 3, total |-> 4]

MCChunks == {Shipped, Upgraded}
MCMasks == {[libs |-> {1}, slots |-> {1}], [libs |-> {1}, slots |-> {2, 3, 4}],
            [libs |-> {}, slots |-> {1}]}

Records == {Header(4, 6), Header(5, 6), Add(2, Item(2, 0)), Add(1, Long(0, 0)),
            ShortAdd(4), Remove_(1, Item(1, 1)),
            Remove_(1, Item(1, 2)), Remove_(2, Item(2, 0)),
            ShortRemove(2), Modify(1, Item(1, 1), Item(1, 2)),
            Modify(1, Item(1, 1), Long(3, 1)), Modify(3, Long(2, 1), Item(2, 3)),
            Modify(2, Item(2, 0), Item(2, 1))}
\* One record, and sequences that write a slot again, take an item out of it
\* and put one back, or turn exceptional after a plain MODIFY.
Bodies == {<<>>} \cup {<<r>> : r \in Records}
    \cup {<<Header(4, 6), Modify(1, Item(1, 1), Item(1, 2)), r>> :
            r \in {Add(2, Item(2, 0)), Remove_(1, Item(1, 2)), Header(5, 6)}}
    \cup {<<Add(2, Item(2, 0)), Remove_(2, Item(2, 0))>>,
          <<Add(2, Item(2, 0)), Modify(2, Item(2, 0), Item(2, 1))>>,
          <<Remove_(1, Item(1, 1)), Add(1, Long(0, 0))>>,
          <<Remove_(3, Long(2, 1)), Modify(1, Item(1, 1), Long(3, 1))>>}

MCLogs == {[records |-> b, end |-> "clean"] : b \in Bodies}
            \cup {[records |-> b, end |-> e] :
                    b \in {<<Add(2, Item(2, 0))>>,
                           <<Header(4, 6), Modify(1, Item(1, 1), Item(1, 2))>>},
                    e \in {"over_read", "unknown"}}
            \cup {[records |-> <<Header(4, 6)>>, end |-> "header_token"]}
=============================================================================
