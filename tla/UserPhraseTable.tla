--------------------------- MODULE UserPhraseTable ---------------------------
(***************************************************************************)
(* The user phrase table: tokens by phrase text                            *)
(* (crates/oxpinyin-user/src/user_phrase_table.rs, phrase_table.rs).       *)
(*                                                                         *)
(* rows maps each stored text to its tokens, `torn` are the texts whose    *)
(* record came from disk with half a token at its end.                     *)
(***************************************************************************)
LOCAL INSTANCE Naturals
LOCAL INSTANCE SequencesExt

CONSTANTS TextOrder     \* every text and prefix, in the walk's byte order

contains_key(table, text) == text \in DOMAIN table.rows
tokens(table, text) == IF contains_key(table, text) THEN table.rows[text] ELSE <<>>

\* PhraseTableEntry::add_index: before the first greater token; an equal one
\* is found only before it.
add_index(row, token) ==
    LET stops == {n \in 1..Len(row) + 1 : n = Len(row) + 1 \/ row[n] >= token}
        at == CHOOSE n \in stops : \A m \in stops : n <= m
    IN  IF at <= Len(row) /\ row[at] = token THEN row
        ELSE InsertAt(row, at, token)

RemovesLast(row, token) ==
    LET hits == {n \in DOMAIN row : row[n] = token}
        at == CHOOSE n \in hits : \A m \in hits : n >= m
    IN  IF hits = {} \/ at # Len(row) THEN row ELSE RemoveAt(row, at)

\* PhraseTableEntry::remove_index: the first occurrence.
remove_index(row, token) ==
    LET hits == {n \in DOMAIN row : row[n] = token}
        at == CHOOSE n \in hits : \A m \in hits : n <= m
    IN  IF hits = {} THEN row ELSE RemoveAt(row, at)

check_add(table, text) == text \notin table.torn
check_mask(table) == table.torn = {}

add(table, text, token) ==
    LET held == {n \in 1..Len(text) - 1 : contains_key(table, SubSeq(text, 1, n))}
        down == IF held = {} THEN 1
                ELSE 1 + CHOOSE n \in held : \A m \in held : m <= n
        new == IF contains_key(table, text) THEN {}
               ELSE {SubSeq(text, 1, n) : n \in down..Len(text) - 1}
        row == add_index(tokens(table, text), token)
    IN  [table EXCEPT !.rows = [k \in DOMAIN @ \cup {text} \cup new |->
            IF k = text THEN row ELSE IF k \in new THEN <<>> ELSE @[k]]]

remove(table, text, token) ==
    IF contains_key(table, text)
      THEN [table EXCEPT !.rows[text] = remove_index(@, token)]
      ELSE table

\* set_content then mask_out: the reused entry never shrinks to a shorter
\* record, so its tail is written back too.
mask(table, masked, entry_reused) ==
    LET order == SelectSeq(TextOrder, LAMBDA k : contains_key(table, k))
        step(x, text) ==
          LET chunk == IF entry_reused THEN x.chunk ELSE <<>>
              full == table.rows[text]
              over == full \o SubSeq(chunk, Len(full) + 1, Len(chunk))
              row == SelectSeq(over, LAMBDA token : token \notin masked)
          IN  [rows |-> [x.rows EXCEPT ![text] = row], chunk |-> row]
    IN  [table EXCEPT !.rows =
           FoldLeft(step, [rows |-> @, chunk |-> <<>>], order).rows]
=============================================================================
