-------------------------------- MODULE Instance --------------------------------
(***************************************************************************)
(* One instance of the C ABI between its calls: crates/oxpinyin-facade/src/ *)
(* instance.rs and parse.rs under crates/oxpinyin-capi/src.  A frontend     *)
(* parses a buffer in one of four modes, asks for candidates at an offset,  *)
(* chooses one of the rows it was shown and goes on from the offset the     *)
(* call answered, or moves its cursor over the keys.  The rows shown, the   *)
(* window they were taken from, the parse and the session are replaced by   *)
(* different calls, and the live options by a call on the context.          *)
(*                                                                         *)
(* The session is what Session promises: the input, the forced runs, the    *)
(* composition offset and the span of the sentence rows.  The dictionary    *)
(* holds a phrase for every path of keys, and an addon phrase for the       *)
(* longest.                                                                 *)
(***************************************************************************)
EXTENDS Offsets

CONSTANTS Words,     \* the option words
          Parses,    \* what the parsers answer: [mode, input, word, ...] records
          MaxForced, \* bound on the forced runs
          MaxEvents  \* bound on parses, option changes and failed reads, together

VARIABLES live,    \* LiveOptions: the option word of the context
          parse,   \* the stored parse of a transformed mode, or NoParse
          plen,    \* parsed_len
          sess,    \* the session
          window,  \* anchored_window, or NoWindow
          shown,   \* the candidate snapshot
          front,   \* the frontend: its cursor and what it last did
          aborted  \* whether the process has aborted

vars == <<live, parse, plen, sess, window, shown, front, aborted>>

NoParse == [mode |-> "none", input |-> "", word |-> "", divided |-> FALSE,
            bytes |-> <<>>, parsed |-> 0, keys |-> <<>>,
            cols |-> [i \in {0} |-> [ends |-> <<>>, reach |-> {}, zero |-> FALSE]]]
NoWindow == [anchor |-> 0, rows |-> <<>>, held |-> FALSE]

\* A parse: the bytes typed, the keys found in them, and a column for every offset.
Letters == {Sep} \union STRING
Keys == [start : Nat, end : Nat, syl : Seq(Letters), cut : Nat]
IsParse(p) ==
  /\ p = [mode |-> p.mode, input |-> p.input, word |-> p.word, divided |-> p.divided,
          bytes |-> p.bytes, parsed |-> p.parsed, keys |-> p.keys, cols |-> p.cols]
  /\ p.bytes \in Seq(Letters) /\ p.parsed \in Nat /\ p.keys \in Seq(Keys)
  /\ DOMAIN p.cols = 0 .. Len(p.bytes)
  /\ \A i \in 0 .. Len(p.bytes) : p.cols[i].ends \in Seq(Nat)

\* The parsers answer every input under every word, and a column holds a key only
\* where the parse has one.
ASSUME ParsesAssumption ==
  /\ \A p \in Parses :
       /\ IsParse(p)
       /\ p.keys = <<>> => \A i \in 0 .. Len(p.bytes) : p.cols[i].ends = <<>>
  /\ \A p \in Parses, word \in Words :
       \E q \in Parses : q.mode = p.mode /\ q.input = p.input /\ q.word = word
  /\ \A p, q \in Parses : p.mode = q.mode /\ p.input = q.input => p.bytes = q.bytes

ParseOf(mode, input, word) ==
  CHOOSE p \in Parses : p.mode = mode /\ p.input = input /\ p.word = word

\* The parse the offset laws read: the stored one, else the session's own, whose
\* text is plain full pinyin to them.
ActiveOf(s) == IF parse # NoParse THEN parse
               ELSE IF s.of = NoParse THEN NoParse ELSE [s.of EXCEPT !.mode = "full"]
Active == ActiveOf(sess)

\* The session column of an offset of the typed bytes.
session_offset(offset) ==
  IF parse # NoParse
  THEN session_column(parse.keys, Boundaries(parse.keys), offset) ELSE offset

--------------------------------------------------------------------------------
\* The session.
NewSession == [of |-> NoParse, word |-> CHOOSE w \in Words : TRUE,
               consumed |-> 0, forced |-> {}, span |-> 0, sentence |-> TRUE]

SessionLen(s) == Len(s.of.bytes)

\* The letters between two columns: what a phrase there spells.
Spelling(bytes, start, end) ==
  LET letters[i \in start .. Len(bytes)] ==
        IF i = start THEN <<>>
        ELSE IF bytes[i] = Sep THEN letters[i - 1] ELSE Append(letters[i - 1], bytes[i])
  IN letters[end]

Fits(p, r) ==
  /\ r.end <= p.parsed /\ r.end \in p.cols[r.start].reach
  /\ Spelling(p.bytes, r.start, r.end) = r.token.spells

\* The composition offset re-derived from the forced runs.
Rebuilt(p, forced) == Lesser(Max({0} \union {r.end : r \in forced}), Len(p.bytes))

\* replace_raw: restored from the forcings when the input was empty, and
\* re-derived from the ones that fit when the selected bytes changed.
replace_raw(s, p) ==
  LET continuous == /\ s.consumed <= Len(p.bytes)
                    /\ SubSeq(p.bytes, 1, s.consumed) = SubSeq(s.of.bytes, 1, s.consumed)
      refilled == IF s.of.bytes = <<>> /\ p.bytes # <<>> /\ s.forced # {}
                  THEN Rebuilt(p, s.forced) ELSE Lesser(s.consumed, Len(p.bytes))
  IN [s EXCEPT !.of = p,
               !.consumed = IF continuous \/ refilled = 0 THEN refilled
                            ELSE Rebuilt(p, {r \in s.forced : Fits(p, r)})]

\* set_options: plain full pinyin is parsed again under the new word, and keys
\* that came parsed keep their spans.
set_options(s, word) ==
  LET p == s.of
      q == [p EXCEPT !.divided = ParseOf(p.mode, p.input, word).divided]
  IN [s EXCEPT !.word = word,
               !.of = IF p.mode = "none" \/ s.word = word THEN p
                      ELSE IF p.mode = "full" THEN ParseOf("full", p.input, word)
                      ELSE IF Divides(q) = Divides(p) THEN q ELSE Retained(q)]

--------------------------------------------------------------------------------
\* Candidate rows: the sentence row, the longer phrase, the phrases from the
\* longest down, and the rest of the input where no key starts.
Row(kind, token, span) == [kind |-> kind, token |-> token, span |-> span]
Token(lib, spells) == [lib |-> lib, spells |-> spells]
NoToken == Token("none", <<>>)

spans_a_matrix_key(p, offset) ==
  \/ Real(p, offset) # {}
  \/ /\ ByteAt(p.bytes, offset) = Sep /\ offset < p.parsed
     /\ \E k \in DOMAIN p.keys : p.keys[k].start <= offset

\* The ends past `from` and up to n, from the longest down.
Descending(ends, from, n) ==
  LET down[e \in from .. n] ==
        IF e = from THEN <<>>
        ELSE IF e \in ends THEN <<e>> \o down[e - 1] ELSE down[e - 1]
  IN down[n]

candidates_at(s, offset) ==
  LET order == IF offset < SessionLen(s) /\ spans_a_matrix_key(s.of, offset)
               THEN Descending(s.of.cols[offset].reach, offset, SessionLen(s)) ELSE <<>>
      longest == IF order = <<>> THEN <<>> ELSE <<Head(order)>>
      Phrases(lib, kind, es) ==
        [k \in DOMAIN es |-> Row(kind, Token(lib, Spelling(s.of.bytes, offset, es[k])),
                                 es[k] - offset)]
      sentence == IF s.span > 0 /\ s.sentence THEN <<Row("sentence", NoToken, s.span)>>
                  ELSE <<>>
      longer == IF s.of.keys = <<>> THEN <<>>
                ELSE <<Row("longer", Token("sys", <<"longer">>), 0)>>
      fallback == IF order = <<>> /\ offset < SessionLen(s)
                  THEN <<Row("fallback", NoToken, SessionLen(s) - offset)>> ELSE <<>>
  IN sentence \o longer \o Phrases("addon", "addon", longest)
       \o Phrases("sys", "phrase", order) \o fallback

--------------------------------------------------------------------------------
\* The frontend: the offset `at` it goes on from, always one a call answered;
\* whether its last parse succeeded and stands, or a guess has had plain full
\* pinyin parsed again under other options since ("none", "parsed", "remasked");
\* whether the rows it was shown are those of its last guess; and, if that was its
\* last call, its choose from them: the token of the row named, the token taken,
\* where that row ends in the session, and the offset answered.  It chooses only
\* from the rows of its last guess and goes on from the answer of a phrase; a
\* sentence row, whose answer is the parsed length, is committed.
NoChoice == [named |-> NoToken, taken |-> NoToken, end |-> 0, answer |-> -1]
NewFront == [events |-> 0, at |-> 0, input |-> "none", fresh |-> FALSE,
             choice |-> NoChoice]
Renewed(input) == [NewFront EXCEPT !.events = front.events, !.input = input]
Later == [front EXCEPT !.choice = NoChoice]
Event(f) == front.events < MaxEvents /\ front' = [f EXCEPT !.events = @ + 1]

\* A call that returns.
Alive == ~aborted /\ UNCHANGED aborted

Init ==
  /\ live \in Words
  /\ parse = NoParse /\ plen = 0 /\ sess = NewSession
  /\ window = NoWindow /\ shown = <<>>
  /\ front = NewFront /\ aborted = FALSE

\* Mutant of begin_parse: the rows of the last guess survive the parse.
BeginParseKeepsRows(p, s, n) ==
  /\ parse' = p /\ plen' = n /\ sess' = s
  /\ UNCHANGED <<window, shown>>

\* What every parse starts with: the snapshot, the window and the stored parse
\* go, the forced runs and the sentence rows stay.
begin_parse(p, s, n) ==
  /\ parse' = p /\ plen' = n /\ sess' = s
  /\ window' = NoWindow /\ shown' = <<>>

\* pinyin_parse_more_full_pinyins, _chewings and _double_pinyins.  The plain mode
\* stores no parse; a transformed parse without keys leaves the session as it is.
ParseMore(p) ==
  LET s == set_options(sess, live)
      empty == replace_raw(s, NoParse)
  IN /\ p.word = live
     /\ \/ /\ p.bytes = <<>> /\ begin_parse(NoParse, empty, 0)
        \/ /\ p.bytes # <<>> /\ p.mode = "full"
           /\ begin_parse(NoParse, replace_raw(s, p), p.parsed)
        \/ /\ p.bytes # <<>> /\ p.mode # "full"
           /\ begin_parse(p, IF p.keys = <<>> THEN s
                             ELSE replace_raw(s, exact_input(p)), p.parsed)
     /\ Event(Renewed("parsed"))
     /\ Alive /\ UNCHANGED live

\* A parse that a dictionary read ended, in set_options or in the replacement: it
\* answers 0, no parse is stored, and the session keeps its text or has the new.
ParseFails(p) ==
  LET s == set_options(sess, live)
  IN /\ p.word = live
     /\ \/ sess.word # live /\ sess.of.bytes # <<>> /\ begin_parse(NoParse, s, 0)
        \/ /\ p.keys # <<>>
           /\ begin_parse(NoParse, replace_raw(s, IF p.mode = "full" THEN p
                                                  ELSE exact_input(p)), 0)
     /\ Event(Renewed("none"))
     /\ Alive /\ UNCHANGED live

\* pinyin_set_options: the word of the context; no instance hears of it.
SetOptions(word) ==
  /\ word # live /\ live' = word
  /\ Event(Later)
  /\ Alive /\ UNCHANGED <<parse, plen, sess, window, shown>>

--------------------------------------------------------------------------------
\* The forced runs that still spell their span.
Kept(s) == {r \in s.forced : Fits(s.of, r)}

\* guess_sentence: over the whole input when runs are forced or everything is
\* selected, else over what follows the selection.
guess_sentence(s) ==
  IF s.consumed < SessionLen(s) /\ s.forced = {}
  THEN [s EXCEPT !.span = Max({0, s.of.parsed - s.consumed})]
  ELSE [s EXCEPT !.span = s.of.parsed, !.forced = Kept(s),
                 !.consumed = IF Kept(s) # s.forced \/ s.consumed = 0
                              THEN Rebuilt(s.of, Kept(s)) ELSE @]

\* pinyin_guess_sentence.
GuessSentence ==
  /\ \/ /\ ~mode_has_keys(Active)  \* discard_composition
        /\ sess' = [sess EXCEPT !.of = NoParse, !.consumed = 0, !.forced = {}]
     \/ mode_has_keys(Active) /\ sess' = guess_sentence(sess)
  /\ front' = Later
  /\ Alive /\ UNCHANGED <<live, parse, plen, window, shown>>

\* A read that fails ends it before the rows go, among the forced runs it checks,
\* in the decode, or after it in the rebuild of the list.
GuessSentenceFails ==
  LET done == guess_sentence(sess)
  IN /\ mode_has_keys(Active)
     /\ \/ sess' \in {sess, done, [done EXCEPT !.span = 0]}
        \/ \E f \in SUBSET sess.forced :
             Kept(sess) \subseteq f /\ sess' = [sess EXCEPT !.span = 0, !.forced = f]
     /\ Event(Later)
     /\ Alive /\ UNCHANGED <<live, parse, plen, window, shown>>

\* The offset a guess looks up, over the parse p; one past the end is the end.
validated_lookup_offset(p, offset) ==
  IF offset = plen + 1 THEN validate_lookup_offset(p, plen, plen)
  ELSE validate_lookup_offset(p, plen, offset)

Abort ==
  /\ ~aborted /\ aborted' = TRUE
  /\ UNCHANGED <<live, parse, plen, sess, window, shown, front>>

\* The rows listed of a window: never the raw rest of the input, and inside a key
\* only those that are not searched there.
SnapshotOf(rows, midKey) ==
  LET Listed(row) == /\ row.kind # "fallback"
                     /\ midKey => row.kind \in {"sentence", "longer"}
      listed[k \in 0 .. Len(rows)] ==
        IF k = 0 THEN <<>>
        ELSE IF Listed(rows[k])
        THEN Append(listed[k - 1], [row |-> rows[k], source |-> k])
        ELSE listed[k - 1]
  IN listed[Len(rows)]

\* pinyin_guess_candidates: the session takes the live options, and the window at
\* the offset is kept for the choose.  The sort word without sentence rows is for
\* lookups at the start.
GuessCandidates(offset, sentence) ==
  LET optioned == set_options(sess, live)
      s == [optioned EXCEPT !.sentence = sentence]
      p == ActiveOf(s)
      at == validated_lookup_offset(p, offset)
      anchor == session_offset(at)
      rows == candidates_at(s, anchor)
      midKey == parse # NoParse /\ offset_is_mid_key(parse, at)
      remasked == parse = NoParse /\ s.of # sess.of /\ front.input = "parsed"
      Heard(fresh) ==
        [Later EXCEPT !.fresh = fresh, !.input = IF remasked THEN "remasked" ELSE @]
      beyond == offset > pin_matrix_columns(p) \/ at = OutOfRange
  IN /\ sentence \/ offset = 0
     /\ \/ /\ ~mode_has_keys(Active)
           /\ window' = window /\ shown' = <<>> /\ front' = [Later EXCEPT !.fresh = FALSE]
           /\ Alive /\ UNCHANGED sess
        \/ /\ mode_has_keys(Active) /\ beyond
           /\ sess' = s /\ front' = Heard(FALSE) /\ UNCHANGED <<window, shown>>
           /\ ~aborted /\ aborted' = TRUE
        \/ /\ mode_has_keys(Active) /\ ~beyond /\ Alive
           /\ sess' = s
           /\ \/ at < 0 /\ shown' = <<>> /\ UNCHANGED window
              \/ /\ at >= 0
                 /\ window' = [anchor |-> anchor, rows |-> rows, held |-> TRUE]
                 /\ shown' = SnapshotOf(rows, midKey)
           /\ front' = Heard(shown' # <<>>)
        \/ \* a read fails: in the options, the scan, or on a listed phrase
           /\ mode_has_keys(Active) /\ Event(Heard(FALSE)) /\ Alive
           /\ \/ optioned # sess /\ sess' = optioned /\ UNCHANGED <<window, shown>>
              \/ s # optioned /\ sess' = s /\ UNCHANGED <<window, shown>>
              \/ ~beyond /\ sess' = s /\ shown' = <<>> /\ window' \in {window, NoWindow}
     /\ UNCHANGED <<live, parse, plen>>

--------------------------------------------------------------------------------
\* The forced runs after forcing `token` over [start, end).
Forcing(forced, start, end, token) ==
  {r \in forced : ~(r.start < end /\ start < r.end)}
    \union {[start |-> start, end |-> end, token |-> token]}

\* select_inner: a phrase is forced; where it starts behind the composition offset
\* that offset follows the forced runs, else it is the end of the row.
select_inner(s, anchor, row, token) ==
  LET end == Lesser(anchor + row.span, SessionLen(s))
      forced == IF token = NoToken THEN s.forced
                ELSE Forcing(s.forced, anchor, end, token)
  IN [s EXCEPT !.forced = forced,
               !.consumed = IF anchor < s.consumed /\ row.kind # "sentence"
                            THEN Rebuilt(s.of, forced) ELSE end]

\* Mutant of ChooseFrom: the row is looked up in the session's own list.
ChooseFromOwnList ==
  [anchor |-> sess.consumed, rows |-> candidates_at(sess, sess.consumed)]

\* The window a choose resolves its row in, and where that window starts.
ChooseFrom == [anchor |-> window.anchor, rows |-> window.rows]

\* The offset a choose answers for a row that ends at `end`.
AnswerOf(row, end) ==
  IF row.kind = "sentence" THEN plen
  ELSE IF parse # NoParse
  THEN original_offset(parse.keys, Boundaries(parse.keys), parse.parsed, end)
  ELSE end

\* An addon row whose phrase was added to the user library.
Promoted(row) == [row EXCEPT !.kind = "phrase", !.token.lib = "user"]

\* pinyin_choose_candidate, on the row the frontend was shown as number i.  An
\* addon phrase is promoted to the user library first, if that can be done.  A
\* longer phrase, or any without sentence rows, only trains its unigram.
Choose(i) ==
  LET named == shown[i].row
      from == ChooseFrom
      k == shown[i].source
      Trained == front' = Later /\ UNCHANGED <<sess, window>>
  IN /\ front.fresh
     /\ Alive /\ UNCHANGED <<live, parse, plen>>
     /\ \/ named.kind = "longer" /\ Trained /\ UNCHANGED shown
        \/ \E promote \in IF named.kind = "addon" THEN BOOLEAN ELSE {FALSE} :
             LET now == IF promote THEN Promoted(named) ELSE named
             IN /\ named.kind # "longer"
                /\ shown' = [shown EXCEPT ![i].row = now]
                /\ \/ ~sess.sentence /\ Trained
                   \/ \* the row or the start of the window is gone
                      /\ sess.sentence
                      /\ k \notin DOMAIN from.rows \/ from.anchor > SessionLen(sess)
                      /\ Trained
                   \/ /\ sess.sentence
                      /\ k \in DOMAIN from.rows /\ from.anchor <= SessionLen(sess)
                      /\ LET row == from.rows[k]
                             taken == IF promote THEN now.token ELSE row.token
                             end == from.anchor + row.span
                             answer == AnswerOf(now, end)
                         IN /\ sess' = select_inner(sess, from.anchor, row, taken)
                            /\ Cardinality(sess'.forced) <= MaxForced
                            /\ \/ /\ window' = NoWindow
                                  /\ front' = [front EXCEPT
                                       !.at = IF now.kind # "sentence" THEN answer ELSE @,
                                       !.fresh = FALSE,
                                       !.choice = [named |-> now.token, taken |-> taken,
                                                   end |-> end, answer |-> answer]]
                               \/ \* the list is not rebuilt: the call fails
                                  Event(Later) /\ UNCHANGED window

\* pinyin_clear_constraint: the forced run the offset lies in goes, and the
\* composition offset follows the ones left.  The rows shown stay.
ClearConstraint(offset) ==
  LET column == session_offset(offset)
      kept == {r \in sess.forced : ~(r.start <= column /\ column < r.end)}
  IN /\ kept # sess.forced
     /\ sess' = [sess EXCEPT !.forced = kept, !.consumed = Rebuilt(sess.of, kept)]
     /\ front' = Later
     /\ Alive /\ UNCHANGED <<live, parse, plen, window, shown>>

--------------------------------------------------------------------------------
\* The cursor calls, made while the parse has keys.
MovedTo(answer) ==
  /\ front' = [Later EXCEPT !.at = answer]
  /\ Alive /\ UNCHANGED <<live, parse, plen, sess, window, shown>>

\* pinyin_get_pinyin_offset, at any caret position.
LookupOffset(cursor) ==
  LET answer == lookup_offset(Active, cursor)
  IN /\ mode_has_keys(Active)
     /\ answer >= 0 /\ MovedTo(answer)

\* pinyin_get_left_pinyin_offset.
MoveLeft ==
  LET answer == left_offset(Active, front.at)
  IN /\ mode_has_keys(Active)
     /\ IF front.at > pin_matrix_columns(Active) \/ answer < 0 THEN Abort
        ELSE MovedTo(answer)

\* pinyin_get_right_pinyin_offset, while a key starts at or past the cursor.
MoveRight ==
  LET answer == right_offset(Active, front.at)
  IN /\ mode_has_keys(Active)
     /\ \E i \in DOMAIN Active.cols : i >= front.at /\ Real(Active, i) # {}
     /\ \/ front.at >= pin_matrix_columns(Active) /\ Abort
        \/ /\ front.at < pin_matrix_columns(Active) /\ answer # NoKey
           /\ IF answer < 0 THEN Abort ELSE MovedTo(answer)

\* pinyin_reset.
Reset ==
  /\ begin_parse(NoParse, [sess EXCEPT !.of = NoParse, !.consumed = 0,
                                       !.forced = {}, !.span = 0], 0)
  /\ front' = Renewed("none")
  /\ Alive /\ UNCHANGED live

Next ==
  \/ \E p \in Parses : ParseMore(p) \/ ParseFails(p)
  \/ \E word \in Words : SetOptions(word)
  \/ GuessSentence \/ GuessSentenceFails
  \/ \E offset \in {0, front.at}, sentence \in BOOLEAN : GuessCandidates(offset, sentence)
  \/ \E i \in DOMAIN shown : Choose(i)
  \/ \E offset \in {0, front.at} : ClearConstraint(offset)
  \/ \E cursor \in 0 .. Len(Active.bytes) : LookupOffset(cursor)
  \/ MoveLeft
  \/ MoveRight
  \/ Reset

Spec == Init /\ [][Next]_vars

--------------------------------------------------------------------------------
ParseStands == front.input = "parsed"

\* A choose from the rows of the last guess takes the phrase the frontend named,
\* whatever was un-forced, decoded or moved between the two calls: its
\* number is looked up in the window those rows came from (candidates.rs:478-499,
\* instance.rs:69-73).  The token is the named one too, except that an addon row
\* promoted by a choose that then failed is taken, when chosen again, with the
\* addon's token the window still holds (candidates.rs:612-614).
ChoosesWhatIsShown ==
  [][LET c == front'.choice
     IN c # front.choice /\ c # NoChoice =>
          /\ c.taken.spells = c.named.spells
          /\ c.taken = c.named \/ (c.named.lib = "user" /\ c.taken.lib = "addon")]_vars

\* The offset a choose of a phrase answers resumes where that phrase ends: the
\* next guess there starts at its end, or, where the phrase ends inside a divided
\* key of a transformed parse, at the end of that key; no key is skipped and none
\* is looked up twice (candidates.rs:502-536, offsets.rs:15-18, 121-138).
AnswerResumes ==
  LET c == front.choice
      next == session_offset(validated_lookup_offset(Active, c.answer))
  IN c.answer >= 0 /\ c.taken # NoToken /\ ParseStands =>
       IF parse = NoParse THEN next = c.end
       ELSE next = Min({b \in Range(Boundaries(parse.keys)) : b >= c.end})

\* A frontend that only passes offsets the library answered, and moves right only
\* while a key lies ahead, is never aborted, unless an option change had its plain
\* input parsed again since (sentence.rs:118-134, cursor.rs:413-426).
AnsweredNeverAborts == aborted => ~ParseStands

\* While the last parse stands, and after an option change whenever they are the
\* rows of the last guess, every phrase listed spells letters of the input: no row
\* outlives its buffer, although a parse without keys leaves the session the old
\* one (parse.rs:284-291, instance.rs:333-344).
RowsOfThisInput ==
  LET len == SessionLen(sess)
  IN ParseStands \/ front.fresh =>
       \A i \in DOMAIN shown :
         shown[i].row.kind \in {"phrase", "addon"} =>
           /\ mode_has_keys(Active)
           /\ \E start \in 0 .. len : \E end \in start .. len :
                shown[i].row.token.spells = Spelling(sess.of.bytes, start, end)

================================================================================
