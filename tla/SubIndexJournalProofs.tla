------------------------ MODULE SubIndexJournalProofs ------------------------
(***************************************************************************)
(* RemovedExactly and AddedExactly for every set of libraries, chunks and  *)
(* journals, whatever records a journal holds and in whatever order (Inv), *)
(* and SavedItemsComeBack and MaskRestores, which rest on what a journal   *)
(* says of the chunk it was written against (JournalInv).                  *)
(***************************************************************************)
EXTENDS SubIndexJournal, WellFoundedInduction, TLAPS

IsBuffer(b) ==
    DOMAIN b = {"items", "total", "words", "absent", "present",
                "has_added_items", "removed", "shipped"}

\* What the provenance sets know of the chunk: `absent` only slots it has no
\* item in, `present` only slots it has one in, and every slot that no longer
\* answers for itself is in the set that answers for it.
Provenance(b) ==
    /\ \A s \in DOMAIN b.shipped : loaded(b, s) /\ s \notin b.absent
    /\ b.present \subseteq DOMAIN b.shipped
    /\ \A s \in DOMAIN b.items \ DOMAIN b.shipped : ~loaded(b, s) \/ s \in b.absent
    /\ DOMAIN b.shipped \ DOMAIN b.items \subseteq b.present

Flags(b) ==
    /\ ~b.removed => DOMAIN b.shipped \subseteq DOMAIN b.items
    /\ ~b.has_added_items => DOMAIN b.items \subseteq DOMAIN b.shipped

BufferInv(b) == IsBuffer(b) /\ Provenance(b) /\ Flags(b)

IsMerge(m) ==
    DOMAIN m = {"b", "exceptional", "modified", "touched", "stop"}

\* Until the first exceptional record no slot has gained or lost an item, and
\* from then on every slot that did is among the touched ones.
MergeInv(m) ==
    /\ IsMerge(m) /\ IsBuffer(m.b) /\ Provenance(m.b)
    /\ ~m.exceptional => /\ DOMAIN m.b.items = DOMAIN m.b.shipped
                         /\ m.modified \subseteq DOMAIN m.b.shipped
    /\ DOMAIN m.b.shipped \ DOMAIN m.b.items \subseteq m.touched
    /\ DOMAIN m.b.items \ DOMAIN m.b.shipped \subseteq m.touched

IsReplay(r) ==
    DOMAIN r = {"kind", "todo", "mask", "stop", "at", "merging", "m", "records",
                "end", "replayed"}

\* A library still to be replayed is as it was mapped, and the one being
\* merged is no longer among them.
ReplayInv(r) ==
    /\ IsReplay(r)
    /\ DOMAIN r.replayed \subseteq Libs /\ r.todo \subseteq DOMAIN r.replayed
    /\ \A l \in DOMAIN r.replayed : BufferInv(r.replayed[l])
    /\ \A l \in r.todo : DOMAIN r.replayed[l].items = DOMAIN r.replayed[l].shipped
    /\ r.merging => MergeInv(r.m) /\ r.at \in DOMAIN r.replayed \ r.todo

SessionInv(buffers, flag) ==
    /\ DOMAIN buffers \subseteq Libs
    /\ \A l \in DOMAIN buffers : BufferInv(buffers[l])
    /\ AnyRemoved(buffers) => flag

Inv ==
    /\ chunk \in [Libs -> Chunks]
    /\ SessionInv(live, has_removed_system_items)
    /\ ~Idle => ReplayInv(replay)

-----------------------------------------------------------------------------
\* A freshly mapped chunk has nothing recorded and nothing to record.
LEMMA MappingInv ==
    ASSUME NEW c \in Chunks
    PROVE  BufferInv(from_mapping(c))
BY JournalAssumption,
   Zenon DEF from_mapping, BufferInv, IsBuffer, Provenance, Flags, loaded

\* What a classification leaves alone.
SameItems(b, n) ==
    /\ n.items = b.items /\ n.shipped = b.shipped /\ n.words = b.words
    /\ n.removed = b.removed /\ n.has_added_items = b.has_added_items

\* A slot's first classification is right: absent for one the chunk has no
\* item in and the buffer none either, present for one with an item that is
\* not an added one.
LEMMA NoteAbsentInv ==
    ASSUME NEW b, NEW s, IsBuffer(b), Provenance(b), s \notin DOMAIN b.items
    PROVE  LET n == note_absent(b, s)
           IN  /\ IsBuffer(n) /\ Provenance(n)
               /\ SameItems(b, n) /\ n.present = b.present
               /\ s \in DOMAIN b.shipped \/ ~loaded(b, s) \/ s \in n.absent
BY Zenon DEF note_absent, Classified, IsBuffer, Provenance, loaded, SameItems

\* Noting a shipped slot keeps the provenance (note_present).
LEMMA NotePresentInv ==
    ASSUME NEW b, NEW s, IsBuffer(b), Provenance(b), s \in DOMAIN b.items
    PROVE  LET n == note_present(b, s)
           IN  /\ IsBuffer(n) /\ Provenance(n)
               /\ SameItems(b, n) /\ n.absent = b.absent
               /\ s \in DOMAIN b.shipped => s \in n.present
BY Zenon DEF note_present, Classified, IsBuffer, Provenance, loaded, SameItems

-----------------------------------------------------------------------------
\* Turning exceptional records the slots of the plain MODIFYs, which all held
\* a shipped item.
LEMMA BeginExceptionalInv ==
    ASSUME NEW m, MergeInv(m)
    PROVE  LET e == begin_exceptional(m)
           IN  MergeInv(e) /\ e.exceptional /\ e.b.items = m.b.items
<1> DEFINE e == begin_exceptional(m)
<1>1. CASE m.exceptional
  BY <1>1, Zenon DEF begin_exceptional
<1>2. CASE ~m.exceptional
  <2> DEFINE back == {s \in m.modified : loaded(m.b, s) /\ s \notin m.b.absent}
  <2>1. /\ m.modified \subseteq DOMAIN m.b.shipped
        /\ DOMAIN m.b.items = DOMAIN m.b.shipped
    BY <1>2, Zenon DEF MergeInv
  <2>2. /\ IsMerge(e) /\ e.exceptional /\ e.touched = m.touched \cup m.modified
        /\ e.b = [m.b EXCEPT !.present = @ \cup back]
    BY <1>2, Zenon DEF begin_exceptional, MergeInv, IsMerge
  <2> HIDE DEF e, back
  <2>3. /\ IsBuffer(e.b) /\ e.b.items = m.b.items /\ e.b.shipped = m.b.shipped
        /\ e.b.words = m.b.words /\ e.b.absent = m.b.absent
        /\ e.b.present = m.b.present \cup back
    BY <2>2, Zenon DEF MergeInv, IsBuffer
  <2>4. back \subseteq DOMAIN m.b.shipped
    BY <2>1, Zenon DEF back
  <2>5. Provenance(e.b)
    BY <2>1, <2>3, <2>4, Zenon DEF MergeInv, Provenance, loaded
  <2>6. MergeInv(e)
    BY <2>1, <2>2, <2>3, <2>5, Zenon DEF MergeInv
  <2> QED
    BY <2>2, <2>3, <2>6, Zenon DEF e
<1> QED
  BY <1>1, <1>2, Zenon

\* A merge that turned exceptional and whose new buffer gained or lost at
\* most one slot, which it touches.
LEMMA TouchedInv ==
    ASSUME NEW e, NEW x, NEW s, MergeInv(e), e.exceptional, IsMerge(x),
           x.exceptional, x.touched = e.touched \cup {s},
           IsBuffer(x.b), Provenance(x.b), x.b.shipped = e.b.shipped,
           DOMAIN x.b.items \subseteq DOMAIN e.b.items \cup {s},
           DOMAIN e.b.items \subseteq DOMAIN x.b.items \cup {s}
    PROVE  MergeInv(x)
BY Zenon DEF MergeInv

\* An ADD record keeps the facts of a merge of one library.
LEMMA AddRecordInv ==
    ASSUME NEW m, NEW r, MergeInv(m)
    PROVE  MergeInv(AddRecord(m, r))
<1> DEFINE e == begin_exceptional(m)
           n == IF r.slot \in DOMAIN e.b.items THEN e.b ELSE note_absent(e.b, r.slot)
           x == AddRecord(m, r)
<1>1. CASE r.short
  BY <1>1, Zenon DEF AddRecord, MergeInv, IsMerge
<1>2. CASE ~r.short
  <2>1. MergeInv(e) /\ e.exceptional
    BY BeginExceptionalInv, Zenon
  <2> DEFINE b == [n EXCEPT !.items = Put(@, r.slot, r.new),
                            !.total = add32(@, r.new.unigram)]
  <2>2. x = [e EXCEPT !.touched = @ \cup {r.slot}, !.b = b]
    BY <1>2, Zenon DEF AddRecord
  <2> HIDE DEF x, e
  <2>3. /\ IsBuffer(n) /\ Provenance(n) /\ SameItems(e.b, n) /\ n.present = e.b.present
        /\ \/ r.slot \in DOMAIN e.b.items
           \/ r.slot \in DOMAIN e.b.shipped \/ ~loaded(e.b, r.slot) \/ r.slot \in n.absent
    <3>1. CASE r.slot \in DOMAIN e.b.items
      BY <2>1, <3>1, Zenon DEF MergeInv, SameItems
    <3>2. CASE r.slot \notin DOMAIN e.b.items
      <4>1. IsBuffer(e.b) /\ Provenance(e.b)
        BY <2>1, Zenon DEF MergeInv
      <4> QED
        BY <3>2, <4>1, NoteAbsentInv, Zenon
    <3> QED
      BY <3>1, <3>2, Zenon
  <2> HIDE DEF n
  <2>4. /\ IsBuffer(b) /\ b.items = Put(n.items, r.slot, r.new)
        /\ b.shipped = n.shipped /\ b.words = n.words
        /\ b.absent = n.absent /\ b.present = n.present
    BY <2>3, Zenon DEF IsBuffer
  <2>5. DOMAIN b.items = DOMAIN n.items \cup {r.slot}
    BY <2>4, Zenon DEF Put
  <2> HIDE DEF b
  <2>6. Provenance(b)
    BY <2>1, <2>3, <2>4, <2>5, SMTT(30) DEF Provenance, loaded, MergeInv, SameItems
  <2>7. /\ IsMerge(x) /\ x.b = b /\ x.touched = e.touched \cup {r.slot}
        /\ x.exceptional
    BY <2>1, <2>2, Zenon DEF MergeInv, IsMerge
  <2> QED
    BY <2>1, <2>3, <2>4, <2>5, <2>6, <2>7, TouchedInv, Zenon DEF SameItems, x
<1> QED
  BY <1>1, <1>2, Zenon

\* A REMOVE record keeps them.
LEMMA RemoveRecordInv ==
    ASSUME NEW m, NEW r, MergeInv(m)
    PROVE  MergeInv(RemoveRecord(m, r))
<1> DEFINE e == begin_exceptional(m)
           x == RemoveRecord(m, r)
<1>0. /\ MergeInv(e) /\ e.exceptional /\ e.b.items = m.b.items
      /\ IsBuffer(e.b) /\ Provenance(e.b)
  BY BeginExceptionalInv, Zenon DEF MergeInv
<1>1. CASE r.slot \notin DOMAIN m.b.items /\ r.short
  BY <1>1, Zenon DEF RemoveRecord, Mismatch, MergeInv, IsMerge
<1>2. CASE r.slot \notin DOMAIN m.b.items /\ ~r.short
  <2> DEFINE n == note_absent(e.b, r.slot)
  <2>2. x = [e EXCEPT !.touched = @ \cup {r.slot}, !.b = n]
    BY <1>0, <1>2, Zenon DEF RemoveRecord
  <2> HIDE DEF e, x
  <2>1. IsBuffer(n) /\ Provenance(n) /\ SameItems(e.b, n)
    BY <1>0, <1>2, NoteAbsentInv, Zenon
  <2> HIDE DEF n
  <2>4. /\ IsMerge(x) /\ x.b = n /\ x.touched = e.touched \cup {r.slot}
        /\ x.exceptional
    BY <1>0, <2>2, Zenon DEF MergeInv, IsMerge
  <2> QED
    BY <1>0, <2>1, <2>4, TouchedInv, Zenon DEF SameItems, x
<1>3. CASE r.slot \in DOMAIN m.b.items
  <2> DEFINE n == note_present(e.b, r.slot)
             old == m.b.items[r.slot]
             b == [n EXCEPT !.items = Without(@, r.slot),
                            !.total = sub32(@, old.unigram)]
             stop == IF old = r.old THEN "none" ELSE "mismatch"
  <2>2. x = [e EXCEPT !.touched = @ \cup {r.slot}, !.b = b, !.stop = stop]
    BY <1>3, Zenon DEF RemoveRecord
  <2> HIDE DEF e, x, stop
  <2>1. /\ IsBuffer(n) /\ Provenance(n) /\ SameItems(e.b, n) /\ n.absent = e.b.absent
        /\ r.slot \in DOMAIN e.b.shipped => r.slot \in n.present
    BY <1>0, <1>3, NotePresentInv, Zenon
  <2> HIDE DEF n
  <2>4. /\ IsBuffer(b) /\ b.items = Without(n.items, r.slot)
        /\ b.shipped = n.shipped /\ b.words = n.words
        /\ b.absent = n.absent /\ b.present = n.present
    BY <2>1, Zenon DEF IsBuffer
  <2>5. DOMAIN b.items = DOMAIN n.items \ {r.slot}
    BY <2>4, Zenon DEF Without
  <2> HIDE DEF b
  <2>6. Provenance(b)
    BY <2>1, <2>4, <2>5, Zenon DEF Provenance, loaded, SameItems
  <2>7. /\ IsMerge(x) /\ x.b = b /\ x.touched = e.touched \cup {r.slot}
        /\ x.exceptional
    BY <1>0, <2>2, Zenon DEF MergeInv, IsMerge
  <2> QED
    BY <1>0, <2>1, <2>4, <2>5, <2>6, <2>7, TouchedInv, Zenon DEF SameItems, x
<1> QED
  BY <1>1, <1>2, <1>3, Zenon

\* A MODIFY keeps the slots with an item; a plain one is remembered for the
\* first exceptional record to ask back.
LEMMA ModifyRecordInv ==
    ASSUME NEW m, NEW r, MergeInv(m)
    PROVE  MergeInv(ModifyRecord(m, r))
<1> DEFINE e == IF size(r.new) = size(r.old) THEN m ELSE begin_exceptional(m)
           n == IF e.exceptional THEN note_present(e.b, r.slot) ELSE e.b
           t == IF e.exceptional THEN {r.slot} ELSE {}
           total == IF size(r.new) > size(r.old)
                      THEN add32(sub32(n.total, r.old.unigram), r.new.unigram)
                      ELSE n.total
           b == [n EXCEPT !.items[r.slot] = r.new, !.total = total]
           x == ModifyRecord(m, r)
<1>1. CASE r.slot \notin DOMAIN m.b.items \/ m.b.items[r.slot] # r.old
  BY <1>1, Zenon DEF ModifyRecord, Mismatch, MergeInv, IsMerge
<1>2. CASE r.slot \in DOMAIN m.b.items /\ m.b.items[r.slot] = r.old
  <2>1. MergeInv(e) /\ e.b.items = m.b.items /\ IsBuffer(e.b) /\ Provenance(e.b)
    BY BeginExceptionalInv, Zenon DEF MergeInv
  <2>2. x = [e EXCEPT !.touched = @ \cup t, !.modified = @ \cup {r.slot}, !.b = b]
    BY <1>2, Zenon DEF ModifyRecord
  <2> HIDE DEF e, x
  <2>3. IsBuffer(n) /\ Provenance(n) /\ SameItems(e.b, n)
    BY <1>2, <2>1, NotePresentInv DEF SameItems
  <2> HIDE DEF n, total
  <2>4. /\ IsBuffer(b) /\ b.shipped = n.shipped /\ b.words = n.words
        /\ b.absent = n.absent /\ b.present = n.present
        /\ b.items = [n.items EXCEPT ![r.slot] = r.new]
    BY <2>3, Zenon DEF IsBuffer
  <2>5. DOMAIN b.items = DOMAIN n.items
    BY <2>4, Zenon
  <2> HIDE DEF b, t
  <2>6. Provenance(b)
    BY <2>3, <2>4, <2>5, Zenon DEF Provenance, loaded
  <2>7. /\ IsMerge(x) /\ x.b = b /\ x.touched = e.touched \cup t
        /\ x.exceptional = e.exceptional /\ x.modified = e.modified \cup {r.slot}
    BY <2>1, <2>2, Zenon DEF MergeInv, IsMerge
  <2>8. MergeInv(x)
    BY <1>2, <2>1, <2>3, <2>4, <2>5, <2>6, <2>7, SMTT(30) DEF MergeInv, SameItems
  <2> QED
    BY <2>8, Zenon DEF x
<1> QED
  BY <1>1, <1>2, Zenon

\* So does a record of the header.
LEMMA HeaderRecordInv ==
    ASSUME NEW m, NEW r, MergeInv(m)
    PROVE  MergeInv(HeaderRecord(m, r))
<1> DEFINE x == HeaderRecord(m, r)
<1>1. CASE m.b.total # r.old
  BY <1>1, Zenon DEF HeaderRecord, Mismatch, MergeInv, IsMerge
<1>2. CASE m.b.total = r.old
  <2>1. /\ IsMerge(x) /\ x.b = [m.b EXCEPT !.total = r.new]
        /\ x.exceptional = m.exceptional /\ x.modified = m.modified
        /\ x.touched = m.touched
    BY <1>2, Zenon DEF HeaderRecord, MergeInv, IsMerge
  <2> HIDE DEF x
  <2>2. /\ IsBuffer(x.b) /\ x.b.items = m.b.items /\ x.b.shipped = m.b.shipped
        /\ x.b.words = m.b.words /\ x.b.absent = m.b.absent
        /\ x.b.present = m.b.present
    BY <2>1, Zenon DEF MergeInv, IsBuffer
  <2>3. Provenance(x.b)
    BY <2>2, Zenon DEF MergeInv, Provenance, loaded
  <2>4. MergeInv(x)
    BY <2>1, <2>2, <2>3, Zenon DEF MergeInv
  <2> QED
    BY <2>4, Zenon DEF x
<1> QED
  BY <1>1, <1>2, Zenon

\* Every record of a journal, in any order, keeps the merge's invariant.
LEMMA RecordInv ==
    ASSUME NEW m, NEW r, MergeInv(m)
    PROVE  MergeInv(apply_backfilling(m, r))
BY AddRecordInv, RemoveRecordInv, ModifyRecordInv, HeaderRecordInv
  , Zenon DEF apply_backfilling

\* A merge over an untouched mapping starts with the invariant.
LEMMA FromLiveInv ==
    ASSUME NEW b, IsBuffer(b), Provenance(b), DOMAIN b.items = DOMAIN b.shipped
    PROVE  MergeInv(from_live(b))
BY Zenon DEF from_live, MergeInv, IsMerge

\* The touched slots are enough for finish_live_owner: a slot that gained or
\* lost its item is one of them.
LEMMA FinishInv ==
    ASSUME NEW m, MergeInv(m)
    PROVE  BufferInv(finish_live_owner(m))
<1> DEFINE f == finish_live_owner(m)
<1>1. /\ IsBuffer(f) /\ f.items = m.b.items /\ f.shipped = m.b.shipped
      /\ f.words = m.b.words /\ f.absent = m.b.absent /\ f.present = m.b.present
      /\ f.removed = (\E s \in m.touched : /\ s \notin DOMAIN m.b.items
                                           /\ loaded(m.b, s) /\ s \notin m.b.absent)
      /\ f.has_added_items = (\E s \in m.touched :
                                /\ s \in DOMAIN m.b.items
                                /\ ~(loaded(m.b, s) /\ s \notin m.b.absent))
  BY Zenon DEF finish_live_owner, MergeInv, IsBuffer
<1> HIDE DEF f
<1>2. Provenance(f)
  BY <1>1, Zenon DEF MergeInv, Provenance, loaded
<1>3. Flags(f)
  BY <1>1, Zenon DEF MergeInv, Provenance, Flags, loaded
<1>4. BufferInv(f)
  BY <1>1, <1>2, <1>3, Zenon DEF BufferInv
<1> QED
  BY <1>4, Zenon DEF f

-----------------------------------------------------------------------------
\* add_item and remove_item over a sound buffer.  remove_item leaves the flag
\* of removed items to its caller, so only the provenance survives it.
LEMMA AddItemInv ==
    ASSUME NEW b, NEW s, NEW item, IsBuffer(b), Provenance(b)
    PROVE  LET a == add_item(b, s, item)
           IN  /\ IsBuffer(a) /\ Provenance(a)
               /\ DOMAIN a.items = DOMAIN b.items \cup {s} /\ a.shipped = b.shipped
               /\ a.removed = b.removed /\ a.has_added_items
<1> DEFINE n == IF s \in DOMAIN b.items THEN b ELSE note_absent(b, s)
           a == add_item(b, s, item)
<1>1. /\ IsBuffer(n) /\ Provenance(n) /\ SameItems(b, n)
      /\ n.present = b.present
      /\ \/ s \in DOMAIN b.items
         \/ s \in DOMAIN b.shipped \/ ~loaded(b, s) \/ s \in n.absent
  BY NoteAbsentInv, Zenon DEF SameItems
<1>2. a = [n EXCEPT !.items = Put(@, s, item), !.total = add32(@, item.unigram),
                    !.has_added_items = TRUE]
  BY Zenon DEF add_item
<1> HIDE DEF n, a
<1>3. /\ IsBuffer(a) /\ a.items = Put(n.items, s, item) /\ a.shipped = n.shipped
      /\ a.words = n.words /\ a.absent = n.absent /\ a.present = n.present
      /\ a.removed = n.removed /\ a.has_added_items
  BY <1>1, <1>2, Zenon DEF IsBuffer
<1>4. DOMAIN a.items = DOMAIN n.items \cup {s}
  BY <1>3, Zenon DEF Put
<1>5. Provenance(a)
  BY <1>1, <1>3, <1>4, Zenon DEF Provenance, loaded, SameItems
<1> QED
  BY <1>1, <1>3, <1>4, <1>5, Zenon DEF SameItems, a

\* Taking an item out of the buffer (remove_item).
LEMMA RemoveItemInv ==
    ASSUME NEW b, NEW s, IsBuffer(b), Provenance(b), s \in DOMAIN b.items
    PROVE  LET a == remove_item(b, s)
           IN  /\ IsBuffer(a) /\ Provenance(a)
               /\ DOMAIN a.items = DOMAIN b.items \ {s} /\ a.shipped = b.shipped
               /\ a.removed = b.removed
<1> DEFINE n == note_present(b, s)
           a == remove_item(b, s)
<1>1. /\ IsBuffer(n) /\ Provenance(n) /\ SameItems(b, n) /\ n.absent = b.absent
      /\ s \in DOMAIN b.shipped => s \in n.present
  BY NotePresentInv, Zenon
<1>2. a = [n EXCEPT !.items = Without(@, s),
                    !.total = sub32(@, b.items[s].unigram)]
  BY Zenon DEF remove_item
<1> HIDE DEF n, a
<1>3. /\ IsBuffer(a) /\ a.items = Without(n.items, s) /\ a.shipped = n.shipped
      /\ a.words = n.words /\ a.absent = n.absent /\ a.present = n.present
      /\ a.removed = n.removed
  BY <1>1, <1>2, Zenon DEF IsBuffer
<1>4. DOMAIN a.items = DOMAIN n.items \ {s}
  BY <1>3, Zenon DEF Without
<1>5. Provenance(a)
  BY <1>1, <1>3, <1>4, Zenon DEF Provenance, loaded, SameItems
<1> QED
  BY <1>1, <1>3, <1>4, <1>5, Zenon DEF SameItems, a

\* Rewriting items in place, and the total, keeps a buffer sound.
LEMMA RewriteInv ==
    ASSUME NEW b, NEW a, BufferInv(b), IsBuffer(a), DOMAIN a.items = DOMAIN b.items,
           a.shipped = b.shipped, a.words = b.words, a.absent = b.absent,
           a.present = b.present, a.has_added_items = b.has_added_items,
           a.removed = b.removed \/ a.removed
    PROVE  BufferInv(a)
BY Zenon DEF BufferInv, Provenance, Flags, loaded

\* A trained unigram changes no provenance.
LEMMA UnigramInv ==
    ASSUME NEW b, NEW s, NEW delta, BufferInv(b)
    PROVE  /\ BufferInv(WithUnigram(b, s, delta))
           /\ WithUnigram(b, s, delta).removed = b.removed
<1> DEFINE a == WithUnigram(b, s, delta)
           item == [b.items[s] EXCEPT !.unigram = add32(@, delta)]
<1>1. /\ IsBuffer(a) /\ a.items = [b.items EXCEPT ![s] = item]
      /\ a.shipped = b.shipped /\ a.words = b.words /\ a.absent = b.absent
      /\ a.present = b.present /\ a.has_added_items = b.has_added_items
      /\ a.removed = b.removed
  BY Zenon DEF WithUnigram, BufferInv, IsBuffer
<1> HIDE DEF a, item
<1>2. DOMAIN a.items = DOMAIN b.items
  BY <1>1, Zenon
<1>3. BufferInv(a)
  BY <1>1, <1>2, RewriteInv, Zenon
<1> QED
  BY <1>1, <1>3, Zenon DEF a

\* The unigram, or the reading, of an added or merged item.
LEMMA AddedInv ==
    ASSUME NEW b, NEW s, NEW item, BufferInv(b)
    PROVE  /\ BufferInv(add_item(b, s, item))
           /\ add_item(b, s, item).removed = b.removed
<1> DEFINE a == add_item(b, s, item)
<1>1. /\ IsBuffer(a) /\ Provenance(a)
      /\ DOMAIN a.items = DOMAIN b.items \cup {s} /\ a.shipped = b.shipped
      /\ a.removed = b.removed /\ a.has_added_items
  BY AddItemInv, Zenon DEF BufferInv
<1> HIDE DEF a
<1>2. BufferInv(a)
  BY <1>1, Zenon DEF BufferInv, Flags
<1> QED
  BY <1>1, <1>2, Zenon DEF a

\* An item taken out and put back with another reading is where it was.
LEMMA MergedInv ==
    ASSUME NEW b, NEW s, NEW item, BufferInv(b), s \in DOMAIN b.items
    PROVE  /\ BufferInv(add_item(remove_item(b, s), s, item))
           /\ add_item(remove_item(b, s), s, item).removed = b.removed
<1> DEFINE g == remove_item(b, s)
           a == add_item(g, s, item)
<1>1. /\ IsBuffer(g) /\ Provenance(g) /\ DOMAIN g.items = DOMAIN b.items \ {s}
      /\ g.shipped = b.shipped /\ g.removed = b.removed
  BY RemoveItemInv, Zenon DEF BufferInv
<1> HIDE DEF g
<1>2. /\ IsBuffer(a) /\ Provenance(a)
      /\ DOMAIN a.items = DOMAIN g.items \cup {s} /\ a.shipped = g.shipped
      /\ a.removed = g.removed /\ a.has_added_items
  BY <1>1, AddItemInv, Zenon
<1> HIDE DEF a
<1>3. BufferInv(a)
  BY <1>1, <1>2, Zenon DEF BufferInv, Flags
<1> QED
  BY <1>1, <1>2, <1>3, Zenon DEF a, g

-----------------------------------------------------------------------------
\* One library's buffer is replaced by a sound one that reports no removal
\* the old one did not.
LEMMA PutBuffer ==
    ASSUME NEW f, NEW flag, SessionInv(f, flag), NEW l \in DOMAIN f, NEW b,
           BufferInv(b), b.removed => f[l].removed
    PROVE  SessionInv([f EXCEPT ![l] = b], flag)
BY Zenon DEF SessionInv, AnyRemoved

\* compact_libraries rewrites the totals only.
LEMMA CompactInv ==
    ASSUME NEW f, NEW flag, SessionInv(f, flag)
    PROVE  SessionInv(Compacted(f), flag)
<1> DEFINE g == Compacted(f)
<1>1. /\ DOMAIN g = DOMAIN f
      /\ \A l \in DOMAIN f : g[l] = [f[l] EXCEPT !.total = Sum(f[l].items)]
  BY Zenon DEF Compacted
<1> HIDE DEF g
<1>2. ASSUME NEW l \in DOMAIN f
      PROVE  BufferInv(g[l]) /\ g[l].removed = f[l].removed
  <2>1. BufferInv(f[l]) /\ IsBuffer(f[l])
    BY Zenon DEF SessionInv, BufferInv
  <2>2. /\ IsBuffer(g[l]) /\ g[l].items = f[l].items /\ g[l].shipped = f[l].shipped
        /\ g[l].words = f[l].words /\ g[l].absent = f[l].absent
        /\ g[l].present = f[l].present /\ g[l].removed = f[l].removed
        /\ g[l].has_added_items = f[l].has_added_items
    BY <1>1, <2>1, Zenon DEF IsBuffer
  <2> QED
    BY <2>1, <2>2, RewriteInv, Zenon
<1>3. SessionInv(g, flag)
  BY <1>1, <1>2, Zenon DEF SessionInv, AnyRemoved
<1> QED
  BY <1>3, Zenon DEF g

\* A replay starts from fresh mappings.
LEMMA ReplayingInv ==
    ASSUME NEW kind, NEW libs \in SUBSET Libs, NEW mask, NEW stop,
           chunk \in [Libs -> Chunks]
    PROVE  ReplayInv(Replaying(kind, libs, mask, stop))
<1> DEFINE r == Replaying(kind, libs, mask, stop)
<1>1. /\ IsReplay(r) /\ r.todo = libs /\ r.merging = FALSE /\ DOMAIN r.replayed = libs
      /\ \A l \in libs : r.replayed[l] = from_mapping(chunk[l])
  BY Zenon DEF Replaying, IsReplay
<1> HIDE DEF r
<1>2. ASSUME NEW l \in libs
      PROVE  /\ BufferInv(r.replayed[l])
             /\ DOMAIN r.replayed[l].items = DOMAIN r.replayed[l].shipped
  <2>1. chunk[l] \in Chunks /\ r.replayed[l] = from_mapping(chunk[l])
    BY <1>1, Zenon
  <2>2. r.replayed[l].items = r.replayed[l].shipped
    BY <2>1 DEF from_mapping
  <2> QED
    BY <2>1, <2>2, MappingInv, Zenon
<1>3. ReplayInv(r)
  BY <1>1, <1>2, Zenon DEF ReplayInv
<1> QED
  BY <1>3, Zenon DEF r

-----------------------------------------------------------------------------
\* A context that has just mapped its libraries.
LEMMA InvInit == Init => Inv
BY DEF Init, Inv, SessionInv, AnyRemoved, Idle

\* A replay that takes the next library's journal.
LEMMA TakeLogInv ==
    ASSUME Inv, NEW l \in Libs, TakeLog(l)
    PROVE  Inv'
<1>1. /\ ~Idle /\ ~replay.merging /\ l \in replay.todo /\ ReplayInv(replay)
      /\ UNCHANGED <<chunk, live, has_removed_system_items>>
  BY Zenon DEF TakeLog, Inv, Fault, disk, session
<1>2. CASE replay' = NoReplay
  BY <1>1, <1>2, Zenon DEF Inv, Idle
<1>3. CASE replay' = [replay EXCEPT !.todo = @ \ {l}]
  <2>1. /\ IsReplay(replay') /\ replay'.todo = replay.todo \ {l}
        /\ replay'.merging = replay.merging /\ replay'.replayed = replay.replayed
    BY <1>1, <1>3, Zenon DEF ReplayInv, IsReplay
  <2>2. ReplayInv(replay')
    BY <1>1, <2>1, Zenon DEF ReplayInv
  <2> QED
    BY <1>1, <2>2, Zenon DEF Inv, Idle
<1>4. CASE \E records, end :
             replay' = [replay EXCEPT !.todo = @ \ {l}, !.at = l, !.merging = TRUE,
                                      !.m = from_live(replay.replayed[l]),
                                      !.records = records, !.end = end]
  <2>1. /\ IsReplay(replay') /\ replay'.todo = replay.todo \ {l} /\ replay'.at = l
        /\ replay'.m = from_live(replay.replayed[l])
        /\ replay'.replayed = replay.replayed
    BY <1>1, <1>4, Zenon DEF ReplayInv, IsReplay
  <2>2. MergeInv(replay'.m)
    BY <1>1, <2>1, FromLiveInv, Zenon DEF ReplayInv, BufferInv
  <2>3. ReplayInv(replay')
    BY <1>1, <2>1, <2>2, Zenon DEF ReplayInv
  <2> QED
    BY <1>1, <2>3, Zenon DEF Inv, Idle
<1> QED
  BY <1>2, <1>3, <1>4, Zenon DEF TakeLog, Fault

\* A replay that applies one record.
LEMMA ApplyRecordInv ==
    ASSUME Inv, ApplyRecord
    PROVE  Inv'
<1>1. /\ replay.merging /\ ReplayInv(replay)
      /\ replay' = [replay EXCEPT !.m = apply_backfilling(@, Head(replay.records)),
                                  !.records = Tail(@)]
      /\ UNCHANGED <<chunk, live, has_removed_system_items>>
  BY Zenon DEF ApplyRecord, Inv, disk, session
<1>2. /\ IsReplay(replay')
      /\ replay'.m = apply_backfilling(replay.m, Head(replay.records))
      /\ replay'.todo = replay.todo /\ replay'.at = replay.at
      /\ replay'.merging = replay.merging /\ replay'.replayed = replay.replayed
  BY <1>1, Zenon DEF ReplayInv, IsReplay
<1>3. MergeInv(replay'.m)
  BY <1>1, <1>2, RecordInv DEF ReplayInv
<1>4. ReplayInv(replay')
  BY <1>1, <1>2, <1>3, Zenon DEF ReplayInv
<1> QED
  BY <1>1, <1>4, Zenon DEF Inv, Idle

\* A replay that has read a journal to its end.
LEMMA FinishLogInv ==
    ASSUME Inv, FinishLog
    PROVE  Inv'
<1> DEFINE stop == IF replay.m.stop # "none" THEN replay.m.stop ELSE replay.end
           b == IF stop = "over_read" THEN replay.replayed[replay.at]
                ELSE finish_live_owner(replay.m)
<1>1. /\ replay.merging /\ ReplayInv(replay)
      /\ UNCHANGED <<chunk, live, has_removed_system_items>>
  BY Zenon DEF FinishLog, Inv, Fault, disk, session
<1>2. CASE replay' = NoReplay
  BY <1>1, <1>2, Zenon DEF Inv, Idle
<1>3. CASE replay' = [replay EXCEPT !.merging = FALSE, !.m = <<>>, !.records = <<>>,
                                    !.replayed[replay.at] = b]
  <2>1. BufferInv(b)
    BY <1>1, FinishInv, Zenon DEF ReplayInv
  <2> HIDE DEF b
  <2>2. /\ IsReplay(replay') /\ replay'.todo = replay.todo /\ replay'.merging = FALSE
        /\ replay'.replayed = [replay.replayed EXCEPT ![replay.at] = b]
    BY <1>1, <1>3, Zenon DEF ReplayInv, IsReplay
  <2>3. /\ DOMAIN replay'.replayed = DOMAIN replay.replayed
        /\ \A l \in DOMAIN replay.replayed :
             replay'.replayed[l] = IF l = replay.at THEN b ELSE replay.replayed[l]
    BY <2>2, Zenon
  <2>4. ReplayInv(replay')
    BY <1>1, <2>1, <2>2, <2>3 DEF ReplayInv
  <2> QED
    BY <1>1, <2>4, Zenon DEF Inv, Idle
<1> QED
  BY <1>2, <1>3, Zenon DEF FinishLog, Fault

\* A replay that publishes its buffers.
LEMMA PublishInv ==
    ASSUME Inv, Publish
    PROVE  Inv'
<1> DEFINE all == [l \in DOMAIN live \cup DOMAIN replay.replayed |->
                     IF l \in DOMAIN replay.replayed THEN replay.replayed[l]
                     ELSE live[l]]
<1>1. /\ ReplayInv(replay) /\ replay' = NoReplay /\ chunk' = chunk
      /\ has_removed_system_items' = AnyRemoved(all)
      /\ live' = Compacted(all) \/ live' = all
  BY Zenon DEF Publish, Inv, disk
<1>2. SessionInv(all, AnyRemoved(all))
  BY <1>1, Zenon DEF Inv, ReplayInv, SessionInv
<1> HIDE DEF all
<1>3. SessionInv(live', has_removed_system_items')
  BY <1>1, <1>2, CompactInv, Zenon
<1> QED
  BY <1>1, <1>3, Zenon DEF Inv, Idle

\* Training a phrase of a system library.
LEMMA TrainInv ==
    ASSUME Inv, NEW l, NEW s, NEW keys, NEW delta, Train(l, s, keys, delta)
    PROVE  Inv'
<1> DEFINE item == Trained(live[l].items[s], keys, delta)
           b == [live[l] EXCEPT !.items[s] = item, !.removed = TRUE]
<1>1. /\ l \in DOMAIN live /\ BufferInv(live[l]) /\ live' = [live EXCEPT ![l] = b]
      /\ has_removed_system_items' /\ UNCHANGED <<chunk, replay>>
  BY Zenon DEF Train, Inv, SessionInv, disk
<1> HIDE DEF item
<1>2. /\ IsBuffer(b) /\ b.items = [live[l].items EXCEPT ![s] = item]
      /\ b.shipped = live[l].shipped /\ b.words = live[l].words
      /\ b.absent = live[l].absent /\ b.present = live[l].present
      /\ b.has_added_items = live[l].has_added_items /\ b.removed
  BY <1>1, Zenon DEF BufferInv, IsBuffer
<1> HIDE DEF b
<1>3. DOMAIN b.items = DOMAIN live[l].items
  BY <1>2, Zenon
<1>4. BufferInv(b)
  BY <1>1, <1>2, <1>3, RewriteInv, Zenon
<1>5. SessionInv(live', has_removed_system_items')
  BY <1>1, <1>4, Zenon DEF Inv, SessionInv
<1> QED
  BY <1>1, <1>5, Zenon DEF Inv, Idle

\* The operations that work on one library's buffer and leave the flag alone.
LEMMA BufferStepInv ==
    ASSUME Inv, NEW l \in DOMAIN live, NEW b, BufferInv(b), b.removed = live[l].removed,
           live' = [live EXCEPT ![l] = b],
           UNCHANGED <<chunk, has_removed_system_items, replay>>
    PROVE  Inv'
<1>1. SessionInv(live', has_removed_system_items')
  BY PutBuffer, Zenon DEF Inv
<1> QED
  BY <1>1, Zenon DEF Inv, Idle

\* Adding to its unigram.
LEMMA AddUnigramInv ==
    ASSUME Inv, NEW l, NEW s, NEW delta, AddUnigram(l, s, delta)
    PROVE  Inv'
<1>1. /\ l \in DOMAIN live /\ BufferInv(live[l])
      /\ UNCHANGED <<chunk, has_removed_system_items, replay>>
      /\ live' = live \/ live' = [live EXCEPT ![l] = WithUnigram(live[l], s, delta)]
  BY Zenon DEF AddUnigram, Inv, SessionInv, disk
<1>2. CASE live' = live
  BY <1>1, <1>2, Zenon DEF Inv, Idle
<1>3. CASE live' = [live EXCEPT ![l] = WithUnigram(live[l], s, delta)]
  BY <1>1, <1>3, UnigramInv, BufferStepInv, Zenon
<1> QED
  BY <1>1, <1>2, <1>3, Zenon

\* An import that makes an item.
LEMMA AddPhraseInv ==
    ASSUME Inv, NEW l, NEW keys, NEW delta, AddPhrase(l, keys, delta)
    PROVE  Inv'
<1> DEFINE s == range_end(live[l])
           item == [unigram |-> 0, prons |-> <<[keys |-> keys, freq |-> delta]>>]
           b == add_item(live[l], s, item)
           increment == (delta * UnigramFactor) % Word
<1>1. /\ l \in DOMAIN live /\ BufferInv(live[l])
      /\ UNCHANGED <<chunk, has_removed_system_items, replay>>
      /\ \/ live' = [live EXCEPT ![l] = b]
         \/ live' = [live EXCEPT ![l] = WithUnigram(b, s, increment)]
  BY Zenon DEF AddPhrase, Inv, SessionInv, disk
<1> HIDE DEF s, item, increment
<1>2. BufferInv(b) /\ b.removed = live[l].removed
  BY <1>1, AddedInv, Zenon
<1> HIDE DEF b
<1>3. /\ BufferInv(WithUnigram(b, s, increment))
      /\ WithUnigram(b, s, increment).removed = live[l].removed
  BY <1>2, UnigramInv, Zenon
<1> QED
  BY <1>1, <1>2, <1>3, BufferStepInv, Zenon

\* An import that adds a reading to one.
LEMMA MergeReadingInv ==
    ASSUME Inv, NEW l, NEW s, NEW keys, NEW delta, MergeReading(l, s, keys, delta)
    PROVE  Inv'
<1> DEFINE item == WithReading(live[l].items[s], keys, delta)
           b == add_item(remove_item(live[l], s), s, item)
<1>1. /\ l \in DOMAIN live /\ s \in DOMAIN live[l].items /\ BufferInv(live[l])
      /\ UNCHANGED <<chunk, has_removed_system_items, replay>>
      /\ live' = [live EXCEPT ![l] = b]
  BY Zenon DEF MergeReading, Inv, SessionInv, disk
<1> HIDE DEF item
<1>2. BufferInv(b) /\ b.removed = live[l].removed
  BY <1>1, MergedInv, Zenon
<1> QED
  BY <1>1, <1>2, BufferStepInv, Zenon

\* The operations that start a replay, or none.
LEMMA StartInv ==
    ASSUME Inv, NEW kind, NEW libs \in SUBSET Libs, NEW mask, NEW stop,
           \/ replay' = Replaying(kind, libs, mask, stop)
           \/ replay' = NoReplay
           \/ replay' = replay,
           UNCHANGED <<chunk, live, has_removed_system_items>>
    PROVE  Inv'
<1>1. ReplayInv(Replaying(kind, libs, mask, stop))
  BY ReplayingInv, Zenon DEF Inv
<1> QED
  BY <1>1, Zenon DEF Inv, Idle

\* mask_out, from the chunk on disk and the filtered journal.
LEMMA MaskOutInv ==
    ASSUME Inv, NEW mask, MaskOut(mask)
    PROVE  Inv'
<1> DEFINE faults(l) == l \in mask.libs /\ masked_log_kind(log[l], mask) = "fault"
           stops == {l \in DOMAIN live : file[l] # "ok" \/ faults(l)}
           first == Smallest(stops)
           mapped == IF stops = {} THEN DOMAIN live
                     ELSE {l \in DOMAIN live :
                             l < first \/ (l = first /\ file[l] = "ok")}
           stop == IF stops # {} /\ file[first] = "directory" THEN "directory"
                   ELSE "none"
<1>1. /\ replay' = Replaying("mask", mapped, mask, stop) \/ replay' = replay
      /\ UNCHANGED <<chunk, live, has_removed_system_items>>
  BY Zenon DEF MaskOut, disk, session
<1>2. mapped \in SUBSET Libs
  BY Zenon DEF Inv, SessionInv
<1> HIDE DEF mapped, stop
<1> QED
  BY <1>1, <1>2, StartInv, Zenon

\* Unloading a library.
LEMMA UnloadInv ==
    ASSUME Inv, NEW l, Unload(l)
    PROVE  Inv'
<1> DEFINE rest == Without(live, l)
<1>1. /\ live' = rest /\ has_removed_system_items' = AnyRemoved(rest)
      /\ UNCHANGED <<chunk, replay>>
  BY Zenon DEF Unload, disk
<1>2. /\ DOMAIN rest \subseteq DOMAIN live
      /\ \A k \in DOMAIN rest : rest[k] = live[k]
  BY Zenon DEF Without
<1> HIDE DEF rest
<1>3. SessionInv(live', has_removed_system_items')
  BY <1>1, <1>2, Zenon DEF Inv, SessionInv
<1> QED
  BY <1>1, <1>3, Zenon DEF Inv, Idle

-----------------------------------------------------------------------------
\* Every step keeps the inductive invariant.
LEMMA InvNext == Inv /\ [Next]_vars => Inv'
<1> SUFFICES ASSUME Inv, [Next]_vars
             PROVE  Inv'
  BY Zenon
<1>1. CASE ApplyRecord
  BY <1>1, ApplyRecordInv, Zenon
<1>2. CASE FinishLog
  BY <1>2, FinishLogInv, Zenon
<1>3. CASE Publish
  BY <1>3, PublishInv, Zenon
<1>4. CASE Open
  BY <1>4, StartInv, Zenon DEF Open, disk, session
<1>5. CASE Close
  BY <1>5 DEF Close, Inv, SessionInv, AnyRemoved, Idle, disk
<1>6. CASE Save
  <2>1. /\ live' = Compacted(live)
        /\ UNCHANGED <<chunk, has_removed_system_items, replay>>
    BY <1>6, Zenon DEF Save
  <2>2. SessionInv(live', has_removed_system_items')
    BY <2>1, CompactInv, Zenon DEF Inv
  <2> QED
    BY <2>1, <2>2, Zenon DEF Inv, Idle
<1>7. ASSUME NEW l \in Libs, TakeLog(l)
      PROVE  Inv'
  BY <1>7, TakeLogInv, Zenon
<1>8. ASSUME NEW l \in Libs, Load(l)
      PROVE  Inv'
  <2>1. /\ \/ replay' = Replaying("load", {l}, [libs |-> {}, slots |-> {}], "none")
           \/ replay' = NoReplay
        /\ UNCHANGED <<chunk, live, has_removed_system_items>>
    BY <1>8, Zenon DEF Load, disk, session
  <2> QED
    BY <2>1, StartInv, Zenon
<1>9. ASSUME NEW l \in Libs, Unload(l)
      PROVE  Inv'
  BY <1>9, UnloadInv, Zenon
<1>10. ASSUME NEW l \in Libs, NEW s \in Slots, NEW d \in Deltas, AddUnigram(l, s, d)
       PROVE  Inv'
  BY <1>10, AddUnigramInv, Zenon
<1>11. ASSUME NEW l \in Libs, NEW s \in Slots, NEW r \in Readings, NEW d \in Deltas,
              Train(l, s, r, d) \/ MergeReading(l, s, r, d)
       PROVE  Inv'
  BY <1>11, TrainInv, MergeReadingInv, Zenon
<1>12. ASSUME NEW l \in Libs, NEW r \in Readings, NEW d \in Deltas, AddPhrase(l, r, d)
       PROVE  Inv'
  BY <1>12, AddPhraseInv, Zenon
<1>13. ASSUME NEW l \in Libs, NEW c \in Chunks, ReplaceChunk(l, c)
       PROVE  Inv'
  BY <1>13, Zenon DEF ReplaceChunk, Inv, Idle, session
<1>14. ASSUME NEW l \in Libs, NEW state, ChangeFile(l, state)
       PROVE  Inv'
  BY <1>14, Zenon DEF ChangeFile, Inv, Idle, session
<1>15. ASSUME NEW mask \in Masks, MaskOut(mask)
       PROVE  Inv'
  BY <1>15, MaskOutInv, Zenon
<1>16. CASE UNCHANGED vars
  BY <1>16, Zenon DEF vars, Inv, Idle
<1> QED
  BY <1>1, <1>2, <1>3, <1>4, <1>5, <1>6, <1>7, <1>8, <1>9, <1>10, <1>11, <1>12,
     <1>13, <1>14, <1>15, <1>16, Zenon DEF Next

\* The provenance of every buffer, in the session and in a replay under way,
\* is exact in every reachable state.
THEOREM ProvenanceInvariant == Spec => []Inv
BY InvInit, InvNext, PTL DEF Spec

\* is_removed answers for exactly the shipped items that are gone, for any
\* libraries, chunks and journals.
THEOREM RemovalsAnswered == Spec => []RemovedExactly
<1>1. Inv => RemovedExactly
  BY Zenon DEF Inv, SessionInv, AnyRemoved, BufferInv, Provenance, Flags, RemovedExactly,
         system_item_removed, originally_held
<1> QED
  BY <1>1, ProvenanceInvariant, PTL

\* is_added answers for exactly the items the chunk does not ship, and
\* has_added never hides one.
THEOREM AdditionsAnswered == Spec => []AddedExactly
<1>1. Inv => AddedExactly
  BY Zenon DEF Inv, SessionInv, BufferInv, Provenance, Flags, AddedExactly, is_added,
         is_added_slot
<1> QED
  BY <1>1, ProvenanceInvariant, PTL

-----------------------------------------------------------------------------
\* Loops over a sequence and slots: Picked, and the last slot of a set.

Less == {p \in Nat \X Nat : p[1] < p[2]}

\* The order on the naturals, as the set of pairs Less, is well founded.
LEMMA LessWellFounded == IsWellFoundedOn(Less, Nat)
<1>1. OpToRel(<, Nat) = Less
  BY Zenon DEF OpToRel, Less
<1> QED
  BY <1>1, NatLessThanWellFounded, Zenon

\* A set of slots or positions that holds 0 and is closed under successor up to a
\* bound holds everything up to it.
LEMMA UpwardInduction ==
    ASSUME NEW b \in Nat, NEW P, 0 \in P, \A i \in 0..(b - 1) : i \in P => i + 1 \in P
    PROVE  \A i \in 0..b : i \in P
<1> DEFINE T == {i \in 0..b : i \notin P}
<1>1. SUFFICES ASSUME T # {} PROVE FALSE
  BY Zenon
<1>2. PICK x \in T : \A y \in T : ~(<<y, x>> \in Less)
  <2>1. T \subseteq Nat
    OBVIOUS
  <2> QED
    BY <1>1, <2>1, WFMin, LessWellFounded, Zenon
<1>3. x \in Nat /\ 0 < x /\ x <= b /\ x \notin P
  BY <1>2
<1>4. <<x - 1, x>> \in Less
  BY <1>3 DEF Less
<1>5. x - 1 \in P
  BY <1>2, <1>3, <1>4
<1> QED
  BY <1>3, <1>5

-----------------------------------------------------------------------------
\* Picked's loop: what it has picked up to each position.
Picking(seq, at) ==
    CHOOSE upto : upto = [n \in 0..Len(seq) |->
        IF n = 0 THEN <<>>
        ELSE IF n \in at THEN Append(upto[n - 1], seq[n]) ELSE upto[n - 1]]

\* That loop is well defined.
LEMMA PickedUnfolds ==
    ASSUME NEW seq, Len(seq) \in Nat, NEW at
    PROVE  /\ Picked(seq, at) = Picking(seq, at)[Len(seq)]
           /\ Picking(seq, at) = [n \in 0..Len(seq) |->
                IF n = 0 THEN <<>>
                ELSE IF n \in at THEN Append(Picking(seq, at)[n - 1], seq[n])
                ELSE Picking(seq, at)[n - 1]]
<1> DEFINE Next_(x, n) == IF n \in at THEN Append(x, seq[n]) ELSE x
           Runs(g, m) == g = [n \in 0..m |-> IF n = 0 THEN <<>> ELSE Next_(g[n - 1], n)]
           P == {m \in 0..Len(seq) : \E g : Runs(g, m)}
<1>1. 0 \in P
  <2> DEFINE g == [n \in 0..0 |-> <<>>]
  <2>1. Runs(g, 0)
    OBVIOUS
  <2> HIDE DEF Runs, g
  <2> QED
    BY <2>1
<1>2. ASSUME NEW m \in 0..(Len(seq) - 1), m \in P
      PROVE  m + 1 \in P
  <2>1. PICK g : Runs(g, m)
    BY <1>2, Zenon
  <2> HIDE DEF Next_
  <2> DEFINE h == [n \in 0..(m + 1) |-> IF n = m + 1 THEN Next_(g[m], m + 1) ELSE g[n]]
  <2>2. \A n \in 0..(m + 1) : h[n] = IF n = 0 THEN <<>> ELSE Next_(h[n - 1], n)
    <3> TAKE n \in 0..(m + 1)
    <3>0. \A k \in 0..m : h[k] = g[k]
      OBVIOUS
    <3>1. CASE n = m + 1
      BY <3>0, <3>1
    <3>2. CASE n \in 1..m
      <4>1. g[n] = Next_(g[n - 1], n)
        BY <2>1, <3>2
      <4>2. h[n] = g[n] /\ h[n - 1] = g[n - 1]
        BY <3>0, <3>2
      <4> QED
        BY <3>2, <4>1, <4>2
    <3>3. CASE n = 0
      BY <2>1, <3>0, <3>3
    <3> QED
      BY <3>1, <3>2, <3>3
  <2>3. Runs(h, m + 1)
    BY <2>2, Zenon
  <2> HIDE DEF Runs, h
  <2> QED
    BY <2>3
<1>3. Len(seq) \in P
  <2> HIDE DEF P
  <2>1. \A m \in 0..Len(seq) : m \in P
    BY <1>1, <1>2, UpwardInduction, Zenon
  <2> QED
    BY <2>1
<1>4. \E g : g = [n \in 0..Len(seq) |->
                    IF n = 0 THEN <<>>
                    ELSE IF n \in at THEN Append(g[n - 1], seq[n]) ELSE g[n - 1]]
  BY <1>3, Zenon
<1>5. Picked(seq, at) = Picking(seq, at)[Len(seq)]
  BY Zenon DEF Picked, Picking
<1>6. Picking(seq, at) = [n \in 0..Len(seq) |->
                IF n = 0 THEN <<>>
                ELSE IF n \in at THEN Append(Picking(seq, at)[n - 1], seq[n])
                ELSE Picking(seq, at)[n - 1]]
  BY <1>4, Zenon DEF Picking
<1> QED
  BY <1>5, <1>6, Zenon

\* What is picked are the elements at the positions asked for, each once and
\* no other.
PicksAt(p, q, seq, at) ==
    /\ q \in Seq(at) /\ Len(p) = Len(q)
    /\ \A i \in 1..Len(q) : p[i] = seq[q[i]]
    /\ \A n \in at : \E i \in 1..Len(q) : q[i] = n
    /\ \A i, j \in 1..Len(q) : q[i] = q[j] => i = j

\* Picked picks exactly that.
LEMMA PickedPositions ==
    ASSUME NEW S, NEW seq \in Seq(S), NEW at \in SUBSET (1..Len(seq))
    PROVE  /\ Picked(seq, at) \in Seq(S)
           /\ \E q : PicksAt(Picked(seq, at), q, seq, at)
<1> DEFINE f == Picking(seq, at)
           Below(n) == {k \in at : k <= n}
           P == {n \in 0..Len(seq) : /\ f[n] \in Seq(S)
                                     /\ \E q : PicksAt(f[n], q, seq, Below(n))}
<1>1. /\ Len(seq) \in Nat /\ \A n \in 1..Len(seq) : seq[n] \in S
      /\ \A k \in at : k \in Nat /\ 1 <= k /\ k <= Len(seq)
  OBVIOUS
<1>2. /\ Picked(seq, at) = f[Len(seq)]
      /\ f = [n \in 0..Len(seq) |->
                IF n = 0 THEN <<>>
                ELSE IF n \in at THEN Append(f[n - 1], seq[n]) ELSE f[n - 1]]
  BY <1>1, PickedUnfolds, Zenon
<1> HIDE DEF f
<1>3. 0 \in P
  <2>1. f[0] = <<>>
    BY <1>1, <1>2
  <2>2. Below(0) = {}
    <3>1. \A k \in at : ~(k <= 0)
      BY <1>1
    <3> QED
      BY <3>1, Zenon
  <2>3. PicksAt(<<>>, <<>>, seq, {})
    BY DEF PicksAt
  <2>4. PicksAt(f[0], <<>>, seq, Below(0))
    BY <2>1, <2>2, <2>3, Zenon
  <2>5. f[0] \in Seq(S) /\ 0 \in 0..Len(seq)
    BY <1>1, <2>1
  <2> HIDE DEF Below
  <2> QED
    BY <2>4, <2>5, Zenon
<1>4. ASSUME NEW n \in 0..(Len(seq) - 1), n \in P
      PROVE  n + 1 \in P
  <2>1. /\ n + 1 \in 1..Len(seq) /\ n + 1 \in 0..Len(seq) /\ n \in Nat
        /\ n + 1 # 0 /\ (n + 1) - 1 = n /\ seq[n + 1] \in S
    BY <1>1
  <2>2. f[n + 1] = IF n + 1 \in at THEN Append(f[n], seq[n + 1]) ELSE f[n]
    BY <1>1, <1>2, <2>1, Zenon
  <2> DEFINE p == f[n]
  <2>3. p \in Seq(S) /\ \E q : PicksAt(p, q, seq, Below(n))
    BY <1>4, Zenon
  <2> HIDE DEF p
  <2>4. PICK q : PicksAt(p, q, seq, Below(n))
    BY <2>3, Zenon
  <2>5. CASE n + 1 \notin at
    <3>1. Below(n + 1) = Below(n)
      <4>1. \A k \in at : k <= n + 1 <=> k <= n
        BY <1>1, <2>1, <2>5
      <4> QED
        BY <4>1, Zenon
    <3>2. PicksAt(f[n + 1], q, seq, Below(n + 1)) /\ f[n + 1] \in Seq(S)
      BY <2>2, <2>3, <2>4, <2>5, <3>1, Zenon DEF p
    <3> HIDE DEF Below
    <3> QED
      BY <2>1, <3>2, Zenon
  <2>6. CASE n + 1 \in at
    <3> DEFINE B == Below(n)
               C == Below(n + 1)
               pp == Append(p, seq[n + 1])
               qq == Append(q, n + 1)
    <3>1. /\ C = B \cup {n + 1} /\ n + 1 \notin B
      <4>1. \A k \in at : k <= n + 1 <=> k <= n \/ k = n + 1
        BY <1>1, <2>1
      <4>2. ~(n + 1 <= n)
        BY <2>1
      <4> QED
        BY <2>6, <4>1, <4>2, Zenon
    <3> HIDE DEF B, C
    <3>2. /\ q \in Seq(B) /\ Len(q) \in Nat /\ Len(p) = Len(q)
          /\ \A i \in 1..Len(q) : q[i] \in B /\ p[i] = seq[q[i]]
          /\ \A k \in B : \E i \in 1..Len(q) : q[i] = k
          /\ \A i, j \in 1..Len(q) : q[i] = q[j] => i = j
      BY <2>4 DEF PicksAt, B
    <3>3. /\ pp \in Seq(S) /\ Len(pp) = Len(q) + 1 /\ pp[Len(q) + 1] = seq[n + 1]
          /\ \A i \in 1..Len(q) : pp[i] = p[i]
      BY <2>1, <2>3, <3>2
    <3>4. /\ qq \in Seq(C) /\ Len(qq) = Len(q) + 1 /\ qq[Len(q) + 1] = n + 1
          /\ \A i \in 1..Len(q) : qq[i] = q[i]
      <4>1. q \in Seq(C) /\ n + 1 \in C
        BY <3>1, <3>2
      <4> QED
        BY <3>2, <4>1
    <3> HIDE DEF pp, qq
    <3>5. \A i \in 1..Len(qq) : i \in 1..Len(q) \/ i = Len(q) + 1
      BY <3>2, <3>4
    <3>6. \A i \in 1..Len(q) : i \in 1..Len(qq)
      BY <3>2, <3>4
    <3>7. \A i \in 1..Len(qq) : pp[i] = seq[qq[i]]
      BY <3>2, <3>3, <3>4, <3>5, Zenon
    <3>8. \A k \in C : \E i \in 1..Len(qq) : qq[i] = k
      <4> SUFFICES ASSUME NEW k \in C PROVE \E i \in 1..Len(qq) : qq[i] = k
        BY Zenon
      <4>1. CASE k = n + 1
        <5>1. Len(q) + 1 \in 1..Len(qq)
          BY <3>2, <3>4
        <5> QED
          BY <3>4, <4>1, <5>1, Zenon
      <4>2. CASE k \in B
        BY <3>2, <3>4, <3>6, <4>2
      <4> QED
        BY <3>1, <4>1, <4>2, Zenon
    <3>9. ASSUME NEW i \in 1..Len(qq), NEW j \in 1..Len(qq), qq[i] = qq[j]
          PROVE  i = j
      <4>1. CASE i \in 1..Len(q) /\ j \in 1..Len(q)
        BY <3>2, <3>4, <3>9, <4>1, Zenon
      <4>2. \A k \in 1..Len(q) : qq[k] # qq[Len(q) + 1]
        BY <3>1, <3>2, <3>4
      <4> QED
        BY <3>5, <3>9, <4>1, <4>2, Zenon
    <3>10. PicksAt(pp, qq, seq, C)
      BY <3>3, <3>4, <3>7, <3>8, <3>9, Zenon DEF PicksAt
    <3>11. f[n + 1] = pp
      BY <2>2, <2>6, Zenon DEF p, pp
    <3>12. f[n + 1] \in Seq(S) /\ PicksAt(f[n + 1], qq, seq, Below(n + 1))
      BY <3>3, <3>10, <3>11, Zenon DEF C
    <3> HIDE DEF Below
    <3> QED
      BY <2>1, <3>12, Zenon
  <2> QED
    BY <2>5, <2>6, Zenon
<1>5. Len(seq) \in P
  <2> HIDE DEF P
  <2>1. \A n \in 0..Len(seq) : n \in P
    BY <1>1, <1>3, <1>4, UpwardInduction, Zenon
  <2> QED
    BY <1>1, <2>1
<1>6. Below(Len(seq)) = at
  BY <1>1, Zenon
<1> HIDE DEF f, Below
<1> QED
  BY <1>2, <1>5, <1>6, Zenon

\* A set of slots has a last one, or is empty: what range_end looks for.
LEMMA LastSlot ==
    ASSUME NEW D \in SUBSET Slots
    PROVE  \E n \in 0..MaxSlot : /\ n = 0 \/ n \in D
                                 /\ \A s \in D : s <= n
<1> DEFINE Tops(b, n) == /\ n = 0 \/ n \in D
                         /\ \A s \in D : s <= b => s <= n
           P == {b \in 0..MaxSlot : \E n \in 0..b : Tops(b, n)}
<1>1. MaxSlot \in Nat /\ \A s \in D : s \in Nat /\ 1 <= s /\ s <= MaxSlot
  BY JournalAssumption DEF Slots
<1>2. 0 \in P
  <2>1. Tops(0, 0) /\ 0 \in 0..0 /\ 0 \in 0..MaxSlot
    BY <1>1
  <2> HIDE DEF Tops
  <2> QED
    BY <2>1, Zenon
<1>3. ASSUME NEW b \in 0..(MaxSlot - 1), b \in P
      PROVE  b + 1 \in P
  <2>1. PICK n \in 0..b : Tops(b, n)
    BY <1>3, Zenon
  <2>2. b + 1 \in 0..MaxSlot /\ n \in 0..(b + 1) /\ b + 1 \in 0..(b + 1)
    BY <1>1
  <2>3. CASE b + 1 \in D
    <3>1. Tops(b + 1, b + 1)
      BY <2>3, Zenon
    <3> HIDE DEF Tops
    <3> QED
      BY <2>2, <3>1, Zenon
  <2>4. CASE b + 1 \notin D
    <3>1. Tops(b + 1, n)
      BY <1>1, <2>1, <2>4
    <3> HIDE DEF Tops
    <3> QED
      BY <2>2, <3>1, Zenon
  <2> QED
    BY <2>3, <2>4, Zenon
<1>4. MaxSlot \in P
  <2> HIDE DEF P
  <2>1. \A b \in 0..MaxSlot : b \in P
    BY <1>1, <1>2, <1>3, UpwardInduction, Zenon
  <2> QED
    BY <1>1, <2>1
<1> QED
  BY <1>1, <1>4, Zenon

-----------------------------------------------------------------------------
\* What a journal says of its chunk, and what a replay has done with it.

Slotted(items) ==
    DOMAIN items \subseteq Slots /\ items = [s \in DOMAIN items |-> items[s]]

\* Every record of a journal that is not a header names a slot in `scope`.
Naming(records, scope) ==
    \E S : /\ records \in Seq(S)
           /\ \A r \in S : r.kind = "HEADER" \/ r.slot \in scope

\* The records are the difference of two sets of items in `scope`, a record
\* for each slot.
Carries(records, old, new, scope) ==
    /\ \E S : records \in Seq(S)
    /\ \A i \in 1..Len(records) :
         /\ records[i].slot \in scope /\ Differs(old, new, records[i].slot)
         /\ records[i] = DiffRecord(old, new, records[i].slot)
    /\ \A i, j \in 1..Len(records) : records[i].slot = records[j].slot => i = j
    /\ \A s \in scope :
         Differs(old, new, s) => \E i \in 1..Len(records) : records[i].slot = s

\* The same behind a header that fits the total.
CarriesAll(records, total, old, new, scope) ==
    /\ records # <<>> /\ records[1].kind = "HEADER" /\ records[1].old = total
    /\ Carries(Tail(records), old, new, scope)

\* The slots a replay takes from the journal of a library; the others keep
\* what the chunk ships.
Scope(r, l) ==
    IF r.kind # "mask" THEN Slots
    ELSE IF l \in r.mask.libs THEN Slots \ r.mask.slots ELSE {}

\* A library that came back: outside the scope what the chunk ships, inside it
\* what the save behind the journal held.
Restored(scope, c, save, items) ==
    /\ \A s \in Slots \ scope : Agree(items, c.items, s)
    /\ save.known => \A s \in scope : Agree(items, save.items, s)

\* One that is coming back: the records left carry what it lacks.
Restoring(scope, c, save, r) ==
    /\ Slotted(r.m.b.items) /\ Naming(r.records, scope)
    /\ \A s \in Slots \ scope : Agree(r.m.b.items, c.items, s)
    /\ save.known =>
         /\ r.m.stop = "none" /\ r.end = "clean"
         /\ \/ CarriesAll(r.records, r.m.b.total, r.m.b.items, save.items, scope)
            \/ Carries(r.records, r.m.b.items, save.items, scope)

\* A replay: a library to be replayed is as it was mapped, and so is the one
\* a rollback would bring back.
ReplaySound(r) ==
    /\ r.kind = "mask" => DOMAIN r.replayed \subseteq DOMAIN live
    /\ \A l \in DOMAIN r.replayed : Slotted(r.replayed[l].items)
    /\ \A l \in DOMAIN r.replayed :
         \/ /\ l \in r.todo \/ (r.merging /\ l = r.at)
            /\ r.replayed[l].items = chunk[l].items
            /\ r.replayed[l].total = chunk[l].total
         \/ /\ l \notin r.todo
            /\ Restored(Scope(r, l), chunk[l], saved[l], r.replayed[l].items)
    /\ r.merging => Restoring(Scope(r, r.at), chunk[r.at], saved[r.at], r)

\* A journal on disk, and what the save behind it held.
JournalSound(g, c, save) ==
    /\ Naming(g.records, Slots)
    /\ save.known => /\ Slotted(save.items) /\ g.end = "clean"
                     /\ CarriesAll(g.records, c.total, c.items, save.items, Slots)

JournalInv ==
    /\ DOMAIN log = Libs /\ DOMAIN saved = Libs
    /\ \A l \in Libs : JournalSound(log[l], chunk[l], saved[l])
    /\ \A l \in DOMAIN live : Slotted(live[l].items)
    /\ ~Idle => ReplaySound(replay)

-----------------------------------------------------------------------------
\* What an exceptional record, or a classification, leaves alone.
Untouched(b, n) == IsBuffer(n) /\ n.items = b.items /\ n.total = b.total

\* A classification keeps the items and the total (note_absent, note_present).
LEMMA NotesKeepItems ==
    ASSUME NEW b, NEW s, IsBuffer(b)
    PROVE  Untouched(b, note_absent(b, s)) /\ Untouched(b, note_present(b, s))
BY Zenon DEF note_absent, note_present, IsBuffer, Untouched

\* So does the turn to an exceptional merge, which goes on (begin_exceptional).
LEMMA ExceptionalKeepsItems ==
    ASSUME NEW m, IsMerge(m), IsBuffer(m.b)
    PROVE  LET e == begin_exceptional(m)
           IN  IsMerge(e) /\ Untouched(m.b, e.b) /\ e.stop = m.stop
<1> DEFINE back == {s \in m.modified : loaded(m.b, s) /\ s \notin m.b.absent}
           b == [m.b EXCEPT !.present = @ \cup back]
           e == [m EXCEPT !.exceptional = TRUE, !.touched = @ \cup m.modified, !.b = b]
<1>1. begin_exceptional(m) = m \/ begin_exceptional(m) = e
  BY Zenon DEF begin_exceptional, IsMerge
<1> HIDE DEF back
<1>2. Untouched(m.b, b) /\ Untouched(m.b, m.b)
  BY Zenon DEF IsBuffer, Untouched
<1> HIDE DEF b
<1>3. IsMerge(e) /\ e.b = b /\ e.stop = m.stop
  BY Zenon DEF IsMerge
<1> HIDE DEF e
<1> QED
  BY <1>1, <1>2, <1>3, Zenon

\* An ADD goes through unless its payload is short, and only a short one stops
\* the merge.
LEMMA AddRecordItems ==
    ASSUME NEW m, NEW r, IsMerge(m), IsBuffer(m.b)
    PROVE  LET x == AddRecord(m, r)
           IN  IF r.short THEN x.b.items = m.b.items
               ELSE /\ x.b.items = Put(m.b.items, r.slot, r.new)
                    /\ x.stop = m.stop
<1> DEFINE e == begin_exceptional(m)
           n == IF r.slot \in DOMAIN e.b.items THEN e.b ELSE note_absent(e.b, r.slot)
           b == [n EXCEPT !.items = Put(@, r.slot, r.new),
                          !.total = add32(@, r.new.unigram)]
           x == [e EXCEPT !.touched = @ \cup {r.slot}, !.b = b]
<1>1. CASE r.short
  BY <1>1, Zenon DEF AddRecord, IsMerge
<1>2. CASE ~r.short
  <2>1. AddRecord(m, r) = x
    BY <1>2, Zenon DEF AddRecord
  <2>2. IsMerge(e) /\ Untouched(m.b, e.b) /\ e.stop = m.stop
    BY ExceptionalKeepsItems, Zenon
  <2> HIDE DEF e
  <2>3. Untouched(m.b, n)
    BY <2>2, NotesKeepItems, Zenon DEF Untouched
  <2> HIDE DEF n
  <2>4. b.items = Put(m.b.items, r.slot, r.new)
    BY <2>3, Zenon DEF Untouched, IsBuffer
  <2> HIDE DEF b
  <2>5. x.b = b /\ x.stop = m.stop
    BY <2>2, Zenon DEF IsMerge
  <2> HIDE DEF x
  <2> QED
    BY <1>2, <2>1, <2>4, <2>5, Zenon
<1> QED
  BY <1>1, <1>2, Zenon

\* A REMOVE takes out the item of its slot, before it compares it.
LEMMA RemoveRecordItems ==
    ASSUME NEW m, NEW r, IsMerge(m), IsBuffer(m.b)
    PROVE  LET x == RemoveRecord(m, r)
           IN  IF r.slot \notin DOMAIN m.b.items THEN x.b.items = m.b.items
               ELSE /\ x.b.items = Without(m.b.items, r.slot)
                    /\ m.b.items[r.slot] = r.old => x.stop = "none"
<1> DEFINE e == begin_exceptional(m)
           x == RemoveRecord(m, r)
<1>0. IsMerge(e) /\ Untouched(m.b, e.b) /\ e.stop = m.stop /\ IsBuffer(e.b)
  BY ExceptionalKeepsItems, Zenon DEF Untouched
<1>1. CASE r.slot \notin DOMAIN m.b.items /\ r.short
  BY <1>1, Zenon DEF RemoveRecord, Mismatch, IsMerge
<1>2. CASE r.slot \notin DOMAIN m.b.items /\ ~r.short
  <2> DEFINE n == note_absent(e.b, r.slot)
  <2>1. x = [e EXCEPT !.touched = @ \cup {r.slot}, !.b = n]
    BY <1>2, Zenon DEF RemoveRecord
  <2> HIDE DEF e, x
  <2>2. Untouched(e.b, n)
    BY <1>0, NotesKeepItems, Zenon
  <2> HIDE DEF n
  <2>3. x.b = n
    BY <1>0, <2>1, Zenon DEF IsMerge
  <2>4. x.b.items = m.b.items
    BY <1>0, <2>2, <2>3, Zenon DEF Untouched
  <2> QED
    BY <1>2, <2>4, Zenon DEF x
<1>3. CASE r.slot \in DOMAIN m.b.items
  <2> DEFINE n == note_present(e.b, r.slot)
             old == m.b.items[r.slot]
             b == [n EXCEPT !.items = Without(@, r.slot),
                            !.total = sub32(@, old.unigram)]
             stop == IF old = r.old THEN "none" ELSE "mismatch"
  <2>1. x = [e EXCEPT !.touched = @ \cup {r.slot}, !.b = b, !.stop = stop]
    BY <1>3, Zenon DEF RemoveRecord
  <2> HIDE DEF e, x
  <2>2. Untouched(e.b, n)
    BY <1>0, NotesKeepItems, Zenon
  <2> HIDE DEF n
  <2>3. b.items = Without(m.b.items, r.slot)
    BY <1>0, <2>2, Zenon DEF Untouched, IsBuffer
  <2> HIDE DEF b
  <2>4. x.b = b /\ x.stop = stop
    BY <1>0, <2>1, Zenon DEF IsMerge
  <2>5. x.b.items = Without(m.b.items, r.slot) /\ (old = r.old => x.stop = "none")
    BY <2>3, <2>4, Zenon
  <2> QED
    BY <1>3, <2>5, Zenon DEF x
<1> QED
  BY <1>1, <1>2, <1>3, Zenon

\* A MODIFY that finds the item it names replaces it.
LEMMA ModifyRecordItems ==
    ASSUME NEW m, NEW r, IsMerge(m), IsBuffer(m.b)
    PROVE  LET x == ModifyRecord(m, r)
           IN  IF r.slot \in DOMAIN m.b.items /\ m.b.items[r.slot] = r.old
                 THEN /\ x.b.items = [m.b.items EXCEPT ![r.slot] = r.new]
                      /\ x.stop = m.stop
                 ELSE x.b.items = m.b.items
<1> DEFINE e == IF size(r.new) = size(r.old) THEN m ELSE begin_exceptional(m)
           n == IF e.exceptional THEN note_present(e.b, r.slot) ELSE e.b
           t == IF e.exceptional THEN {r.slot} ELSE {}
           total == IF size(r.new) > size(r.old)
                      THEN add32(sub32(n.total, r.old.unigram), r.new.unigram)
                      ELSE n.total
           b == [n EXCEPT !.items[r.slot] = r.new, !.total = total]
           x == ModifyRecord(m, r)
<1>1. CASE r.slot \notin DOMAIN m.b.items \/ m.b.items[r.slot] # r.old
  BY <1>1, Zenon DEF ModifyRecord, Mismatch, IsMerge
<1>2. CASE r.slot \in DOMAIN m.b.items /\ m.b.items[r.slot] = r.old
  <2>1. IsMerge(e) /\ Untouched(m.b, e.b) /\ e.stop = m.stop /\ IsBuffer(e.b)
    BY ExceptionalKeepsItems, Zenon DEF Untouched
  <2>2. x = [e EXCEPT !.touched = @ \cup t, !.modified = @ \cup {r.slot}, !.b = b]
    BY <1>2, Zenon DEF ModifyRecord
  <2> HIDE DEF e, x
  <2>3. Untouched(m.b, n)
    BY <2>1, NotesKeepItems, Zenon DEF Untouched
  <2> HIDE DEF n, total, t
  <2>4. b.items = [m.b.items EXCEPT ![r.slot] = r.new]
    BY <2>3, Zenon DEF Untouched, IsBuffer
  <2> HIDE DEF b
  <2>5. x.b = b /\ x.stop = m.stop
    BY <2>1, <2>2, Zenon DEF IsMerge
  <2>6. x.b.items = [m.b.items EXCEPT ![r.slot] = r.new] /\ x.stop = m.stop
    BY <2>4, <2>5, Zenon
  <2> QED
    BY <1>2, <2>6, Zenon DEF x
<1> QED
  BY <1>1, <1>2, Zenon

\* A header record that fits goes through; none touches an item.
LEMMA HeaderRecordItems ==
    ASSUME NEW m, NEW r, IsMerge(m), IsBuffer(m.b)
    PROVE  LET x == HeaderRecord(m, r)
           IN  /\ x.b.items = m.b.items
               /\ m.b.total = r.old => x.stop = m.stop
BY Zenon DEF HeaderRecord, Mismatch, IsMerge, IsBuffer

-----------------------------------------------------------------------------
\* One record: the items it writes, and what the rest of the records carries.

\* An item put into a slot, taken out of it or replaced in it: the other slots
\* keep theirs.
LEMMA SlotWrites ==
    ASSUME NEW items, Slotted(items), NEW s \in Slots, NEW v
    PROVE  /\ Slotted(Put(items, s, v)) /\ Slotted(Without(items, s))
           /\ Slotted([items EXCEPT ![s] = v])
           /\ \A t \in Slots \ {s} : /\ Agree(Put(items, s, v), items, t)
                                     /\ Agree(Without(items, s), items, t)
                                     /\ Agree([items EXCEPT ![s] = v], items, t)
<1>1. DOMAIN Put(items, s, v) = DOMAIN items \cup {s}
  BY Zenon DEF Put
<1>2. DOMAIN Without(items, s) = DOMAIN items \ {s}
  BY Zenon DEF Without
<1>3. Slotted(Put(items, s, v))
  BY <1>1, Zenon DEF Slotted, Put
<1>4. Slotted(Without(items, s))
  BY <1>2, Zenon DEF Slotted, Without
<1>5. Slotted([items EXCEPT ![s] = v])
  BY Zenon DEF Slotted
<1> QED
  BY <1>1, <1>2, <1>3, <1>4, <1>5, Zenon DEF Put, Without, Agree

\* A record writes its own slot at most, a header none (apply_backfilling).
LEMMA RecordWrites ==
    ASSUME NEW m, NEW r, IsMerge(m), IsBuffer(m.b), Slotted(m.b.items),
           r.kind = "HEADER" \/ r.slot \in Slots
    PROVE  LET x == apply_backfilling(m, r)
           IN  /\ Slotted(x.b.items)
               /\ \A s \in Slots : r.kind = "HEADER" \/ s # r.slot
                                     => Agree(x.b.items, m.b.items, s)
<1> DEFINE x == apply_backfilling(m, r)
           i == m.b.items
           j == x.b.items
<1>1. \/ j = i
      \/ /\ r.kind # "HEADER"
         /\ \/ j = Put(i, r.slot, r.new)
            \/ j = Without(i, r.slot)
            \/ j = [i EXCEPT ![r.slot] = r.new]
  <2>1. CASE r.kind = "ADD"
    BY <2>1, AddRecordItems DEF apply_backfilling
  <2>2. CASE r.kind = "REMOVE"
    BY <2>2, RemoveRecordItems, Zenon DEF apply_backfilling
  <2>3. CASE r.kind = "MODIFY"
    BY <2>3, ModifyRecordItems, Zenon DEF apply_backfilling
  <2>4. CASE r.kind \notin {"ADD", "REMOVE", "MODIFY"}
    BY <2>4, HeaderRecordItems, Zenon DEF apply_backfilling
  <2> QED
    BY <2>1, <2>2, <2>3, <2>4, Zenon
<1> HIDE DEF x
<1>2. \A s : Agree(i, i, s)
  BY Zenon DEF Agree
<1>3. CASE j = i
  BY <1>2, <1>3, Zenon DEF x
<1>4. CASE j # i
  <2>1. r.slot \in Slots
    BY <1>1, <1>4, Zenon
  <2> HIDE DEF i, j
  <2>2. LET w == r.slot
            v == r.new
        IN  /\ Slotted(Put(i, w, v)) /\ Slotted(Without(i, w))
            /\ Slotted([i EXCEPT ![w] = v])
            /\ \A s \in Slots \ {w} : /\ Agree(Put(i, w, v), i, s)
                                       /\ Agree(Without(i, w), i, s)
                                       /\ Agree([i EXCEPT ![w] = v], i, s)
    <3>1. Slotted(i)
      BY Zenon DEF i
    <3> QED
      BY <2>1, <3>1, SlotWrites, Zenon
  <2>3. Slotted(j) /\ \A s \in Slots \ {r.slot} : Agree(j, i, s)
    <3>1. CASE j = Put(i, r.slot, r.new)
      BY <2>2, <3>1, Zenon
    <3>2. CASE j = Without(i, r.slot)
      BY <2>2, <3>2, Zenon
    <3>3. CASE j = [i EXCEPT ![r.slot] = r.new]
      BY <2>2, <3>3, Zenon
    <3> QED
      BY <1>1, <1>4, <3>1, <3>2, <3>3, Zenon
  <2> QED
    BY <1>1, <1>4, <2>1, <2>3, Zenon DEF i, j, x
<1> QED
  BY <1>3, <1>4, Zenon

\* The record diff_live_records writes for a slot goes through and gives it
\* the item the save held.
LEMMA DiffApplies ==
    ASSUME NEW m, NEW new, NEW s \in Slots, IsMerge(m), IsBuffer(m.b),
           Slotted(m.b.items), m.stop = "none", Differs(m.b.items, new, s)
    PROVE  LET x == apply_backfilling(m, DiffRecord(m.b.items, new, s))
           IN  x.stop = "none" /\ Agree(x.b.items, new, s)
<1> DEFINE i == m.b.items
           r == DiffRecord(i, new, s)
           x == apply_backfilling(m, r)
<1>1. CASE s \notin DOMAIN i
  <2>1. s \in DOMAIN new
    BY <1>1 DEF Differs
  <2>2. r = [kind |-> "ADD", slot |-> s, new |-> new[s], short |-> FALSE]
    BY <1>1, <2>1, Zenon DEF DiffRecord
  <2> HIDE DEF r
  <2>3. x.b.items = Put(i, s, new[s]) /\ x.stop = m.stop
    BY <2>2, AddRecordItems, Zenon DEF apply_backfilling
  <2>4. s \in DOMAIN x.b.items /\ x.b.items[s] = new[s]
    BY <2>3, Zenon DEF Put
  <2> QED
    BY <2>1, <2>3, <2>4, Zenon DEF Agree, r
<1>2. CASE s \in DOMAIN i /\ s \notin DOMAIN new
  <2>1. r = [kind |-> "REMOVE", slot |-> s, old |-> i[s], short |-> FALSE]
    BY <1>2, Zenon DEF DiffRecord
  <2> HIDE DEF r
  <2>2. x.b.items = Without(i, s) /\ x.stop = "none"
    BY <1>2, <2>1, RemoveRecordItems DEF apply_backfilling
  <2>3. s \notin DOMAIN x.b.items
    BY <2>2, Zenon DEF Without
  <2> QED
    BY <1>2, <2>2, <2>3, Zenon DEF Agree, r
<1>3. CASE s \in DOMAIN i /\ s \in DOMAIN new
  <2>1. r = [kind |-> "MODIFY", slot |-> s, old |-> i[s], new |-> new[s],
             short |-> FALSE]
    BY <1>3, Zenon DEF DiffRecord
  <2> HIDE DEF r
  <2>2. x.b.items = [i EXCEPT ![s] = new[s]] /\ x.stop = m.stop
    BY <1>3, <2>1, ModifyRecordItems DEF apply_backfilling
  <2>3. s \in DOMAIN x.b.items /\ x.b.items[s] = new[s]
    BY <1>3, <2>2, Zenon
  <2> QED
    BY <1>3, <2>2, <2>3, Zenon DEF Agree, r
<1> QED
  BY <1>1, <1>2, <1>3, Zenon

\* What a slot's record depends on.
LEMMA SameDiff ==
    ASSUME NEW i, NEW j, NEW new, NEW t, Agree(j, i, t)
    PROVE  /\ Differs(j, new, t) <=> Differs(i, new, t)
           /\ Differs(i, new, t) => DiffRecord(j, new, t) = DiffRecord(i, new, t)
<1>1. Differs(j, new, t) <=> Differs(i, new, t)
  BY DEF Agree, Differs
<1>2. ASSUME Differs(i, new, t)
      PROVE  DiffRecord(j, new, t) = DiffRecord(i, new, t)
  <2>1. CASE t \notin DOMAIN i
    <3>1. t \in DOMAIN new /\ t \notin DOMAIN j
      BY <1>2, <2>1 DEF Agree, Differs
    <3> QED
      BY <2>1, <3>1, Zenon DEF DiffRecord
  <2>2. CASE t \in DOMAIN i
    <3>1. t \in DOMAIN j /\ j[t] = i[t]
      BY <2>2, Zenon DEF Agree
    <3> QED
      BY <2>2, <3>1, Zenon DEF DiffRecord
  <2> QED
    BY <2>1, <2>2, Zenon
<1> QED
  BY <1>1, <1>2, Zenon

\* Records that carry one set of items to another still do after the first is
\* applied.
LEMMA CarriesOn ==
    ASSUME NEW m, NEW records, NEW new, NEW scope \in SUBSET Slots,
           IsMerge(m), IsBuffer(m.b), Slotted(m.b.items), m.stop = "none",
           Carries(records, m.b.items, new, scope), records # <<>>
    PROVE  LET x == apply_backfilling(m, Head(records))
           IN  x.stop = "none" /\ Carries(Tail(records), x.b.items, new, scope)
<1> DEFINE i == m.b.items
           x == apply_backfilling(m, Head(records))
           j == x.b.items
           s == records[1].slot
           rest == Tail(records)
<1>1. PICK S : records \in Seq(S)
  BY Zenon DEF Carries
<1>2. /\ Len(records) \in Nat /\ 1 \in 1..Len(records) /\ Head(records) = records[1]
      /\ rest \in Seq(S) /\ Len(rest) = Len(records) - 1
      /\ \A k \in 1..Len(rest) : k + 1 \in 1..Len(records) /\ rest[k] = records[k + 1]
  BY <1>1
<1> HIDE DEF rest
<1>3. /\ s \in scope /\ s \in Slots /\ Differs(i, new, s)
      /\ records[1] = DiffRecord(i, new, s)
  BY <1>2, Zenon DEF Carries
<1>4. x.stop = "none" /\ Agree(j, new, s)
  <2>1. LET y == apply_backfilling(m, DiffRecord(i, new, s))
        IN  y.stop = "none" /\ Agree(y.b.items, new, s)
    BY <1>3, DiffApplies, Zenon
  <2>2. Head(records) = DiffRecord(i, new, s)
    BY <1>2, <1>3, Zenon
  <2> QED
    BY <2>1, <2>2, Zenon
<1>5. \A t \in Slots \ {s} : Agree(j, i, t)
  <2>1. records[1].slot \in Slots
    BY <1>3, Zenon
  <2> QED
    BY <1>2, <2>1, RecordWrites, Zenon
<1> HIDE DEF x, j
<1>6. ~Differs(j, new, s)
  BY <1>4 DEF Agree, Differs
<1>7. ASSUME NEW t \in Slots \ {s}
      PROVE  /\ Differs(j, new, t) <=> Differs(i, new, t)
             /\ Differs(i, new, t) => DiffRecord(j, new, t) = DiffRecord(i, new, t)
  <2>1. Agree(j, i, t)
    BY <1>5, Zenon
  <2> HIDE DEF i
  <2> QED
    BY <2>1, SameDiff
<1> HIDE DEF i, s
<1>8. ASSUME NEW k \in 1..Len(rest)
      PROVE  /\ rest[k].slot \in scope /\ Differs(j, new, rest[k].slot)
             /\ rest[k] = DiffRecord(j, new, rest[k].slot)
  <2>1. k + 1 \in 1..Len(records) /\ rest[k] = records[k + 1] /\ k + 1 # 1
    BY <1>2
  <2>2. records[k + 1].slot \in scope \ {s}
    BY <1>2, <2>1, Zenon DEF Carries, s
  <2>3. /\ Differs(i, new, records[k + 1].slot)
        /\ records[k + 1] = DiffRecord(i, new, records[k + 1].slot)
    BY <2>1, Zenon DEF Carries, i
  <2> QED
    BY <1>7, <2>1, <2>2, <2>3, Zenon
<1>9. ASSUME NEW k \in 1..Len(rest), NEW n \in 1..Len(rest), rest[k].slot = rest[n].slot
      PROVE  k = n
  <2>1. /\ k + 1 \in 1..Len(records) /\ n + 1 \in 1..Len(records)
        /\ records[k + 1].slot = records[n + 1].slot
    BY <1>2, <1>9, Zenon
  <2>2. k + 1 = n + 1
    BY <2>1, Zenon DEF Carries
  <2> QED
    BY <1>2, <2>2
<1>10. ASSUME NEW t \in scope, Differs(j, new, t)
       PROVE  \E k \in 1..Len(rest) : rest[k].slot = t
  <2>1. t # s /\ Differs(i, new, t)
    BY <1>6, <1>7, <1>10, Zenon
  <2>2. PICK n \in 1..Len(records) : records[n].slot = t
    BY <2>1, Zenon DEF Carries, i
  <2>3. n # 1
    BY <2>1, <2>2, Zenon DEF s
  <2>4. n - 1 \in 1..Len(rest) /\ (n - 1) + 1 = n
    BY <1>2, <2>2, <2>3
  <2>5. rest[n - 1].slot = t
    BY <1>2, <2>2, <2>4, Zenon
  <2> QED
    BY <2>4, <2>5, Zenon
<1>11. Carries(rest, j, new, scope)
  BY <1>2, <1>8, <1>9, <1>10, Zenon DEF Carries
<1> QED
  BY <1>4, <1>11, Zenon DEF rest, j, x

-----------------------------------------------------------------------------
\* The journal a save writes.

\* The journal a save writes carries the chunk's items to the saved ones
\* (diff_live_records).
LEMMA DiffCarries ==
    ASSUME NEW items, NEW total, NEW c
    PROVE  LET g == diff_live_records(items, total, c)
           IN  /\ Naming(g.records, Slots) /\ g.end = "clean"
               /\ CarriesAll(g.records, c.total, c.items, items, Slots)
<1> DEFINE at == {s \in Slots : Differs(c.items, items, s)}
           p == Picked(SlotSeq, at)
           d == DiffRecords(items, c)
           h == [kind |-> "HEADER", old |-> c.total, new |-> total]
           g == diff_live_records(items, total, c)
           S == {DiffRecord(c.items, items, s) : s \in at}
<1>1. SlotSeq \in Seq(Slots) /\ 1..Len(SlotSeq) = Slots /\ \A s \in Slots : SlotSeq[s] = s
  BY JournalAssumption DEF SlotSeq, Slots
<1>2. at \in SUBSET (1..Len(SlotSeq))
  BY <1>1, Zenon
<1>3. PICK q : PicksAt(p, q, SlotSeq, at)
  BY <1>1, <1>2, PickedPositions, Zenon
<1>4. p \in Seq(Slots)
  BY <1>1, <1>2, PickedPositions, Zenon
<1>5. d = [i \in DOMAIN p |-> DiffRecord(c.items, items, p[i])]
  BY Zenon DEF DiffRecords
<1>6. /\ g.records = <<h>> \o d /\ g.end = "clean"
  BY Zenon DEF diff_live_records
<1>7. ASSUME NEW s \in at
      PROVE  LET r == DiffRecord(c.items, items, s)
             IN  r.slot = s /\ r.kind # "HEADER" /\ s \in Slots
                 /\ Differs(c.items, items, s)
  <2>1. s \in Slots /\ Differs(c.items, items, s)
    BY Zenon
  <2>2. CASE s \notin DOMAIN c.items
    <3>1. s \in DOMAIN items
      BY <2>1, <2>2 DEF Differs
    <3> QED
      BY <2>1, <2>2, <3>1, Zenon DEF DiffRecord
  <2>3. CASE s \in DOMAIN c.items /\ s \notin DOMAIN items
    BY <2>1, <2>3, Zenon DEF DiffRecord
  <2>4. CASE s \in DOMAIN c.items /\ s \in DOMAIN items
    BY <2>1, <2>4, Zenon DEF DiffRecord
  <2> QED
    BY <2>2, <2>3, <2>4, Zenon
<1>8. \A s \in Slots : Differs(c.items, items, s) => s \in at
  BY Zenon
<1> HIDE DEF at, p, d, g
<1>9. /\ DOMAIN p = 1..Len(p) /\ Len(p) \in Nat
      /\ \A i \in 1..Len(p) : p[i] \in at
      /\ \A s \in at : \E i \in 1..Len(p) : p[i] = s
      /\ \A i, j \in 1..Len(p) : p[i] = p[j] => i = j
  <2>1. /\ q \in Seq(at) /\ Len(p) = Len(q)
        /\ \A i \in 1..Len(q) : q[i] \in at /\ p[i] = SlotSeq[q[i]]
    BY <1>3 DEF PicksAt
  <2>2. \A i \in 1..Len(q) : p[i] = q[i]
    BY <1>1, <1>7, <2>1, Zenon
  <2> QED
    BY <1>3, <1>4, <2>1, <2>2 DEF PicksAt
<1>10. /\ d \in Seq(S) /\ Len(d) = Len(p)
       /\ \A i \in 1..Len(p) : d[i] = DiffRecord(c.items, items, p[i])
  BY <1>5, <1>9
<1>11. \A r \in S : r.kind # "HEADER" /\ r.slot \in Slots
  BY <1>7, Zenon
<1>12. \A i \in 1..Len(d) : d[i].slot = p[i]
  BY <1>7, <1>9, <1>10, Zenon
<1>13. \A i \in 1..Len(d) : /\ d[i].slot \in Slots
                            /\ Differs(c.items, items, d[i].slot)
                            /\ d[i] = DiffRecord(c.items, items, d[i].slot)
  BY <1>7, <1>9, <1>10, <1>12, Zenon
<1>14. \A i, j \in 1..Len(d) : d[i].slot = d[j].slot => i = j
  BY <1>9, <1>10, <1>12
<1>15. \A s \in Slots :
         Differs(c.items, items, s) => \E i \in 1..Len(d) : d[i].slot = s
  BY <1>8, <1>9, <1>10, <1>12
<1>16. Carries(d, c.items, items, Slots)
  BY <1>10, <1>13, <1>14, <1>15, Zenon DEF Carries
<1> HIDE DEF S, h
<1>17. /\ g.records \in Seq(S \cup {h}) /\ g.records # <<>> /\ g.records[1] = h
       /\ Tail(g.records) = d
  BY <1>6, <1>10
<1>18. h.kind = "HEADER" /\ h.old = c.total
  BY Zenon DEF h
<1>19. \A r \in S \cup {h} : r.kind = "HEADER" \/ r.slot \in Slots
  BY <1>11, <1>18, Zenon
<1> QED
  BY <1>6, <1>16, <1>17, <1>18, <1>19, Zenon DEF Naming, CarriesAll, g

-----------------------------------------------------------------------------
\* The journal a mask leaves of it.

\* The records of a journal that mask_out keeps: those outside the mask, each
\* once (Kept).
LEMMA KeptPositions ==
    ASSUME NEW g, NEW mask, NEW S, g.records \in Seq(S)
    PROVE  LET at == {n \in 1..Len(g.records) : /\ g.records[n].kind # "HEADER"
                                                /\ g.records[n].slot \notin mask.slots}
           IN  /\ Kept(g, mask) \in Seq(S)
               /\ \E q : PicksAt(Kept(g, mask), q, g.records, at)
<1> DEFINE at == {n \in 1..Len(g.records) : /\ g.records[n].kind # "HEADER"
                                            /\ g.records[n].slot \notin mask.slots}
<1>1. DOMAIN g.records = 1..Len(g.records)
  OBVIOUS
<1>2. Kept(g, mask) = Picked(g.records, at)
  BY <1>1, Zenon DEF Kept
<1>3. at \in SUBSET (1..Len(g.records))
  BY Zenon
<1> HIDE DEF at
<1>4. /\ Picked(g.records, at) \in Seq(S)
      /\ \E q : PicksAt(Picked(g.records, at), q, g.records, at)
  BY <1>3, PickedPositions, Zenon
<1> QED
  BY <1>2, <1>4, Zenon DEF at

\* What mask_out replays names no masked slot (masked_log).
LEMMA MaskedNaming ==
    ASSUME NEW g, NEW mask, Naming(g.records, Slots)
    PROVE  Naming(masked_records(g, mask), Slots \ mask.slots)
<1> DEFINE at == {n \in 1..Len(g.records) : /\ g.records[n].kind # "HEADER"
                                            /\ g.records[n].slot \notin mask.slots}
           kept == Kept(g, mask)
           T == {r \in {kept[i] : i \in 1..Len(kept)} : r.slot \in Slots \ mask.slots}
<1>1. PICK S : /\ g.records \in Seq(S)
               /\ \A r \in S : r.kind = "HEADER" \/ r.slot \in Slots
  BY Zenon DEF Naming
<1>2. kept \in Seq(S) /\ \E q : PicksAt(kept, q, g.records, at)
  BY <1>1, KeptPositions, Zenon
<1>3. PICK q : PicksAt(kept, q, g.records, at)
  BY <1>2, Zenon
<1>4. \A n \in at : /\ g.records[n] \in S /\ g.records[n].kind # "HEADER"
                    /\ g.records[n].slot \notin mask.slots
  BY <1>1
<1> HIDE DEF at, kept
<1>5. ASSUME NEW i \in 1..Len(kept)
      PROVE  kept[i] \in T
  <2>1. q \in Seq(at) /\ Len(kept) = Len(q) /\ kept[i] = g.records[q[i]]
    BY <1>3, Zenon DEF PicksAt
  <2>2. q[i] \in at
    BY <2>1
  <2>3. kept[i].slot \in Slots \ mask.slots
    BY <1>1, <1>4, <2>1, <2>2, Zenon
  <2> QED
    BY <2>3, Zenon
<1> HIDE DEF T
<1>6. kept \in Seq(T)
  BY <1>2, <1>5
<1>7. \A r \in T : r.slot \in Slots \ mask.slots
  BY Zenon DEF T
<1>8. \E h : /\ h.kind = "HEADER"
             /\ \/ masked_records(g, mask) = <<h>>
                \/ masked_records(g, mask) = <<h>> \o kept
  <2>1. \A total : HeaderTo(g, total).kind = "HEADER"
    BY Zenon DEF HeaderTo
  <2>2. CASE g.end = "unknown"
    <3> DEFINE h == HeaderTo(g, Headers(g)[1].old)
    <3>1. masked_records(g, mask) = <<h>> /\ h.kind = "HEADER"
      BY <2>1, <2>2, Zenon DEF masked_records
    <3> HIDE DEF h
    <3> QED
      BY <3>1, Zenon
  <2>3. CASE g.end # "unknown"
    <3> DEFINE h == HeaderTo(g, KeptTotal(g, mask))
    <3>1. masked_records(g, mask) = <<h>> \o kept /\ h.kind = "HEADER"
      BY <2>1, <2>3, Zenon DEF masked_records, kept
    <3> HIDE DEF h
    <3> QED
      BY <3>1, Zenon
  <2> QED
    BY <2>2, <2>3, Zenon
<1>9. PICK h : /\ h.kind = "HEADER"
               /\ \/ masked_records(g, mask) = <<h>>
                  \/ masked_records(g, mask) = <<h>> \o kept
  BY <1>8, Zenon
<1>10. masked_records(g, mask) \in Seq(T \cup {h})
  <2>1. kept \in Seq(T \cup {h}) /\ <<h>> \in Seq(T \cup {h})
    BY <1>6
  <2>2. <<h>> \o kept \in Seq(T \cup {h})
    BY <2>1
  <2> QED
    BY <1>9, <2>1, <2>2, Zenon
<1>11. \A r \in T \cup {h} : r.kind = "HEADER" \/ r.slot \in Slots \ mask.slots
  BY <1>7, <1>9, Zenon
<1> QED
  BY <1>10, <1>11, Zenon DEF Naming

\* And what it replays of a save carries the slots outside the mask.
LEMMA MaskedCarries ==
    ASSUME NEW g, NEW mask, NEW total, NEW old, NEW new, g.end = "clean",
           Naming(g.records, Slots),
           CarriesAll(g.records, total, old, new, Slots)
    PROVE  /\ masked_log_kind(g, mask) # "empty"
           /\ CarriesAll(masked_records(g, mask), total, old, new, Slots \ mask.slots)
<1> DEFINE at == {n \in 1..Len(g.records) : /\ g.records[n].kind # "HEADER"
                                            /\ g.records[n].slot \notin mask.slots}
           kept == Kept(g, mask)
           rs == g.records
           d == Tail(rs)
           scope == Slots \ mask.slots
<1>1. PICK S : rs \in Seq(S)
  BY Zenon DEF Naming
<1>2. kept \in Seq(S) /\ \E q : PicksAt(kept, q, rs, at)
  BY <1>1, KeptPositions, Zenon
<1>3. PICK q : PicksAt(kept, q, rs, at)
  BY <1>2, Zenon
<1>4. /\ Len(rs) \in Nat /\ 1 \in 1..Len(rs) /\ rs[1].kind = "HEADER" /\ rs[1].old = total
      /\ Len(d) = Len(rs) - 1 /\ Len(d) \in Nat
      /\ \A n \in 2..Len(rs) : n - 1 \in 1..Len(d) /\ d[n - 1] = rs[n]
      /\ \A n \in 1..Len(d) : n + 1 \in 2..Len(rs) /\ rs[n + 1] = d[n]
  BY <1>1 DEF CarriesAll
<1>5. Carries(d, old, new, Slots)
  BY Zenon DEF CarriesAll
<1> HIDE DEF d
<1>6. ASSUME NEW n \in 1..Len(d)
      PROVE  /\ d[n].slot \in Slots /\ Differs(old, new, d[n].slot)
             /\ d[n] = DiffRecord(old, new, d[n].slot) /\ d[n].kind # "HEADER"
  <2>1. /\ d[n].slot \in Slots /\ Differs(old, new, d[n].slot)
        /\ d[n] = DiffRecord(old, new, d[n].slot)
    BY <1>5, Zenon DEF Carries
  <2>2. \A s : Differs(old, new, s) => DiffRecord(old, new, s).kind # "HEADER"
    BY Zenon DEF DiffRecord, Differs
  <2> QED
    BY <2>1, <2>2, Zenon
<1>7. ASSUME NEW n \in at
      PROVE  n \in 2..Len(rs) /\ rs[n] = d[n - 1] /\ n - 1 \in 1..Len(d)
             /\ rs[n].slot \notin mask.slots
  BY <1>4
<1>8. ASSUME NEW n \in 1..Len(d), d[n].slot \notin mask.slots
      PROVE  n + 1 \in at
  BY <1>4, <1>6, <1>8
<1> HIDE DEF at, kept
<1>9. /\ Len(q) \in Nat /\ Len(kept) = Len(q)
      /\ \A i \in 1..Len(q) : q[i] \in at /\ kept[i] = rs[q[i]]
      /\ \A n \in at : \E i \in 1..Len(q) : q[i] = n
      /\ \A i, j \in 1..Len(q) : q[i] = q[j] => i = j
  BY <1>3 DEF PicksAt
<1>10. ASSUME NEW i \in 1..Len(q)
       PROVE  /\ q[i] - 1 \in 1..Len(d) /\ kept[i] = d[q[i] - 1]
              /\ kept[i].slot \in scope /\ Differs(old, new, kept[i].slot)
              /\ kept[i] = DiffRecord(old, new, kept[i].slot)
  <2>1. /\ q[i] \in at /\ kept[i] = rs[q[i]]
    BY <1>9, Zenon
  <2>2. /\ rs[q[i]] = d[q[i] - 1] /\ q[i] - 1 \in 1..Len(d)
        /\ rs[q[i]].slot \notin mask.slots
    BY <1>7, <2>1, Zenon
  <2> QED
    BY <1>6, <2>1, <2>2, Zenon
<1>11. ASSUME NEW i \in 1..Len(q), NEW j \in 1..Len(q), kept[i].slot = kept[j].slot
       PROVE  i = j
  <2>1. q[i] - 1 = q[j] - 1
    BY <1>5, <1>10, <1>11 DEF Carries
  <2>2. q[i] = q[j]
    <3>1. q[i] \in at /\ q[j] \in at
      BY <1>9, Zenon
    <3>2. q[i] \in 2..Len(rs) /\ q[j] \in 2..Len(rs)
      BY <1>7, <3>1, Zenon
    <3> QED
      BY <1>4, <2>1, <3>2
  <2> QED
    BY <1>9, <2>2, Zenon
<1>12. ASSUME NEW s \in scope, Differs(old, new, s)
       PROVE  \E i \in 1..Len(q) : kept[i].slot = s
  <2>1. PICK n \in 1..Len(d) : d[n].slot = s
    BY <1>5, <1>12, Zenon DEF Carries
  <2>2. n + 1 \in at
    BY <1>8, <2>1, Zenon
  <2>3. PICK i \in 1..Len(q) : q[i] = n + 1
    BY <1>9, <2>2, Zenon
  <2>4. kept[i] = d[n]
    <3>1. kept[i] = rs[n + 1]
      BY <1>9, <2>3, Zenon
    <3> QED
      BY <1>4, <3>1, Zenon
  <2> QED
    BY <2>1, <2>4, Zenon
<1>13. Carries(kept, old, new, scope)
  BY <1>2, <1>9, <1>10, <1>11, <1>12, Zenon DEF Carries
<1>14. Headers(g) # <<>> /\ Headers(g)[1] = rs[1]
  <2> DEFINE H == {n \in 1..Len(rs) : rs[n].kind = "HEADER"}
  <2>1. H = {1}
    <3>1. \A n \in 1..Len(rs) : n = 1 \/ n \in 2..Len(rs)
      BY <1>4
    <3>2. \A n \in 2..Len(rs) : rs[n].kind # "HEADER"
      BY <1>4, <1>6, Zenon
    <3> QED
      BY <1>4, <3>1, <3>2, Zenon
  <2>2. Headers(g) = Picked(rs, H)
    <3>1. DOMAIN rs = 1..Len(rs)
      BY <1>1
    <3> QED
      BY <3>1, Zenon DEF Headers
  <2> HIDE DEF H
  <2>3. PICK k : PicksAt(Headers(g), k, rs, {1})
    BY <1>1, <1>4, <2>1, <2>2, PickedPositions, Zenon
  <2>4. /\ k \in Seq({1}) /\ Len(Headers(g)) = Len(k)
        /\ \A i \in 1..Len(k) : Headers(g)[i] = rs[k[i]]
        /\ \E i \in 1..Len(k) : k[i] = 1
    BY <2>3, Zenon DEF PicksAt
  <2>5. Len(k) \in Nat /\ 1 \in 1..Len(k) /\ k[1] = 1
    BY <2>4
  <2>6. Len(<<>>) = 0
    BY Zenon
  <2> QED
    BY <2>4, <2>5, <2>6
<1>15. masked_log_kind(g, mask) # "empty"
  BY <1>14, Zenon DEF masked_log_kind
<1> DEFINE h == HeaderTo(g, KeptTotal(g, mask))
<1>16. masked_records(g, mask) = <<h>> \o kept
  BY Zenon DEF masked_records, kept
<1>17. h.kind = "HEADER" /\ h.old = total
  BY <1>4, <1>14, Zenon DEF HeaderTo
<1> HIDE DEF h
<1>18. LET all == masked_records(g, mask)
       IN  all # <<>> /\ all[1] = h /\ Tail(all) = kept
  BY <1>2, <1>16
<1> QED
  BY <1>13, <1>15, <1>17, <1>18, Zenon DEF CarriesAll

-----------------------------------------------------------------------------
\* The steps that start a replay and take a journal.

\* What a mapped chunk holds.
LEMMA ChunkSlotted ==
    ASSUME NEW c \in Chunks
    PROVE  Slotted(c.items)
BY JournalAssumption, Zenon DEF Slotted

\* The first sessions find journals that name slots and stand for no save.
LEMMA JournalInit == Init => JournalInv
<1> SUFFICES ASSUME Init PROVE JournalInv
  BY Zenon
<1>1. \A g \in Logs : Naming(g.records, Slots)
  BY JournalAssumption, Zenon DEF Naming
<1>2. /\ DOMAIN log = Libs /\ DOMAIN saved = Libs /\ DOMAIN live = {}
      /\ \A l \in Libs : log[l] \in Logs /\ saved[l] = NoItems
  BY DEF Init
<1>3. ~NoItems.known
  BY Zenon DEF NoItems
<1> QED
  BY <1>1, <1>2, <1>3, Zenon DEF Init, JournalInv, JournalSound, Idle

\* A step between replays that leaves the disk alone and the session's items
\* in slots.
LEMMA SessionStep ==
    ASSUME JournalInv, UNCHANGED <<chunk, log, saved, replay>>, Idle,
           \A l \in DOMAIN live' : Slotted(live'[l].items)
    PROVE  JournalInv'
BY Zenon DEF JournalInv, Idle

\* One library's items are rewritten.
LEMMA BufferStep ==
    ASSUME JournalInv, UNCHANGED <<chunk, log, saved, replay>>, Idle,
           NEW l \in DOMAIN live, NEW b, live' = [live EXCEPT ![l] = b],
           Slotted(b.items)
    PROVE  JournalInv'
<1>1. \A k \in DOMAIN live' : Slotted(live'[k].items)
  BY Zenon DEF JournalInv
<1> QED
  BY <1>1, SessionStep, Zenon

\* A replay starts from fresh mappings.
LEMMA StartStep ==
    ASSUME Inv, JournalInv, Idle, UNCHANGED <<chunk, log, saved, live>>,
           NEW kind, NEW libs \in SUBSET Libs, NEW mask, NEW stop,
           kind = "mask" => libs \subseteq DOMAIN live,
           \/ replay' = Replaying(kind, libs, mask, stop)
           \/ replay' = NoReplay
           \/ replay' = replay
    PROVE  JournalInv'
<1> DEFINE r == Replaying(kind, libs, mask, stop)
<1>1. /\ r.kind = kind /\ r.todo = libs /\ r.merging = FALSE /\ DOMAIN r.replayed = libs
      /\ \A l \in libs : r.replayed[l] = from_mapping(chunk[l])
  BY Zenon DEF Replaying
<1> HIDE DEF r
<1>2. ASSUME NEW l \in libs
      PROVE  /\ r.replayed[l].items = chunk[l].items
             /\ r.replayed[l].total = chunk[l].total
             /\ Slotted(r.replayed[l].items)
  <2>1. chunk[l] \in Chunks
    BY Zenon DEF Inv
  <2>2. Slotted(chunk[l].items)
    BY <2>1, ChunkSlotted, Zenon
  <2>3. r.replayed[l] = from_mapping(chunk[l])
    BY <1>1, Zenon
  <2>4. /\ r.replayed[l].items = chunk[l].items
        /\ r.replayed[l].total = chunk[l].total
    BY <2>3 DEF from_mapping
  <2> QED
    BY <2>2, <2>4, Zenon
<1>3. replay' = r => ReplaySound(replay)'
  BY <1>1, <1>2, Zenon DEF ReplaySound
<1>4. replay' = r \/ Idle'
  BY Zenon DEF Idle, r
<1> QED
  BY <1>3, <1>4, Zenon DEF JournalInv

-----------------------------------------------------------------------------
\* What a step of a replay leaves alone.
SameReplay(r, q) ==
    /\ q.kind = r.kind /\ q.mask = r.mask
    /\ DOMAIN q.replayed = DOMAIN r.replayed

\* The scope of a library does not change in a replay.
LEMMA SameScope ==
    ASSUME NEW r, NEW q, SameReplay(r, q), NEW l
    PROVE  Scope(q, l) = Scope(r, l) /\ Scope(r, l) \subseteq Slots
BY Zenon DEF SameReplay, Scope

\* A library whose journal has no say is as the chunk ships it.
LEMMA TakeLogEmpty ==
    ASSUME Inv, JournalInv, NEW l \in Libs, TakeLog(l),
           replay' = [replay EXCEPT !.todo = @ \ {l}],
           replay.kind = "mask",
           \/ l \notin replay.mask.libs
           \/ masked_log_kind(log[l], replay.mask) = "empty"
    PROVE  JournalInv'
<1>1. /\ ~Idle /\ ~replay.merging /\ l \in replay.todo /\ ReplayInv(replay)
      /\ ReplaySound(replay) /\ JournalSound(log[l], chunk[l], saved[l])
      /\ UNCHANGED <<chunk, log, saved, live>>
  BY Zenon DEF TakeLog, Inv, JournalInv, Fault, disk, session
<1>2. /\ SameReplay(replay, replay') /\ replay'.todo = replay.todo \ {l}
      /\ replay'.merging = replay.merging /\ replay'.replayed = replay.replayed
  BY <1>1, Zenon DEF ReplayInv, IsReplay, SameReplay
<1>3. \A k : Scope(replay', k) = Scope(replay, k)
  BY <1>2, SameScope, Zenon
<1>4. l \in DOMAIN replay.replayed /\ replay.replayed[l].items = chunk[l].items
  BY <1>1, Zenon DEF ReplayInv, ReplaySound
<1>5. Restored(Scope(replay, l), chunk[l], saved[l], replay.replayed[l].items)
  <2>1. \A s \in Slots : Agree(replay.replayed[l].items, chunk[l].items, s)
    BY <1>4, Zenon DEF Agree
  <2>2. CASE l \notin replay.mask.libs
    BY <2>1, <2>2, Zenon DEF Restored, Scope
  <2>3. CASE l \in replay.mask.libs
    <3>1. ~saved[l].known
      BY <1>1, <2>3, MaskedCarries, Zenon DEF JournalSound
    <3> QED
      BY <2>1, <3>1, Zenon DEF Restored
  <2> QED
    BY <2>2, <2>3, Zenon
<1>6. ASSUME NEW k \in DOMAIN replay.replayed
      PROVE  \/ /\ k \in replay'.todo
                /\ replay.replayed[k].items = chunk[k].items
                /\ replay.replayed[k].total = chunk[k].total
             \/ /\ k \notin replay'.todo
                /\ Restored(Scope(replay', k), chunk[k], saved[k],
                            replay.replayed[k].items)
  BY <1>1, <1>2, <1>3, <1>5, Zenon DEF ReplaySound
<1>7. ReplaySound(replay)'
  BY <1>1, <1>2, <1>6, Zenon DEF ReplaySound, SameReplay
<1> QED
  BY <1>1, <1>7, Zenon DEF JournalInv, Idle

\* A merge starts with records that carry the mapped chunk to the save.
LEMMA TakeLogMerge ==
    ASSUME Inv, JournalInv, NEW l \in Libs, TakeLog(l), NEW records, NEW end,
           replay' = [replay EXCEPT !.todo = @ \ {l}, !.at = l, !.merging = TRUE,
                                    !.m = from_live(replay.replayed[l]),
                                    !.records = records, !.end = end],
           \/ /\ replay.kind # "mask" /\ records = log[l].records /\ end = log[l].end
           \/ /\ replay.kind = "mask" /\ l \in replay.mask.libs
              /\ records = masked_records(log[l], replay.mask) /\ end = "clean"
    PROVE  JournalInv'
<1> DEFINE scope == Scope(replay, l)
<1>1. /\ ~Idle /\ ~replay.merging /\ l \in replay.todo /\ ReplayInv(replay)
      /\ ReplaySound(replay) /\ JournalSound(log[l], chunk[l], saved[l])
      /\ UNCHANGED <<chunk, log, saved, live>>
  BY Zenon DEF TakeLog, Inv, JournalInv, Fault, disk, session
<1>2. /\ SameReplay(replay, replay') /\ replay'.todo = replay.todo \ {l}
      /\ replay'.merging = TRUE /\ replay'.replayed = replay.replayed
      /\ replay'.at = l /\ replay'.m = from_live(replay.replayed[l])
      /\ replay'.records = records /\ replay'.end = end
  BY <1>1, Zenon DEF ReplayInv, IsReplay, SameReplay
<1>3. \A k : Scope(replay', k) = Scope(replay, k)
  BY <1>2, SameScope
<1>4. /\ l \in DOMAIN replay.replayed /\ Slotted(replay.replayed[l].items)
      /\ replay.replayed[l].items = chunk[l].items
      /\ replay.replayed[l].total = chunk[l].total
  BY <1>1, Zenon DEF ReplayInv, ReplaySound
<1>5. /\ Naming(records, scope)
      /\ saved[l].known =>
           /\ end = "clean"
           /\ CarriesAll(records, chunk[l].total, chunk[l].items, saved[l].items, scope)
  <2>1. CASE replay.kind # "mask"
    BY <1>1, <2>1, Zenon DEF JournalSound, Scope
  <2>2. CASE replay.kind = "mask"
    <3>1. scope = Slots \ replay.mask.slots
      BY <2>2, Zenon DEF Scope
    <3> HIDE DEF scope
    <3> QED
      BY <1>1, <2>2, <3>1, MaskedNaming, MaskedCarries DEF JournalSound
  <2> QED
    BY <2>1, <2>2, Zenon
<1> HIDE DEF scope
<1>6. replay'.m.b = replay.replayed[l] /\ replay'.m.stop = "none"
  BY <1>2 DEF from_live
<1>7. \A s \in Slots \ scope : Agree(replay.replayed[l].items, chunk[l].items, s)
  BY <1>4, Zenon DEF Agree
<1>8. Restoring(scope, chunk[l], saved[l], replay')
  BY <1>2, <1>4, <1>5, <1>6, <1>7, Zenon DEF Restoring
<1>9. ASSUME NEW k \in DOMAIN replay.replayed
      PROVE  \/ /\ k \in replay'.todo \/ k = l
                /\ replay.replayed[k].items = chunk[k].items
                /\ replay.replayed[k].total = chunk[k].total
             \/ /\ k \notin replay'.todo
                /\ Restored(Scope(replay', k), chunk[k], saved[k],
                            replay.replayed[k].items)
  BY <1>1, <1>2, <1>3, <1>4, Zenon DEF ReplaySound
<1>10. ReplaySound(replay)'
  BY <1>1, <1>2, <1>3, <1>8, <1>9 DEF ReplaySound, SameReplay, scope
<1> QED
  BY <1>1, <1>10, Zenon DEF JournalInv, Idle

\* A replay that takes the next library's journal.
LEMMA TakeLogJournal ==
    ASSUME Inv, JournalInv, NEW l \in Libs, TakeLog(l)
    PROVE  JournalInv'
<1>1. CASE Fault(l)
  BY <1>1, Zenon DEF Fault, JournalInv, Idle, disk, session
<1>2. CASE ~Fault(l) /\ replay.kind # "mask"
  <2>1. replay' = [replay EXCEPT !.todo = @ \ {l}, !.at = l, !.merging = TRUE,
                                 !.m = from_live(replay.replayed[l]),
                                 !.records = log[l].records, !.end = log[l].end]
    BY <1>2, Zenon DEF TakeLog
  <2> QED
    BY <1>2, <2>1, TakeLogMerge, Zenon
<1>3. CASE ~Fault(l) /\ replay.kind = "mask"
  <2>1. \/ /\ l \notin replay.mask.libs \/ masked_log_kind(log[l], replay.mask) = "empty"
           /\ replay' = [replay EXCEPT !.todo = @ \ {l}]
        \/ /\ l \in replay.mask.libs
           /\ replay' = [replay EXCEPT !.todo = @ \ {l}, !.at = l, !.merging = TRUE,
                           !.m = from_live(replay.replayed[l]),
                           !.records = masked_records(log[l], replay.mask),
                           !.end = "clean"]
    BY <1>3, Zenon DEF TakeLog
  <2> QED
    BY <1>3, <2>1, TakeLogEmpty, TakeLogMerge, Zenon
<1> QED
  BY <1>1, <1>2, <1>3, Zenon

-----------------------------------------------------------------------------
\* The steps that apply a journal and publish the buffers.

\* One record of a library that is coming back: the scope, and what the rest
\* of the records carries, stay right.
LEMMA RestoringOn ==
    ASSUME NEW r, NEW q, NEW scope \in SUBSET Slots, NEW c, NEW save,
           MergeInv(r.m), Restoring(scope, c, save, r), r.records # <<>>,
           q.m = apply_backfilling(r.m, Head(r.records)),
           q.records = Tail(r.records), q.end = r.end
    PROVE  Restoring(scope, c, save, q)
<1> DEFINE m == r.m
           head == Head(r.records)
           x == apply_backfilling(m, head)
<1>1. IsMerge(m) /\ IsBuffer(m.b) /\ Slotted(m.b.items)
  BY Zenon DEF MergeInv, Restoring
<1>2. PICK S : r.records \in Seq(S) /\ \A e \in S : e.kind = "HEADER" \/ e.slot \in scope
  BY Zenon DEF Restoring, Naming
<1>3. head \in S /\ head = r.records[1] /\ Tail(r.records) \in Seq(S)
  BY <1>2
<1>4. head.kind = "HEADER" \/ (head.slot \in scope /\ head.slot \in Slots)
  BY <1>2, <1>3, Zenon
<1>5. /\ Slotted(x.b.items)
      /\ \A s \in Slots : head.kind = "HEADER" \/ s # head.slot
                            => Agree(x.b.items, m.b.items, s)
  BY <1>1, <1>4, RecordWrites, Zenon
<1>6. Naming(q.records, scope)
  BY <1>2, <1>3, Zenon DEF Naming
<1>7. \A s \in Slots \ scope : Agree(x.b.items, c.items, s)
  <2> SUFFICES ASSUME NEW s \in Slots \ scope PROVE Agree(x.b.items, c.items, s)
    BY Zenon
  <2>1. Agree(x.b.items, m.b.items, s)
    BY <1>4, <1>5, Zenon
  <2>2. Agree(m.b.items, c.items, s)
    BY Zenon DEF Restoring
  <2> HIDE DEF x, m
  <2> QED
    BY <2>1, <2>2, Zenon DEF Agree
<1>8. ASSUME save.known
      PROVE  /\ x.stop = "none"
             /\ Carries(Tail(r.records), x.b.items, save.items, scope)
  <2>1. m.stop = "none"
    BY <1>8, Zenon DEF Restoring
  <2>2. CASE CarriesAll(r.records, m.b.total, m.b.items, save.items, scope)
    <3>1. head.kind = "HEADER" /\ m.b.total = head.old
      BY <1>3, <2>2, Zenon DEF CarriesAll
    <3>2. x = HeaderRecord(m, head)
      BY <3>1, Zenon DEF apply_backfilling
    <3>3. x.b.items = m.b.items /\ x.stop = m.stop
      BY <1>1, <3>1, <3>2, HeaderRecordItems
    <3> QED
      BY <2>1, <2>2, <3>3, Zenon DEF CarriesAll
  <2>3. CASE Carries(r.records, m.b.items, save.items, scope)
    BY <1>1, <2>1, <2>3, CarriesOn, Zenon
  <2> QED
    BY <1>8, <2>2, <2>3, Zenon DEF Restoring
<1>9. save.known => r.end = "clean"
  BY Zenon DEF Restoring
<1> HIDE DEF x, head
<1>10. q.m = x
  BY Zenon DEF x, head
<1> QED
  BY <1>5, <1>6, <1>7, <1>8, <1>9, <1>10, Zenon DEF Restoring

\* A replay that applies one record.
LEMMA ApplyRecordJournal ==
    ASSUME Inv, JournalInv, ApplyRecord
    PROVE  JournalInv'
<1>1. /\ ~Idle /\ replay.merging /\ ReplayInv(replay) /\ ReplaySound(replay)
      /\ replay.records # <<>>
      /\ replay' = [replay EXCEPT !.m = apply_backfilling(@, Head(replay.records)),
                                  !.records = Tail(@)]
      /\ UNCHANGED <<chunk, log, saved, live>>
  BY Zenon DEF ApplyRecord, Inv, JournalInv, disk, session
<1>2. /\ SameReplay(replay, replay') /\ replay'.todo = replay.todo
      /\ replay'.merging = replay.merging /\ replay'.replayed = replay.replayed
      /\ replay'.at = replay.at
      /\ replay'.m = apply_backfilling(replay.m, Head(replay.records))
      /\ replay'.records = Tail(replay.records) /\ replay'.end = replay.end
  BY <1>1, Zenon DEF ReplayInv, IsReplay, SameReplay
<1>3. \A k : Scope(replay', k) = Scope(replay, k) /\ Scope(replay, k) \in SUBSET Slots
  BY <1>2, SameScope, Zenon
<1> DEFINE l == replay.at
<1>4. /\ MergeInv(replay.m)
      /\ Restoring(Scope(replay, l), chunk[l], saved[l], replay)
  BY <1>1, Zenon DEF ReplayInv, ReplaySound
<1>5. Restoring(Scope(replay, l), chunk[l], saved[l], replay')
  BY <1>1, <1>2, <1>3, <1>4, RestoringOn, Zenon
<1>6. ReplaySound(replay)'
  BY <1>1, <1>2, <1>3, <1>5 DEF ReplaySound, SameReplay
<1> QED
  BY <1>1, <1>6, Zenon DEF JournalInv, Idle

\* A replay that has read a journal to its end: the records of a save are all
\* applied, and nothing is rolled back.
LEMMA FinishLogJournal ==
    ASSUME Inv, JournalInv, FinishLog
    PROVE  JournalInv'
<1> DEFINE stop == IF replay.m.stop # "none" THEN replay.m.stop ELSE replay.end
           b == IF stop = "over_read" THEN replay.replayed[replay.at]
                ELSE finish_live_owner(replay.m)
           l == replay.at
           scope == Scope(replay, l)
<1>1. /\ ~Idle /\ replay.merging /\ ReplayInv(replay) /\ ReplaySound(replay)
      /\ replay.m.stop # "none" \/ replay.records = <<>>
      /\ UNCHANGED <<chunk, log, saved, live>>
  BY Zenon DEF FinishLog, Inv, JournalInv, Fault, disk, session
<1>2. CASE replay' = NoReplay
  BY <1>1, <1>2, Zenon DEF JournalInv, Idle
<1>3. CASE replay' = [replay EXCEPT !.merging = FALSE, !.m = <<>>, !.records = <<>>,
                                    !.replayed[replay.at] = b]
  <2>1. /\ MergeInv(replay.m) /\ Restoring(scope, chunk[l], saved[l], replay)
        /\ l \in DOMAIN replay.replayed \ replay.todo
        /\ Slotted(replay.replayed[l].items)
    BY <1>1, Zenon DEF ReplayInv, ReplaySound
  <2>2. /\ Slotted(b.items) /\ Restored(scope, chunk[l], saved[l], b.items)
    <3>1. CASE stop = "over_read"
      <4>1. ~saved[l].known
        BY <2>1, <3>1, Zenon DEF Restoring
      <4>2. \/ replay.replayed[l].items = chunk[l].items
            \/ Restored(scope, chunk[l], saved[l], replay.replayed[l].items)
        BY <1>1, <2>1, Zenon DEF ReplaySound
      <4>3. Restored(scope, chunk[l], saved[l], replay.replayed[l].items)
        BY <4>1, <4>2, Zenon DEF Restored, Agree
      <4> QED
        BY <2>1, <3>1, <4>3, Zenon
    <3>2. CASE stop # "over_read"
      <4>1. b.items = replay.m.b.items
        BY <2>1, <3>2, Zenon DEF finish_live_owner, MergeInv, IsBuffer
      <4>2. ASSUME saved[l].known
            PROVE  \A s \in scope : Agree(replay.m.b.items, saved[l].items, s)
        <5>1. replay.records = <<>>
          BY <1>1, <2>1, <4>2, Zenon DEF Restoring
        <5>2. Carries(<<>>, replay.m.b.items, saved[l].items, scope)
          BY <2>1, <4>2, <5>1, Zenon DEF Restoring, CarriesAll
        <5>3. \A s \in scope : ~Differs(replay.m.b.items, saved[l].items, s)
          BY <5>2 DEF Carries
        <5> QED
          BY <5>3, Zenon DEF Differs, Agree
      <4> HIDE DEF b
      <4> QED
        BY <2>1, <4>1, <4>2, Zenon DEF Restoring, Restored
    <3> QED
      BY <3>1, <3>2, Zenon
  <2> HIDE DEF b
  <2>3. /\ SameReplay(replay, replay') /\ replay'.todo = replay.todo
        /\ replay'.merging = FALSE
        /\ replay'.replayed = [replay.replayed EXCEPT ![l] = b]
    BY <1>1, <1>3, Zenon DEF ReplayInv, IsReplay, SameReplay
  <2>4. \A k : Scope(replay', k) = Scope(replay, k)
    BY <2>3, SameScope, Zenon
  <2>5. \A k \in DOMAIN replay.replayed :
          replay'.replayed[k] = IF k = l THEN b ELSE replay.replayed[k]
    BY <2>3, Zenon
  <2>6. ASSUME NEW k \in DOMAIN replay.replayed
        PROVE  /\ Slotted(replay'.replayed[k].items)
               /\ \/ /\ k \in replay'.todo
                     /\ replay'.replayed[k].items = chunk[k].items
                     /\ replay'.replayed[k].total = chunk[k].total
                  \/ /\ k \notin replay'.todo
                     /\ Restored(Scope(replay', k), chunk[k], saved[k],
                                 replay'.replayed[k].items)
    <3>1. CASE k = l
      BY <2>1, <2>2, <2>3, <2>4, <2>5, <3>1, Zenon
    <3>2. CASE k # l
      BY <1>1, <2>3, <2>4, <2>5, <3>2, Zenon DEF ReplaySound
    <3> QED
      BY <3>1, <3>2, Zenon
  <2>7. ReplaySound(replay)'
    BY <1>1, <2>3, <2>6, Zenon DEF ReplaySound, SameReplay
  <2> QED
    BY <1>1, <2>7, Zenon DEF JournalInv, Idle
<1> QED
  BY <1>2, <1>3, Zenon DEF FinishLog, Fault

\* compact_libraries rewrites the totals only.
LEMMA CompactKeepsItems ==
    ASSUME NEW f, \A l \in DOMAIN f : IsBuffer(f[l])
    PROVE  /\ DOMAIN Compacted(f) = DOMAIN f
           /\ \A l \in DOMAIN f : Compacted(f)[l].items = f[l].items
<1>1. /\ DOMAIN Compacted(f) = DOMAIN f
      /\ \A l \in DOMAIN f : Compacted(f)[l] = [f[l] EXCEPT !.total = Sum(f[l].items)]
  BY Zenon DEF Compacted
<1>2. ASSUME NEW l \in DOMAIN f
      PROVE  [f[l] EXCEPT !.total = Sum(f[l].items)].items = f[l].items
  BY Zenon DEF IsBuffer
<1> QED
  BY <1>1, <1>2, Zenon

\* What a replay publishes: the items it brought back, and those of the
\* libraries it left alone.
LEMMA Published ==
    ASSUME Inv, Publish
    PROVE  /\ DOMAIN live' = DOMAIN live \cup DOMAIN replay.replayed
           /\ \A l \in DOMAIN live' :
                live'[l].items = IF l \in DOMAIN replay.replayed
                                   THEN replay.replayed[l].items ELSE live[l].items
<1> DEFINE all == [l \in DOMAIN live \cup DOMAIN replay.replayed |->
                     IF l \in DOMAIN replay.replayed THEN replay.replayed[l]
                     ELSE live[l]]
<1>1. ReplayInv(replay) /\ (live' = Compacted(all) \/ live' = all)
  BY Zenon DEF Publish, Inv
<1>2. /\ DOMAIN all = DOMAIN live \cup DOMAIN replay.replayed
      /\ \A l \in DOMAIN all : all[l] = IF l \in DOMAIN replay.replayed
                                          THEN replay.replayed[l] ELSE live[l]
  BY Zenon
<1> HIDE DEF all
<1>3. \A l \in DOMAIN all : IsBuffer(all[l])
  BY <1>1, <1>2, Zenon DEF Inv, SessionInv, ReplayInv, BufferInv
<1>4. /\ DOMAIN live' = DOMAIN all
      /\ \A l \in DOMAIN all : live'[l].items = all[l].items
  BY <1>1, <1>3, CompactKeepsItems, Zenon
<1> QED
  BY <1>2, <1>4, Zenon

\* A replay that publishes its buffers.
LEMMA PublishJournal ==
    ASSUME Inv, JournalInv, Publish
    PROVE  JournalInv'
<1>1. /\ ReplaySound(replay) /\ replay' = NoReplay /\ UNCHANGED <<chunk, log, saved>>
  BY Zenon DEF Publish, JournalInv, disk
<1>2. \A l \in DOMAIN live' : Slotted(live'[l].items)
  BY <1>1, Published, Zenon DEF ReplaySound, JournalInv
<1> QED
  BY <1>1, <1>2, Zenon DEF JournalInv, Idle

-----------------------------------------------------------------------------
\* The other operations, and the invariant.

\* Training a phrase of a system library.
LEMMA TrainJournal ==
    ASSUME Inv, JournalInv, NEW l, NEW s, NEW keys, NEW delta, Train(l, s, keys, delta)
    PROVE  JournalInv'
<1> DEFINE item == Trained(live[l].items[s], keys, delta)
           b == [live[l] EXCEPT !.items[s] = item, !.removed = TRUE]
<1>1. /\ Idle /\ l \in DOMAIN live /\ live' = [live EXCEPT ![l] = b]
      /\ IsBuffer(live[l]) /\ Slotted(live[l].items)
      /\ UNCHANGED <<chunk, log, saved, replay>>
  BY Zenon DEF Train, Inv, SessionInv, BufferInv, JournalInv, disk
<1> HIDE DEF item
<1>2. b.items = [live[l].items EXCEPT ![s] = item]
  BY <1>1, Zenon DEF IsBuffer
<1> HIDE DEF b
<1>3. Slotted(b.items)
  BY <1>1, <1>2, Zenon DEF Slotted
<1> QED
  BY <1>1, <1>3, BufferStep, Zenon

\* A unigram that grows in place.
LEMMA UnigramSlotted ==
    ASSUME NEW b, NEW s, NEW delta, IsBuffer(b), Slotted(b.items)
    PROVE  Slotted(WithUnigram(b, s, delta).items)
<1> DEFINE item == [b.items[s] EXCEPT !.unigram = add32(@, delta)]
<1>1. WithUnigram(b, s, delta).items = [b.items EXCEPT ![s] = item]
  BY Zenon DEF WithUnigram, IsBuffer
<1> HIDE DEF item
<1> QED
  BY <1>1, Zenon DEF Slotted

\* Adding to the unigram of a phrase.
LEMMA AddUnigramJournal ==
    ASSUME Inv, JournalInv, NEW l, NEW s, NEW delta, AddUnigram(l, s, delta)
    PROVE  JournalInv'
<1>1. /\ Idle /\ l \in DOMAIN live /\ IsBuffer(live[l]) /\ Slotted(live[l].items)
      /\ UNCHANGED <<chunk, log, saved, replay>>
      /\ live' = live \/ live' = [live EXCEPT ![l] = WithUnigram(live[l], s, delta)]
  BY Zenon DEF AddUnigram, Inv, SessionInv, BufferInv, JournalInv, disk
<1>2. CASE live' = live
  BY <1>1, <1>2, SessionStep, Zenon DEF JournalInv
<1>3. CASE live' = [live EXCEPT ![l] = WithUnigram(live[l], s, delta)]
  BY <1>1, <1>3, UnigramSlotted, BufferStep, Zenon
<1> QED
  BY <1>1, <1>2, <1>3, Zenon

\* What add_item and remove_item make of a buffer's items.
LEMMA ItemSlotted ==
    ASSUME NEW b, NEW s \in Slots, NEW item, IsBuffer(b), Slotted(b.items)
    PROVE  /\ IsBuffer(add_item(b, s, item)) /\ Slotted(add_item(b, s, item).items)
           /\ IsBuffer(remove_item(b, s)) /\ Slotted(remove_item(b, s).items)
<1> DEFINE n == IF s \in DOMAIN b.items THEN b ELSE note_absent(b, s)
           p == note_present(b, s)
<1>1. Untouched(b, n) /\ Untouched(b, p)
  BY NotesKeepItems, Zenon DEF Untouched
<1>2. /\ add_item(b, s, item) =
           [n EXCEPT !.items = Put(@, s, item), !.total = add32(@, item.unigram),
                     !.has_added_items = TRUE]
      /\ remove_item(b, s) = [p EXCEPT !.items = Without(@, s),
                                       !.total = sub32(@, b.items[s].unigram)]
  BY Zenon DEF add_item, remove_item
<1> HIDE DEF n, p
<1>3. /\ IsBuffer(add_item(b, s, item)) /\ IsBuffer(remove_item(b, s))
      /\ add_item(b, s, item).items = Put(b.items, s, item)
      /\ remove_item(b, s).items = Without(b.items, s)
  BY <1>1, <1>2 DEF Untouched, IsBuffer
<1>4. Slotted(Put(b.items, s, item)) /\ Slotted(Without(b.items, s))
  BY SlotWrites, Zenon
<1> QED
  BY <1>3, <1>4, Zenon

\* An import that makes an item, in the slot after the last.
LEMMA AddPhraseJournal ==
    ASSUME Inv, JournalInv, NEW l, NEW keys, NEW delta, AddPhrase(l, keys, delta)
    PROVE  JournalInv'
<1> DEFINE s == range_end(live[l])
           item == [unigram |-> 0, prons |-> <<[keys |-> keys, freq |-> delta]>>]
           b == add_item(live[l], s, item)
           increment == (delta * UnigramFactor) % Word
<1>1. /\ Idle /\ l \in DOMAIN live /\ IsBuffer(live[l]) /\ Slotted(live[l].items)
      /\ UNCHANGED <<chunk, log, saved, replay>> /\ s <= MaxSlot
      /\ \/ live' = [live EXCEPT ![l] = b]
         \/ live' = [live EXCEPT ![l] = WithUnigram(b, s, increment)]
  BY Zenon DEF AddPhrase, Inv, SessionInv, BufferInv, JournalInv, disk
<1>2. s \in Slots
  <2> DEFINE D == DOMAIN live[l].items
             Last_(n) == /\ n = 0 \/ n \in D
                         /\ \A x \in D : x <= n
             n == CHOOSE n \in 0..MaxSlot : Last_(n)
  <2>1. D \in SUBSET Slots
    BY <1>1, Zenon DEF Slotted
  <2>2. \E k \in 0..MaxSlot : Last_(k)
    BY <2>1, LastSlot, Zenon
  <2>3. s = 1 + n
    BY Zenon DEF range_end
  <2> HIDE DEF Last_
  <2>4. n \in 0..MaxSlot
    BY <2>2, Zenon
  <2> HIDE DEF n, s
  <2> QED
    BY <1>1, <2>3, <2>4, JournalAssumption DEF Slots, s
<1> HIDE DEF s, item, increment
<1>3. IsBuffer(b) /\ Slotted(b.items)
  BY <1>1, <1>2, ItemSlotted, Zenon
<1> HIDE DEF b
<1>4. Slotted(WithUnigram(b, s, increment).items)
  BY <1>3, UnigramSlotted, Zenon
<1> QED
  BY <1>1, <1>3, <1>4, BufferStep, Zenon

\* An import that adds a reading to one.
LEMMA MergeReadingJournal ==
    ASSUME Inv, JournalInv, NEW l, NEW s \in Slots, NEW keys, NEW delta,
           MergeReading(l, s, keys, delta)
    PROVE  JournalInv'
<1> DEFINE item == WithReading(live[l].items[s], keys, delta)
           g == remove_item(live[l], s)
           b == add_item(g, s, item)
<1>1. /\ Idle /\ l \in DOMAIN live /\ IsBuffer(live[l]) /\ Slotted(live[l].items)
      /\ UNCHANGED <<chunk, log, saved, replay>> /\ live' = [live EXCEPT ![l] = b]
  BY Zenon DEF MergeReading, Inv, SessionInv, BufferInv, JournalInv, disk
<1> HIDE DEF item
<1>2. IsBuffer(g) /\ Slotted(g.items)
  BY <1>1, ItemSlotted, Zenon
<1> HIDE DEF g
<1>3. Slotted(b.items)
  BY <1>2, ItemSlotted, Zenon
<1> HIDE DEF b
<1> QED
  BY <1>1, <1>3, BufferStep, Zenon

\* A save: every journal it writes carries the chunk to what it saves.
LEMMA SaveJournal ==
    ASSUME Inv, JournalInv, Save
    PROVE  JournalInv'
<1> DEFINE stops == {l \in DOMAIN live : file[l] # "ok"}
           written == IF stops = {} THEN DOMAIN live
                      ELSE IF Interleaved
                        THEN {l \in DOMAIN live : \A s \in stops : l < s}
                      ELSE {}
           compacted == Compacted(live)
           wrote(l) == diff_live_records(compacted[l].items, compacted[l].total, chunk[l])
<1>1. /\ live' = compacted
      /\ log' = [l \in Libs |-> IF l \in written THEN wrote(l) ELSE log[l]]
      /\ saved' = [l \in Libs |-> IF l \in written
                                    THEN [known |-> TRUE, items |-> live[l].items]
                                    ELSE saved[l]]
      /\ Idle /\ UNCHANGED <<chunk, replay>>
  BY Zenon DEF Save
<1>2. written \subseteq DOMAIN live
  BY Zenon
<1> HIDE DEF written
<1>3. /\ DOMAIN compacted = DOMAIN live
      /\ \A l \in DOMAIN live : /\ compacted[l].items = live[l].items
                                /\ Slotted(live[l].items)
  BY CompactKeepsItems, Zenon DEF Inv, SessionInv, BufferInv, JournalInv
<1> HIDE DEF compacted
<1>4. ASSUME NEW l \in Libs
      PROVE  JournalSound(log'[l], chunk[l], saved'[l])
  <2>1. CASE l \notin written
    BY <1>1, <2>1, Zenon DEF JournalInv
  <2>2. CASE l \in written
    <3>1. /\ log'[l] = wrote(l) /\ saved'[l] = [known |-> TRUE, items |-> live[l].items]
          /\ compacted[l].items = live[l].items /\ Slotted(live[l].items)
      BY <1>1, <1>2, <1>3, <2>2, Zenon
    <3>2. /\ Naming(wrote(l).records, Slots) /\ wrote(l).end = "clean"
          /\ CarriesAll(wrote(l).records, chunk[l].total, chunk[l].items,
                        compacted[l].items, Slots)
      BY DiffCarries, Zenon
    <3> HIDE DEF wrote
    <3> QED
      BY <3>1, <3>2 DEF JournalSound
  <2> QED
    BY <2>1, <2>2, Zenon
<1> QED
  BY <1>1, <1>3, <1>4, Zenon DEF JournalInv, Idle

\* The system package is upgraded: no save stands behind the journal then.
LEMMA ReplaceChunkJournal ==
    ASSUME Inv, JournalInv, NEW l \in Libs, NEW c, ReplaceChunk(l, c)
    PROVE  JournalInv'
<1>1. /\ chunk' = [chunk EXCEPT ![l] = c] /\ saved' = [saved EXCEPT ![l] = NoItems]
      /\ Idle /\ UNCHANGED <<log, live, replay>> /\ chunk \in [Libs -> Chunks]
      /\ DOMAIN saved = Libs
  BY Zenon DEF ReplaceChunk, Inv, JournalInv, session
<1>2. ~NoItems.known
  BY Zenon DEF NoItems
<1>3. ASSUME NEW k \in Libs
      PROVE  JournalSound(log[k], chunk'[k], saved'[k])
  <2>1. JournalSound(log[k], chunk[k], saved[k])
    BY Zenon DEF JournalInv
  <2>2. CASE k = l
    <3>1. saved'[k] = NoItems
      BY <1>1, <2>2, Zenon
    <3> QED
      BY <1>2, <2>1, <3>1, Zenon DEF JournalSound
  <2>3. CASE k # l
    BY <1>1, <2>1, <2>3, Zenon
  <2> QED
    BY <2>2, <2>3, Zenon
<1> QED
  BY <1>1, <1>3, Zenon DEF JournalInv, Idle

\* Every step keeps the journals and the buffers sound.
LEMMA JournalNext == Inv /\ JournalInv /\ [Next]_vars => JournalInv'
<1> SUFFICES ASSUME Inv, JournalInv, [Next]_vars
             PROVE  JournalInv'
  BY Zenon
<1>1. CASE ApplyRecord
  BY <1>1, ApplyRecordJournal, Zenon
<1>2. CASE FinishLog
  BY <1>2, FinishLogJournal, Zenon
<1>3. CASE Publish
  BY <1>3, PublishJournal, Zenon
<1>4. CASE Open
  <2>1. /\ replay' = Replaying("open", Libs, [libs |-> {}, slots |-> {}], "none")
        /\ Idle /\ UNCHANGED <<chunk, log, saved, live>>
    BY <1>4, Zenon DEF Open, disk, session
  <2> QED
    BY <2>1, StartStep
<1>5. CASE Close
  <2>1. Idle /\ live' = <<>> /\ UNCHANGED <<chunk, log, saved, replay>>
    BY <1>5, Zenon DEF Close, disk
  <2> QED
    BY <2>1, SessionStep
<1>6. CASE Save
  BY <1>6, SaveJournal, Zenon
<1>7. ASSUME NEW l \in Libs, TakeLog(l)
      PROVE  JournalInv'
  BY <1>7, TakeLogJournal, Zenon
<1>8. ASSUME NEW l \in Libs, Load(l)
      PROVE  JournalInv'
  <2>1. /\ \/ replay' = Replaying("load", {l}, [libs |-> {}, slots |-> {}], "none")
           \/ replay' = NoReplay
        /\ Idle /\ UNCHANGED <<chunk, log, saved, live>>
    BY <1>8, Zenon DEF Load, disk, session
  <2> QED
    BY <2>1, StartStep
<1>9. ASSUME NEW l \in Libs, Unload(l)
      PROVE  JournalInv'
  <2>1. Idle /\ live' = Without(live, l) /\ UNCHANGED <<chunk, log, saved, replay>>
    BY <1>9, Zenon DEF Unload, disk
  <2>2. \A k \in DOMAIN live' : Slotted(live'[k].items)
    BY <2>1, Zenon DEF Without, JournalInv
  <2> QED
    BY <2>1, <2>2, SessionStep, Zenon
<1>10. ASSUME NEW l \in Libs, NEW s \in Slots, NEW d \in Deltas, AddUnigram(l, s, d)
       PROVE  JournalInv'
  BY <1>10, AddUnigramJournal, Zenon
<1>11. ASSUME NEW l \in Libs, NEW s \in Slots, NEW r \in Readings, NEW d \in Deltas,
              Train(l, s, r, d) \/ MergeReading(l, s, r, d)
       PROVE  JournalInv'
  BY <1>11, TrainJournal, MergeReadingJournal, Zenon
<1>12. ASSUME NEW l \in Libs, NEW r \in Readings, NEW d \in Deltas, AddPhrase(l, r, d)
       PROVE  JournalInv'
  BY <1>12, AddPhraseJournal, Zenon
<1>13. ASSUME NEW l \in Libs, NEW c \in Chunks, ReplaceChunk(l, c)
       PROVE  JournalInv'
  BY <1>13, ReplaceChunkJournal, Zenon
<1>14. ASSUME NEW l \in Libs, NEW state, ChangeFile(l, state)
       PROVE  JournalInv'
  <2>1. Idle /\ UNCHANGED <<chunk, log, saved, live, replay>>
    BY <1>14, Zenon DEF ChangeFile, session
  <2> QED
    BY <2>1, SessionStep, Zenon DEF JournalInv
<1>15. ASSUME NEW mask \in Masks, MaskOut(mask)
       PROVE  JournalInv'
  <2>1. \E libs \in SUBSET DOMAIN live : \E stop :
          \/ replay' = Replaying("mask", libs, mask, stop)
          \/ replay' = replay
    BY <1>15, Zenon DEF MaskOut
  <2>2. Idle /\ UNCHANGED <<chunk, log, saved, live>>
    BY <1>15, Zenon DEF MaskOut, disk, session
  <2>3. DOMAIN live \subseteq Libs
    BY Zenon DEF Inv, SessionInv
  <2> QED
    BY <2>1, <2>2, <2>3, StartStep, Zenon
<1>16. CASE UNCHANGED vars
  BY <1>16, Zenon DEF vars, JournalInv, Idle, ReplaySound
<1> QED
  BY <1>1, <1>2, <1>3, <1>4, <1>5, <1>6, <1>7, <1>8, <1>9, <1>10, <1>11, <1>12,
     <1>13, <1>14, <1>15, <1>16, Zenon DEF Next

\* The journal of every save carries the chunk to the items it saved, and a
\* replay under way still lacks exactly what the records left will bring.
THEOREM JournalInvariant == Spec => []JournalInv
BY JournalInit, JournalNext, ProvenanceInvariant, InvInit, InvNext, PTL DEF Spec

-----------------------------------------------------------------------------
\* What comes back.

\* Items that agree in every slot are the same.
LEMMA AgreeingItems ==
    ASSUME NEW f, NEW g, Slotted(f), Slotted(g), \A s \in Slots : Agree(f, g, s)
    PROVE  f = g
<1>1. DOMAIN f = DOMAIN g
  BY Zenon DEF Slotted, Agree
<1>2. \A s \in DOMAIN f : f[s] = g[s]
  BY Zenon DEF Slotted, Agree
<1> QED
  BY <1>1, <1>2, Zenon DEF Slotted

\* What a replay that ends has brought back.
LEMMA PublishRestores ==
    ASSUME Inv, JournalInv, Publish, NEW l \in DOMAIN replay.replayed
    PROVE  /\ l \in DOMAIN live' /\ Slotted(live'[l].items)
           /\ Restored(Scope(replay, l), chunk[l], saved[l], live'[l].items)
<1>1. /\ ReplaySound(replay) /\ replay.todo = {} /\ ~replay.merging
  BY Zenon DEF Publish, JournalInv
<1>2. l \in DOMAIN live' /\ live'[l].items = replay.replayed[l].items
  BY Published, Zenon
<1> QED
  BY <1>1, <1>2, Zenon DEF ReplaySound

\* Only the end of a replay brings a library into the session.
LEMMA OnlyPublishLoads ==
    ASSUME Inv, [Next]_vars
    PROVE  Publish \/ DOMAIN live' \subseteq DOMAIN live
<1>1. CASE ApplyRecord \/ FinishLog \/ Open \/ \E l \in Libs : TakeLog(l) \/ Load(l)
  BY <1>1, Zenon DEF ApplyRecord, FinishLog, Open, TakeLog, Load, Fault, session
<1>2. CASE Close
  BY <1>2 DEF Close
<1>3. CASE Save
  BY <1>3, Zenon DEF Save, Compacted
<1>4. ASSUME NEW l \in Libs, Unload(l)
      PROVE  DOMAIN live' \subseteq DOMAIN live
  BY <1>4, Zenon DEF Unload, Without
<1>5. ASSUME NEW l \in Libs, NEW s, NEW r, NEW d,
             \/ AddUnigram(l, s, d) \/ Train(l, s, r, d)
             \/ MergeReading(l, s, r, d) \/ AddPhrase(l, r, d)
      PROVE  DOMAIN live' \subseteq DOMAIN live
  <2>1. live' = live \/ \E b : live' = [live EXCEPT ![l] = b]
    BY <1>5, Zenon DEF AddUnigram, Train, MergeReading, AddPhrase
  <2> QED
    BY <2>1, Zenon
<1>6. ASSUME NEW l \in Libs, NEW c, ReplaceChunk(l, c) \/ ChangeFile(l, c)
      PROVE  DOMAIN live' \subseteq DOMAIN live
  BY <1>6, Zenon DEF ReplaceChunk, ChangeFile, session
<1>7. ASSUME NEW mask, MaskOut(mask)
      PROVE  DOMAIN live' \subseteq DOMAIN live
  BY <1>7, Zenon DEF MaskOut, session
<1>8. CASE UNCHANGED vars
  BY <1>8, Zenon DEF vars
<1> QED
  BY <1>1, <1>2, <1>3, <1>4, <1>5, <1>6, <1>7, <1>8, Zenon DEF Next

\* Only a replay that ends, or faults, leaves none behind.
LEMMA OnlyPublishAnswers ==
    ASSUME [Next]_vars, ~Idle, replay.kind = "mask", Inv, result' = <<"done">>,
           replay' = NoReplay
    PROVE  Publish
<1>0. replay' # replay /\ ReplayInv(replay)
  BY Zenon DEF Idle, Inv
<1>1. \/ ApplyRecord \/ FinishLog \/ Publish
      \/ \E l \in Libs : TakeLog(l)
  <2>1. ~Open /\ ~Close /\ ~Save
    BY Zenon DEF Open, Close, Save
  <2>2. \A l : ~Load(l) /\ ~Unload(l)
    BY Zenon DEF Load, Unload
  <2>3. \A l, s, r, d : /\ ~AddUnigram(l, s, d) /\ ~Train(l, s, r, d)
                        /\ ~MergeReading(l, s, r, d) /\ ~AddPhrase(l, r, d)
    BY DEF AddUnigram, Train, MergeReading, AddPhrase
  <2>4. \A l, c : ~ReplaceChunk(l, c) /\ ~ChangeFile(l, c) /\ ~MaskOut(c)
    BY Zenon DEF ReplaceChunk, ChangeFile, MaskOut
  <2>5. ~UNCHANGED vars
    BY <1>0, Zenon DEF vars
  <2> QED
    BY <2>1, <2>2, <2>3, <2>4, <2>5, Zenon DEF Next
<1>2. NoReplay.kind = "none"
  BY Zenon DEF NoReplay
<1>3. ~ApplyRecord
  <2>1. ApplyRecord => replay'.kind = replay.kind
    BY <1>0, Zenon DEF ApplyRecord, ReplayInv, IsReplay
  <2> QED
    BY <1>2, <2>1, Zenon
<1>4. \A l : ~Fault(l)
  BY Zenon DEF Fault, Answer
<1>5. ~FinishLog
  <2>1. FinishLog => replay'.kind = replay.kind
    BY <1>0, <1>4, Zenon DEF FinishLog, ReplayInv, IsReplay
  <2> QED
    BY <1>2, <2>1, Zenon
<1>6. ASSUME NEW l \in Libs, TakeLog(l) PROVE FALSE
  <2>1. replay'.kind = replay.kind
    BY <1>0, <1>4, <1>6, Zenon DEF TakeLog, ReplayInv, IsReplay
  <2> QED
    BY <1>2, <2>1, Zenon
<1> QED
  BY <1>1, <1>3, <1>5, <1>6, Zenon

\* A library that comes back, by a new session or by a load, over the chunk its
\* last save was taken against holds the items that save held.
THEOREM SavedComeBack == Spec => SavedItemsComeBack
<1>1. ASSUME Inv, JournalInv, [Next]_vars,
             NEW l \in DOMAIN live' \ DOMAIN live, saved[l].known
      PROVE  live'[l].items = saved[l].items
  <2>1. Publish
    BY <1>1, OnlyPublishLoads, Zenon
  <2>2. l \in DOMAIN replay.replayed /\ ReplaySound(replay)
    BY <1>1, <2>1, Published, Zenon DEF Publish, JournalInv
  <2>3. Scope(replay, l) = Slots
    BY <1>1, <2>2, Zenon DEF ReplaySound, Scope
  <2>4. /\ Slotted(live'[l].items)
        /\ \A s \in Slots : Agree(live'[l].items, saved[l].items, s)
    BY <1>1, <2>1, <2>2, <2>3, PublishRestores, Zenon DEF Restored
  <2>5. Slotted(saved[l].items)
    <3>1. l \in Libs
      BY <1>1, <2>1, <2>2, Zenon DEF Inv, ReplayInv, Publish
    <3> QED
      BY <1>1, <3>1, Zenon DEF JournalInv, JournalSound
  <2> QED
    BY <2>4, <2>5, AgreeingItems, Zenon
<1>2. Inv /\ JournalInv /\ [Next]_vars
        => [\A l \in DOMAIN live' \ DOMAIN live :
              saved[l].known => live'[l].items = saved[l].items]_vars
  BY <1>1, Zenon
<1> QED
  BY <1>2, JournalInvariant, InvInit, InvNext, PTL DEF Spec, SavedItemsComeBack

\* A mask_out that ends gives every masked slot the item the chunk ships, and
\* every other slot of a selected library the item of the last save.
THEOREM MaskingRestores == Spec => MaskRestores
<1> DEFINE Ends == ~Idle /\ replay.kind = "mask" /\ result' = <<"done">>
                     /\ replay' = NoReplay
           Right == \A l \in DOMAIN replay.replayed, s \in Slots :
                      IF l \notin replay.mask.libs \/ s \in replay.mask.slots
                        THEN Agree(live'[l].items, chunk[l].items, s)
                      ELSE saved[l].known => Agree(live'[l].items, saved[l].items, s)
<1>1. ASSUME Inv, JournalInv, [Next]_vars, Ends,
             NEW l \in DOMAIN replay.replayed, NEW s \in Slots
      PROVE  IF l \notin replay.mask.libs \/ s \in replay.mask.slots
               THEN Agree(live'[l].items, chunk[l].items, s)
             ELSE saved[l].known => Agree(live'[l].items, saved[l].items, s)
  <2>1. Publish
    BY <1>1, OnlyPublishAnswers, Zenon
  <2>2. Restored(Scope(replay, l), chunk[l], saved[l], live'[l].items)
    BY <1>1, <2>1, PublishRestores, Zenon
  <2>3. IF l \notin replay.mask.libs \/ s \in replay.mask.slots
          THEN s \in Slots \ Scope(replay, l) ELSE s \in Scope(replay, l)
    BY <1>1, Zenon DEF Scope
  <2> QED
    BY <2>2, <2>3, Zenon DEF Restored
<1>2. Inv /\ JournalInv /\ [Next]_vars => [Ends => Right]_vars
  BY <1>1, Zenon
<1>3. Spec => [][Ends => Right]_vars
  BY <1>2, JournalInvariant, InvInit, InvNext, PTL DEF Spec
<1> QED
  BY <1>3, Zenon DEF MaskRestores
=============================================================================
