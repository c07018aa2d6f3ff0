--------------------------- MODULE UserProfileProofs ---------------------------
(***************************************************************************)
(* Proofs about UserProfile, for every set of sessions, every order of      *)
(* files and every limit of the open counter.                               *)
(***************************************************************************)
EXTENDS UserProfile, TLAPS

USE DEF MarkerPcs, Saving

\* A position of the order names a file of the profile.
LEMMA OrderShape ==
  /\ Len(Order) \in Nat /\ Len(Order) >= 1
  /\ \A i \in 1 .. Len(Order) : Order[i] \in File
<1>1. Len(Order) \in Nat /\ Len(Order) # 0
  BY OrderAssumption
<1> QED BY <1>1 DEF File

\* The constant contents and markers have their types.
LEMMA ValueShape ==
  /\ Absent \in Contents
  /\ \A n \in 0 .. MaxSaves : Whole(n) \in Contents /\ Torn(n) \in Contents
  /\ TornMarker \in Markers /\ Marker("unknown", 0) \in Markers
  /\ \A n \in 0 .. OPEN_COUNTER_LIMIT + 1 : Marker("conform", n) \in Markers
  /\ Closed \in SessionStates
BY OrderShape, BoundsAssumption
DEF Absent, Whole, Torn, TornMarker, Marker, Closed, Contents, Markers,
    SessionStates

\* The counters that check_format and fini write are within the limit plus one.
LEMMA CounterShape ==
  /\ \A m \in Markers :
       get_open_counter(ReadCounter(m)) + 1 \in 1 .. OPEN_COUNTER_LIMIT + 1
  /\ \A n \in 0 .. OPEN_COUNTER_LIMIT + 1 :
       lowered_open_counter(n) \in 0 .. OPEN_COUNTER_LIMIT + 1
BY BoundsAssumption DEF Markers, get_open_counter, ReadCounter, lowered_open_counter

\* The initial states are of the type.
LEMMA InitType == Init => TypeOK
<1> SUFFICES ASSUME Init PROVE TypeOK
  BY Zenon
<1>1. disk \in [File -> Contents] /\ conf \in Markers
      /\ raised \in 0 .. OPEN_COUNTER_LIMIT + 1
  <2>1. PICK found \in Found, n \in 0 .. OPEN_COUNTER_LIMIT :
          /\ conf = Marker(found, n)
          /\ raised = n
          /\ disk = [f \in File |-> CASE found = "missing" -> Absent
                                      [] found = "other" -> Whole(1)
                                      [] found = "conform" -> Whole(2)]
    BY Zenon DEF Init
  <2>2. found \in {"missing", "other", "conform"}
    BY FoundAssumption, Zenon
  <2>3. conf \in Markers
    BY <2>1, <2>2, BoundsAssumption DEF Marker, Markers
  <2>4. Whole(1) \in Contents /\ Whole(2) \in Contents
    BY ValueShape, BoundsAssumption
  <2>5. disk \in [File -> Contents]
    BY <2>1, <2>2, <2>4, ValueShape, Zenon
  <2>6. raised = n
    BY <2>1, Zenon
  <2>7. raised \in 0 .. OPEN_COUNTER_LIMIT + 1
    BY <2>6, BoundsAssumption
  <2> QED BY <2>3, <2>5, <2>7, Zenon
<1>2. tmp \in [File -> Contents] /\ sess \in [Session -> SessionStates]
  BY ValueShape, Zenon DEF Init
<1>3. saves \in 2 .. MaxSaves
  BY BoundsAssumption DEF Init
<1> QED BY <1>1, <1>2, <1>3, Zenon DEF TypeOK

\* A session state stays one when a save moves it to another place.
LEMMA MoveShape ==
  ASSUME NEW me \in SessionStates
  PROVE  /\ \A pc \in Saving : [me EXCEPT !.pc = pc] \in SessionStates
         /\ \A pc \in Saving \cup {"open", "load"}, pos \in 1 .. Len(Order) :
              [me EXCEPT !.pc = pc, !.pos = pos] \in SessionStates
         /\ \A pc \in Saving \cup {"open"}, pos \in 1 .. Len(Order), n \in 0 .. MaxSaves :
              [me EXCEPT !.pc = pc, !.pos = pos, !.save = n] \in SessionStates
BY Zenon DEF SessionStates

\* The states a save moves a session through are of the type.
LEMMA SaveShape ==
  ASSUME NEW me \in SessionStates
  PROVE  /\ Stopped(me) \in SessionStates
         /\ Staged(me) \in SessionStates
         /\ Renamed(me) \in SessionStates
         /\ \A next \in SessionStates : tolerate(me, next) \in SessionStates
<1>1. /\ 1 \in 1 .. Len(Order) /\ 0 \in 0 .. MaxSaves
      /\ me.pos < Len(Order) => me.pos + 1 \in 1 .. Len(Order)
      /\ me.pos # Len(Order) => me.pos + 1 \in 1 .. Len(Order)
  BY OrderShape, BoundsAssumption DEF SessionStates
<1>2. Stopped(me) \in SessionStates
  BY <1>1, MoveShape, Zenon DEF Stopped
<1>3. Staged(me) \in SessionStates
  BY <1>1, MoveShape, Zenon DEF Staged
<1>4. Renamed(me) \in SessionStates
  BY <1>1, MoveShape, Zenon DEF Renamed
<1> QED BY <1>2, <1>3, <1>4, Zenon DEF tolerate

\* Every step keeps the type.
LEMMA NextType == TypeOK /\ [Next]_vars => TypeOK'
<1> SUFFICES ASSUME TypeOK, [Next]_vars PROVE TypeOK'
  BY Zenon
<1>0. CASE UNCHANGED vars
  BY <1>0, Zenon DEF TypeOK, vars
<1> SUFFICES ASSUME NEW s \in Session,
                    \/ check_format(s) \/ MarkerOpen(s) \/ MarkerWritten(s)
                    \/ clean_user_files(s) \/ load_checked(s) \/ mark_modified(s)
                    \/ save(s) \/ StageOpen(s) \/ StageWrite(s) \/ rename(s)
                    \/ fini(s) \/ Die(s)
             PROVE  TypeOK'
  BY <1>0, Zenon DEF Next
<1> USE OrderShape, ValueShape, BoundsAssumption
<1>a. sess[s] \in SessionStates
  BY Zenon DEF TypeOK
<1>b. ASSUME NEW v \in SessionStates, sess' = [sess EXCEPT ![s] = v]
      PROVE  sess' \in [Session -> SessionStates]
  BY <1>b, Zenon DEF TypeOK
<1>c. OneMore(raised) \in 0 .. OPEN_COUNTER_LIMIT + 1
  BY DEF TypeOK, OneMore
<1>1. CASE check_format(s)
  <2> DEFINE v == [Closed EXCEPT
          !.pc = IF Law = "Pinyin" THEN "init_marker" ELSE Judged(conf),
          !.counter = IF Law = "Pinyin"
                      THEN get_open_counter(ReadCounter(conf)) + 1 ELSE 0,
          !.judged = conf]
  <2>1. get_open_counter(ReadCounter(conf)) + 1 \in 0 .. OPEN_COUNTER_LIMIT + 1
    BY CounterShape DEF TypeOK
  <2>2. Judged(conf) \in {"load", "wipe"}
    BY Zenon DEF Judged
  <2>3. v \in SessionStates
    <3>1. conf \in Markers /\ 0 \in 0 .. OPEN_COUNTER_LIMIT + 1
      BY DEF TypeOK
    <3> QED BY <2>1, <2>2, <3>1, Zenon DEF SessionStates
  <2>4. sess' \in [Session -> SessionStates]
    BY <1>1, <2>3, <1>b, Zenon DEF check_format
  <2> QED BY <1>1, <2>4, Zenon DEF check_format, TypeOK
<1>2. CASE MarkerOpen(s)
  BY <1>2, <1>a, Zenon DEF MarkerOpen, TypeOK, SessionStates
<1>3. CASE MarkerWritten(s)
  <2> DEFINE me == sess[s]
             counter == IF me.pc = "fini_marker"
                        THEN lowered_open_counter(me.counter) ELSE me.counter
  <2>1. counter \in 0 .. OPEN_COUNTER_LIMIT + 1
    BY <1>a, CounterShape, Zenon DEF SessionStates
  <2>2. conf' \in Markers
    <3>1. CASE conf' = Marker("conform", counter)
      BY <2>1, <3>1, Zenon
    <3>2. CASE UNCHANGED conf
      BY <3>2, Zenon DEF TypeOK
    <3>3. CASE conf' \in {TornMarker, Marker("unknown", 0)}
      BY <3>3, Zenon
    <3> QED BY <1>3, <3>1, <3>2, <3>3, Zenon DEF MarkerWritten
  <2>3. Judged(me.judged) \in {"load", "wipe"}
    BY Zenon DEF Judged
  <2>4. /\ [me EXCEPT !.pc = Judged(me.judged), !.half = FALSE] \in SessionStates
        /\ [me EXCEPT !.pc = "open", !.half = FALSE, !.pos = 1,
                      !.save = 0, !.dirty = FALSE] \in SessionStates
    <3>1. 1 \in 1 .. Len(Order) /\ 0 \in 0 .. MaxSaves
      OBVIOUS
    <3> QED BY <1>a, <2>3, <3>1, Zenon DEF SessionStates
  <2>5. me.pc \in MarkerPcs
    BY <1>3, Zenon DEF MarkerWritten
  <2>6. sess' \in [Session -> SessionStates]
    <3>1. CASE me.pc = "init_marker"
      BY <1>3, <1>b, <2>4, <3>1, Zenon DEF MarkerWritten
    <3>2. CASE me.pc = "save_marker"
      BY <1>3, <1>b, <2>4, <3>2, Zenon DEF MarkerWritten
    <3>3. CASE me.pc = "fini_marker"
      BY <1>3, <1>b, <3>3, Zenon DEF MarkerWritten
    <3> QED BY <2>5, <3>1, <3>2, <3>3, Zenon
  <2>7. raised' \in {raised, 0, OneMore(raised)}
    BY <1>3, Zenon DEF MarkerWritten
  <2>8. raised' \in 0 .. OPEN_COUNTER_LIMIT + 1
    BY <2>7, <1>c DEF TypeOK
  <2> QED BY <1>3, <2>2, <2>6, <2>8, Zenon DEF MarkerWritten, TypeOK
<1>4. CASE clean_user_files(s)
  <2>1. sess' \in [Session -> SessionStates]
    <3>1. /\ sess[s].pos < Len(Order) => sess[s].pos + 1 \in 1 .. Len(Order)
          /\ 1 \in 1 .. Len(Order)
      BY <1>a DEF SessionStates
    <3>2. sess[s].pos < Len(Order) =>
            [sess[s] EXCEPT !.pos = @ + 1] \in SessionStates
      BY <1>a, <3>1, Zenon DEF SessionStates
    <3>3. [sess[s] EXCEPT !.pc = "load", !.pos = 1] \in SessionStates
      BY <1>a, <3>1, MoveShape, Zenon
    <3> QED BY <1>4, <1>b, <3>2, <3>3, Zenon DEF clean_user_files
  <2>2. disk' \in [File -> Contents]
    BY <1>4, <1>a, Zenon DEF clean_user_files, TypeOK
  <2> QED BY <1>4, <2>1, <2>2, Zenon DEF clean_user_files, TypeOK
<1>5. CASE load_checked(s)
  <2> DEFINE Loads == IF is_conform(sess[s].judged) THEN File ELSE {Order[Len(Order)]}
             loaded == {disk[f].save : f \in Loads} \ {0}
  <2>1. Loads \subseteq File
    OBVIOUS
  <2>2. \A f \in File : disk[f].save \in 0 .. MaxSaves
    BY Zenon DEF TypeOK, Contents
  <2>3. loaded \in SUBSET (1 .. MaxSaves)
    BY <2>1, <2>2
  <2> HIDE DEF loaded
  <2>4. [[sess[s] EXCEPT !.pc = "open"] EXCEPT !.read = loaded] \in SessionStates
    BY <1>a, <2>3, Zenon DEF SessionStates
  <2>5. sess' = [sess EXCEPT ![s] =
                  [[sess[s] EXCEPT !.pc = "open"] EXCEPT !.read = loaded]]
    BY <1>5, Zenon DEF load_checked, TypeOK, loaded
  <2>6. sess' \in [Session -> SessionStates]
    BY <2>4, <2>5, <1>b, Zenon
  <2> QED BY <1>5, <2>6, Zenon DEF load_checked, TypeOK
<1>6. CASE mark_modified(s)
  BY <1>6, <1>a, Zenon DEF mark_modified, TypeOK, SessionStates
<1>7. CASE save(s)
  <2>1. saves + 1 \in 2 .. MaxSaves
    BY <1>7 DEF save, TypeOK
  <2>2. 1 \in 1 .. Len(Order) /\ saves + 1 \in 0 .. MaxSaves
    BY <2>1
  <2> DEFINE v == [sess[s] EXCEPT !.pc = "stage", !.pos = 1, !.save = saves + 1]
  <2>3. v \in SessionStates
    BY <1>a, <2>2, MoveShape, Zenon
  <2>4. sess' = [sess EXCEPT ![s] = v]
    BY <1>7, Zenon DEF save, TypeOK
  <2>5. sess' \in [Session -> SessionStates]
    BY <2>3, <2>4, <1>b, Zenon
  <2> QED BY <1>7, <2>1, <2>5, Zenon DEF save, TypeOK
<1>d. /\ Order[sess[s].pos] \in File
      /\ Torn(sess[s].save) \in Contents /\ Whole(sess[s].save) \in Contents
  BY <1>a, Zenon DEF SessionStates
<1>e. /\ Stopped(sess[s]) \in SessionStates
      /\ Staged(sess[s]) \in SessionStates
      /\ Renamed(sess[s]) \in SessionStates
      /\ tolerate(sess[s], Staged(sess[s])) \in SessionStates
      /\ tolerate(sess[s], Renamed(sess[s])) \in SessionStates
      /\ [sess[s] EXCEPT !.pc = "write"] \in SessionStates
  BY <1>a, SaveShape, Zenon DEF SessionStates
<1>8. CASE StageOpen(s)
  <2>1. tmp' \in [File -> Contents]
    BY <1>8, <1>d, Zenon DEF StageOpen, TypeOK
  <2>2. sess' \in [Session -> SessionStates]
    BY <1>8, <1>b, <1>e, Zenon DEF StageOpen, TypeOK
  <2> QED BY <1>8, <2>1, <2>2, Zenon DEF StageOpen, TypeOK
<1>9. CASE StageWrite(s)
  <2>1. tmp' \in [File -> Contents]
    BY <1>9, <1>d, Zenon DEF StageWrite, TypeOK
  <2>2. sess' \in [Session -> SessionStates]
    BY <1>9, <1>b, <1>e, Zenon DEF StageWrite, TypeOK
  <2> QED BY <1>9, <2>1, <2>2, Zenon DEF StageWrite, TypeOK
<1>10. CASE rename(s)
  <2>1. disk' \in [File -> Contents] /\ tmp' \in [File -> Contents]
    BY <1>10, <1>d DEF rename, TypeOK
  <2>2. sess' \in [Session -> SessionStates]
    BY <1>10, <1>b, <1>e, Zenon DEF rename, TypeOK
  <2> QED BY <1>10, <2>1, <2>2, Zenon DEF rename, TypeOK
<1>11. CASE fini(s)
  BY <1>11, <1>a, Zenon DEF fini, TypeOK, SessionStates, Closed, TornMarker, Marker
<1>12. CASE Die(s)
  BY <1>12, <1>a, <1>c, Zenon DEF Die, TypeOK
<1> QED BY <1>1, <1>2, <1>3, <1>4, <1>5, <1>6, <1>7, <1>8, <1>9, <1>10, <1>11, <1>12,
           Zenon

\* Every variable keeps its type in every behaviour of the profile.
THEOREM ProfileTypeCorrect == Spec => []TypeOK
<1>1. Init => TypeOK
  BY InitType, Zenon
<1>2. TypeOK /\ [Next]_vars => TypeOK'
  BY NextType, Zenon
<1> QED BY <1>1, <1>2, PTL DEF Spec

--------------------------------------------------------------------------------
\* A step of one session leaves the others where they are.
OthersStay(s) == \A t \in Session : t # s => sess'[t] = sess[t]

\* What replacing one session's state does.
LEMMA SessionSet ==
  ASSUME TypeOK, NEW s \in Session, NEW next, sess' = [sess EXCEPT ![s] = next]
  PROVE  OthersStay(s) /\ sess'[s] = next
BY Zenon DEF TypeOK, OthersStay

\* What the steps of an open and of a fini do to their own session.
LEMMA OpenEffects ==
  ASSUME TypeOK, NEW s \in Session
  PROVE  /\ check_format(s) =>
              /\ OthersStay(s)
              /\ sess'[s].pc = IF Law = "Pinyin" THEN "init_marker" ELSE Judged(conf)
              /\ Law = "Pinyin" =>
                   sess'[s].counter = get_open_counter(ReadCounter(conf)) + 1
              /\ sess'[s].judged = conf /\ sess'[s].read = {}
              /\ sess'[s].pos = 1 /\ sess'[s].save = 0
         /\ clean_user_files(s) =>
              /\ OthersStay(s)
              /\ \/ /\ sess[s].pos < Len(Order) /\ sess'[s].pc = "wipe"
                    /\ sess'[s].pos = sess[s].pos + 1
                 \/ sess[s].pos = Len(Order) /\ sess'[s].pc = "load"
              /\ sess'[s].judged = sess[s].judged /\ sess'[s].read = sess[s].read
              /\ sess'[s].save = sess[s].save /\ sess'[s].counter = sess[s].counter
         /\ load_checked(s) =>
              /\ OthersStay(s)
              /\ sess'[s].pc = "open" /\ sess'[s].judged = sess[s].judged
              /\ sess'[s].read \subseteq {disk[f].save : f \in File}
              /\ sess'[s].save = sess[s].save /\ sess'[s].counter = sess[s].counter
         /\ mark_modified(s) =>
              /\ OthersStay(s)
              /\ sess'[s].pc = "open" /\ sess'[s].judged = sess[s].judged
              /\ sess'[s].read = sess[s].read
              /\ sess'[s].save = sess[s].save /\ sess'[s].counter = sess[s].counter
         /\ fini(s) =>
              /\ OthersStay(s)
              /\ sess'[s].pc = IF Law = "Pinyin" THEN "fini_marker" ELSE "off"
              /\ Law = "Pinyin" => sess'[s].counter = sess[s].counter
              /\ sess'[s].judged = TornMarker /\ sess'[s].read = {}
              /\ sess'[s].save = 0
         /\ Die(s) => OthersStay(s) /\ sess'[s] = Closed
<1>a. sess \in [Session -> SessionStates] /\ sess[s] \in SessionStates
  BY Zenon DEF TypeOK
<1>1. ASSUME check_format(s)
      PROVE  /\ OthersStay(s)
             /\ sess'[s] = [Closed EXCEPT
                  !.pc = IF Law = "Pinyin" THEN "init_marker" ELSE Judged(conf),
                  !.counter = IF Law = "Pinyin"
                              THEN get_open_counter(ReadCounter(conf)) + 1 ELSE 0,
                  !.judged = conf]
  BY <1>1, <1>a, Zenon DEF check_format, OthersStay
<1>2. ASSUME clean_user_files(s)
      PROVE  /\ OthersStay(s) /\ sess[s].pc = "wipe"
             /\ sess'[s] = IF sess[s].pos < Len(Order)
                           THEN [sess[s] EXCEPT !.pos = sess[s].pos + 1]
                           ELSE [sess[s] EXCEPT !.pc = "load", !.pos = 1]
  BY <1>2, <1>a, Zenon DEF clean_user_files, OthersStay
<1>3. ASSUME clean_user_files(s)
      PROVE  /\ \/ /\ sess[s].pos < Len(Order) /\ sess'[s].pc = "wipe"
                   /\ sess'[s].pos = sess[s].pos + 1
                \/ sess[s].pos = Len(Order) /\ sess'[s].pc = "load"
             /\ sess'[s].judged = sess[s].judged /\ sess'[s].read = sess[s].read
             /\ sess'[s].save = sess[s].save /\ sess'[s].counter = sess[s].counter
  <2>1. sess[s].pos \in 1 .. Len(Order)
    BY <1>a, Zenon DEF SessionStates
  <2>2. CASE sess[s].pos < Len(Order)
    BY <1>2, <1>3, <2>2, <1>a, Zenon DEF SessionStates
  <2>3. CASE ~(sess[s].pos < Len(Order))
    <3>1. sess[s].pos = Len(Order)
      BY <2>1, <2>3, OrderShape
    <3>2. sess'[s] = [sess[s] EXCEPT !.pc = "load", !.pos = 1]
      BY <1>2, <1>3, <2>3, Zenon
    <3> QED BY <3>1, <3>2, <1>a, Zenon DEF SessionStates
  <2> QED BY <2>2, <2>3, Zenon
<1>4. ASSUME load_checked(s)
      PROVE  /\ OthersStay(s)
             /\ sess'[s].pc = "open" /\ sess'[s].judged = sess[s].judged
             /\ sess'[s].read \subseteq {disk[f].save : f \in File}
             /\ sess'[s].save = sess[s].save /\ sess'[s].counter = sess[s].counter
  <2> DEFINE Loads == IF is_conform(sess[s].judged) THEN File ELSE {Order[Len(Order)]}
             loaded == {disk[f].save : f \in Loads} \ {0}
  <2>1. loaded \subseteq {disk[f].save : f \in File}
    BY OrderShape
  <2>2. sess' = [sess EXCEPT ![s].pc = "open", ![s].read = loaded]
    BY <1>4, Zenon DEF load_checked
  <2> HIDE DEF loaded
  <2> QED BY <2>1, <2>2, <1>a, Zenon DEF OthersStay, SessionStates
<1>5. ASSUME mark_modified(s)
      PROVE  /\ OthersStay(s)
             /\ sess'[s].pc = "open" /\ sess'[s].judged = sess[s].judged
             /\ sess'[s].read = sess[s].read
             /\ sess'[s].save = sess[s].save /\ sess'[s].counter = sess[s].counter
  BY <1>5, <1>a, Zenon DEF mark_modified, OthersStay, SessionStates
<1>6. ASSUME fini(s)
      PROVE  /\ OthersStay(s)
             /\ sess'[s].pc = IF Law = "Pinyin" THEN "fini_marker" ELSE "off"
             /\ Law = "Pinyin" => sess'[s].counter = sess[s].counter
             /\ sess'[s].judged = TornMarker /\ sess'[s].read = {}
             /\ sess'[s].save = 0
  BY <1>6, <1>a, Zenon DEF fini, OthersStay, Closed
<1>7. ASSUME Die(s)
      PROVE  OthersStay(s) /\ sess'[s] = Closed
  BY <1>7, <1>a, Zenon DEF Die, OthersStay
<1>8. ASSUME check_format(s)
      PROVE  /\ sess'[s].pc = IF Law = "Pinyin" THEN "init_marker" ELSE Judged(conf)
             /\ Law = "Pinyin" =>
                  sess'[s].counter = get_open_counter(ReadCounter(conf)) + 1
             /\ sess'[s].judged = conf /\ sess'[s].read = {}
             /\ sess'[s].pos = 1 /\ sess'[s].save = 0
  BY <1>1, <1>8, Zenon DEF Closed
<1> QED BY <1>1, <1>2, <1>3, <1>4, <1>5, <1>6, <1>7, <1>8, Zenon

\* What writing the marker does to its own session.
LEMMA MarkerEffects ==
  ASSUME TypeOK, NEW s \in Session
  PROVE  /\ MarkerOpen(s) =>
              /\ OthersStay(s)
              /\ sess'[s].pc = sess[s].pc /\ sess'[s].pos = sess[s].pos
              /\ sess'[s].judged = sess[s].judged /\ sess'[s].read = sess[s].read
              /\ sess'[s].save = sess[s].save /\ sess'[s].counter = sess[s].counter
         /\ MarkerWritten(s) /\ sess[s].pc = "init_marker" =>
              /\ OthersStay(s)
              /\ sess'[s].pc = Judged(sess[s].judged)
              /\ sess'[s].judged = sess[s].judged /\ sess'[s].read = sess[s].read
              /\ sess'[s].save = sess[s].save /\ sess'[s].counter = sess[s].counter
         /\ MarkerWritten(s) /\ sess[s].pc = "save_marker" =>
              /\ OthersStay(s)
              /\ sess'[s].pc = "open"
              /\ sess'[s].judged = sess[s].judged /\ sess'[s].read = sess[s].read
              /\ sess'[s].save = 0 /\ sess'[s].counter = sess[s].counter
         /\ MarkerWritten(s) /\ sess[s].pc = "fini_marker" =>
              OthersStay(s) /\ sess'[s] = Closed
         /\ MarkerWritten(s) =>
              sess[s].pc \in MarkerPcs /\ UNCHANGED <<disk, tmp, saves>>
<1>a. sess \in [Session -> SessionStates] /\ sess[s] \in SessionStates
  BY Zenon DEF TypeOK
<1>1. ASSUME MarkerOpen(s)
      PROVE  /\ OthersStay(s)
             /\ sess'[s].pc = sess[s].pc /\ sess'[s].pos = sess[s].pos
             /\ sess'[s].judged = sess[s].judged /\ sess'[s].read = sess[s].read
             /\ sess'[s].save = sess[s].save /\ sess'[s].counter = sess[s].counter
  BY <1>1, <1>a, Zenon DEF MarkerOpen, OthersStay, SessionStates
<1>2. ASSUME MarkerWritten(s), sess[s].pc = "init_marker"
      PROVE  /\ OthersStay(s)
             /\ sess'[s] =
                  [sess[s] EXCEPT !.pc = Judged(sess[s].judged), !.half = FALSE]
  BY <1>2, <1>a, Zenon DEF MarkerWritten, OthersStay
<1>3. ASSUME MarkerWritten(s), sess[s].pc = "save_marker"
      PROVE  /\ OthersStay(s)
             /\ sess'[s] = [sess[s] EXCEPT !.pc = "open", !.half = FALSE, !.pos = 1,
                                           !.save = 0, !.dirty = FALSE]
  BY <1>3, <1>a, Zenon DEF MarkerWritten, OthersStay
<1>4. ASSUME MarkerWritten(s), sess[s].pc = "fini_marker"
      PROVE  OthersStay(s) /\ sess'[s] = Closed
  BY <1>4, <1>a, Zenon DEF MarkerWritten, OthersStay
<1>5. MarkerWritten(s) => sess[s].pc \in MarkerPcs /\ UNCHANGED <<disk, tmp, saves>>
  BY Zenon DEF MarkerWritten
<1>6. ASSUME MarkerWritten(s), sess[s].pc = "init_marker"
      PROVE  /\ sess'[s].pc = Judged(sess[s].judged)
             /\ sess'[s].judged = sess[s].judged /\ sess'[s].read = sess[s].read
             /\ sess'[s].save = sess[s].save /\ sess'[s].counter = sess[s].counter
  BY <1>2, <1>6, <1>a, Zenon DEF SessionStates
<1>7. ASSUME MarkerWritten(s), sess[s].pc = "save_marker"
      PROVE  /\ sess'[s].pc = "open"
             /\ sess'[s].judged = sess[s].judged /\ sess'[s].read = sess[s].read
             /\ sess'[s].save = 0 /\ sess'[s].counter = sess[s].counter
  BY <1>3, <1>7, <1>a, Zenon DEF SessionStates
<1> QED BY <1>1, <1>2, <1>3, <1>4, <1>5, <1>6, <1>7, Zenon

\* What a save does to its own session.
LEMMA SaveEffects ==
  ASSUME TypeOK, NEW s \in Session
  PROVE  /\ save(s) =>
              /\ OthersStay(s)
              /\ sess'[s].pc = "stage" /\ sess'[s].pos = 1
              /\ sess'[s].save = saves + 1
              /\ sess'[s].judged = sess[s].judged /\ sess'[s].read = sess[s].read
              /\ sess'[s].counter = sess[s].counter
         /\ LET me == Stopped(sess[s])
            IN  /\ me.pc = "open" /\ me.save = 0 /\ me.judged = sess[s].judged
                /\ me.read = sess[s].read /\ me.counter = sess[s].counter
         /\ LET me == [sess[s] EXCEPT !.pc = "write"]
            IN  /\ me.pc = "write" /\ me.pos = sess[s].pos
                /\ me.save = sess[s].save /\ me.judged = sess[s].judged
                /\ me.read = sess[s].read /\ me.counter = sess[s].counter
         /\ LET me == Staged(sess[s])
            IN  /\ \/ Interleaved /\ me.pc = "rename" /\ me.pos = sess[s].pos
                   \/ /\ ~Interleaved /\ sess[s].pos < Len(Order)
                      /\ me.pc = "stage" /\ me.pos = sess[s].pos + 1
                   \/ /\ ~Interleaved /\ sess[s].pos = Len(Order)
                      /\ me.pc = "rename" /\ me.pos = 1
                /\ me.save = sess[s].save /\ me.judged = sess[s].judged
                /\ me.read = sess[s].read /\ me.counter = sess[s].counter
         /\ LET me == Renamed(sess[s])
            IN  /\ \/ sess[s].pos = Len(Order) /\ me.pc = "save_marker"
                   \/ /\ sess[s].pos < Len(Order) /\ me.pos = sess[s].pos + 1
                      /\ me.pc = IF Interleaved THEN "stage" ELSE "rename"
                /\ me.save = sess[s].save /\ me.judged = sess[s].judged
                /\ me.read = sess[s].read /\ me.counter = sess[s].counter
<1> DEFINE me == sess[s]
<1>a. sess \in [Session -> SessionStates] /\ me \in SessionStates
  BY Zenon DEF TypeOK
<1>b. me.pos \in 1 .. Len(Order) /\ Len(Order) \in Nat
  BY <1>a, OrderShape, Zenon DEF SessionStates
<1>1. ASSUME save(s)
      PROVE  /\ OthersStay(s)
             /\ sess'[s].pc = "stage" /\ sess'[s].pos = 1
             /\ sess'[s].save = saves + 1
             /\ sess'[s].judged = sess[s].judged /\ sess'[s].read = sess[s].read
             /\ sess'[s].counter = sess[s].counter
  BY <1>1, <1>a, Zenon DEF save, OthersStay, SessionStates
<1>3. /\ Stopped(me).pc = "open" /\ Stopped(me).save = 0
      /\ Stopped(me).judged = me.judged /\ Stopped(me).read = me.read
      /\ Stopped(me).counter = me.counter
  BY <1>a, Zenon DEF Stopped, SessionStates
<1>4. LET w == [me EXCEPT !.pc = "write"]
      IN  /\ w.pc = "write" /\ w.pos = me.pos
          /\ w.save = me.save /\ w.judged = me.judged
          /\ w.read = me.read /\ w.counter = me.counter
  BY <1>a, Zenon DEF SessionStates
<1>5. LET w == Staged(me)
      IN  /\ \/ Interleaved /\ w.pc = "rename" /\ w.pos = me.pos
             \/ /\ ~Interleaved /\ me.pos < Len(Order)
                /\ w.pc = "stage" /\ w.pos = me.pos + 1
             \/ /\ ~Interleaved /\ me.pos = Len(Order)
                /\ w.pc = "rename" /\ w.pos = 1
          /\ w.save = me.save /\ w.judged = me.judged
          /\ w.read = me.read /\ w.counter = me.counter
  <2>1. CASE Interleaved
    BY <1>a, <2>1, Zenon DEF Staged, SessionStates
  <2>2. CASE ~Interleaved /\ me.pos < Len(Order)
    BY <1>a, <2>2, Zenon DEF Staged, SessionStates
  <2>3. CASE ~Interleaved /\ me.pos = Len(Order)
    <3>1. Staged(me) = [me EXCEPT !.pc = "rename", !.pos = 1]
      BY <1>b, <2>3 DEF Staged
    <3> QED BY <1>a, <2>3, <3>1, Zenon DEF SessionStates
  <2> QED BY <1>b, <2>1, <2>2, <2>3
<1>6. LET w == Renamed(me)
      IN  /\ \/ me.pos = Len(Order) /\ w.pc = "save_marker"
             \/ /\ me.pos < Len(Order) /\ w.pos = me.pos + 1
                /\ w.pc = IF Interleaved THEN "stage" ELSE "rename"
          /\ w.save = me.save /\ w.judged = me.judged
          /\ w.read = me.read /\ w.counter = me.counter
  <2>1. CASE me.pos = Len(Order)
    BY <1>a, <2>1, Zenon DEF Renamed, SessionStates
  <2>2. CASE me.pos < Len(Order)
    <3>1. Renamed(me) = [me EXCEPT !.pc = IF Interleaved THEN "stage" ELSE "rename",
                                   !.pos = me.pos + 1]
      BY <1>b, <2>2 DEF Renamed
    <3> QED BY <1>a, <2>2, <3>1, Zenon DEF SessionStates
  <2> QED BY <1>b, <2>1, <2>2
<1> QED BY <1>1, <1>3, <1>4, <1>5, <1>6, Zenon

--------------------------------------------------------------------------------
\* What a save keeps true on its way.  At most one save runs and it is the newest;
\* the .tmp files it has yet to rename are whole and its own, and the files it has
\* put in place are its own or, where another session may wipe, gone.
OneSave ==
  \A s, t \in Session : sess[s].pc \in Saving /\ sess[t].pc \in Saving => s = t

\* The positions whose .tmp is staged and not yet renamed.
StagedPart(me) ==
  CASE me.pc \in {"stage", "write"} /\ ~Interleaved -> 1 .. me.pos - 1
    [] me.pc = "rename" /\ ~Interleaved -> me.pos .. Len(Order)
    [] me.pc = "rename" /\ Interleaved -> {me.pos}
    [] OTHER -> {}

\* The positions already renamed.
PlacedPart(me) ==
  CASE me.pc \in {"stage", "write"} /\ Interleaved -> 1 .. me.pos - 1
    [] me.pc = "rename" -> 1 .. me.pos - 1
    [] me.pc = "save_marker" -> 1 .. Len(Order)
    [] OTHER -> {}

Alone == \A s, t \in Session : s = t

Kept(n) == IF Alone THEN {Whole(n)} ELSE {Whole(n), Absent}

Progress(me) ==
  /\ me.pc \in Saving => me.save = saves
  /\ \A i \in StagedPart(me) : tmp[Order[i]] = Whole(saves)
  /\ \A i \in PlacedPart(me) : disk[Order[i]] \in Kept(saves)

NoneLater == \A f \in File : disk[f].save <= saves

SaveInv ==
  /\ TypeOK /\ OneSave /\ \A s \in Session : Progress(sess[s])
  /\ NoneLater /\ NoTornProfile /\ MixedInOrder

\* A session that does not save has staged and placed nothing.
LEMMA NoParts ==
  ASSUME NEW me, me.pc \notin Saving
  PROVE  StagedPart(me) = {} /\ PlacedPart(me) = {} /\ Progress(me)
<1>1. StagedPart(me) = {} /\ PlacedPart(me) = {}
  BY Zenon DEF StagedPart, PlacedPart
<1> QED BY <1>1, Zenon DEF Progress

\* At first nothing is torn and no save runs.
LEMMA InitSaveInv == Init => SaveInv
<1> SUFFICES ASSUME Init PROVE SaveInv
  BY Zenon
<1>1. TypeOK
  BY InitType, Zenon
<1>2. \A s \in Session : sess[s].pc = "off"
  BY Zenon DEF Init, Closed
<1>3. OneSave /\ \A s \in Session : Progress(sess[s])
  BY <1>2, NoParts, Zenon DEF OneSave
<1>4. NoneLater /\ NoTornProfile /\ MixedInOrder
  <2>1. PICK found \in Found :
          disk = [f \in File |-> CASE found = "missing" -> Absent
                                    [] found = "other" -> Whole(1)
                                    [] found = "conform" -> Whole(2)]
    BY Zenon DEF Init
  <2>2. found \in {"missing", "other", "conform"}
    BY FoundAssumption, Zenon
  <2>3. \E v \in {Absent, Whole(1), Whole(2)} : \A f \in File : disk[f] = v
    BY <2>1, <2>2, Zenon
  <2>4. saves = 2
    BY Zenon DEF Init
  <2> QED BY <2>3, <2>4, OrderShape
          DEF NoneLater, NoTornProfile, MixedInOrder, Absent, Whole
<1> QED BY <1>1, <1>3, <1>4, Zenon DEF SaveInv

\* A step of the session that saves, or of one that starts to: what it makes of
\* the session decides, as no other saves.
LEMMA LoneSaver ==
  ASSUME NEW s \in Session, OthersStay(s), Progress(sess[s])',
         \A t \in Session : t # s => sess[t].pc \notin Saving
  PROVE  OneSave' /\ \A t \in Session : Progress(sess[t])'
<1>1. \A t \in Session : t # s => sess'[t].pc \notin Saving
  BY Zenon DEF OthersStay
<1>2. ASSUME NEW t \in Session, t # s PROVE Progress(sess[t])'
  <2>1. sess'[t].pc \notin Saving
    BY <1>1, <1>2, Zenon
  <2>2. StagedPart(sess[t])' = {} /\ PlacedPart(sess[t])' = {}
    BY <2>1, Zenon DEF StagedPart, PlacedPart
  <2> QED BY <2>1, <2>2, Zenon DEF Progress
<1> QED BY <1>1, <1>2, Zenon DEF OneSave

\* The profile's part of the invariant when no file changes.
LEMMA DiskKept ==
  ASSUME SaveInv, TypeOK', UNCHANGED disk, saves' >= saves
  PROVE  NoneLater' /\ NoTornProfile' /\ MixedInOrder'
<1>1. NoTornProfile' /\ MixedInOrder'
  BY Zenon DEF SaveInv, NoTornProfile, MixedInOrder
<1>2. NoneLater'
  BY DEF SaveInv, NoneLater, TypeOK, Contents
<1> QED BY <1>1, <1>2, Zenon

\* A save that stops leaves nobody saving.
LEMMA StopKeepsSaveInv ==
  ASSUME SaveInv, TypeOK', NEW s \in Session, sess[s].pc \in Saving,
         OthersStay(s), sess'[s].pc \notin Saving, UNCHANGED <<disk, saves>>
  PROVE  SaveInv'
<1>1. \A t \in Session : t # s => sess[t].pc \notin Saving
  BY Zenon DEF SaveInv, OneSave
<1>2. Progress(sess[s])'
  <2>1. StagedPart(sess[s])' = {} /\ PlacedPart(sess[s])' = {}
    BY Zenon DEF StagedPart, PlacedPart
  <2> QED BY <2>1, Zenon DEF Progress
<1>3. OneSave' /\ \A t \in Session : Progress(sess[t])'
  BY <1>1, <1>2, LoneSaver, Zenon
<1>4. NoneLater' /\ NoTornProfile' /\ MixedInOrder'
  BY DiskKept DEF SaveInv, TypeOK
<1> QED BY <1>3, <1>4, Zenon DEF SaveInv

\* A step outside the save keeps the invariant: it leaves every .tmp alone, and
\* does no more to a file than unlink it.
LEMMA OtherStepsKeepSaveInv ==
  ASSUME SaveInv, TypeOK', NEW s \in Session, OthersStay(s), UNCHANGED <<tmp, saves>>,
         sess[s].pc \notin Saving, sess'[s].pc \notin Saving,
         \A f \in File : disk'[f] \in {disk[f], Absent}
  PROVE  SaveInv'
<1>1. OneSave'
  BY Zenon DEF SaveInv, OneSave, OthersStay
<1>2. ASSUME NEW t \in Session PROVE Progress(sess[t])'
  <2>1. CASE sess[t].pc \notin Saving
    <3>1. sess'[t].pc \notin Saving
      BY <2>1, Zenon DEF OthersStay
    <3>2. StagedPart(sess[t])' = {} /\ PlacedPart(sess[t])' = {}
      BY <3>1, Zenon DEF StagedPart, PlacedPart
    <3> QED BY <3>1, <3>2, Zenon DEF Progress
  <2>2. CASE sess[t].pc \in Saving
    <3>1. sess'[t] = sess[t] /\ ~Alone
      BY <2>2, Zenon DEF OthersStay, Alone
    <3>2. /\ StagedPart(sess[t])' = StagedPart(sess[t])
          /\ PlacedPart(sess[t])' = PlacedPart(sess[t])
      BY <3>1, Zenon DEF StagedPart, PlacedPart
    <3>3. \A i \in PlacedPart(sess[t]) : Order[i] \in File
      BY OrderShape, <2>2, SMTT(30) DEF PlacedPart, SaveInv, TypeOK, SessionStates
    <3>4. Progress(sess[t])
      BY Zenon DEF SaveInv
    <3> QED BY <3>1, <3>2, <3>3, <3>4, Zenon DEF Progress, Kept
  <2> QED BY <2>1, <2>2, Zenon
<1>3. NoneLater' /\ NoTornProfile'
  BY DEF SaveInv, NoneLater, NoTornProfile, Absent, TypeOK
<1>4. MixedInOrder'
  <2> SUFFICES ASSUME NEW i \in 1 .. Len(Order), NEW j \in 1 .. Len(Order),
                      i < j, disk'[Order[i]] # Absent
               PROVE  disk'[Order[i]].save >= disk'[Order[j]].save
    BY Zenon DEF MixedInOrder
  <2>1. disk'[Order[i]] = disk[Order[i]] /\ disk'[Order[j]] \in {disk[Order[j]], Absent}
    BY OrderShape, Zenon
  <2>2. disk[Order[i]].save >= disk[Order[j]].save
    BY <2>1, Zenon DEF SaveInv, MixedInOrder
  <2>3. disk[Order[i]].save >= 0 /\ Absent.save = 0
    BY OrderShape DEF SaveInv, TypeOK, Contents, Absent
  <2> QED BY <2>1, <2>2, <2>3, Zenon
<1> QED BY <1>1, <1>2, <1>3, <1>4, Zenon DEF SaveInv

\* Opening a .tmp leaves the staged files alone, as each file has one position;
\* a strict save whose open fails stops.
LEMMA StageOpenKeepsSaveInv ==
  ASSUME ~Reporting \/ ~IOFaults, SaveInv, TypeOK', NEW s \in Session, StageOpen(s)
  PROVE  SaveInv'
<1> DEFINE me == sess[s]
           f == Order[me.pos]
<1> USE OrderShape
<1>a. TypeOK /\ me.pc = "stage" /\ me.pos \in 1 .. Len(Order) /\ f \in File
  BY Zenon DEF StageOpen, SaveInv, TypeOK, SessionStates
<1>b. \A t \in Session : t # s => sess[t].pc \notin Saving
  BY <1>a, Zenon DEF SaveInv, OneSave
<1>c. UNCHANGED <<disk, saves>>
  BY Zenon DEF StageOpen
<1>1. CASE /\ tmp' = [tmp EXCEPT ![f] = Torn(me.save)]
           /\ sess' = [sess EXCEPT ![s] = [me EXCEPT !.pc = "write"]]
  <2>1. /\ OthersStay(s) /\ sess'[s].pc = "write" /\ sess'[s].pos = me.pos
        /\ sess'[s].save = me.save
    <3>1. OthersStay(s) /\ sess'[s] = [me EXCEPT !.pc = "write"]
      BY <1>1, <1>a, SessionSet, Zenon
    <3> QED BY <3>1, <1>a, SaveEffects
  <2>2. /\ StagedPart(sess[s])' = StagedPart(me)
        /\ PlacedPart(sess[s])' = PlacedPart(me)
    BY <2>1, <1>a, Zenon DEF StagedPart, PlacedPart
  <2>3. \A i \in StagedPart(me) : i \in 1 .. Len(Order) /\ i < me.pos
    BY <1>a DEF StagedPart
  <2>4. \A i \in StagedPart(me) : tmp'[Order[i]] = tmp[Order[i]]
    BY <2>3, <1>1, <1>a, DistinctAssumption DEF TypeOK
  <2>5. Progress(sess[s])'
    BY <2>1, <2>2, <2>4, <1>a, <1>c, Zenon DEF Progress, SaveInv
  <2>6. OneSave' /\ \A t \in Session : Progress(sess[t])'
    BY <2>1, <2>5, <1>b, LoneSaver, Zenon
  <2>7. NoneLater' /\ NoTornProfile' /\ MixedInOrder'
    BY <1>c, DiskKept DEF SaveInv, TypeOK
  <2> QED BY <2>6, <2>7, Zenon DEF SaveInv
<1>2. CASE sess' = [sess EXCEPT ![s] = Stopped(me)]
  <2>1. OthersStay(s) /\ sess'[s].pc = "open"
    <3>1. OthersStay(s) /\ sess'[s] = Stopped(me)
      BY <1>2, <1>a, SessionSet, Zenon
    <3> QED BY <3>1, <1>a, SaveEffects
  <2> QED BY <2>1, <1>a, <1>c, StopKeepsSaveInv, Zenon
<1>3. IOFaults => tolerate(me, Staged(me)) = Stopped(me)
  BY Zenon DEF tolerate
<1> QED BY <1>1, <1>2, <1>3, <1>a, Zenon DEF StageOpen

\* A write that succeeds makes the .tmp whole; with the last one all are.
LEMMA StageWriteKeepsSaveInv ==
  ASSUME ~Reporting \/ ~IOFaults, SaveInv, TypeOK', NEW s \in Session, StageWrite(s)
  PROVE  SaveInv'
<1> DEFINE me == sess[s]
           f == Order[me.pos]
<1> USE OrderShape
<1>a. TypeOK /\ me.pc = "write" /\ me.pos \in 1 .. Len(Order) /\ f \in File
  BY Zenon DEF StageWrite, SaveInv, TypeOK, SessionStates
<1>b. \A t \in Session : t # s => sess[t].pc \notin Saving
  BY <1>a, Zenon DEF SaveInv, OneSave
<1>c. UNCHANGED <<disk, saves>>
  BY Zenon DEF StageWrite
<1>d. Progress(me) /\ me.save = saves
  BY <1>a, Zenon DEF SaveInv, Progress
<1>1. CASE /\ tmp' = [tmp EXCEPT ![f] = Whole(me.save)]
           /\ sess' = [sess EXCEPT ![s] = Staged(me)]
  <2>1. /\ OthersStay(s) /\ sess'[s].save = me.save
        /\ \/ /\ Interleaved /\ sess'[s].pc = "rename"
              /\ sess'[s].pos = me.pos
           \/ /\ ~Interleaved /\ me.pos < Len(Order)
              /\ sess'[s].pc = "stage" /\ sess'[s].pos = me.pos + 1
           \/ /\ ~Interleaved /\ me.pos = Len(Order)
              /\ sess'[s].pc = "rename" /\ sess'[s].pos = 1
    <3>1. OthersStay(s) /\ sess'[s] = Staged(me)
      BY <1>1, <1>a, SessionSet, Zenon
    <3> QED BY <3>1, <1>a, SaveEffects
  <2>2. ~Interleaved => \A i \in 1 .. me.pos - 1 : tmp[Order[i]] = Whole(saves)
    BY <1>d, <1>a, Zenon DEF Progress, StagedPart
  <2>3. Interleaved => \A i \in 1 .. me.pos - 1 : disk[Order[i]] \in Kept(saves)
    BY <1>d, <1>a, Zenon DEF Progress, PlacedPart
  <2>4. tmp'[f] = Whole(saves) /\ \A g \in File : g # f => tmp'[g] = tmp[g]
    BY <1>1, <1>a, <1>d, Zenon DEF TypeOK
  <2>5. ~Interleaved => \A i \in 1 .. me.pos : tmp'[Order[i]] = Whole(saves)
    BY <2>2, <2>4, <1>a
  <2>6. Progress(sess[s])'
    <3>1. CASE Interleaved
      BY <2>1, <2>3, <2>4, <1>a, <1>c, <1>d, <3>1
     , Zenon DEF Progress, StagedPart, PlacedPart
    <3>2. CASE ~Interleaved /\ me.pos < Len(Order)
      BY <2>1, <2>5, <1>a, <1>c, <1>d, <3>2 DEF Progress, StagedPart, PlacedPart
    <3>3. CASE ~Interleaved /\ me.pos = Len(Order)
      BY <2>1, <2>5, <1>a, <1>c, <1>d, <3>3 DEF Progress, StagedPart, PlacedPart
    <3> QED BY <2>1, <3>1, <3>2, <3>3, Zenon
  <2>7. OneSave' /\ \A t \in Session : Progress(sess[t])'
    BY <2>1, <2>6, <1>b, LoneSaver, Zenon
  <2>8. NoneLater' /\ NoTornProfile' /\ MixedInOrder'
    BY <1>c, DiskKept DEF SaveInv, TypeOK
  <2> QED BY <2>7, <2>8, Zenon DEF SaveInv
<1>2. CASE sess' = [sess EXCEPT ![s] = Stopped(me)]
  <2>1. OthersStay(s) /\ sess'[s].pc = "open"
    <3>1. OthersStay(s) /\ sess'[s] = Stopped(me)
      BY <1>2, <1>a, SessionSet, Zenon
    <3> QED BY <3>1, <1>a, SaveEffects
  <2> QED BY <2>1, <1>a, <1>c, StopKeepsSaveInv, Zenon
<1>3. IOFaults => tolerate(me, Staged(me)) = Stopped(me)
  BY Zenon DEF tolerate
<1> QED BY <1>1, <1>2, <1>3, Zenon DEF StageWrite

\* A rename puts a whole file of the newest save in place, behind files that are
\* of that save already or gone.
LEMMA RenameKeepsSaveInv ==
  ASSUME ~Reporting \/ ~IOFaults, SaveInv, TypeOK', NEW s \in Session, rename(s)
  PROVE  SaveInv'
<1> DEFINE me == sess[s]
           f == Order[me.pos]
<1> USE OrderShape
<1>a. TypeOK /\ me.pc = "rename" /\ me.pos \in 1 .. Len(Order) /\ f \in File
  BY Zenon DEF rename, SaveInv, TypeOK, SessionStates
<1>b. \A t \in Session : t # s => sess[t].pc \notin Saving
  BY <1>a, Zenon DEF SaveInv, OneSave
<1>c. saves' = saves /\ saves \in Nat /\ saves >= 2
  BY <1>a DEF rename, TypeOK
<1>d. Progress(me) /\ me.save = saves
  BY <1>a, Zenon DEF SaveInv, Progress
<1>e. /\ me.pos \in StagedPart(me) /\ PlacedPart(me) = 1 .. me.pos - 1
      /\ ~Interleaved => StagedPart(me) = me.pos .. Len(Order)
  BY <1>a DEF StagedPart, PlacedPart
<1>f. tmp[f] = Whole(saves) /\ tmp[f] # Absent
  <2>1. tmp[f] = Whole(saves)
    BY <1>d, <1>e, Zenon DEF Progress
  <2>2. Whole(saves).save = saves /\ Absent.save = 0
    BY Zenon DEF Whole, Absent
  <2> QED BY <2>1, <2>2, <1>c
<1>g. \A i \in 1 .. me.pos - 1 : disk[Order[i]] \in Kept(saves)
  BY <1>d, <1>e, Zenon DEF Progress
<1>1. CASE /\ disk' = [disk EXCEPT ![f] = tmp[f]]
           /\ tmp' = [tmp EXCEPT ![f] = Absent]
           /\ sess' = [sess EXCEPT ![s] = Renamed(me)]
  <2>1. /\ OthersStay(s) /\ sess'[s].save = me.save
        /\ \/ me.pos = Len(Order) /\ sess'[s].pc = "save_marker"
           \/ /\ me.pos < Len(Order) /\ sess'[s].pos = me.pos + 1
              /\ sess'[s].pc = IF Interleaved THEN "stage" ELSE "rename"
    <3>1. OthersStay(s) /\ sess'[s] = Renamed(me)
      BY <1>1, <1>a, SessionSet, Zenon
    <3> QED BY <3>1, <1>a, SaveEffects
  <2>2. disk'[f] = Whole(saves) /\ \A g \in File : g # f => disk'[g] = disk[g]
    BY <1>1, <1>a, <1>f, Zenon DEF TypeOK
  <2>3. \A i \in 1 .. Len(Order) : i # me.pos =>
          tmp'[Order[i]] = tmp[Order[i]] /\ disk'[Order[i]] = disk[Order[i]]
    BY <1>1, <1>a, DistinctAssumption, Zenon DEF TypeOK
  <2>4. \A i \in 1 .. me.pos : disk'[Order[i]] \in Kept(saves)
    BY <2>2, <2>3, <1>a, <1>g DEF Kept
  <2>5. ~Interleaved => \A i \in me.pos + 1 .. Len(Order) : tmp'[Order[i]] = Whole(saves)
    BY <2>3, <1>a, <1>d, <1>e DEF Progress
  <2>6. Progress(sess[s])'
    <3>1. CASE me.pos = Len(Order)
      BY <2>1, <2>4, <1>a, <1>c, <1>d, <3>1 DEF Progress, StagedPart, PlacedPart
    <3>2. CASE me.pos < Len(Order) /\ Interleaved
      BY <2>1, <2>4, <1>a, <1>c, <1>d, <3>2 DEF Progress, StagedPart, PlacedPart
    <3>3. CASE me.pos < Len(Order) /\ ~Interleaved
      BY <2>1, <2>4, <2>5, <1>a, <1>c, <1>d, <3>3 DEF Progress, StagedPart, PlacedPart
    <3> QED BY <2>1, <3>1, <3>2, <3>3, Zenon
  <2>7. OneSave' /\ \A t \in Session : Progress(sess[t])'
    BY <2>1, <2>6, <1>b, LoneSaver, Zenon
  <2>8. NoneLater' /\ NoTornProfile'
    BY <2>2, <1>c DEF SaveInv, NoneLater, NoTornProfile, Whole
  <2>9. MixedInOrder'
    <3> SUFFICES ASSUME NEW i \in 1 .. Len(Order), NEW j \in 1 .. Len(Order),
                        i < j, disk'[Order[i]] # Absent
                 PROVE  disk'[Order[i]].save >= disk'[Order[j]].save
      BY Zenon DEF MixedInOrder
    <3>1. Order[i] \in File /\ Order[j] \in File
      BY Zenon
    <3>2. disk'[Order[j]].save <= saves /\ disk'[Order[j]].save \in Int
      BY <2>8, <1>c, <3>1 DEF NoneLater, TypeOK, Contents
    <3>3. CASE i = me.pos
      BY <2>2, <3>2, <3>3, <1>c DEF Whole
    <3>4. CASE j = me.pos
      <4>1. disk'[Order[i]] \in Kept(saves)
        BY <2>4, <3>4
      <4>2. disk'[Order[i]] = Whole(saves)
        BY <4>1, Zenon DEF Kept
      <4> QED BY <4>2, <3>2, <1>c DEF Whole
    <3>5. CASE i # me.pos /\ j # me.pos
      BY <2>3, <3>5, Zenon DEF SaveInv, MixedInOrder
    <3> QED BY <3>3, <3>4, <3>5, Zenon
  <2> QED BY <2>7, <2>8, <2>9, Zenon DEF SaveInv
<1>2. CASE UNCHANGED disk /\ sess' = [sess EXCEPT ![s] = Stopped(me)]
  <2>1. OthersStay(s) /\ sess'[s].pc = "open"
    <3>1. OthersStay(s) /\ sess'[s] = Stopped(me)
      BY <1>2, <1>a, SessionSet, Zenon
    <3> QED BY <3>1, <1>a, SaveEffects
  <2> QED BY <2>1, <1>2, <1>a, <1>c, StopKeepsSaveInv, Zenon
<1>3. IOFaults => tolerate(me, Renamed(me)) = Stopped(me)
  BY Zenon DEF tolerate
<1> QED BY <1>1, <1>2, <1>3, <1>f, Zenon DEF rename

\* Every step keeps the invariant, unless the save carries on past failed files.
LEMMA NextSaveInv ==
  ASSUME ~Reporting \/ ~IOFaults, SaveInv, [Next]_vars PROVE SaveInv'
<1>t. TypeOK /\ TypeOK'
  BY NextType, Zenon DEF SaveInv
<1>0. CASE UNCHANGED vars
  <2>1. \A s \in Session : Progress(sess[s])' <=> Progress(sess[s])
    BY <1>0 DEF vars, Progress, StagedPart, PlacedPart
  <2> QED BY <1>0, <1>t, <2>1
         , Zenon DEF SaveInv, OneSave, NoneLater, NoTornProfile, MixedInOrder, vars
<1> SUFFICES ASSUME NEW s \in Session,
                    \/ check_format(s) \/ MarkerOpen(s) \/ MarkerWritten(s)
                    \/ clean_user_files(s) \/ load_checked(s) \/ mark_modified(s)
                    \/ save(s) \/ StageOpen(s) \/ StageWrite(s) \/ rename(s)
                    \/ fini(s) \/ Die(s)
             PROVE  SaveInv'
  BY <1>0, Zenon DEF Next
<1>a. ASSUME OthersStay(s), UNCHANGED <<tmp, saves>>,
             \A f \in File : disk'[f] \in {disk[f], Absent},
             sess[s].pc \notin Saving, sess'[s].pc \notin Saving
      PROVE  SaveInv'
  BY <1>a, <1>t, OtherStepsKeepSaveInv, Zenon
<1>b. ASSUME OthersStay(s), UNCHANGED <<disk, saves>>,
             sess[s].pc \in Saving, sess'[s].pc \notin Saving
      PROVE  SaveInv'
  BY <1>b, <1>t, StopKeepsSaveInv, Zenon
<1>c. Closed.pc = "off"
  BY Zenon DEF Closed
<1>1. CASE check_format(s)
  <2>1. OthersStay(s) /\ sess'[s].pc \in {"init_marker", "load", "wipe"}
    BY <1>1, <1>t, OpenEffects, Zenon DEF Judged
  <2>2. sess[s].pc = "off" /\ UNCHANGED <<disk, tmp, saves>>
    BY <1>1, Zenon DEF check_format
  <2> QED BY <2>1, <2>2, <1>a, Zenon
<1>2. CASE MarkerOpen(s)
  <2>1. CASE sess[s].pc \in Saving
    <3>1. /\ OthersStay(s) /\ sess'[s].pc = sess[s].pc
          /\ sess'[s].pos = sess[s].pos /\ sess'[s].save = sess[s].save
          /\ UNCHANGED <<disk, tmp, saves>>
      BY <1>2, <1>t, MarkerEffects, Zenon DEF MarkerOpen
    <3>2. Progress(sess[s])'
      <4>1. Progress(sess[s])
        BY Zenon DEF SaveInv
      <4> QED BY <3>1, <4>1, Zenon DEF Progress, StagedPart, PlacedPart
    <3>3. OneSave' /\ \A t \in Session : Progress(sess[t])'
      BY <2>1, <3>1, <3>2, LoneSaver, Zenon DEF SaveInv, OneSave
    <3>4. NoneLater' /\ NoTornProfile' /\ MixedInOrder'
      BY <1>t, <3>1, DiskKept DEF TypeOK
    <3> QED BY <1>t, <3>3, <3>4, Zenon DEF SaveInv
  <2>2. CASE sess[s].pc \notin Saving
    BY <1>2, <2>2, <1>a, <1>t, MarkerEffects, Zenon DEF MarkerOpen
  <2> QED BY <2>1, <2>2, Zenon
<1>3. CASE MarkerWritten(s)
  <2>1. sess[s].pc \in MarkerPcs /\ UNCHANGED <<disk, tmp, saves>>
    BY <1>3, <1>t, MarkerEffects, Zenon
  <2>2. OthersStay(s) /\ sess'[s].pc \in {"load", "wipe", "open", "off"}
    BY <1>3, <2>1, <1>t, <1>c, MarkerEffects, Zenon DEF Judged
  <2> QED BY <2>1, <2>2, <1>a, <1>b, Zenon
<1>4. CASE clean_user_files(s)
  <2>1. UNCHANGED <<tmp, saves>> /\ \A f \in File : disk'[f] \in {disk[f], Absent}
    BY <1>4, <1>t, Zenon DEF clean_user_files, TypeOK
  <2>2. sess[s].pc = "wipe"
    BY <1>4, Zenon DEF clean_user_files
  <2> QED BY <1>4, <2>1, <2>2, <1>a, <1>t, OpenEffects, Zenon
<1>5. CASE load_checked(s)
  BY <1>5, <1>a, <1>t, OpenEffects, Zenon DEF load_checked
<1>6. CASE mark_modified(s)
  BY <1>6, <1>a, <1>t, OpenEffects, Zenon DEF mark_modified
<1>7. CASE save(s)
  <2>1. /\ saves' = saves + 1 /\ UNCHANGED <<disk, tmp>>
        /\ \A t \in Session : sess[t].pc \notin Saving
    BY <1>7, Zenon DEF save
  <2>2. /\ OthersStay(s) /\ sess'[s].pc = "stage" /\ sess'[s].pos = 1
        /\ sess'[s].save = saves'
    BY <1>7, <1>t, <2>1, SaveEffects, Zenon
  <2>3. StagedPart(sess[s])' = {} /\ PlacedPart(sess[s])' = {}
    BY <2>2 DEF StagedPart, PlacedPart
  <2>4. Progress(sess[s])'
    BY <2>2, <2>3, Zenon DEF Progress
  <2>5. OneSave' /\ \A t \in Session : Progress(sess[t])'
    BY <2>1, <2>2, <2>4, LoneSaver, Zenon
  <2>6. NoneLater' /\ NoTornProfile' /\ MixedInOrder'
    BY <1>t, <2>1, DiskKept DEF TypeOK
  <2> QED BY <1>t, <2>5, <2>6, Zenon DEF SaveInv
<1>8. CASE StageOpen(s)
  BY <1>8, <1>t, StageOpenKeepsSaveInv, Zenon
<1>9. CASE StageWrite(s)
  BY <1>9, <1>t, StageWriteKeepsSaveInv, Zenon
<1>10. CASE rename(s)
  BY <1>10, <1>t, RenameKeepsSaveInv, Zenon
<1>11. CASE fini(s)
  <2>1. OthersStay(s) /\ sess'[s].pc \in {"fini_marker", "off"}
    BY <1>11, <1>t, OpenEffects, Zenon
  <2>2. sess[s].pc = "open" /\ UNCHANGED <<disk, tmp, saves>>
    BY <1>11, Zenon DEF fini
  <2> QED BY <2>1, <2>2, <1>a, Zenon
<1>12. CASE Die(s)
  <2>1. OthersStay(s) /\ sess'[s].pc = "off" /\ UNCHANGED <<disk, tmp, saves>>
    BY <1>12, <1>t, <1>c, OpenEffects, Zenon DEF Die
  <2> QED BY <2>1, <1>a, <1>b, Zenon
<1> QED BY <1>1, <1>2, <1>3, <1>4, <1>5, <1>6, <1>7, <1>8, <1>9, <1>10, <1>11, <1>12,
           Zenon

\* The invariant of the save holds throughout.
LEMMA SaveInvHolds == ASSUME ~Reporting \/ ~IOFaults PROVE Spec => []SaveInv
<1>1. Init => SaveInv
  BY InitSaveInv, Zenon
<1>2. SaveInv /\ [Next]_vars => SaveInv'
  BY NextSaveInv, Zenon
<1> QED BY <1>1, <1>2, PTL DEF Spec

\* No profile file is ever half written, however many sessions share the directory
\* and wherever they die, if the save is strict or no file operation fails: a torn
\* .tmp is never renamed (persistence.rs:2191-2197, finish_save).
THEOREM SaveNeverTears ==
  ASSUME ~Reporting \/ ~IOFaults PROVE Spec => []NoTornProfile
<1>1. SaveInv => NoTornProfile
  BY Zenon DEF SaveInv
<1> QED BY <1>1, SaveInvHolds, PTL

\* Under the same condition saves that stop, die or follow one another mix only in
\* order: a file still there is never older than one after it in the pin's order
\* (persistence.rs:2192-2197), for any sessions, either law and both ways to rename.
THEOREM SavesMixInOrder ==
  ASSUME ~Reporting \/ ~IOFaults PROVE Spec => []MixedInOrder
<1>1. SaveInv => MixedInOrder
  BY Zenon DEF SaveInv
<1> QED BY <1>1, SaveInvHolds, PTL

\* A session that has the directory to itself has put every file of its save in
\* place when it reaches the marker (persistence.rs:2764-2786, store.rs:2349).
THEOREM SavedIsOnDisk ==
  ASSUME ~Reporting \/ ~IOFaults, \A s, t \in Session : s = t
  PROVE  Spec => []SavedMeansOnDisk
<1>1. SaveInv => SavedMeansOnDisk
  <2> SUFFICES ASSUME SaveInv, NEW s \in Session, sess[s].pc = "save_marker",
                      NEW f \in File
               PROVE  disk[f] = Whole(sess[s].save)
    BY Zenon DEF SavedMeansOnDisk
  <2>1. Progress(sess[s]) /\ PlacedPart(sess[s]) = 1 .. Len(Order)
    BY Zenon DEF SaveInv, PlacedPart
  <2>2. PICK i \in 1 .. Len(Order) : f = Order[i]
    BY Zenon DEF File
  <2>3. disk[Order[i]] \in Kept(saves) /\ sess[s].save = saves
    BY <2>1, Zenon DEF Progress
  <2> QED BY <2>2, <2>3, Zenon DEF Kept, Alone
<1> QED BY <1>1, SaveInvHolds, PTL

--------------------------------------------------------------------------------
\* With one session at a time the marker's counter is at most one above the opens
\* that never lowered it, and no more than them while nobody is open: what an open
\* judges was counted by a death.
Counted(me) ==
  /\ me.pc \in {"off", "init_marker"} => conf.counter <= raised
  /\ me.pc = "init_marker" => me.judged.counter <= raised
  /\ conf.counter <= raised + 1 /\ me.counter <= raised + 1

CounterInv == TypeOK /\ \A s \in Session : Counted(sess[s])

\* The counters an open and a fini write, against the one they read.
LEMMA CounterBounds ==
  /\ \A m \in Markers :
       /\ get_open_counter(ReadCounter(m)) + 1 \in Int
       /\ get_open_counter(ReadCounter(m)) <= m.counter
  /\ \A n, k \in 0 .. OPEN_COUNTER_LIMIT + 1 :
       n <= k + 1 => lowered_open_counter(n) <= k
BY BoundsAssumption DEF Markers, get_open_counter, ReadCounter, lowered_open_counter

\* A count within the unfinished opens is within one more, as is a closed session's.
LEMMA WithinOneMore ==
  ASSUME NEW n \in Nat, NEW k \in Nat, n <= k
  PROVE  n <= k + 1 /\ 0 <= k + 1
OBVIOUS

\* Every step of the only session keeps the counts.
LEMMA NextCounterInv ==
  ASSUME Alone, Law = "Pinyin", CounterInv, [Next]_vars PROVE CounterInv'
<1>t. TypeOK /\ TypeOK'
  BY NextType, Zenon DEF CounterInv
<1>0. CASE UNCHANGED vars
  BY <1>0, <1>t, Zenon DEF CounterInv, Counted, vars
<1> SUFFICES ASSUME NEW s \in Session,
                    \/ check_format(s) \/ MarkerOpen(s) \/ MarkerWritten(s)
                    \/ clean_user_files(s) \/ load_checked(s) \/ mark_modified(s)
                    \/ save(s) \/ StageOpen(s) \/ StageWrite(s) \/ rename(s)
                    \/ fini(s) \/ Die(s)
             PROVE  Counted(sess[s])'
  BY <1>0, <1>t, Zenon DEF Next, CounterInv, Alone
<1> DEFINE me == sess[s]
           limit == OPEN_COUNTER_LIMIT
<1>a. /\ limit \in Nat /\ raised \in 0 .. limit + 1 /\ raised' \in 0 .. limit + 1
      /\ conf.counter \in 0 .. limit + 1 /\ conf'.counter \in 0 .. limit + 1
      /\ me.counter \in 0 .. limit + 1 /\ sess'[s].counter \in 0 .. limit + 1
      /\ me.judged.counter \in 0 .. limit + 1
  BY <1>t, BoundsAssumption, Zenon DEF TypeOK, Markers, SessionStates
<1>b. /\ me.pc \in {"off", "init_marker"} => conf.counter <= raised
      /\ me.pc = "init_marker" => me.judged.counter <= raised
      /\ conf.counter <= raised + 1 /\ me.counter <= raised + 1
  BY Zenon DEF CounterInv, Counted
<1>c. /\ Closed.pc = "off" /\ Closed.counter = 0
      /\ TornMarker.counter = 0 /\ Marker("unknown", 0).counter = 0
      /\ \A n : Marker("conform", n).counter = n
  BY Zenon DEF Closed, TornMarker, Marker
<1>e. raised' \in Nat /\ conf'.counter \in Nat
  BY <1>a, SMTT(30)
<1>d. ASSUME UNCHANGED <<conf, raised>>, sess'[s].counter = me.counter,
             sess'[s].pc \notin {"off", "init_marker"}
      PROVE  Counted(sess[s])'
  BY <1>b, <1>d, Zenon DEF Counted
<1>1. CASE check_format(s)
  <2>1. /\ sess'[s].pc = "init_marker" /\ sess'[s].judged = conf
        /\ sess'[s].counter = get_open_counter(ReadCounter(conf)) + 1
    BY <1>1, <1>t, OpenEffects, Zenon
  <2>2. UNCHANGED <<conf, raised>> /\ me.pc = "off"
    BY <1>1, Zenon DEF check_format
  <2>3. get_open_counter(ReadCounter(conf)) <= conf.counter
    BY <1>t, CounterBounds, Zenon DEF TypeOK
  <2>4. get_open_counter(ReadCounter(conf)) \in Int
    BY <1>t, CounterShape DEF TypeOK, get_open_counter, ReadCounter, Markers
  <2> QED BY <2>1, <2>2, <2>3, <2>4, <1>a, <1>b, SMTT(30) DEF Counted
<1>2. CASE MarkerOpen(s)
  <2>1. /\ sess'[s].pc = me.pc /\ sess'[s].judged = me.judged
        /\ sess'[s].counter = me.counter
    BY <1>2, <1>t, MarkerEffects, Zenon
  <2>2. conf' = TornMarker /\ raised' = raised /\ me.pc \in MarkerPcs
    BY <1>2, Zenon DEF MarkerOpen
  <2> QED BY <2>1, <2>2, <1>a, <1>b, <1>c, SMTT(30) DEF Counted
<1>3. CASE MarkerWritten(s)
  <2>1. me.pc \in MarkerPcs
    BY <1>3, Zenon DEF MarkerWritten
  <2>2. CASE me.pc = "init_marker"
    <3>1. /\ sess'[s].pc \in {"load", "wipe"} /\ sess'[s].counter = me.counter
      BY <1>3, <1>t, <2>2, MarkerEffects, Zenon DEF Judged
    <3>2. \/ me.half /\ conf' = Marker("conform", me.counter)
          \/ UNCHANGED conf /\ ~me.half
          \/ me.half /\ conf' \in {TornMarker, Marker("unknown", 0)}
      BY <1>3, <2>2, Zenon DEF MarkerWritten
    <3>3. raised' = IF me.half /\ me.counter = 1 THEN 0 ELSE raised
      BY <1>3, <2>2, Zenon DEF MarkerWritten
    <3>4. \/ conf'.counter = me.counter \/ conf'.counter = 0
          \/ ~me.half /\ conf'.counter = conf.counter
      <4>1. conf' = Marker("conform", me.counter) => conf'.counter = me.counter
        BY <1>c, Zenon
      <4>2. conf' \in {TornMarker, Marker("unknown", 0)} => conf'.counter = 0
        BY <1>c, Zenon
      <4>3. UNCHANGED conf => conf'.counter = conf.counter
        BY Zenon
      <4> QED BY <3>2, <4>1, <4>2, <4>3, Zenon
    <3> QED BY <3>1, <3>3, <3>4, <1>a, <1>b, <2>2, SMTT(30) DEF Counted
  <2>3. CASE me.pc = "save_marker"
    <3>1. sess'[s].pc = "open" /\ sess'[s].counter = me.counter
      BY <1>3, <1>t, <2>3, MarkerEffects, Zenon
    <3>2. \/ conf' = Marker("conform", me.counter)
          \/ UNCHANGED conf
          \/ conf' \in {TornMarker, Marker("unknown", 0)}
      BY <1>3, <2>3, Zenon DEF MarkerWritten
    <3>3. raised' = raised
      BY <1>3, <2>3, Zenon DEF MarkerWritten
    <3>4. conf'.counter \in {me.counter, 0, conf.counter}
      BY <3>2, <1>c, Zenon
    <3> QED BY <3>1, <3>3, <3>4, <1>a, <1>b, SMTT(30) DEF Counted
  <2>4. CASE me.pc = "fini_marker"
    <3>1. sess'[s].pc = "off" /\ sess'[s].counter = 0
      BY <1>3, <1>t, <2>4, <1>c, MarkerEffects, Zenon
    <3>2. \/ me.half /\ conf' = Marker("conform", lowered_open_counter(me.counter))
          \/ UNCHANGED conf /\ ~me.half
          \/ me.half /\ conf' \in {TornMarker, Marker("unknown", 0)}
      BY <1>3, <2>4, Zenon DEF MarkerWritten
    <3>3. raised' = IF me.half THEN raised ELSE OneMore(raised)
      BY <1>3, <2>4, Zenon DEF MarkerWritten
    <3>4. lowered_open_counter(me.counter) <= raised
      BY <1>a, <1>b, CounterBounds, Zenon
    <3>5. \/ me.half /\ conf'.counter \in {lowered_open_counter(me.counter), 0}
          \/ ~me.half /\ conf'.counter = conf.counter
      BY <3>2, <1>c, Zenon
    <3>6. ~me.half => conf.counter <= raised'
      BY <3>3, <1>a, <1>b DEF OneMore
    <3>7. conf'.counter <= raised'
      BY <3>3, <3>4, <3>5, <3>6, <1>a
    <3>8. conf'.counter <= raised' + 1 /\ sess'[s].counter <= raised' + 1
      BY <3>1, <3>7, <1>e, WithinOneMore, Zenon
    <3> QED BY <3>1, <3>7, <3>8, Zenon DEF Counted
  <2> QED BY <2>1, <2>2, <2>3, <2>4, Zenon
<1>4. CASE clean_user_files(s)
  BY <1>4, <1>d, <1>t, OpenEffects, Zenon DEF clean_user_files
<1>5. CASE load_checked(s)
  BY <1>5, <1>d, <1>t, OpenEffects, Zenon DEF load_checked
<1>6. CASE mark_modified(s)
  BY <1>6, <1>d, <1>t, OpenEffects, Zenon DEF mark_modified
<1>7. CASE save(s)
  BY <1>7, <1>d, <1>t, SaveEffects, Zenon DEF save
<1>8. CASE StageOpen(s) \/ StageWrite(s) \/ rename(s)
  <2>1. PICK next \in {[me EXCEPT !.pc = "write"], Staged(me), Renamed(me), Stopped(me)} :
          sess' = [sess EXCEPT ![s] = next]
    BY <1>8, <1>t, Zenon DEF StageOpen, StageWrite, rename, tolerate
  <2>2. sess'[s] = next
    BY <2>1, <1>t, SessionSet, Zenon
  <2>3. next.counter = me.counter /\ next.pc \notin {"off", "init_marker"}
    <3>1. CASE next = [me EXCEPT !.pc = "write"]
      BY <3>1, <1>t, SaveEffects, Zenon
    <3>2. CASE next = Staged(me)
      BY <3>2, <1>t, SaveEffects, Zenon
    <3>3. CASE next = Renamed(me)
      BY <3>3, <1>t, SaveEffects, Zenon
    <3>4. CASE next = Stopped(me)
      BY <3>4, <1>t, SaveEffects, Zenon
    <3> QED BY <3>1, <3>2, <3>3, <3>4, Zenon
  <2>4. UNCHANGED <<conf, raised>>
    BY <1>8, Zenon DEF StageOpen, StageWrite, rename
  <2> QED BY <2>2, <2>3, <2>4, <1>d, Zenon
<1>9. CASE fini(s)
  <2>1. sess'[s].pc = "fini_marker" /\ sess'[s].counter = me.counter
    BY <1>9, <1>t, OpenEffects, Zenon
  <2>2. UNCHANGED <<conf, raised>>
    BY <1>9, Zenon DEF fini
  <2> QED BY <2>1, <2>2, <1>d, Zenon
<1>10. CASE Die(s)
  <2>1. sess'[s].pc = "off" /\ sess'[s].counter = 0
    BY <1>10, <1>t, <1>c, OpenEffects, Zenon
  <2>2. conf' = conf /\ raised' = OneMore(raised)
    BY <1>10, Zenon DEF Die
  <2>3. conf'.counter <= raised'
    BY <2>2, <1>a, <1>b, SMTT(30) DEF OneMore
  <2>4. conf'.counter <= raised' + 1 /\ sess'[s].counter <= raised' + 1
    BY <2>1, <2>3, <1>e, WithinOneMore, Zenon
  <2> QED BY <2>1, <2>3, <2>4, Zenon DEF Counted
<1> QED BY <1>1, <1>2, <1>3, <1>4, <1>5, <1>6, <1>7, <1>8, <1>9, <1>10, Zenon

\* A libpinyin session that has the directory to itself finds this library's marker
\* past its limit only after more opens than the limit ended without their fini
\* (persistence.rs:107-110), whatever fails to be written.
THEOREM WipeCostsDeaths ==
  ASSUME \A s, t \in Session : s = t, Law = "Pinyin"
  PROVE  Spec => []WipeOnlyAfterDeaths
<1>1. Init => CounterInv
  <2> SUFFICES ASSUME Init PROVE CounterInv
    BY Zenon
  <2>1. conf.counter = raised /\ raised \in Nat
    BY BoundsAssumption DEF Init, Marker
  <2>2. \A s \in Session : sess[s].pc = "off" /\ sess[s].counter = 0
    BY Zenon DEF Init, Closed
  <2> QED BY <2>1, <2>2, InitType DEF CounterInv, Counted
<1>2. CounterInv /\ [Next]_vars => CounterInv'
  BY NextCounterInv, Zenon DEF Alone
<1>3. CounterInv => WipeOnlyAfterDeaths
  <2> SUFFICES ASSUME CounterInv, NEW s \in Session, sess[s].pc = "init_marker",
                      sess[s].judged.state = "conform", ~is_conform(sess[s].judged)
               PROVE  raised > OPEN_COUNTER_LIMIT
    BY Zenon DEF WipeOnlyAfterDeaths
  <2>1. sess[s].judged.counter <= raised
    BY Zenon DEF CounterInv, Counted
  <2>2. sess[s].judged.counter \in Int /\ raised \in Int
    BY DEF CounterInv, TypeOK, SessionStates, Markers
  <2> QED BY <2>1, <2>2, BoundsAssumption DEF is_conform
<1> QED BY <1>1, <1>2, <1>3, PTL DEF Spec

--------------------------------------------------------------------------------
\* A zhuyin session wipes before it writes any marker, so once one session is past
\* its wipe, or the marker conforms, no file of the other version is left.
NoOldFile == \A f \in File : disk[f].save # 1

Cleared(me) ==
  /\ me.pc # "init_marker" /\ me.save # 1 /\ 1 \notin me.read
  /\ me.pc = "wipe" => \A i \in 1 .. me.pos - 1 : disk[Order[i]].save # 1
  /\ me.pc \notin {"off", "wipe"} => NoOldFile

VersionInv ==
  /\ TypeOK
  /\ \A f \in File : tmp[f].save # 1
  /\ conf.state = "conform" => NoOldFile
  /\ \A s \in Session : Cleared(sess[s])

\* Once every other session's part is kept by leaving old files out of the
\* profile, only the stepping session is left to look at.
LEMMA VersionStep ==
  ASSUME VersionInv, TypeOK', NEW s \in Session, OthersStay(s), Cleared(sess[s])',
         \A f \in File : tmp'[f].save # 1,
         \A f \in File : disk'[f].save = 1 => disk[f].save = 1,
         conf'.state = "conform" => NoOldFile'
  PROVE  VersionInv'
<1>1. NoOldFile => NoOldFile'
  BY Zenon DEF NoOldFile
<1>2. ASSUME NEW t \in Session, t # s PROVE Cleared(sess[t])'
  <2>1. sess'[t] = sess[t]
    BY <1>2, Zenon DEF OthersStay
  <2>2. \A i \in 1 .. sess[t].pos - 1 : Order[i] \in File
    <3>1. sess[t].pos \in 1 .. Len(Order)
      BY Zenon DEF VersionInv, TypeOK, SessionStates
    <3> QED BY <3>1, OrderShape
  <2>3. Cleared(sess[t])
    BY Zenon DEF VersionInv
  <2> QED BY <1>1, <2>1, <2>2, <2>3, Zenon DEF Cleared
<1> QED BY <1>2, Zenon DEF VersionInv

\* Every step of a zhuyin session whose unlinks succeed keeps the invariant.
LEMMA NextVersionInv ==
  ASSUME Law = "Zhuyin", ~IOFaults, VersionInv, [Next]_vars PROVE VersionInv'
<1>t. TypeOK /\ TypeOK'
  BY NextType, Zenon DEF VersionInv
<1>0. CASE UNCHANGED vars
  BY <1>0, <1>t, Zenon DEF VersionInv, Cleared, NoOldFile, vars
<1> SUFFICES ASSUME NEW s \in Session,
                    \/ check_format(s) \/ MarkerOpen(s) \/ MarkerWritten(s)
                    \/ clean_user_files(s) \/ load_checked(s) \/ mark_modified(s)
                    \/ save(s) \/ StageOpen(s) \/ StageWrite(s) \/ rename(s)
                    \/ fini(s) \/ Die(s)
             PROVE  VersionInv'
  BY <1>0, Zenon DEF Next
<1> DEFINE me == sess[s]
<1>a. /\ \A f \in File : tmp[f].save # 1
      /\ conf.state = "conform" => NoOldFile
  BY Zenon DEF VersionInv
<1>b. /\ me.pc # "init_marker" /\ me.save # 1 /\ 1 \notin me.read
      /\ me.pc = "wipe" => \A i \in 1 .. me.pos - 1 : disk[Order[i]].save # 1
      /\ me.pc \notin {"off", "wipe"} => NoOldFile
  BY Zenon DEF VersionInv, Cleared
<1>c. ASSUME OthersStay(s), UNCHANGED <<disk, tmp>>,
             conf'.state = "conform" => NoOldFile,
             sess'[s].pc # "init_marker", sess'[s].save # 1, 1 \notin sess'[s].read,
             sess'[s].pc = "wipe" => sess'[s].pos = 1,
             sess'[s].pc \notin {"off", "wipe"} => NoOldFile
      PROVE  VersionInv'
  <2>1. NoOldFile' <=> NoOldFile
    BY <1>c, Zenon DEF NoOldFile
  <2>2. Cleared(sess[s])'
    BY <1>c, <2>1, SMTT(30) DEF Cleared
  <2> QED BY <1>c, <1>t, <1>a, <2>1, <2>2, VersionStep, Zenon
<1>d. /\ Closed.pc = "off" /\ Closed.save = 0 /\ Closed.read = {}
      /\ TornMarker.state = "torn"
  BY Zenon DEF Closed, TornMarker, Marker
<1>1. CASE check_format(s)
  <2>1. /\ OthersStay(s) /\ sess'[s].pc = Judged(conf) /\ sess'[s].pos = 1
        /\ sess'[s].save = 0 /\ sess'[s].read = {}
    BY <1>1, <1>t, OpenEffects, Zenon
  <2>2. Judged(conf) \in {"load", "wipe"} /\ (Judged(conf) = "load" => NoOldFile)
    BY <1>a, Zenon DEF Judged, is_conform
  <2>3. UNCHANGED <<disk, tmp, conf>>
    BY <1>1, Zenon DEF check_format
  <2> QED BY <2>1, <2>2, <2>3, <1>a, <1>c, SMTT(30)
<1>2. CASE MarkerOpen(s)
  <2>1. /\ OthersStay(s) /\ sess'[s].pc = me.pc /\ sess'[s].save = me.save
        /\ sess'[s].read = me.read
    BY <1>2, <1>t, MarkerEffects, Zenon
  <2>2. conf' = TornMarker /\ UNCHANGED <<disk, tmp>> /\ me.pc \in MarkerPcs
    BY <1>2, Zenon DEF MarkerOpen
  <2> QED BY <2>1, <2>2, <1>b, <1>c, <1>d, Zenon
<1>3. CASE MarkerWritten(s)
  <2>1. UNCHANGED <<disk, tmp>> /\ me.pc \in {"save_marker", "fini_marker"}
    BY <1>3, <1>t, <1>b, MarkerEffects, Zenon
  <2>2. /\ OthersStay(s) /\ sess'[s].pc \in {"open", "off"} /\ sess'[s].save = 0
        /\ 1 \notin sess'[s].read
    BY <1>3, <1>t, <1>b, <1>d, <2>1, MarkerEffects, Zenon
  <2> QED BY <2>1, <2>2, <1>b, <1>c
<1>4. CASE clean_user_files(s)
  <2> DEFINE f == Order[me.pos]
  <2>1. /\ me.pc = "wipe" /\ disk' = [disk EXCEPT ![f] = Absent]
        /\ UNCHANGED <<tmp, conf>>
    BY <1>4, Zenon DEF clean_user_files
  <2>2. me.pos \in 1 .. Len(Order) /\ f \in File
    BY <1>t, OrderShape, Zenon DEF TypeOK, SessionStates
  <2>3. disk'[f].save # 1 /\ \A g \in File : disk'[g].save = 1 => disk[g].save = 1
    BY <2>1, <2>2, <1>t DEF TypeOK, Absent
  <2>4. \A i \in 1 .. me.pos : disk'[Order[i]].save # 1
    BY <2>2, <2>3, <2>1, <1>b, OrderShape, SMTT(30)
  <2>5. OthersStay(s) /\ sess'[s].read = me.read /\ sess'[s].save = me.save
    BY <1>4, <1>t, OpenEffects, Zenon
  <2>6. CASE me.pos < Len(Order) /\ sess'[s].pc = "wipe" /\ sess'[s].pos = me.pos + 1
    <3>1. Cleared(sess[s])'
      <4>1. 1 .. sess'[s].pos - 1 = 1 .. me.pos
        BY <2>2, <2>6
      <4>2. sess'[s].pc = "wipe" /\ sess'[s].save # 1 /\ 1 \notin sess'[s].read
        BY <2>5, <2>6, <1>b, Zenon
      <4>3. sess'[s].pc # "init_marker" /\ sess'[s].pc \in {"off", "wipe"}
        BY <4>2, Zenon
      <4> QED BY <2>4, <4>1, <4>2, <4>3, Zenon DEF Cleared
    <3> QED BY <3>1, <2>1, <2>3, <2>5, <1>a, <1>t, VersionStep, Zenon DEF NoOldFile
  <2>7. CASE me.pos = Len(Order) /\ sess'[s].pc = "load"
    <3>1. NoOldFile'
      BY <2>4, <2>7, Zenon DEF NoOldFile, File
    <3>2. Cleared(sess[s])'
      BY <2>5, <2>7, <3>1, <1>b, Zenon DEF Cleared
    <3> QED BY <3>1, <3>2, <2>1, <2>3, <2>5, <1>a, <1>t, VersionStep, Zenon
  <2> QED BY <1>4, <1>t, <2>6, <2>7, OpenEffects, Zenon
<1>5. CASE load_checked(s)
  <2>1. /\ OthersStay(s) /\ sess'[s].pc = "open" /\ sess'[s].save = me.save
        /\ sess'[s].read \subseteq {disk[f].save : f \in File}
    BY <1>5, <1>t, OpenEffects, Zenon
  <2>2. me.pc = "load" /\ UNCHANGED <<disk, tmp, conf>>
    BY <1>5, Zenon DEF load_checked
  <2>3. 1 \notin sess'[s].read
    BY <2>1, <2>2, <1>b, Zenon DEF NoOldFile
  <2> QED BY <2>1, <2>2, <2>3, <1>a, <1>b, <1>c, Zenon
<1>6. CASE mark_modified(s)
  <2>1. /\ OthersStay(s) /\ sess'[s].pc = "open" /\ sess'[s].save = me.save
        /\ sess'[s].read = me.read
    BY <1>6, <1>t, OpenEffects, Zenon
  <2>2. me.pc = "open" /\ UNCHANGED <<disk, tmp, conf>>
    BY <1>6, Zenon DEF mark_modified
  <2> QED BY <2>1, <2>2, <1>a, <1>b, <1>c, Zenon
<1>7. CASE save(s)
  <2>1. /\ OthersStay(s) /\ sess'[s].pc = "stage" /\ sess'[s].save = saves + 1
        /\ sess'[s].read = me.read
    BY <1>7, <1>t, SaveEffects, Zenon
  <2>2. me.pc = "open" /\ UNCHANGED <<disk, tmp, conf>>
    BY <1>7, Zenon DEF save
  <2>3. saves + 1 # 1
    BY <1>t DEF TypeOK
  <2> QED BY <2>1, <2>2, <2>3, <1>a, <1>b, <1>c, Zenon
<1>8. CASE StageOpen(s) \/ StageWrite(s) \/ rename(s)
  <2> DEFINE f == Order[me.pos]
  <2>1. PICK next \in {[me EXCEPT !.pc = "write"], Staged(me), Renamed(me), Stopped(me)} :
          sess' = [sess EXCEPT ![s] = next]
    BY <1>8, <1>t, Zenon DEF StageOpen, StageWrite, rename, tolerate
  <2>2. OthersStay(s) /\ sess'[s] = next
    BY <2>1, <1>t, SessionSet, Zenon
  <2>3. /\ next.pc \notin {"off", "wipe", "init_marker"} /\ next.save # 1
        /\ next.read = me.read
    <3>1. CASE next = [me EXCEPT !.pc = "write"]
      BY <3>1, <1>b, <1>t, SaveEffects, Zenon
    <3>2. CASE next = Staged(me)
      BY <3>2, <1>b, <1>t, SaveEffects, Zenon
    <3>3. CASE next = Renamed(me)
      BY <3>3, <1>b, <1>t, SaveEffects, Zenon
    <3>4. CASE next = Stopped(me)
      BY <3>4, <1>t, SaveEffects
    <3> QED BY <3>1, <3>2, <3>3, <3>4, Zenon
  <2>4. me.pc \in Saving /\ UNCHANGED conf
    BY <1>8, Zenon DEF StageOpen, StageWrite, rename
  <2>5. f \in File /\ tmp \in [File -> Contents] /\ disk \in [File -> Contents]
    BY <1>t, OrderShape, Zenon DEF TypeOK, SessionStates
  <2>6. \A g \in File : tmp'[g].save # 1 /\ disk'[g].save # 1
    <3>1. NoOldFile
      BY <2>4, <1>b, Zenon
    <3>2. /\ Torn(me.save).save # 1 /\ Whole(me.save).save # 1 /\ Absent.save # 1
      BY <1>b DEF Torn, Whole, Absent
    <3>3. CASE StageOpen(s)
      BY <3>1, <3>2, <3>3, <2>5, <1>a, Zenon DEF StageOpen, NoOldFile
    <3>4. CASE StageWrite(s)
      BY <3>1, <3>2, <3>4, <2>5, <1>a, Zenon DEF StageWrite, NoOldFile
    <3>5. CASE rename(s)
      BY <3>1, <3>2, <3>5, <2>5, <1>a, Zenon DEF rename, NoOldFile
    <3> QED BY <1>8, <3>3, <3>4, <3>5, Zenon
  <2>7. Cleared(sess[s])'
    BY <2>2, <2>3, <2>6, <1>b, Zenon DEF Cleared, NoOldFile
  <2> QED BY <2>2, <2>6, <2>7, <1>t, VersionStep, Zenon DEF NoOldFile
<1>9. CASE fini(s)
  <2>1. /\ OthersStay(s) /\ sess'[s].pc = "off" /\ sess'[s].save = 0
        /\ sess'[s].read = {}
    BY <1>9, <1>t, OpenEffects, Zenon
  <2>2. UNCHANGED <<disk, tmp, conf>>
    BY <1>9, Zenon DEF fini
  <2>3. /\ sess'[s].pc \notin {"init_marker", "wipe"} /\ sess'[s].save # 1
        /\ 1 \notin sess'[s].read
    BY <2>1
  <2> QED BY <2>1, <2>2, <2>3, <1>a, <1>c, Zenon
<1>10. CASE Die(s)
  <2>1. /\ OthersStay(s) /\ sess'[s].pc = "off" /\ sess'[s].save = 0
        /\ sess'[s].read = {}
    BY <1>10, <1>t, <1>d, OpenEffects, Zenon
  <2>2. UNCHANGED <<disk, tmp, conf>>
    BY <1>10, Zenon DEF Die
  <2>3. /\ sess'[s].pc \notin {"init_marker", "wipe"} /\ sess'[s].save # 1
        /\ 1 \notin sess'[s].read
    BY <2>1
  <2> QED BY <2>1, <2>2, <2>3, <1>a, <1>c, Zenon
<1> QED BY <1>1, <1>2, <1>3, <1>4, <1>5, <1>6, <1>7, <1>8, <1>9, <1>10, Zenon

\* No zhuyin session reads a file of the profile another library version left, for
\* any number of overlapping sessions and wherever they die, as long as unlinks
\* succeed: the marker is judged, and the wipe done, before anything writes the
\* marker (user_files.rs:313-315).
THEOREM ZhuyinNeverReadsOtherVersion ==
  ASSUME Law = "Zhuyin", ~IOFaults
  PROVE  Spec => []OtherVersionNeverRead
<1>1. Init => VersionInv
  <2> SUFFICES ASSUME Init PROVE VersionInv
    BY Zenon
  <2>1. \A s \in Session : Cleared(sess[s])
    <3>1. \A s \in Session : sess[s] = Closed
      BY Zenon DEF Init
    <3>2. Closed.pc = "off" /\ Closed.save = 0 /\ Closed.read = {}
      BY Zenon DEF Closed
    <3>3. Closed.save # 1 /\ 1 \notin Closed.read
      BY <3>2, SMTT(30)
    <3>4. Cleared(Closed)
      BY <3>2, <3>3, Zenon DEF Cleared
    <3> QED BY <3>1, <3>4, Zenon
  <2>2. \A f \in File : tmp[f].save # 1
    BY DEF Init, Absent
  <2>3. conf.state = "conform" => NoOldFile
    <3>1. PICK found \in Found :
            /\ conf.state = found
            /\ found = "conform" => disk = [f \in File |-> Whole(2)]
      BY DEF Init, Marker
    <3> QED BY <3>1 DEF NoOldFile, Whole
  <2> QED BY <2>1, <2>2, <2>3, InitType, Zenon DEF VersionInv
<1>2. VersionInv /\ [Next]_vars => VersionInv'
  BY NextVersionInv, Zenon
<1>3. VersionInv => OtherVersionNeverRead
  BY Zenon DEF VersionInv, Cleared, OtherVersionNeverRead
<1> QED BY <1>1, <1>2, <1>3, PTL DEF Spec

================================================================================
