------------------------------ MODULE UserProfile ------------------------------
(***************************************************************************)
(* A libpinyin user directory under crates/oxpinyin-user: the user.conf     *)
(* marker and its open counter (persistence.rs, user_files.rs), the wipe of *)
(* a profile that does not conform, and the save that stages every file as  *)
(* a .tmp sibling and renames it.  A session is one open of the directory;  *)
(* sessions may overlap, die at any step and meet failing file operations.  *)
(*                                                                         *)
(* A save rewrites every file, so a file is the number of the save it comes *)
(* from: 1 for the files another library version left, 2 for the files of a  *)
(* conforming profile found at first.  Two saves do not overlap.             *)
(***************************************************************************)
EXTENDS Integers, Sequences

CONSTANTS Session,             \* the opens of the directory that may overlap
          Order,               \* the profile's files in the pin's order, the
                               \* user bigram last
          Chunks,              \* those written as chunks; the others are DBMs
          Law,                 \* "Pinyin" or "Zhuyin"
          Reporting,           \* whether a save carries on past a failed file
          IOFaults,            \* whether file operations may fail
          Found,               \* the profiles the directory may hold at first
          OPEN_COUNTER_LIMIT,
          MaxSaves             \* bound on the number of a save

VARIABLES disk,    \* file -> contents
          tmp,     \* file -> contents of its .tmp sibling
          conf,    \* user.conf
          sess,    \* session -> where it is and what it holds
          saves,   \* the number of the last save
          raised   \* opens since the counter last began anew whose fini
                   \* never lowered it

vars == <<disk, tmp, conf, sess, saves, raised>>

File == {Order[i] : i \in 1 .. Len(Order)}

ASSUME OrderAssumption == Order \in Seq(File) /\ Order # <<>>
ASSUME DistinctAssumption ==
  \A i, j \in 1 .. Len(Order) : Order[i] = Order[j] => i = j
ASSUME BoundsAssumption ==
  OPEN_COUNTER_LIMIT \in Nat /\ MaxSaves \in Nat /\ MaxSaves >= 2
ASSUME FoundAssumption == Found \subseteq {"missing", "other", "conform"}
ASSUME FlagsAssumption ==
  Law \in {"Pinyin", "Zhuyin"} /\ Reporting \in BOOLEAN /\ IOFaults \in BOOLEAN

Absent == [save |-> 0, torn |-> FALSE]
Whole(n) == [save |-> n, torn |-> FALSE]
Torn(n) == [save |-> n, torn |-> TRUE]

\* user.conf: "other" is a readable marker of another library version, "unknown"
\* one that names no database format.
Marker(state, counter) == [state |-> state, counter |-> counter]
TornMarker == Marker("torn", 0)

Closed == [pc |-> "off", pos |-> 1, half |-> FALSE, counter |-> 0,
           judged |-> TornMarker, read |-> {}, save |-> 0, dirty |-> FALSE]

MarkerPcs == {"init_marker", "save_marker", "fini_marker"}
Saving == {"stage", "write", "rename", "save_marker"}

Init ==
  /\ \E found \in Found :
       /\ \E n \in 0 .. OPEN_COUNTER_LIMIT :
            /\ found = "missing" => n = 0
            /\ conf = Marker(found, n)
            /\ raised = n
       /\ disk = [f \in File |-> CASE found = "missing" -> Absent
                                   [] found = "other" -> Whole(1)
                                   [] found = "conform" -> Whole(2)]
  /\ tmp = [f \in File |-> Absent]
  /\ sess = [s \in Session |-> Closed]
  /\ saves = 2

--------------------------------------------------------------------------------
get_open_counter(n) == IF n > OPEN_COUNTER_LIMIT THEN 0 ELSE n

\* Mutant of lowered_open_counter: the fini does not lower.
NotLowered(n) == get_open_counter(n)

lowered_open_counter(n) ==
  IF get_open_counter(n) > 1 THEN get_open_counter(n) - 1 ELSE 0

\* Mutant of is_conform: the version lines are not compared.
ConformOfAnyVersion(m) ==
  m.state \in {"other", "conform"} /\ m.counter <= OPEN_COUNTER_LIMIT

is_conform(m) == m.state = "conform" /\ m.counter <= OPEN_COUNTER_LIMIT

\* A marker that cannot be read counts as 0.
ReadCounter(m) == IF m.state \in {"missing", "torn"} THEN 0 ELSE m.counter

\* Where an open goes once its marker is judged and written.
Judged(m) == IF is_conform(m) THEN "load" ELSE "wipe"

\* check_format's judgement; libpinyin raises the counter and writes it first.
\* A marker that names no known format fails the open before anything is done.
check_format(s) ==
  /\ sess[s].pc = "off" /\ conf.state # "unknown"
  /\ sess' = [sess EXCEPT ![s] =
       [Closed EXCEPT
          !.pc = IF Law = "Pinyin" THEN "init_marker" ELSE Judged(conf),
          !.counter = IF Law = "Pinyin"
                      THEN get_open_counter(ReadCounter(conf)) + 1 ELSE 0,
          !.judged = conf]]
  /\ UNCHANGED <<disk, tmp, conf, saves, raised>>

OneMore(n) == IF n <= OPEN_COUNTER_LIMIT THEN n + 1 ELSE n

\* write_marker opens user.conf for writing, which empties it ...
MarkerOpen(s) ==
  /\ sess[s].pc \in MarkerPcs /\ ~sess[s].half
  /\ conf' = TornMarker
  /\ sess' = [sess EXCEPT ![s].half = TRUE]
  /\ UNCHANGED <<disk, tmp, saves, raised>>

\* ... and then writes it.  Failing to open the file or to write it is ignored.
MarkerWritten(s) ==
  LET me == sess[s]
      counter == IF me.pc = "fini_marker"
                 THEN lowered_open_counter(me.counter) ELSE me.counter
  IN /\ me.pc \in MarkerPcs
     /\ \/ me.half /\ conf' = Marker("conform", counter)
        \/ IOFaults /\ ~me.half /\ UNCHANGED conf
        \/ IOFaults /\ me.half /\ conf' \in {TornMarker, Marker("unknown", 0)}
     /\ sess' = [sess EXCEPT ![s] =
          CASE me.pc = "init_marker" ->
                 [me EXCEPT !.pc = Judged(me.judged), !.half = FALSE]
            [] me.pc = "save_marker" ->
                 [me EXCEPT !.pc = "open", !.half = FALSE, !.pos = 1,
                            !.save = 0, !.dirty = FALSE]
            [] me.pc = "fini_marker" -> Closed]
     /\ raised' = CASE me.pc = "fini_marker" /\ ~me.half -> OneMore(raised)
                    [] me.pc = "init_marker" /\ me.half /\ me.counter = 1 -> 0
                    [] OTHER -> raised
     /\ UNCHANGED <<disk, tmp, saves>>

\* clean_user_files, one unlink at a time; the answers are ignored, and the .tmp
\* files stay.
clean_user_files(s) ==
  LET me == sess[s]
      f == Order[me.pos]
  IN /\ me.pc = "wipe"
     /\ \/ disk' = [disk EXCEPT ![f] = Absent]
        \/ IOFaults /\ UNCHANGED disk
     /\ sess' = [sess EXCEPT ![s] =
          IF me.pos < Len(Order) THEN [me EXCEPT !.pos = @ + 1]
          ELSE [me EXCEPT !.pc = "load", !.pos = 1]]
     /\ UNCHANGED <<tmp, conf, saves, raised>>

\* The profile is read if it was judged conforming, the user bigram always.
load_checked(s) ==
  LET me == sess[s]
      Loads == IF is_conform(me.judged) THEN File ELSE {Order[Len(Order)]}
  IN /\ me.pc = "load"
     /\ sess' = [sess EXCEPT ![s].pc = "open",
                             ![s].read = {disk[f].save : f \in Loads} \ {0}]
     /\ UNCHANGED <<disk, tmp, conf, saves, raised>>

mark_modified(s) ==
  /\ sess[s].pc = "open"
  /\ sess' = [sess EXCEPT ![s].dirty = TRUE]
  /\ UNCHANGED <<disk, tmp, conf, saves, raised>>

--------------------------------------------------------------------------------
\* Mutant of save: begins with the second file.
SaveFromSecond(s) ==
  /\ sess[s].pc = "open" /\ sess[s].dirty
  /\ saves < MaxSaves
  /\ \A t \in Session : sess[t].pc \notin Saving
  /\ saves' = saves + 1
  /\ sess' = [sess EXCEPT ![s].pc = "stage", ![s].pos = 2, ![s].save = saves + 1]
  /\ UNCHANGED <<disk, tmp, conf, raised>>

\* Only a modified session saves.
save(s) ==
  /\ sess[s].pc = "open" /\ sess[s].dirty
  /\ saves < MaxSaves
  /\ \A t \in Session : sess[t].pc \notin Saving
  /\ saves' = saves + 1
  /\ sess' = [sess EXCEPT ![s].pc = "stage", ![s].pos = 1, ![s].save = saves + 1]
  /\ UNCHANGED <<disk, tmp, conf, raised>>

\* zhuyin_save renames each file as soon as it is written.
Interleaved == Reporting /\ Law = "Zhuyin"

\* A save that stops leaves its .tmp files and the session modified.
Stopped(me) == [me EXCEPT !.pc = "open", !.pos = 1, !.save = 0]

\* After the file at me.pos is staged.
Staged(me) ==
  IF Interleaved THEN [me EXCEPT !.pc = "rename"]
  ELSE IF me.pos < Len(Order) THEN [me EXCEPT !.pc = "stage", !.pos = @ + 1]
  ELSE [me EXCEPT !.pc = "rename", !.pos = 1]

\* Mutants of tolerate: every save carries on; a stopped save starts again.
TolerateAlways(me, next) == next
RestartSave(me, next) ==
  IF Reporting THEN next ELSE [me EXCEPT !.pc = "stage", !.pos = 1]

\* After a write or a rename that only a reporting save carries on past.
tolerate(me, next) == IF Reporting THEN next ELSE Stopped(me)

\* Open the .tmp of the next file; a DBM's is unlinked first.
StageOpen(s) ==
  LET me == sess[s]
      f == Order[me.pos]
  IN /\ me.pc = "stage"
     /\ \/ /\ tmp' = [tmp EXCEPT ![f] = Torn(me.save)]
           /\ sess' = [sess EXCEPT ![s].pc = "write"]
        \/ \* the file cannot be opened
           /\ IOFaults
           /\ tmp' = [tmp EXCEPT ![f] = IF f \in Chunks THEN @ ELSE Absent]
           /\ sess' = [sess EXCEPT ![s] = tolerate(me, Staged(me))]
        \/ \* the library cannot be mapped, encoded or copied
           /\ IOFaults /\ f \in Chunks
           /\ sess' = [sess EXCEPT ![s] = Stopped(me)]
           /\ UNCHANGED tmp
     /\ UNCHANGED <<disk, conf, saves, raised>>

StageWrite(s) ==
  LET me == sess[s]
      f == Order[me.pos]
  IN /\ me.pc = "write"
     /\ \/ /\ tmp' = [tmp EXCEPT ![f] = Whole(me.save)]
           /\ sess' = [sess EXCEPT ![s] = Staged(me)]
        \/ \* a short write
           /\ IOFaults
           /\ sess' = [sess EXCEPT ![s] = tolerate(me, Staged(me))]
           /\ UNCHANGED tmp
        \/ \* a short write of a chunk's header
           /\ IOFaults /\ f \in Chunks
           /\ sess' = [sess EXCEPT ![s] = Stopped(me)]
           /\ UNCHANGED tmp
     /\ UNCHANGED <<disk, conf, saves, raised>>

\* After the file at me.pos is renamed, or its rename is passed over.
Renamed(me) ==
  IF me.pos = Len(Order) THEN [me EXCEPT !.pc = "save_marker"]
  ELSE [me EXCEPT !.pc = IF Interleaved THEN "stage" ELSE "rename", !.pos = @ + 1]

rename(s) ==
  LET me == sess[s]
      f == Order[me.pos]
  IN /\ me.pc = "rename"
     /\ \/ /\ tmp[f] # Absent
           /\ disk' = [disk EXCEPT ![f] = tmp[f]]
           /\ tmp' = [tmp EXCEPT ![f] = Absent]
           /\ sess' = [sess EXCEPT ![s] = Renamed(me)]
        \/ /\ IOFaults \/ tmp[f] = Absent
           /\ sess' = [sess EXCEPT ![s] = tolerate(me, Renamed(me))]
           /\ UNCHANGED <<disk, tmp>>
     /\ UNCHANGED <<conf, saves, raised>>

\* pinyin_fini lowers the counter, saved or not; zhuyin_fini writes nothing.
fini(s) ==
  /\ sess[s].pc = "open"
  /\ sess' = [sess EXCEPT ![s] =
       IF Law = "Pinyin" THEN
         [Closed EXCEPT !.pc = "fini_marker", !.counter = sess[s].counter]
       ELSE Closed]
  /\ UNCHANGED <<disk, tmp, conf, saves, raised>>

\* The process dies, or the open fails where it leaves the counter raised.
Die(s) ==
  /\ sess[s].pc # "off"
  /\ sess' = [sess EXCEPT ![s] = Closed]
  /\ raised' = OneMore(raised)
  /\ UNCHANGED <<disk, tmp, conf, saves>>

SaveStep(s) ==
  \/ StageOpen(s) \/ StageWrite(s) \/ rename(s)
  \/ sess[s].pc = "save_marker" /\ (MarkerOpen(s) \/ MarkerWritten(s))

Next ==
  \E s \in Session :
    \/ check_format(s) \/ MarkerOpen(s) \/ MarkerWritten(s)
    \/ clean_user_files(s) \/ load_checked(s) \/ mark_modified(s)
    \/ save(s) \/ StageOpen(s) \/ StageWrite(s) \/ rename(s)
    \/ fini(s) \/ Die(s)

\* A save is one call: once started it runs on unless its process dies.
Spec ==
  /\ Init /\ [][Next]_vars
  /\ \A s \in Session : WF_vars(SaveStep(s))

--------------------------------------------------------------------------------
Contents == [save : 0 .. MaxSaves, torn : BOOLEAN]
Markers == [state : {"missing", "torn", "unknown", "other", "conform"},
            counter : 0 .. OPEN_COUNTER_LIMIT + 1]
SessionStates ==
  [pc : MarkerPcs \cup Saving \cup {"off", "wipe", "load", "open"},
   pos : 1 .. Len(Order), half : BOOLEAN, counter : 0 .. OPEN_COUNTER_LIMIT + 1,
   judged : Markers, read : SUBSET (1 .. MaxSaves), save : 0 .. MaxSaves,
   dirty : BOOLEAN]

\* Each variable holds a value of its type.
TypeOK ==
  /\ disk \in [File -> Contents] /\ tmp \in [File -> Contents]
  /\ conf \in Markers
  /\ sess \in [Session -> SessionStates]
  /\ saves \in 2 .. MaxSaves
  /\ raised \in 0 .. OPEN_COUNTER_LIMIT + 1

\* No profile file is ever half written: a write that fails or is cut short by
\* the process's death stays in the .tmp (persistence.rs:2191-2197, and
\* 2412-2414, "a write that fails leaves no `.tmp`").
NoTornProfile == \A f \in File : ~disk[f].torn

\* A save that stops, dies or is followed by others mixes saves only in one way:
\* a file is never older than one that comes after it in the pin's order
\* (persistence.rs:2192-2197), a wiped file excepted.
MixedInOrder ==
  \A i, j \in 1 .. Len(Order) :
    i < j /\ disk[Order[i]] # Absent => disk[Order[i]].save >= disk[Order[j]].save

\* A save that reaches its marker, after which the session counts as saved, has
\* put every file in place (persistence.rs:2764-2786, store.rs:2349).
SavedMeansOnDisk ==
  \A s \in Session :
    sess[s].pc = "save_marker" => \A f \in File : disk[f] = Whole(sess[s].save)

\* An open judges a marker of this library past its limit only after more opens
\* than the limit ended without their fini (persistence.rs:107-110).
WipeOnlyAfterDeaths ==
  \A s \in Session :
    sess[s].pc = "init_marker" /\ sess[s].judged.state = "conform" =>
      is_conform(sess[s].judged) \/ raised > OPEN_COUNTER_LIMIT

\* No session reads a file of the profile another library version left, whatever
\* dies in between: the marker's check "decides whether the previous library's
\* user files are kept or discarded" (user_files.rs:313-315).
OtherVersionNeverRead == \A s \in Session : 1 \notin sess[s].read

\* Every save ends: it is reported saved or stopped, or its process dies.
SaveEnds == \A s \in Session : sess[s].pc \in Saving ~> sess[s].pc \notin Saving
================================================================================
