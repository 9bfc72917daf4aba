-------------------------- MODULE StatsServiceProofs --------------------------
(***************************************************************************)
(* Proofs about StatsService for any stats, values, files and settings.    *)
(***************************************************************************)
EXTENDS StatsService, TLAPS

\* A process that is not running has loaded nothing and remembers nothing.
OffInv == pc = "off" => loaded = "none" /\ stat_maps = Nothing

Saving == pc \in {"write_default", "open_char", "write_char"}

\* What of a file of these contents the maps have seen.
Seen(f, c) ==
  IF loaded = "ok" \/ (loaded = "failed" /\ f = 0) THEN Held(c.entries) ELSE {}

\* The maps hold what was read, from the files there are and from those the
\* save found.
ReadInv ==
  \A f \in FileId :
    /\ Seen(f, file[f]) \subseteq Held(stat_maps)
    /\ Saving => Seen(f, before[f]) \subseteq Held(stat_maps)

\* A save only touches the files it opens.
TouchedInv ==
  Saving =>
    \A f \in FileId :
      \/ file[f] = before[f]
      \/ Opens(f) /\ (f = 0 \/ (pc = "write_char" /\ f = index))

ServiceInv == TypeOK /\ OffInv /\ ReadInv /\ TouchedInv /\ DefaultSettled

-----------------------------------------------------------------------------
(* Lemmas about the operators *)

(* Nothing is a collection of entries, and so are the two files the        *)
(* service itself leaves without content.                                  *)
LEMMA EmptyFiles ==
  /\ Nothing \in Entries
  /\ Absent \in File /\ Torn \in File
  /\ NoFiles \in [FileId -> File]
  /\ Held(Nothing) = {}
  /\ \A e \in Entries : Complete(e) \in File
<1>1. Nothing \in Entries
  BY StatsAssumption DEF Nothing, Entries, Entry, Hash
<1>2. Absent \in File /\ Torn \in File
  BY <1>1 DEF Absent, Torn, File, Nothing, Hash
<1>3. Held(Nothing) = {}
  BY DEF Held, Nothing, Hash
<1>4. \A e \in Entries : Complete(e) \in File
  BY DEF Complete, File
<1>5. NoFiles \in [FileId -> File]
  BY <1>2 DEF NoFiles
<1> QED BY <1>1, <1>2, <1>3, <1>4, <1>5

(* Opening a file and writing it change that file alone, and only if it    *)
(* can be opened.                                                          *)
LEMMA OneFileWritten ==
  ASSUME file \in [FileId -> File], NEW f, NEW e \in Entries
  PROVE  /\ Truncated(f) \in [FileId -> File]
         /\ Written(f, e) \in [FileId -> File]
         /\ \A g \in FileId :
              /\ Truncated(f)[g] = IF g = f /\ Opens(f) THEN Torn ELSE file[g]
              /\ Written(f, e)[g] = IF g = f /\ Opens(f) THEN Complete(e)
                                                        ELSE file[g]
         /\ ~Opens(f) => Truncated(f) = file /\ Written(f, e) = file
BY EmptyFiles DEF Truncated, Written, Opens, FileId

(* Reading a section of a file keeps every entry there was and adds those  *)
(* of the file.                                                            *)
LEMMA LoadSection ==
  ASSUME NEW e \in Entries, NEW m \in Entries
  PROVE  /\ load_stat_map_from_json(e, m) \in Entries
         /\ Held(load_stat_map_from_json(e, m)) = Held(e) \cup Held(m)
<1> DEFINE r == load_stat_map_from_json(e, m)
<1>1. \A h \in Hash : r[h] = IF e[h] # NoEntry THEN e[h] ELSE m[h]
  BY DEF load_stat_map_from_json
<1>2. r \in Entries
  BY DEF load_stat_map_from_json, Entries, Hash
<1>3. Held(r) = Held(e) \cup Held(m)
  BY <1>1 DEF Held, Hash
<1> QED BY <1>2, <1>3

(* After a load the maps hold what the default file holds and, if the load *)
(* succeeded, what every file holds.                                       *)
LEMMA LoadFiles ==
  ASSUME NEW fs \in [FileId -> File], NEW m \in Entries
  PROVE  /\ MapsAfterLoad(fs, m) \in Entries
         /\ \A f \in FileId :
              f = 0 \/ fs[0].state = "ok" =>
                Held(fs[f].entries) \subseteq Held(MapsAfterLoad(fs, m))
<1> DEFINE m0 == load_stat_map_from_json(fs[0].entries, m)
           m1 == load_stat_map_from_json(fs[1].entries, m0)
           m2 == load_stat_map_from_json(fs[2].entries, m1)
           m3 == load_stat_map_from_json(fs[SAVE_OVERWRITE_INDEX].entries, m2)
<1>0. \A f \in FileId : fs[f].entries \in Entries
  BY DEF File
<1>1. m0 \in Entries /\ Held(m0) = Held(fs[0].entries) \cup Held(m)
  BY <1>0, LoadSection DEF FileId, SaveIndex
<1>2. m1 \in Entries /\ Held(m1) = Held(fs[1].entries) \cup Held(m0)
  BY <1>0, <1>1, LoadSection DEF FileId, SaveIndex
<1>3. m2 \in Entries /\ Held(m2) = Held(fs[2].entries) \cup Held(m1)
  BY <1>0, <1>2, LoadSection DEF FileId, SaveIndex
<1>4. /\ m3 \in Entries
      /\ Held(m3) = Held(fs[SAVE_OVERWRITE_INDEX].entries) \cup Held(m2)
  BY <1>0, <1>3, LoadSection DEF FileId
<1>5. MapsAfterLoad(fs, m) = IF fs[0].state = "ok" THEN m3 ELSE m0
  BY DEF MapsAfterLoad
<1> HIDE DEF m0, m1, m2, m3
<1> QED
  BY <1>1, <1>2, <1>3, <1>4, <1>5 DEF SaveIndex, FileId

(* What the game shows after a load is a value a stat can have.            *)
LEMMA LoadLive ==
  ASSUME NEW m \in Entries, NEW l \in [Stat -> Value \cup {Long}],
         \A s \in Stat \ Strings : l[s] \in Value
  PROVE  /\ LiveAfterLoad(m, l) \in [Stat -> Value \cup {Long}]
         /\ \A s \in Stat \ Strings : LiveAfterLoad(m, l)[s] \in Value
<1>1. \A s \in Stat : m[s] \in Entry
  BY DEF Entries, Hash
<1>2. \A s \in Stat \ Strings : m[s] \in Value \cup {NoEntry}
  BY DEF Entries
<1> QED
  BY <1>1, <1>2, StatsAssumption DEF LiveAfterLoad, Entry

(* The text of a save file holds, for a stat of its character whose name   *)
(* is known, the entry of the maps, and nothing for any other stat.        *)
LEMMA SavedText ==
  ASSUME NEW c, NEW m \in Entries, NEW e \in save_stat_map_to_json(c, m)
  PROVE  /\ e \in Entries
         /\ \A s \in Stat :
              e[s] = IF get_char_index_from_stat(s) = c
                          /\ (named => s \in registered)
                     THEN m[s] ELSE NoEntry
<1> DEFINE kept  == {s \in Stat : /\ get_char_index_from_stat(s) = c
                                  /\ m[s] # NoEntry
                                  /\ named => s \in registered}
           plain == [h \in Hash |-> IF h \in kept THEN m[h] ELSE NoEntry]
<1>1. plain \in Entries
  BY StatsAssumption DEF Entries, Entry, Hash
<1>2. \A s \in Stat :
        plain[s] = IF get_char_index_from_stat(s) = c
                        /\ (named => s \in registered)
                   THEN m[s] ELSE NoEntry
  BY DEF Hash
<1>3. e = plain \/ \E s \in Stat : e = [plain EXCEPT ![EmptyHash] = m[s]]
  BY DEF save_stat_map_to_json, Unnamed
<1> HIDE DEF plain
<1>4. ASSUME NEW s \in Stat, e = [plain EXCEPT ![EmptyHash] = m[s]]
      PROVE  e \in Entries /\ \A t \in Stat : e[t] = plain[t]
  BY <1>1, <1>4, StatsAssumption DEF Entries, Hash
<1> QED
  BY <1>1, <1>2, <1>3, <1>4

(* The maps after the loop of save_stats forget nothing.                   *)
LEMMA CollectMaps ==
  ASSUME TypeOK, NEW text \in Texts, NEW m,
         m = [h \in Hash |->
                IF h \in Stat /\ Recorded(h)
                THEN IF h \in Strings THEN text[h] ELSE live[h]
                ELSE stat_maps[h]]
  PROVE  m \in Entries /\ Held(stat_maps) \subseteq Held(m)
<1>1. \A s \in Strings : text[s] \in Value \cup {Long, Garbled}
  BY DEF Texts
<1>2. \A h \in Hash : m[h] \in Entry
  BY <1>1, StatsAssumption DEF TypeOK, Entries, Entry, Hash
<1>3. \A s \in Stat \ Strings : m[s] \in Value \cup {NoEntry}
  BY StatsAssumption DEF TypeOK, Entries, Hash
<1>4. m \in Entries
  BY <1>2, <1>3 DEF Entries
<1>5. Held(stat_maps) \subseteq Held(m)
  BY <1>1, StatsAssumption DEF Held, TypeOK, Hash
<1> QED BY <1>4, <1>5

-----------------------------------------------------------------------------
(* Invariance *)

(* The service starts in the invariant.                                    *)
LEMMA InitInv == Init => ServiceInv
<1> SUFFICES ASSUME Init PROVE ServiceInv
  OBVIOUS
<1>1. TypeOK
  <2>1. /\ live \in [Stat -> Value \cup {Long}]
        /\ \A s \in Stat \ Strings : live[s] \in Value
    BY StatsAssumption DEF Init
  <2>2. file \in [FileId -> File] /\ before \in [FileId -> File]
    BY EmptyFiles DEF Init
  <2>3. stat_maps \in Entries /\ index \in 0..255
    BY EmptyFiles DEF Init
  <2> QED
    BY <2>1, <2>2, <2>3 DEF Init, TypeOK
<1> QED
  BY <1>1 DEF Init, ServiceInv, OffInv, ReadInv, Seen, Saving, TouchedInv,
     DefaultSettled

(* However the process ends, it ends in the invariant.                     *)
LEMMA DownInv ==
  ASSUME ServiceInv, NEW why \in {"none", "null_stat", "encode"}, Down(why)
  PROVE  ServiceInv'
<1>1. TypeOK'
  <2>1. /\ live' \in [Stat -> Value \cup {Long}]
        /\ \A s \in Stat \ Strings : live'[s] \in Value
    BY StatsAssumption DEF Down, Ends
  <2>2. file' \in [FileId -> File] /\ before' \in [FileId -> File]
    BY EmptyFiles DEF Down, Ends, ServiceInv, TypeOK
  <2>3. stat_maps' \in Entries /\ index' \in 0..255
    BY EmptyFiles DEF Down, Ends
  <2> QED
    BY <2>1, <2>2, <2>3 DEF Down, Ends, TypeOK
<1> QED
  BY <1>1 DEF Down, Ends, ServiceInv, OffInv, ReadInv, Seen, Saving, TouchedInv,
     DefaultSettled

\* What the invariant says beyond the types.
RestInv == OffInv /\ ReadInv /\ TouchedInv /\ DefaultSettled

(* No step of the service, the game or the user leaves the invariant.      *)
LEMMA StepInv == ServiceInv /\ [Next]_vars => ServiceInv'
<1> SUFFICES ASSUME ServiceInv, [Next]_vars PROVE ServiceInv'
  OBVIOUS
<1>0. TypeOK /\ OffInv /\ ReadInv /\ TouchedInv /\ DefaultSettled
  BY DEF ServiceInv
<1>r. ServiceInv' <=> TypeOK' /\ RestInv'
  BY DEF ServiceInv, RestInv
<1> USE DEF RestInv, OffInv, ReadInv, TouchedInv, DefaultSettled, Seen, Saving
<1>1. ASSUME NEW f \in FileId, NEW c \in UserFiles[f], UserEdit(f, c)
      PROVE  ServiceInv'
  <2>1. c \in File
    BY StatsAssumption
  <2>2. TypeOK'
    BY <1>0, <1>1, <2>1 DEF UserEdit, TypeOK
  <2>3. RestInv'
    BY <1>0, <1>1 DEF UserEdit
  <2> QED BY <1>r, <2>2, <2>3
<1>2. ASSUME NEW n \in Readable, NEW u \in BOOLEAN, NEW missed \in SUBSET Early,
             Start(n, u, missed)
      PROVE  ServiceInv'
  <2>1. TypeOK'
    BY <1>0, <1>2, StatsAssumption DEF Start, TypeOK
  <2>2. RestInv'
    BY <1>0, <1>2 DEF Start
  <2> QED BY <1>r, <2>1, <2>2
<1>3. ASSUME NEW s \in Stat, NEW v \in Playable[s], Play(s, v)
      PROVE  ServiceInv'
  <2>1. v \in Value
    BY StatsAssumption
  <2>2. TypeOK'
    BY <1>0, <1>3, <2>1 DEF Play, TypeOK
  <2>3. RestInv'
    BY <1>0, <1>3 DEF Play
  <2> QED BY <1>r, <2>2, <2>3
<1>4. CASE LoadStats
  <2>1. /\ stat_maps' \in Entries
        /\ \A f \in FileId : f = 0 \/ file[0].state = "ok" =>
             Held(file[f].entries) \subseteq Held(stat_maps')
    BY <1>0, <1>4, LoadFiles DEF LoadStats, TypeOK
  <2>2. /\ live' \in [Stat -> Value \cup {Long}]
        /\ \A s \in Stat \ Strings : live'[s] \in Value
    BY <1>0, <1>4, <2>1, LoadLive DEF LoadStats, TypeOK
  <2>3. TypeOK'
    BY <1>0, <1>4, <2>1, <2>2 DEF LoadStats, TypeOK
  <2>4. loaded' = "ok" => file[0].state = "ok"
    BY <1>4 DEF LoadStats
  <2>5. RestInv'
    BY <1>0, <1>4, <2>1, <2>4 DEF LoadStats
  <2> QED BY <1>r, <2>3, <2>5
<1>5. CASE SaveStats
  <2>1. CASE NullStats(stat_maps) # {}
    BY <1>5, <2>1, DownInv DEF SaveStats
  <2>2. CASE NullStats(stat_maps) = {}
    <3> USE <1>5, <2>2 DEF SaveStats, BeginSave
    <3>1. /\ stat_maps' \in Entries
          /\ Held(stat_maps) \subseteq Held(stat_maps')
      BY <1>0, CollectMaps
    <3>2. live[LastChar] \in Int
      BY <1>0, StatsAssumption DEF TypeOK
    <3>3. index' \in 0..255
      BY <3>2
    <3>4. /\ file' \in [FileId -> File]
          /\ \A g \in FileId :
               file'[g] = IF g = 0 /\ Opens(0) THEN Torn ELSE file[g]
      <4>1. file' = Truncated(0) /\ file \in [FileId -> File]
        BY <1>0 DEF TypeOK
      <4> QED BY <4>1, EmptyFiles, OneFileWritten
    <3>5. TypeOK'
      BY <1>0, <3>1, <3>3, <3>4 DEF TypeOK
    <3>6. ReadInv'
      BY <1>0, <3>1, <3>4, EmptyFiles DEF Torn
    <3>7. TouchedInv'
      BY <3>4 DEF Opens
    <3>8. OffInv' /\ DefaultSettled'
      OBVIOUS
    <3> QED BY <1>r, <3>5, <3>6, <3>7, <3>8
  <2> QED BY <2>1, <2>2
<1>6. CASE WriteDefault
  <2>1. CASE ~Dumps(0, stat_maps)
    BY <1>6, <2>1, DownInv DEF WriteDefault
  <2>2. CASE Dumps(0, stat_maps)
    <3> USE <1>6, <2>2 DEF WriteDefault
    <3>1. PICK e \in save_stat_map_to_json(0, stat_maps) : file' = Written(0, e)
      OBVIOUS
    <3>2. /\ e \in Entries
          /\ \A s \in Stat :
               e[s] = IF get_char_index_from_stat(s) = 0
                           /\ (named => s \in registered)
                      THEN stat_maps[s] ELSE NoEntry
      BY <1>0, SavedText DEF TypeOK
    <3>3. /\ file' \in [FileId -> File]
          /\ \A g \in FileId :
               file'[g] = IF g = 0 /\ Opens(0) THEN Complete(e) ELSE file[g]
      BY <1>0, <3>1, <3>2, OneFileWritten DEF TypeOK
    <3>4. TypeOK'
      BY <1>0, <3>3 DEF TypeOK
    <3>5. Held(e) \subseteq Held(stat_maps)
      BY <3>2 DEF Held
    <3>6. ReadInv'
      BY <1>0, <3>3, <3>5 DEF Complete
    <3>7. TouchedInv'
      BY <1>0, <3>3 DEF Opens
    <3>8. DefaultSettled'
      BY <3>2, <3>3 DEF Complete, Held, get_char_index_from_stat, Opens, FileId
    <3>9. OffInv'
      OBVIOUS
    <3> QED BY <1>r, <3>4, <3>6, <3>7, <3>8, <3>9
  <2> QED BY <2>1, <2>2
<1>7. CASE OpenChar
  <2> USE <1>7 DEF OpenChar
  <2>1. /\ file' \in [FileId -> File]
        /\ \A g \in FileId :
             file'[g] = IF g = index /\ Opens(index) THEN Torn ELSE file[g]
    BY <1>0, EmptyFiles, OneFileWritten DEF TypeOK
  <2>2. TypeOK'
    BY <1>0, <2>1 DEF TypeOK
  <2>3. ReadInv'
    BY <1>0, <2>1, EmptyFiles DEF Torn
  <2>4. TouchedInv'
    BY <1>0, <2>1
  <2>5. DefaultSettled'
    BY <1>0, <2>1 DEF Held, get_char_index_from_stat, Opens, FileId
  <2>6. OffInv'
    OBVIOUS
  <2> QED BY <1>r, <2>2, <2>3, <2>4, <2>5, <2>6
<1>8. CASE WriteChar
  <2>1. CASE ~Dumps(index, stat_maps)
    BY <1>8, <2>1, DownInv DEF WriteChar
  <2>2. CASE Dumps(index, stat_maps)
    <3> USE <1>8, <2>2 DEF WriteChar
    <3>1. PICK e \in save_stat_map_to_json(index, stat_maps) :
            file' = Written(index, e)
      OBVIOUS
    <3>2. /\ e \in Entries
          /\ \A s \in Stat :
               e[s] = IF get_char_index_from_stat(s) = index
                           /\ (named => s \in registered)
                      THEN stat_maps[s] ELSE NoEntry
      BY <1>0, SavedText DEF TypeOK
    <3>3. /\ file' \in [FileId -> File]
          /\ \A g \in FileId :
               file'[g] = IF g = index /\ Opens(index) THEN Complete(e)
                                                       ELSE file[g]
      BY <1>0, <3>1, <3>2, OneFileWritten DEF TypeOK
    <3>4. TypeOK'
      BY <1>0, <3>3, EmptyFiles DEF TypeOK
    <3>5. Held(e) \subseteq Held(stat_maps)
      BY <3>2 DEF Held
    <3>6. ReadInv'
      BY <1>0, <3>3, <3>5 DEF Complete
    <3>7. OffInv' /\ TouchedInv' /\ DefaultSettled'
      OBVIOUS
    <3> QED BY <1>r, <3>4, <3>6, <3>7
  <2> QED BY <2>1, <2>2
<1>9. CASE Crash
  BY <1>9, DownInv DEF Crash
<1>10. CASE UNCHANGED vars
  <2>1. TypeOK'
    BY <1>0, <1>10 DEF vars, TypeOK
  <2>2. RestInv'
    BY <1>0, <1>10 DEF vars, Held, get_char_index_from_stat, Opens
  <2> QED BY <1>r, <2>1, <2>2
<1> QED
  BY <1>1, <1>2, <1>3, <1>4, <1>5, <1>6, <1>7, <1>8, <1>9, <1>10 DEF Next

(* The inductive invariant holds in every reachable state.                 *)
THEOREM Invariance == Spec => []ServiceInv
  BY InitInv, StepInv, PTL DEF Spec

(* Every variable of the service keeps its type; in particular the index   *)
(* of the second file fits a uint8_t and non-string stats stay numbers.    *)
THEOREM TypeCorrect == Spec => []TypeOK
<1>1. ServiceInv => TypeOK
  BY DEF ServiceInv
<1> QED BY <1>1, Invariance, PTL

(* For any stats and files, the default file is complete before the file   *)
(* of the character is opened.                                             *)
THEOREM DefaultFirst == Spec => []DefaultSettled
<1>1. ServiceInv => DefaultSettled
  BY DEF ServiceInv
<1> QED BY <1>1, Invariance, PTL

(* No step of a running process writes the override file.                  *)
LEMMA OverrideKept ==
  ASSUME ServiceInv, [Next]_vars, pc # "off"
  PROVE  file'[SAVE_OVERWRITE_INDEX] = file[SAVE_OVERWRITE_INDEX]
BY DEF ServiceInv, TypeOK, Next, vars, UserEdit, Start, Play, LoadStats,
   SaveStats, BeginSave, WriteDefault, OpenChar, WriteChar, Crash, Down,
   Truncated, Written, Opens, FileId, SaveIndex, SAVE_OVERWRITE_INDEX

(* Whatever number the game keeps as its last character, no save opens the *)
(* override file.                                                          *)
THEOREM OverrideSafe == Spec => OverwriteNeverWritten
<1>1. ServiceInv /\ [Next]_vars =>
        (pc # "off" => file'[SAVE_OVERWRITE_INDEX] = file[SAVE_OVERWRITE_INDEX])
        \/ UNCHANGED vars
  BY OverrideKept
<1> QED BY <1>1, Invariance, PTL DEF Spec, OverwriteNeverWritten

-----------------------------------------------------------------------------
(* What a save, or the end of the process in one, may cost *)

(* Contents with every entry of the maps that belongs there lose only what *)
(* was never read.                                                         *)
LEMMA WrittenKeepsRead ==
  ASSUME ServiceInv, Saving, NEW f \in FileId, NEW c,
         \A s \in Held(stat_maps) :
           get_char_index_from_stat(s) = f /\ (named => s \in registered) =>
             c.entries[s] = stat_maps[s]
  PROVE  Lost(f, c) \subseteq Unread(f, before[f])
<1> SUFFICES ASSUME NEW s \in Lost(f, c), s \notin Unread(f, before[f])
             PROVE  FALSE
  OBVIOUS
<1>1. /\ s \in Names(before[f]) /\ s \notin Names(c)
      /\ get_char_index_from_stat(s) = f /\ (named => s \in registered)
  BY DEF Lost
<1>2. s \in Seen(f, before[f])
  BY <1>1 DEF Unread, Seen, Names
<1>3. s \in Held(stat_maps)
  BY <1>2 DEF ServiceInv, ReadInv
<1>4. c.entries[s] # NoEntry
  BY <1>1, <1>3 DEF Held
<1> QED
  BY <1>1, <1>3, <1>4 DEF Names, Held

(* The last write of a save drops only what was never read.                *)
LEMMA LastWriteKeepsRead ==
  ASSUME ServiceInv, Next, pc = "write_char", pc' = "idle", NEW f \in FileId
  PROVE  Lost(f, file'[f]) \subseteq Unread(f, before[f])
<1>1. WriteChar /\ Dumps(index, stat_maps)
  BY DEF Next, UserEdit, Start, Play, LoadStats, SaveStats, BeginSave,
     WriteDefault, OpenChar, WriteChar, Crash, Down, Ends
<1>2. PICK e \in save_stat_map_to_json(index, stat_maps) :
        file' = Written(index, e)
  BY <1>1 DEF WriteChar
<1>3. /\ e \in Entries
      /\ \A s \in Stat :
           e[s] = IF get_char_index_from_stat(s) = index
                       /\ (named => s \in registered)
                  THEN stat_maps[s] ELSE NoEntry
  BY SavedText DEF ServiceInv, TypeOK
<1>4. file'[f] = IF f = index /\ Opens(index) THEN Complete(e) ELSE file[f]
  BY <1>2, <1>3, OneFileWritten DEF ServiceInv, TypeOK
<1>5. Saving
  BY DEF Saving
<1>6. CASE f = index /\ Opens(index)
  <2>1. file'[f].entries = e
    BY <1>4, <1>6 DEF Complete
  <2> QED
    BY <1>3, <1>5, <1>6, <2>1, WrittenKeepsRead DEF Held
<1>7. CASE ~(f = index /\ Opens(index)) /\ file[f] = before[f]
  BY <1>4, <1>7 DEF Lost
<1>8. CASE ~(f = index /\ Opens(index)) /\ file[f] # before[f]
  <2>1. f = 0 /\ Opens(0) /\ index # 0
    BY <1>5, <1>8 DEF ServiceInv, TouchedInv
  <2>2. \A s \in Held(stat_maps) :
          get_char_index_from_stat(s) = 0 /\ (named => s \in registered) =>
            file[0].entries[s] = stat_maps[s]
    BY <2>1 DEF ServiceInv, DefaultSettled
  <2> QED
    BY <1>4, <1>5, <1>8, <2>1, <2>2, WrittenKeepsRead
<1> QED BY <1>6, <1>7, <1>8

(* For any stats, files and settings, a completed save drops from the      *)
(* files only what its process never read there.                           *)
THEOREM SavesKeepWhatWasRead == Spec => SaveKeepsRead
<1>1. ServiceInv /\ [Next]_vars =>
        \/ (pc = "write_char" /\ pc' = "idle" =>
              \A f \in FileId :
                Lost(f, file'[f]) \subseteq Unread(f, before[f]))
        \/ UNCHANGED vars
  BY LastWriteKeepsRead
<1> QED BY <1>1, Invariance, PTL DEF Spec, SaveKeepsRead

\* A hash the game has no stat for comes from a file that still names it, and
\* no save is begun with it.
ForeignInv ==
  \A h \in Foreign :
    stat_maps[h] # NoEntry =>
      ~Saving /\ \E f \in FileId : file[f].entries[h] # NoEntry

(* Only a load brings a foreign hash into the maps, and a process that has *)
(* one in its maps writes no file any more.                                *)
LEMMA ForeignStep == TypeOK /\ OffInv /\ ForeignInv /\ [Next]_vars => ForeignInv'
<1> SUFFICES ASSUME TypeOK, OffInv, ForeignInv, [Next]_vars,
                    NEW h \in Foreign, stat_maps'[h] # NoEntry
             PROVE  ~Saving' /\ \E f \in FileId : file'[f].entries[h] # NoEntry
  BY DEF ForeignInv
<1>0. h \in Hash /\ h \notin Stat
  BY StatsAssumption DEF Hash
<1> USE DEF ForeignInv, Saving
<1>1. ASSUME NEW why, Down(why) PROVE FALSE
  BY <1>0, <1>1 DEF Down, Ends, Nothing
<1>2. CASE LoadStats
  <2>1. \A e, m : load_stat_map_from_json(e, m)[h] =
                    IF e[h] # NoEntry THEN e[h] ELSE m[h]
    BY <1>0 DEF load_stat_map_from_json
  <2>2. stat_maps[h] # NoEntry \/ \E f \in FileId : file[f].entries[h] # NoEntry
    BY <1>2, <2>1 DEF LoadStats, MapsAfterLoad, FileId, SaveIndex,
       SAVE_OVERWRITE_INDEX
  <2> QED
    BY <1>2, <2>2 DEF LoadStats
<1>3. CASE SaveStats
  <2>1. CASE NullStats(stat_maps) # {}
    BY <1>1, <1>3, <2>1 DEF SaveStats
  <2>2. CASE NullStats(stat_maps) = {}
    <3>1. stat_maps[h] = NoEntry
      BY <2>2 DEF NullStats
    <3>2. stat_maps'[h] = stat_maps[h]
      BY <1>0, <1>3, <2>2 DEF SaveStats, BeginSave
    <3> QED BY <3>1, <3>2
  <2> QED BY <2>1, <2>2
<1>4. CASE WriteDefault
  BY <1>1, <1>4 DEF WriteDefault
<1>5. CASE OpenChar
  BY <1>5 DEF OpenChar
<1>6. CASE WriteChar
  BY <1>1, <1>6 DEF WriteChar
<1>7. CASE Crash
  BY <1>1, <1>7 DEF Crash
<1>8. CASE UNCHANGED vars
  BY <1>8 DEF vars
<1>9. ASSUME NEW f \in FileId, NEW c \in UserFiles[f], UserEdit(f, c)
      PROVE  FALSE
  BY <1>0, <1>9 DEF UserEdit, OffInv, Nothing
<1>10. ASSUME NEW n \in Readable, NEW u \in BOOLEAN, NEW missed \in SUBSET Early,
              Start(n, u, missed)
       PROVE  ~Saving' /\ \E f \in FileId : file'[f].entries[h] # NoEntry
  BY <1>10 DEF Start
<1>11. ASSUME NEW s \in Stat, NEW v \in Playable[s], Play(s, v)
       PROVE  ~Saving' /\ \E f \in FileId : file'[f].entries[h] # NoEntry
  BY <1>11 DEF Play
<1> QED
  BY <1>2, <1>3, <1>4, <1>5, <1>6, <1>7, <1>8, <1>9, <1>10, <1>11 DEF Next

(* However a process ends, what it leaves is what EndCostsOneFile says.    *)
LEMMA EndKeeps ==
  ASSUME ServiceInv, ForeignInv, Next, pc # "off", pc' = "off"
  PROVE  /\ \A f \in FileId \ {TornFile} :
              \/ file'[f] = IF pc = "idle" THEN file[f] ELSE before[f]
              \/ /\ f = 0 /\ pc # "idle" /\ file'[0].state = "ok"
                 /\ Lost(0, file'[0]) \subseteq Unread(0, before[0])
         /\ fault' = "null_stat" =>
              \E f \in FileId, h \in Foreign : file'[f].entries[h] # NoEntry
<1>1. /\ file' = file
      /\ fault' = "null_stat" => NullStats(stat_maps) # {}
  BY DEF Next, UserEdit, Start, Play, LoadStats, SaveStats, BeginSave,
     WriteDefault, OpenChar, WriteChar, Crash, Down, Ends
<1>2. fault' = "null_stat" =>
        \E f \in FileId, h \in Foreign : file'[f].entries[h] # NoEntry
  BY <1>1 DEF NullStats, ForeignInv
<1>3. ASSUME NEW f \in FileId \ {TornFile}, pc # "idle", file[f] # before[f]
      PROVE  /\ f = 0 /\ file'[0].state = "ok"
             /\ Lost(0, file'[0]) \subseteq Unread(0, before[0])
  <2>1. Saving
    BY <1>3 DEF ServiceInv, TypeOK, Saving
  <2>2. Opens(f) /\ (f = 0 \/ (pc = "write_char" /\ f = index))
    BY <1>3, <2>1 DEF ServiceInv, TouchedInv
  <2>3. f = 0 /\ Opens(0) /\ (pc = "open_char" \/ (pc = "write_char" /\ index # 0))
    BY <1>3, <2>1, <2>2 DEF TornFile, Saving
  <2>4. /\ file[0].state = "ok"
        /\ \A s \in Held(stat_maps) :
             get_char_index_from_stat(s) = 0 /\ (named => s \in registered) =>
               file[0].entries[s] = stat_maps[s]
    BY <2>3 DEF ServiceInv, DefaultSettled
  <2> QED
    BY <1>1, <2>1, <2>3, <2>4, WrittenKeepsRead
<1>4. ASSUME NEW f \in FileId \ {TornFile}
      PROVE  \/ file'[f] = IF pc = "idle" THEN file[f] ELSE before[f]
             \/ /\ f = 0 /\ pc # "idle" /\ file'[0].state = "ok"
                /\ Lost(0, file'[0]) \subseteq Unread(0, before[0])
  BY <1>1, <1>3
<1> QED BY <1>2, <1>4

(* For any stats, files and settings: a process that ends, wherever it is, *)
(* leaves all files but the open one as they were or completed, and one    *)
(* that goes down over a missing stat met its hash in a file.              *)
THEOREM EndsCostOneFile == Spec => EndCostsOneFile
<1>1. Init => ForeignInv
  BY StatsAssumption DEF Init, ForeignInv, Nothing, Hash
<1>2. ServiceInv => TypeOK /\ OffInv
  BY DEF ServiceInv
<1>3. ServiceInv /\ ForeignInv /\ [Next]_vars =>
        \/ (pc # "off" /\ pc' = "off" =>
              /\ \A f \in FileId \ {TornFile} :
                   \/ file'[f] = IF pc = "idle" THEN file[f] ELSE before[f]
                   \/ /\ f = 0 /\ pc # "idle" /\ file'[0].state = "ok"
                      /\ Lost(0, file'[0]) \subseteq Unread(0, before[0])
              /\ fault' = "null_stat" =>
                   \E f \in FileId, h \in Foreign :
                     file'[f].entries[h] # NoEntry)
        \/ UNCHANGED vars
  BY EndKeeps
<1> QED
  BY <1>1, <1>2, <1>3, ForeignStep, Invariance, PTL DEF Spec, EndCostsOneFile

-----------------------------------------------------------------------------
(* What a save leaves on disk is what the next process shows *)

\* During a save the maps hold the value of every stat being recorded.
SavedInv ==
  Saving =>
    \A s \in Online : Recorded(s) /\ live[s] # Long => stat_maps[s] = live[s]

(* A save copies the stats before its first write and the game does not    *)
(* touch them until its last.                                              *)
LEMMA SavedStep == TypeOK /\ SavedInv /\ [Next]_vars => SavedInv'
<1> SUFFICES ASSUME TypeOK, SavedInv, [Next]_vars PROVE SavedInv'
  OBVIOUS
<1> USE DEF Saving
<1>1. CASE SaveStats
  <2>1. CASE NullStats(stat_maps) # {}
    BY <1>1, <2>1 DEF SaveStats, Down, Ends, SavedInv
  <2>2. CASE NullStats(stat_maps) = {}
    <3>1. PICK text \in Texts :
            stat_maps' = [h \in Hash |->
                            IF h \in Stat /\ Recorded(h)
                            THEN IF h \in Strings THEN text[h] ELSE live[h]
                            ELSE stat_maps[h]]
      BY <1>1, <2>2 DEF SaveStats, BeginSave
    <3>2. \A s \in Strings : live[s] # Long => text[s] = live[s]
      BY DEF Texts, Reads
    <3>3. UNCHANGED <<live, unmodified>>
      BY <1>1, <2>2 DEF SaveStats, BeginSave
    <3> QED
      BY <3>1, <3>2, <3>3, StatsAssumption DEF SavedInv, Recorded, Hash
  <2> QED BY <2>1, <2>2
<1>2. CASE WriteDefault
  BY <1>2 DEF WriteDefault, Down, Ends, SavedInv, Recorded
<1>3. CASE OpenChar
  BY <1>3 DEF OpenChar, SavedInv, Recorded
<1>4. CASE WriteChar
  BY <1>4 DEF WriteChar, Down, Ends, SavedInv, Recorded
<1>5. CASE UNCHANGED vars
  BY <1>5 DEF vars, SavedInv, Recorded
<1>6. CASE Crash
  BY <1>6 DEF Crash, Down, Ends, SavedInv
<1>7. CASE LoadStats
  BY <1>7 DEF LoadStats, SavedInv
<1>8. ASSUME NEW f \in FileId, NEW c \in UserFiles[f], UserEdit(f, c)
      PROVE  SavedInv'
  BY <1>8 DEF UserEdit, SavedInv
<1>9. ASSUME NEW n \in Readable, NEW u \in BOOLEAN, NEW missed \in SUBSET Early,
             Start(n, u, missed)
      PROVE  SavedInv'
  BY <1>9 DEF Start, SavedInv
<1>10. ASSUME NEW s \in Stat, NEW v \in Playable[s], Play(s, v)
       PROVE  SavedInv'
  BY <1>10 DEF Play, SavedInv
<1> QED
  BY <1>1, <1>2, <1>3, <1>4, <1>5, <1>6, <1>7, <1>8, <1>9, <1>10 DEF Next

(* A stat only one save file names comes back with the value it has there. *)
LEMMA OneFileRestores ==
  ASSUME NEW fs \in [FileId -> File], NEW s \in Stat, NEW c \in SaveIndex,
         fs[0].state = "ok", fs[c].entries[s] # NoEntry,
         \A f \in FileId \ {c} : fs[f].entries[s] = NoEntry
  PROVE  MapsAfterLoad(fs, Nothing)[s] = fs[c].entries[s]
<1>1. s \in Hash
  BY DEF Hash
<1>2. Nothing[s] = NoEntry
  BY <1>1 DEF Nothing
<1>3. \A e, m : load_stat_map_from_json(e, m)[s] =
                  IF e[s] # NoEntry THEN e[s] ELSE m[s]
  BY <1>1 DEF load_stat_map_from_json
<1>4. MapsAfterLoad(fs, Nothing)[s] =
        IF fs[111].entries[s] # NoEntry THEN fs[111].entries[s]
        ELSE IF fs[2].entries[s] # NoEntry THEN fs[2].entries[s]
        ELSE IF fs[1].entries[s] # NoEntry THEN fs[1].entries[s]
        ELSE IF fs[0].entries[s] # NoEntry THEN fs[0].entries[s]
        ELSE NoEntry
  BY <1>2, <1>3 DEF MapsAfterLoad, SAVE_OVERWRITE_INDEX
<1> QED
  BY <1>4 DEF FileId, SaveIndex, SAVE_OVERWRITE_INDEX

(* The last write of a save leaves the disk from which a fresh process     *)
(* shows the value the game holds.                                         *)
LEMMA LastWriteRestores ==
  ASSUME ServiceInv, SavedInv, Next, pc = "write_char", pc' = "idle", Opens(0),
         NEW s \in Online \ Ngpc,
         get_char_index_from_stat(s) \in {0, index},
         Opens(get_char_index_from_stat(s)),
         Recorded(s), live[s] # Long, named => s \in registered,
         OwnFileOnly(s, file')
  PROVE  Restored(file')[s] = live[s]
<1>1. WriteChar /\ Dumps(index, stat_maps)
  BY DEF Next, UserEdit, Start, Play, LoadStats, SaveStats, BeginSave,
     WriteDefault, OpenChar, WriteChar, Crash, Down, Ends
<1>2. s \in Stat /\ live[s] \in Value /\ stat_maps[s] = live[s]
  BY StatsAssumption DEF ServiceInv, TypeOK, SavedInv, Saving
<1>3. live[s] \notin {Long, Garbled, NoEntry}
  BY <1>2, StatsAssumption
<1> DEFINE c == get_char_index_from_stat(s)
<1>4. PICK e \in save_stat_map_to_json(index, stat_maps) :
        file' = Written(index, e)
  BY <1>1 DEF WriteChar
<1>5. e \in Entries /\ (c = index => e[s] = live[s])
  BY <1>2, SavedText DEF ServiceInv, TypeOK
<1>6. index # 0 => /\ file[0].state = "ok"
                   /\ c = 0 => file[0].entries[s] = live[s]
  BY <1>2, <1>3 DEF ServiceInv, DefaultSettled, Held
<1>7. /\ file' \in [FileId -> File]
      /\ \A g \in FileId :
           file'[g] = IF g = index /\ Opens(index) THEN Complete(e) ELSE file[g]
  BY <1>4, <1>5, OneFileWritten DEF ServiceInv, TypeOK
<1>8. Complete(e).state = "ok" /\ Complete(e).entries = e
  BY DEF Complete
<1>9. 0 \in FileId /\ c \in FileId /\ c \in SaveIndex
  BY DEF Opens, FileId
<1>10. file'[0].state = "ok" /\ file'[c].entries[s] = live[s]
  <2>1. CASE index = 0
    BY <1>5, <1>7, <1>8, <1>9, <2>1
  <2>2. CASE index # 0 /\ c = 0
    BY <1>6, <1>7, <1>9, <2>2
  <2>3. CASE index # 0 /\ c = index
    BY <1>5, <1>6, <1>7, <1>8, <1>9, <2>3
  <2> QED BY <2>1, <2>2, <2>3
<1>11. MapsAfterLoad(file', Nothing)[s] = live[s]
  BY <1>2, <1>3, <1>7, <1>9, <1>10, OneFileRestores DEF OwnFileOnly
<1> QED
  BY <1>2, <1>3, <1>11 DEF Restored, LiveAfterLoad

(* For any stats, values and files: once save_stats has written its second *)
(* file, a fresh process that loads the files shows what the game shows    *)
(* now, for every stat RestartRestores speaks of.                          *)
THEOREM SaveRestores == Spec => RestartRestores
<1>1. Init => SavedInv
  BY DEF Init, SavedInv, Saving
<1>2. ServiceInv /\ SavedInv /\ [Next]_vars =>
        \/ (pc = "write_char" /\ pc' = "idle" /\ Opens(0) =>
              \A s \in Online \ Ngpc :
                /\ get_char_index_from_stat(s) \in {0, index}
                /\ Opens(get_char_index_from_stat(s))
                /\ Recorded(s)
                /\ live[s] # Long
                /\ named => s \in registered
                /\ OwnFileOnly(s, file')
                => Restored(file')[s] = live[s])
        \/ UNCHANGED vars
  <2>1. ASSUME UNCHANGED vars PROVE ~(pc = "write_char" /\ pc' = "idle")
    BY <2>1 DEF vars
  <2> QED BY <2>1, LastWriteRestores
<1>3. ServiceInv => TypeOK
  BY DEF ServiceInv
<1> QED
  BY <1>1, <1>2, <1>3, SavedStep, Invariance, PTL DEF Spec, RestartRestores

-----------------------------------------------------------------------------
(* What a load shows is decided file by file *)

(* Whatever a load that succeeds finds on disk, the value of a stat in the *)
(* maps is the one of the last file that names it, or the one it had.      *)
LEMMA LastFileWins ==
  ASSUME NEW fs \in [FileId -> File], NEW maps, NEW s \in Stat,
         fs[0].state = "ok"
  PROVE  LET m == MapsAfterLoad(fs, maps)[s]
         IN  /\ \A f \in FileId :
                  /\ fs[f].entries[s] # NoEntry
                  /\ \A g \in FileId : fs[g].entries[s] # NoEntry => g <= f
                  => m = fs[f].entries[s]
             /\ (\A f \in FileId : fs[f].entries[s] = NoEntry) => m = maps[s]
<1>1. s \in Hash
  BY DEF Hash
<1>2. \A e, m : load_stat_map_from_json(e, m)[s] =
                  IF e[s] # NoEntry THEN e[s] ELSE m[s]
  BY <1>1 DEF load_stat_map_from_json
<1>3. MapsAfterLoad(fs, maps)[s] =
        IF fs[111].entries[s] # NoEntry THEN fs[111].entries[s]
        ELSE IF fs[2].entries[s] # NoEntry THEN fs[2].entries[s]
        ELSE IF fs[1].entries[s] # NoEntry THEN fs[1].entries[s]
        ELSE IF fs[0].entries[s] # NoEntry THEN fs[0].entries[s]
        ELSE maps[s]
  BY <1>2 DEF MapsAfterLoad, SAVE_OVERWRITE_INDEX
<1>4. FileId = {0, 1, 2, 111}
  BY DEF FileId, SaveIndex, SAVE_OVERWRITE_INDEX
<1> QED
  BY <1>3, <1>4

(* For any stats, values and files: a load that succeeds gives the game    *)
(* what the last file that names a stat says (stats_service.cpp 363-372).  *)
THEOREM LoadsInOrder == Spec => LoadPrecedence
<1>1. ASSUME ServiceInv, LoadStats, loaded' = "ok", NEW s \in Stat \ Ngpc
      PROVE  LET names(f)  == file[f].entries[s] # NoEntry
                 wins(f)   == /\ names(f)
                              /\ \A g \in FileId : names(g) => g <= f
             IN /\ \A f \in FileId :
                     wins(f) => live'[s] = Fits(file[f].entries[s])
                /\ (\A f \in FileId : ~names(f)) =>
                     live'[s] \in {live[s], Fits(stat_maps[s])}
  <2>1. file[0].state = "ok" /\ file \in [FileId -> File]
    BY <1>1 DEF LoadStats, ServiceInv, TypeOK
  <2> DEFINE m == MapsAfterLoad(file, stat_maps)[s]
  <2>2. live'[s] = IF m \in {Long, Garbled} THEN Long
                   ELSE IF m # NoEntry THEN m ELSE live[s]
    BY <1>1, <2>1 DEF LoadStats, LiveAfterLoad
  <2>3. m # NoEntry => live'[s] = Fits(m)
    BY <2>2 DEF Fits
  <2>4. m = NoEntry => live'[s] = live[s]
    BY <2>2, StatsAssumption
  <2> HIDE DEF m
  <2>5. /\ \A f \in FileId :
             /\ file[f].entries[s] # NoEntry
             /\ \A g \in FileId : file[g].entries[s] # NoEntry => g <= f
             => m = file[f].entries[s]
        /\ (\A f \in FileId : file[f].entries[s] = NoEntry) =>
             m = stat_maps[s]
    BY <2>1, LastFileWins DEF m
  <2> QED
    BY <2>3, <2>4, <2>5
<1>2. ServiceInv /\ [Next]_vars =>
        [LoadStats /\ loaded' = "ok" =>
          \A s \in Stat \ Ngpc :
            LET names(f)  == file[f].entries[s] # NoEntry
                wins(f)   == /\ names(f)
                             /\ \A g \in FileId : names(g) => g <= f
            IN /\ \A f \in FileId :
                    wins(f) => live'[s] = Fits(file[f].entries[s])
               /\ (\A f \in FileId : ~names(f)) =>
                    live'[s] \in {live[s], Fits(stat_maps[s])}]_vars
  BY <1>1
<1> QED
  BY <1>2, Invariance, PTL DEF Spec, LoadPrecedence

-----------------------------------------------------------------------------
(***************************************************************************)
(* StatsService implements SaveStore: every initial state maps to an       *)
(* initial state, every step to a step of the store or to no step.         *)
(***************************************************************************)

\* The files the store knows are those of the service.
LEMMA SameFiles == Store!FileId = FileId /\ Store!Entry = Entry
  BY DEF Store!FileId, FileId, Store!Entry, Entry

(* An initial state of the service is one of the store.                    *)
LEMMA InitMaps == Init => Store!Init
<1> SUFFICES ASSUME Init PROVE Store!Init
  OBVIOUS
<1>1. Disk = [f \in Store!FileId |->
                [state |-> "absent", entries |-> Store!Nothing]]
  BY SameFiles DEF Init, Disk, NoFiles, Absent, OnStats, Nothing, Store!Nothing, Hash
<1>2. Mem = Store!Nothing
  BY DEF Init, Mem, OnStats, Nothing, Store!Nothing, Hash
<1>3. live = Store!Zeros
  BY DEF Init, Store!Zeros
<1>4. Phase = "off" /\ TornFile = NoFile /\ Nameless = {}
  BY DEF Init, Phase, TornFile, Nameless
<1> QED
  BY <1>1, <1>2, <1>3, <1>4 DEF Store!Init

(* Every end of the process is an end of the store's process.              *)
LEMMA DownMaps == ASSUME NEW why, Down(why), pc # "off" PROVE Store!End
<1>1. Phase # "off" /\ Phase' = "off"
  BY DEF Down, Ends, Phase
<1>2. live' = Store!Zeros /\ Mem' = Store!Nothing
  BY DEF Down, Ends, Store!Zeros, Mem, OnStats, Nothing, Store!Nothing, Hash
<1>3. TornFile' = NoFile /\ Nameless' = {} /\ Disk' = Disk
  BY DEF Down, Ends, TornFile, Nameless, Disk
<1> QED
  BY <1>1, <1>2, <1>3 DEF Store!End

(* A user's edit of a file is an edit of the store's file.                 *)
LEMMA EditMaps ==
  ASSUME TypeOK, NEW f \in FileId, NEW c \in UserFiles[f], UserEdit(f, c)
  PROVE  Store!Edit
<1>1. c \in File
  BY StatsAssumption
<1> DEFINE e == OnStats(c.entries)
<1>2. e \in [Stat -> Store!Entry] /\ c.state \in {"absent", "ok", "bad"}
  BY <1>1, SameFiles DEF File, Entries, OnStats, Hash
<1>3. c.state = "absent" => e = Store!Nothing
  BY <1>1 DEF File, OnStats, Nothing, Store!Nothing, Hash
<1>4. Disk' = [Disk EXCEPT ![f] = [state |-> c.state, entries |-> e]]
  BY DEF UserEdit, Disk, TypeOK
<1>5. Phase = "off" /\ UNCHANGED <<live, Mem, Phase, TornFile, Nameless>>
  BY DEF UserEdit, Phase, Mem, TornFile, Nameless
<1> HIDE DEF e
<1> QED
  BY <1>2, <1>3, <1>4, <1>5, SameFiles DEF Store!Edit

(* A launch of the game is a start of the store's process.                 *)
LEMMA StartMaps ==
  ASSUME TypeOK, NEW n \in Readable, NEW u \in BOOLEAN,
         NEW missed \in SUBSET Early, Start(n, u, missed)
  PROVE  Store!Start
<1>1. Phase = "off" /\ Phase' = "idle" /\ TornFile' = TornFile
  BY DEF Start, Phase, TornFile
<1>2. Nameless' \in SUBSET Stat
  BY DEF Start, Nameless
<1>3. UNCHANGED <<live, Mem, Disk>>
  BY DEF Start, Mem, Disk
<1> QED
  BY <1>1, <1>2, <1>3 DEF Store!Start

(* The game changes a stat of the store.                                   *)
LEMMA PlayMaps ==
  ASSUME TypeOK, NEW s \in Stat, NEW v \in Playable[s], Play(s, v)
  PROVE  Store!Play
<1>1. v \in Value
  BY StatsAssumption
<1>2. Phase = "idle" /\ UNCHANGED <<Mem, Disk, Phase, TornFile, Nameless>>
  BY DEF Play, Phase, Mem, Disk, TornFile, Nameless
<1>3. /\ live' \in [Stat -> Value \cup {Long}]
      /\ \A q \in Stat : live'[q] \in Value \cup {live[q]}
  BY <1>1 DEF Play, TypeOK
<1> QED
  BY <1>2, <1>3 DEF Store!Play

(* What a load leaves in the maps is on disk or was there before, and is   *)
(* on disk if the load succeeds and any file has the stat.                 *)
LEMMA LoadedValues ==
  ASSUME TypeOK, NEW s \in Stat
  PROVE  LET v == MapsAfterLoad(file, stat_maps)[s]
         IN /\ v \in Store!OnDisk(s) \cup {Mem[s]}
            /\ file[0].state = "ok" /\ Store!OnDisk(s) # {} =>
                 v \in Store!OnDisk(s)
<1> DEFINE given(f) == file[f].entries[s]
           v == MapsAfterLoad(file, stat_maps)[s]
<1>1. s \in Hash
  BY DEF Hash
<1>2. \A e, m : load_stat_map_from_json(e, m)[s] =
                  IF e[s] # NoEntry THEN e[s] ELSE m[s]
  BY <1>1 DEF load_stat_map_from_json
<1>3. v = IF file[0].state = "ok"
          THEN IF given(111) # NoEntry THEN given(111)
               ELSE IF given(2) # NoEntry THEN given(2)
               ELSE IF given(1) # NoEntry THEN given(1)
               ELSE IF given(0) # NoEntry THEN given(0)
               ELSE stat_maps[s]
          ELSE IF given(0) # NoEntry THEN given(0) ELSE stat_maps[s]
  BY <1>2 DEF MapsAfterLoad, SAVE_OVERWRITE_INDEX
<1>4. Mem[s] = stat_maps[s]
  BY DEF Mem, OnStats
<1>5. \A f \in FileId : Disk[f].entries[s] = given(f)
  BY DEF Disk, OnStats
<1>6. Store!OnDisk(s) = {given(f) : f \in {0, 1, 2, 111}} \ {NoEntry}
  BY <1>5, SameFiles DEF Store!OnDisk, FileId, SaveIndex, SAVE_OVERWRITE_INDEX
<1> HIDE DEF given, v
<1>7. v \in Store!OnDisk(s) \cup {Mem[s]}
  BY <1>3, <1>4, <1>6
<1>8. file[0].state = "ok" /\ Store!OnDisk(s) # {} => v \in Store!OnDisk(s)
  BY <1>3, <1>6
<1> QED
  BY <1>7, <1>8 DEF v

(* load_stats is a load of the store: all stats or none.                   *)
LEMMA LoadMaps == TypeOK /\ LoadStats => Store!Load
<1> SUFFICES ASSUME TypeOK, LoadStats PROVE Store!Load
  OBVIOUS
<1>1. stat_maps' = MapsAfterLoad(file, stat_maps) /\ stat_maps' \in Entries
  BY LoadFiles DEF LoadStats, TypeOK
<1>2. \A s \in Stat : Mem'[s] = stat_maps'[s]
  BY DEF Mem, OnStats
<1>3. Mem' \in [Stat -> Store!Entry]
  BY <1>1, SameFiles DEF Mem, OnStats, Entries, Hash
<1>4. Disk[0].state = file[0].state
  BY DEF Disk, FileId, SaveIndex
<1>5. \A s \in Stat : Mem'[s] \in Store!OnDisk(s) \cup {Mem[s]}
  BY <1>1, <1>2, LoadedValues
<1>6. file[0].state = "ok" =>
        \A s \in Stat : Store!OnDisk(s) # {} => Mem'[s] \in Store!OnDisk(s)
  BY <1>1, <1>2, LoadedValues
<1>7. file[0].state = "ok" =>
        live' = [s \in Stat |-> IF s \in Ngpc THEN 1
                                ELSE IF Mem'[s] = NoEntry THEN live[s]
                                ELSE IF Mem'[s] \in Value THEN Mem'[s]
                                ELSE Long]
  <2>1. \A s \in Stat : stat_maps'[s] \in Value \cup {Long, Garbled, NoEntry}
    BY <1>1 DEF Entries, Entry, Hash
  <2>2. file[0].state = "ok" => live' = LiveAfterLoad(stat_maps', live)
    BY DEF LoadStats
  <2> QED
    BY <1>2, <2>1, <2>2, StatsAssumption DEF LiveAfterLoad
<1>8. file[0].state # "ok" => live' = live
  BY DEF LoadStats
<1>9. Phase = "idle" /\ UNCHANGED <<Disk, Phase, TornFile, Nameless>>
  BY DEF LoadStats, Phase, Disk, TornFile, Nameless
<1> QED
  BY <1>3, <1>4, <1>5, <1>6, <1>7, <1>8, <1>9 DEF Store!Load

(* Opening a file empties the store's file.                                *)
LEMMA EmptyMaps ==
  ASSUME TypeOK, NEW f \in FileId, Opens(f), file' = Truncated(f)
  PROVE  Disk' = [Disk EXCEPT ![f] = Store!Torn]
<1>1. OnStats(Nothing) = Store!Nothing
  BY DEF OnStats, Nothing, Store!Nothing, Hash
<1>2. \A g \in FileId : file'[g] = IF g = f THEN Torn ELSE file[g]
  BY DEF Truncated, TypeOK
<1>3. Disk' = [g \in FileId |->
                 IF g = f THEN [state |-> "bad", entries |-> OnStats(Nothing)]
                 ELSE Disk[g]]
  BY <1>2 DEF Disk, Torn
<1> QED
  BY <1>1, <1>3 DEF Disk, Store!Torn

(* A file that cannot be opened stays what it is in the store.             *)
LEMMA ClosedMaps ==
  ASSUME NEW f, ~Opens(f),
         file' = Truncated(f) \/ \E e : file' = Written(f, e)
  PROVE  file' = file /\ Disk' = Disk
<1>1. file' = file
  BY DEF Truncated, Written
<1> QED
  BY <1>1 DEF Disk

(* save_stats up to its first file begins a save, or ends the process.     *)
LEMMA SaveMaps == TypeOK /\ SaveStats => Store!BeginSave \/ Store!End
<1> SUFFICES ASSUME TypeOK, SaveStats PROVE Store!BeginSave \/ Store!End
  OBVIOUS
<1>1. CASE NullStats(stat_maps) # {}
  BY <1>1, DownMaps DEF SaveStats
<1>2. CASE NullStats(stat_maps) = {}
  <2>1. PICK text \in Texts :
          stat_maps' = [h \in Hash |->
                          IF h \in Stat /\ Recorded(h)
                          THEN IF h \in Strings THEN text[h] ELSE live[h]
                          ELSE stat_maps[h]]
    BY <1>2 DEF SaveStats, BeginSave
  <2>2. stat_maps' \in Entries
    BY <2>1, CollectMaps
  <2>3. Mem' \in [Stat -> Store!Entry]
    BY <2>2, SameFiles DEF Mem, OnStats, Entries, Hash
  <2>4. ASSUME NEW s \in Stat
        PROVE  Mem'[s] \in IF s \notin Online THEN {Mem[s]}
                           ELSE IF live[s] = 0 THEN {Mem[s], 0}
                           ELSE Store!Copies(s)
    <3>1. Mem'[s] = stat_maps'[s] /\ Mem[s] = stat_maps[s]
      BY DEF Mem, OnStats
    <3>2. s \in Strings => text[s] \in Reads(live[s])
      BY DEF Texts
    <3>3. s \notin Strings => live[s] # Long
      BY StatsAssumption DEF TypeOK
    <3> QED
      BY <2>1, <3>1, <3>2, <3>3, StatsAssumption
      DEF Recorded, Reads, Store!Copies, Hash
  <2>5. IF 0 \in ReadOnly
        THEN TornFile' = NoFile /\ UNCHANGED Disk
        ELSE TornFile' = 0 /\ Disk' = [Disk EXCEPT ![0] = Store!Torn]
    <3>1. file' = Truncated(0) /\ pc' = "write_default"
      BY <1>2 DEF SaveStats, BeginSave
    <3>2. Opens(0) <=> 0 \notin ReadOnly
      BY DEF Opens, SaveIndex
    <3>3. CASE Opens(0)
      BY <3>1, <3>2, <3>3, EmptyMaps DEF TornFile, Opens, SaveIndex, FileId
    <3>4. CASE ~Opens(0)
      BY <3>1, <3>2, <3>4, ClosedMaps DEF TornFile, Opens
    <3> QED BY <3>3, <3>4
  <2>6. /\ Phase = "idle" /\ Phase' = "saving"
        /\ UNCHANGED <<live, Nameless>>
    BY <1>2 DEF SaveStats, BeginSave, Phase, Nameless
  <2> QED
    BY <2>3, <2>4, <2>5, <2>6 DEF Store!BeginSave
<1> QED BY <1>1, <1>2

(* The text of a save file is what the store says it is.                   *)
LEMMA SavedMaps ==
  ASSUME TypeOK, NEW c, NEW e \in save_stat_map_to_json(c, stat_maps)
  PROVE  OnStats(e) = Store!Saved(c)
<1>1. stat_maps \in Entries
  BY DEF TypeOK
<1>2. \A s \in Stat :
        e[s] = IF get_char_index_from_stat(s) = c
                    /\ (named => s \in registered)
               THEN stat_maps[s] ELSE NoEntry
  BY <1>1, SavedText
<1>3. \A s \in Stat : (named => s \in registered) <=> s \notin Nameless
  BY DEF Nameless
<1>4. \A s \in Stat : /\ Home[s] = get_char_index_from_stat(s)
                      /\ Mem[s] = stat_maps[s]
  BY DEF Home, Mem, OnStats
<1>5. \A s \in Stat :
        e[s] = IF Home[s] = c /\ s \notin Nameless THEN Mem[s] ELSE NoEntry
  BY <1>2, <1>3, <1>4
<1> QED
  BY <1>5 DEF OnStats, Store!Saved

(* Writing a save file fills the store's file.                             *)
LEMMA FillMaps ==
  ASSUME TypeOK, NEW f \in FileId,
         NEW e \in save_stat_map_to_json(f, stat_maps),
         Opens(f), file' = Written(f, e)
  PROVE  Disk' = [Disk EXCEPT ![f] = [state |-> "ok",
                                      entries |-> Store!Saved(f)]]
<1>1. OnStats(e) = Store!Saved(f)
  BY SavedMaps
<1>2. \A g \in FileId : file'[g] = IF g = f THEN Complete(e) ELSE file[g]
  BY DEF TypeOK, Written
<1>3. Disk' = [g \in FileId |->
                 IF g = f THEN [state |-> "ok", entries |-> OnStats(e)]
                 ELSE Disk[g]]
  BY <1>2 DEF Disk, Complete
<1> QED
  BY <1>1, <1>3 DEF Disk

(* The first file is filled, or dump throws and the process ends.          *)
LEMMA WriteDefaultMaps ==
  TypeOK /\ WriteDefault =>
    Store!Fill \/ Store!End \/ UNCHANGED Store!vars
<1> SUFFICES ASSUME TypeOK, WriteDefault
             PROVE  Store!Fill \/ Store!End \/ UNCHANGED Store!vars
  OBVIOUS
<1>1. CASE ~Dumps(0, stat_maps)
  BY <1>1, DownMaps DEF WriteDefault
<1>2. CASE Dumps(0, stat_maps)
  <2>1. PICK e \in save_stat_map_to_json(0, stat_maps) : file' = Written(0, e)
    BY <1>2 DEF WriteDefault
  <2>2. /\ Phase = "saving" /\ Phase' = "saving" /\ TornFile' = NoFile
        /\ UNCHANGED <<live, Mem, Nameless>>
    BY <1>2 DEF WriteDefault, Phase, TornFile, Mem, Nameless
  <2>3. CASE Opens(0)
    <3>1. Disk' = [Disk EXCEPT ![0] = [state |-> "ok",
                                       entries |-> Store!Saved(0)]]
      BY <2>1, <2>3, FillMaps DEF FileId, SaveIndex
    <3>2. TornFile = 0
      BY <2>3 DEF WriteDefault, TornFile
    <3> QED
      BY <2>2, <3>1, <3>2 DEF Store!Fill, NoFile
  <2>4. CASE ~Opens(0)
    <3>1. Disk' = Disk
      BY <2>1, <2>4, ClosedMaps
    <3>2. TornFile = NoFile
      BY <2>4 DEF WriteDefault, TornFile
    <3> QED
      BY <2>2, <3>1, <3>2 DEF Store!vars
  <2> QED BY <2>3, <2>4
<1> QED BY <1>1, <1>2

(* The second file is emptied, unless it cannot be opened.                 *)
LEMMA OpenCharMaps ==
  TypeOK /\ OpenChar => Store!Empty \/ UNCHANGED Store!vars
<1> SUFFICES ASSUME TypeOK, OpenChar
             PROVE  Store!Empty \/ UNCHANGED Store!vars
  OBVIOUS
<1>1. /\ Phase = "saving" /\ Phase' = "saving" /\ TornFile = NoFile
      /\ UNCHANGED <<live, Mem, Nameless>>
  BY DEF OpenChar, Phase, TornFile, Mem, Nameless
<1>2. CASE Opens(index)
  <2>1. TornFile' = index
    BY <1>2 DEF OpenChar, TornFile, Opens
  <2>2. index \in SaveIndex \ ReadOnly /\ index \in FileId
    BY <1>2 DEF Opens, FileId
  <2>3. Disk' = [Disk EXCEPT ![index] = Store!Torn]
    BY <1>2, <2>2, EmptyMaps DEF OpenChar
  <2> QED
    BY <1>1, <2>1, <2>2, <2>3 DEF Store!Empty
<1>3. CASE ~Opens(index)
  <2>1. Disk' = Disk
    BY <1>3, ClosedMaps DEF OpenChar
  <2>2. TornFile' = TornFile
    BY <1>3 DEF OpenChar, TornFile, Opens
  <2> QED
    BY <1>1, <2>1, <2>2 DEF Store!vars
<1> QED BY <1>2, <1>3

(* The second file is filled, if it is open, and the save finishes.        *)
LEMMA WriteCharMaps ==
  TypeOK /\ WriteChar => Store!Fill \/ Store!Finish \/ Store!End
<1> SUFFICES ASSUME TypeOK, WriteChar
             PROVE  Store!Fill \/ Store!Finish \/ Store!End
  OBVIOUS
<1>1. CASE ~Dumps(index, stat_maps)
  BY <1>1, DownMaps DEF WriteChar
<1>2. CASE Dumps(index, stat_maps)
  <2>1. /\ Phase = "saving" /\ Phase' = "idle" /\ TornFile' = NoFile
        /\ UNCHANGED <<live, Mem, Nameless>>
    BY <1>2 DEF WriteChar, Phase, TornFile, Mem, Nameless
  <2>2. PICK e \in save_stat_map_to_json(index, stat_maps) :
          file' = Written(index, e)
    BY <1>2 DEF WriteChar
  <2>3. CASE Opens(index)
    <3>1. Disk' = [Disk EXCEPT ![index] = [state |-> "ok",
                                           entries |-> Store!Saved(index)]]
      BY <2>2, <2>3, FillMaps DEF Opens, FileId
    <3>2. TornFile = index /\ index # NoFile
      BY <2>3 DEF WriteChar, TornFile, NoFile, Opens, SaveIndex
    <3> QED
      BY <2>1, <3>1, <3>2 DEF Store!Fill
  <2>4. CASE ~Opens(index)
    <3>1. TornFile = NoFile
      BY <2>4 DEF WriteChar, TornFile
    <3>2. Disk' = Disk
      BY <2>2, <2>4, ClosedMaps
    <3> QED
      BY <2>1, <3>1, <3>2 DEF Store!Finish
  <2> QED BY <2>3, <2>4
<1> QED BY <1>1, <1>2

(* Every step of the service is a step of the store, or none.              *)
LEMMA StepMaps == TypeOK /\ [Next]_vars => [Store!Next]_(Store!vars)
<1> SUFFICES ASSUME TypeOK, [Next]_vars PROVE Store!Next \/ UNCHANGED Store!vars
  OBVIOUS
<1>1. CASE UNCHANGED vars
  BY <1>1 DEF vars, Store!vars, Mem, Disk, Phase, TornFile, Nameless
<1>2. CASE Crash
  BY <1>2, DownMaps DEF Crash, Store!Next
<1> QED
  BY <1>1, <1>2, EditMaps, StartMaps, PlayMaps, LoadMaps, SaveMaps,
     WriteDefaultMaps, OpenCharMaps, WriteCharMaps DEF Next, Store!Next

(* For any stats, files and settings, the save service with its maps,      *)
(* names and indexes implements the store a player sees.                   *)
THEOREM Implements == Spec => ImplementsStore
  BY InitMaps, StepMaps, TypeCorrect, PTL
  DEF Spec, ImplementsStore, Store!Spec
=============================================================================
