---------------------------- MODULE StatsService ----------------------------
(***************************************************************************)
(* The save service of services/stats/stats_service.cpp: the game's live   *)
(* stats, the fourteen m_*_stats maps the service keeps in memory, and the *)
(* four json files in the project folder.                                  *)
(*                                                                         *)
(* load_stats runs inside one hook call and only reads the disk, so it is  *)
(* one action.  save_stats writes two files, each opened with              *)
(* std::ios::trunc before its text is produced, so it is split where a     *)
(* crash of the process leaves a different disk behind.                    *)
(*                                                                         *)
(* The fourteen maps are one function: the type of a stat never changes,   *)
(* so its hash has a value in at most the one map of that type, and stats  *)
(* of type PROFILE_SETTING, which both loops skip, are not in Stat.        *)
(***************************************************************************)
EXTENDS Integers

CONSTANTS
  Stat,        \* hashes in the game's stat array
  Foreign,     \* hashes a file may mention that are not in that array
  EmptyHash,   \* joaat(""), one of Foreign
  LastChar,    \* MPPLY_LAST_MP_CHAR
  Ngpc,        \* MP0_CHAR_IS_NGPC_VERSION and MP1_CHAR_IS_NGPC_VERSION
  RawChar,     \* bits 20..22 of m_flags, per stat
  Online,      \* stats with bit 3 of m_flags set
  Strings,     \* stats of type STRING
  Readable,    \* what a launch may find as use_human_readable_stat_names
  Early,       \* stats the game may construct before the hooks are enabled
  Value,       \* values of a stat; 0 is the one IsZero() recognises
  Long,        \* a string of 32 or more bytes; as a live value, a buffer
               \* that strncpy left without a terminator
  Garbled,     \* what reading such a buffer yields when the bytes after it
               \* are not UTF-8
  NoEntry,     \* no value recorded for a hash
  Playable,    \* per stat, the values the game itself gives it
  UserFiles,   \* per file, what a user may put there while the game is off
  ReadOnly     \* save files that cannot be opened for writing

Hash  == Stat \cup Foreign
Entry == Value \cup {Long, Garbled, NoEntry}

SAVE_OVERWRITE_INDEX == 111
SaveIndex_WithOverride == {0, 1, 2, SAVE_OVERWRITE_INDEX}
SaveIndex == {0, 1, 2}
FileId    == SaveIndex \cup {SAVE_OVERWRITE_INDEX}

Entries == {e \in [Hash -> Entry] :
              \A s \in Stat \ Strings : e[s] \in Value \cup {NoEntry}}
Nothing == [h \in Hash |-> NoEntry]

\* A file is absent, parses completely ("ok"), or makes the loader throw
\* ("bad"): the entries before that place are merged into the maps, the
\* stats named after it, its rest, are not.
File    == {c \in [state : {"absent", "ok", "bad"}, entries : Entries,
                   rest : SUBSET Stat] :
              /\ c.state = "absent" => c.entries = Nothing
              /\ c.state # "bad" => c.rest = {}
              /\ \A s \in c.rest : c.entries[s] = NoEntry}
Absent  == [state |-> "absent", entries |-> Nothing, rest |-> {}]
Torn    == [state |-> "bad",    entries |-> Nothing, rest |-> {}]
Complete(entries) == [state |-> "ok", entries |-> entries, rest |-> {}]
NoFiles == [f \in FileId |-> Absent]

ASSUME StatsAssumption ==
  /\ Stat \cap Foreign = {}
  /\ EmptyHash \in Foreign
  /\ LastChar \in Stat \ Strings
  /\ Ngpc \subseteq Stat \ Strings
  /\ Online \subseteq Stat
  /\ Strings \subseteq Stat
  /\ Readable \subseteq BOOLEAN
  /\ Early \subseteq Stat
  /\ Value \subseteq Int
  /\ {0, 1} \subseteq Value
  /\ Long \notin Value /\ Garbled \notin Value /\ NoEntry \notin Value
  /\ Long # Garbled /\ Long # NoEntry /\ Garbled # NoEntry
  /\ RawChar \in [Stat -> 0..7]
  /\ Playable \in [Stat -> SUBSET Value]
  /\ UserFiles \in [FileId -> SUBSET File]
  /\ ReadOnly \subseteq {0, 1, 2}

VARIABLES
  live,        \* value of every stat in the game
  stat_maps,   \* the m_*_stats maps
  file,        \* the files on disk
  pc,          \* where the service is
  index,       \* char_index of the second file of the save in progress
  named,       \* g.use_human_readable_stat_names
  unmodified,  \* g.save_unmodified_stats
  registered,  \* stats with a name in m_stat_hash_to_string
  loaded,      \* what load_stats returned last in this process
  fault,       \* why the service itself brought the process down
  before       \* history: the files as the save in progress found them

vars == <<live, stat_maps, file, pc, index, named, unmodified, registered,
          loaded, fault, before>>

-----------------------------------------------------------------------------
(* Helpers *)

get_char_index_from_stat(s) ==
  IF RawChar[s] \in {6, 7} THEN 0 ELSE RawChar[s]

\* The text a stat may yield when it is read back for saving.
Reads(v) == IF v = Long THEN {Long, Garbled} ELSE {v}
Texts == {t \in [Strings -> Value \cup {Long, Garbled}] :
            \A s \in Strings : t[s] \in Reads(live[s])}

\* load_stat_map_from_json over all sections: later entries win.
load_stat_map_from_json(entries, maps) ==
  [h \in Hash |-> IF entries[h] # NoEntry THEN entries[h] ELSE maps[h]]

\* The stats save_stats copies into the maps.
Recorded_AlsoOffline(s) == unmodified \/ live[s] # 0
Recorded_NeverZero(s) == s \in Online /\ live[s] # 0
Recorded(s) == s \in Online /\ (unmodified \/ live[s] # 0)

\* Entries of one save file that lose their name: m_stat_hash_to_string has
\* none for them, and operator[] inserts the empty string.
Unnamed(c, maps) ==
  {s \in Stat : /\ get_char_index_from_stat(s) = c
                /\ maps[s] # NoEntry
                /\ named /\ s \notin registered}

\* What save_stat_map_to_json produces for character c, read back as hashes.
save_stat_map_to_json_RawChar(c, maps) ==
  {[h \in Hash |-> IF h \in Stat /\ RawChar[h] = c /\ (named => h \in registered)
                   THEN maps[h] ELSE NoEntry]}

save_stat_map_to_json(c, maps) ==
  LET kept  == {s \in Stat : /\ get_char_index_from_stat(s) = c
                             /\ maps[s] # NoEntry
                             /\ named => s \in registered}
      plain == [h \in Hash |-> IF h \in kept THEN maps[h] ELSE NoEntry]
      lost  == Unnamed(c, maps)
  IN IF lost = {} THEN {plain}
     ELSE {[plain EXCEPT ![EmptyHash] = maps[s]] : s \in lost}

\* json.dump throws on a string that is not UTF-8.
Dumps(c, maps) ==
  \A s \in Stat : get_char_index_from_stat(s) = c => maps[s] # Garbled

\* get_stat_by_hash returns nullptr for these, and it is dereferenced.
NullStats(maps) == {h \in Foreign : maps[h] # NoEntry}

\* An ofstream that cannot be opened stays closed: what goes into it is lost,
\* and nothing looks at its state.
Opens(f)      == f \in SaveIndex \ ReadOnly
Truncated(f)  == IF Opens(f) THEN [file EXCEPT ![f] = Torn] ELSE file
Written(f, e) == IF Opens(f) THEN [file EXCEPT ![f] = Complete(e)] ELSE file

\* The maps after the files have been read, in load_stats' order.
MapsAfterLoad_NoFirstChar(files, maps) ==
  LET m0 == load_stat_map_from_json(files[0].entries, maps)
      m1 == load_stat_map_from_json(files[2].entries, m0)
  IN IF files[0].state = "ok"
     THEN load_stat_map_from_json(files[SAVE_OVERWRITE_INDEX].entries, m1)
     ELSE m0

MapsAfterLoad_OverridesFirst(files, maps) ==
  LET m0 == load_stat_map_from_json(files[SAVE_OVERWRITE_INDEX].entries, maps)
      m1 == load_stat_map_from_json(files[0].entries, m0)
      m2 == load_stat_map_from_json(files[1].entries, m1)
  IN IF files[0].state = "ok"
     THEN load_stat_map_from_json(files[2].entries, m2)
     ELSE load_stat_map_from_json(files[0].entries, maps)

MapsAfterLoad(files, maps) ==
  LET m0 == load_stat_map_from_json(files[0].entries, maps)
      m1 == load_stat_map_from_json(files[1].entries, m0)
      m2 == load_stat_map_from_json(files[2].entries, m1)
  IN IF files[0].state = "ok"
     THEN load_stat_map_from_json(files[SAVE_OVERWRITE_INDEX].entries, m2)
     ELSE m0

\* The game's stats after the second half of load_stats.
\* strncpy puts the first 32 bytes of a longer string into the 32-byte buffer.
LiveAfterLoad_WithoutContains(maps, stats) ==
  [s \in Stat |-> IF s \in Ngpc THEN 1
                  ELSE IF maps[s] \in {Long, Garbled} THEN Long
                  ELSE maps[s]]
LiveAfterLoad(maps, stats) ==
  [s \in Stat |-> IF s \in Ngpc THEN 1
                  ELSE IF maps[s] \in {Long, Garbled} THEN Long
                  ELSE IF maps[s] # NoEntry THEN maps[s]
                  ELSE stats[s]]

-----------------------------------------------------------------------------
Init ==
  /\ live = [s \in Stat |-> 0]
  /\ stat_maps = Nothing
  /\ file = NoFiles
  /\ pc = "off"
  /\ index = 0
  /\ named = FALSE /\ unmodified = FALSE
  /\ registered = {}
  /\ loaded = "none"
  /\ fault = "none"
  /\ before = NoFiles

\* The process ends: nothing but the files survives.
Ends(why) ==
  /\ live' = [s \in Stat |-> 0]
  /\ stat_maps' = Nothing
  /\ pc' = "off"
  /\ index' = 0
  /\ named' = FALSE /\ unmodified' = FALSE
  /\ registered' = {}
  /\ loaded' = "none"
  /\ fault' = why
  /\ before' = NoFiles

Down(why) == Ends(why) /\ UNCHANGED file

\* While the game is off the user edits, adds or deletes a file.
UserEdit(f, c) ==
  /\ pc = "off"
  /\ file' = [file EXCEPT ![f] = c]
  /\ UNCHANGED <<live, stat_maps, pc, index, named, unmodified, registered,
                 loaded, fault, before>>

\* A launch: settings are read, then the game constructs its stats, each
\* constructor seen by the stat_ctor hook unless it ran before the hooks.
Start(n, u, missed) ==
  /\ pc = "off"
  /\ pc' = "idle"
  /\ named' = n /\ unmodified' = u
  /\ registered' = IF n THEN Stat \ missed ELSE {}
  /\ fault' = "none"
  /\ UNCHANGED <<live, stat_maps, file, index, loaded, before>>

Play(s, v) ==
  /\ pc = "idle"
  /\ live' = [live EXCEPT ![s] = v]
  /\ UNCHANGED <<stat_maps, file, pc, index, named, unmodified, registered,
                 loaded, fault, before>>

LoadStats ==
  /\ pc = "idle"
  /\ stat_maps' = MapsAfterLoad(file, stat_maps)
  /\ IF file[0].state = "ok"
     THEN /\ live' = LiveAfterLoad(stat_maps', live)
          /\ loaded' = "ok"
     ELSE /\ live' = live
          /\ loaded' = "failed"
  /\ UNCHANGED <<file, pc, index, named, unmodified, registered, fault,
                 before>>

\* The loop of save_stats, then save_internal_stats_to_json(0) up to the
\* opening of its file.
BeginSave ==
  /\ \E text \in Texts :
       stat_maps' = [h \in Hash |->
                       IF h \in Stat /\ Recorded(h)
                       THEN IF h \in Strings THEN text[h] ELSE live[h]
                       ELSE stat_maps[h]]
  /\ index' = (live[LastChar] + 1) % 256
  /\ file' = Truncated(0)
  /\ before' = file
  /\ pc' = "write_default"
  /\ UNCHANGED <<live, named, unmodified, registered, loaded, fault>>

\* A foreign hash is met before anything is opened.
SaveStats_OpensFirst ==
  /\ pc = "idle"
  /\ IF NullStats(stat_maps) # {}
     THEN Ends("null_stat") /\ file' = Truncated(0)
     ELSE BeginSave
SaveStats ==
  /\ pc = "idle"
  /\ IF NullStats(stat_maps) # {} THEN Down("null_stat") ELSE BeginSave

\* file << json.dump(...) for the default file.  dump is outside the try
\* block: what it throws leaves save_stats, and no frame of the game
\* catches it.
WriteDefault ==
  /\ pc = "write_default"
  /\ IF Dumps(0, stat_maps)
     THEN /\ \E e \in save_stat_map_to_json(0, stat_maps) :
               file' = Written(0, e)
          /\ pc' = "open_char"
          /\ UNCHANGED <<live, stat_maps, index, named, unmodified,
                         registered, loaded, fault, before>>
     ELSE Down("encode")

\* Only the indexes 0, 1 and 2 have a file.
OpenChar ==
  /\ pc = "open_char"
  /\ file' = Truncated(index)
  /\ pc' = "write_char"
  /\ UNCHANGED <<live, stat_maps, index, named, unmodified, registered,
                 loaded, fault, before>>

WriteChar ==
  /\ pc = "write_char"
  /\ IF Dumps(index, stat_maps)
     THEN /\ \E e \in save_stat_map_to_json(index, stat_maps) :
               file' = Written(index, e)
          /\ pc' = "idle"
          /\ index' = 0 /\ before' = NoFiles
          /\ UNCHANGED <<live, stat_maps, named, unmodified, registered,
                         loaded, fault>>
     ELSE Down("encode")

\* The game is closed or killed, at any point of a save.
Crash ==
  /\ pc # "off"
  /\ Down("none")

Next ==
  \/ \E f \in FileId : \E c \in UserFiles[f] : UserEdit(f, c)
  \/ \E n \in Readable, u \in BOOLEAN :
       \E missed \in SUBSET Early : Start(n, u, missed)
  \/ \E s \in Stat : \E v \in Playable[s] : Play(s, v)
  \/ LoadStats
  \/ SaveStats
  \/ WriteDefault
  \/ OpenChar
  \/ WriteChar
  \/ Crash

Spec == Init /\ [][Next]_vars

-----------------------------------------------------------------------------
(* Properties *)

TypeOK ==
  /\ live \in [Stat -> Value \cup {Long}]
  /\ \A s \in Stat \ Strings : live[s] \in Value
  /\ stat_maps \in Entries
  /\ file \in [FileId -> File] /\ before \in [FileId -> File]
  /\ pc \in {"off", "idle", "write_default", "open_char", "write_char"}
  /\ index \in 0..255
  /\ named \in BOOLEAN /\ unmodified \in BOOLEAN
  /\ registered \subseteq Stat
  /\ loaded \in {"none", "ok", "failed"}
  /\ fault \in {"none", "null_stat", "encode"}

Held(entries) == {s \in Stat : entries[s] # NoEntry}

\* The stats the text of a file names, and which of them the maps of this
\* process never saw: all of them in a file it has not loaded -- a character
\* file and the overrides are skipped when the default file fails -- and in
\* one it has the rest of it.
Names(c) == Held(c.entries) \cup c.rest
Unread(f, c) ==
  IF loaded = "ok" \/ (loaded = "failed" /\ f = 0) THEN c.rest ELSE Names(c)

\* The stats of file f, as the save found it, that are saved in that file
\* under a name the service knows and that these new contents do not name.
Lost(f, new) ==
  {s \in Names(before[f]) \ Names(new) :
     get_char_index_from_stat(s) = f /\ (named => s \in registered)}

(* A save rewrites a file from the maps alone, whatever the file held.     *)
(* What a completed save drops from its two files is only what this        *)
(* process never read there: the part behind the place a file stopped      *)
(* parsing at, a character file when the default file failed to load, any  *)
(* file before the first load.  Every stat that was read, in this load or  *)
(* an earlier one, offline or unchanged ones too, is written back          *)
(* (stats_service.cpp 357-358, 363-372).                                   *)
SaveKeepsRead ==
  [][pc = "write_char" /\ pc' = "idle" =>
       \A f \in FileId : Lost(f, file'[f]) \subseteq Unread(f, before[f])]_vars

(* Between the two writes of save_stats, and until the last if it is for   *)
(* another file, the default file is complete and carries every default    *)
(* stat of the maps whose name the service knows: a crash there leaves a   *)
(* default file that load_stats accepts (stats_service.cpp 357-358).       *)
DefaultSettled ==
  /\ Opens(0)
  /\ pc = "open_char" \/ (pc = "write_char" /\ index # 0)
  => /\ file[0].state = "ok"
     /\ \A s \in Held(stat_maps) :
          get_char_index_from_stat(s) = 0 /\ (named => s \in registered) =>
            file[0].entries[s] = stat_maps[s]

\* The file a save has open and empty.
NoFile   == -1
TornFile == IF pc = "write_default" /\ Opens(0) THEN 0
            ELSE IF pc = "write_char" /\ Opens(index) THEN index
            ELSE NoFile

(* However the process ends -- killed in a save, over text that json.dump  *)
(* refuses, over a hash get_stat_by_hash does not find -- the files are    *)
(* those from before the save, but for the one it had open and a default   *)
(* file it has completed, from which nothing that was read is missing; and *)
(* it only goes down over a missing stat with every file untouched, the    *)
(* one that names the hash among them (stats_service.cpp 118, 181-194).    *)
EndCostsOneFile ==
  [][pc # "off" /\ pc' = "off" =>
       /\ \A f \in FileId \ {TornFile} :
            \/ file'[f] = IF pc = "idle" THEN file[f] ELSE before[f]
            \/ /\ f = 0 /\ pc # "idle" /\ file'[0].state = "ok"
               /\ Lost(0, file'[0]) \subseteq Unread(0, before[0])
       /\ fault' = "null_stat" =>
            \E f \in FileId, h \in Foreign : file'[f].entries[h] # NoEntry]_vars

\* What a new process would show for its stats after reading these files.
Restored(files) ==
  LiveAfterLoad(MapsAfterLoad(files, Nothing), [s \in Stat |-> 0])

\* A stat no other file than the one it is saved in has a say about.
OwnFileOnly(s, files) ==
  \A f \in FileId \ {get_char_index_from_stat(s)} :
    files[f].entries[s] = NoEntry

(* A completed save is what the player gets back: after the last write of  *)
(* save_stats a fresh process that loads the files shows, for every online *)
(* stat of the default or the current character that is not zero (or zero, *)
(* with save_unmodified_stats), the value the game holds now -- unless its *)
(* name was never registered, another file sets it, it is one of the two   *)
(* stats the loader forces to 1, or it is a string without a terminator.   *)
(* The files must be ones that can be opened: the save does not look.      *)
RestartRestores ==
  [][pc = "write_char" /\ pc' = "idle" /\ Opens(0) =>
       \A s \in Online \ Ngpc :
         /\ get_char_index_from_stat(s) \in {0, index}
         /\ Opens(get_char_index_from_stat(s))
         /\ Recorded(s)
         /\ live[s] # Long
         /\ named => s \in registered
         /\ OwnFileOnly(s, file')
         => Restored(file')[s] = live[s]]_vars

(* README 19: save_overwrite.json "is never written to", although the      *)
(* index of the second file is a stat of the game plus one, in a uint8_t,  *)
(* and 111 is the overwrite file's own index (stats_service.cpp 358).      *)
OverwriteNeverWritten ==
  [][pc # "off" => file'[SAVE_OVERWRITE_INDEX] = file[SAVE_OVERWRITE_INDEX]]_vars

\* What strncpy leaves of a text; every other value is set as it is.
Fits(v) == IF v \in {Long, Garbled} THEN Long ELSE v

(* load_stats gives the game exactly what the files say, a later file      *)
(* winning over an earlier one and the overrides over all: after a load    *)
(* that succeeds every stat has the value of the last file that names it,  *)
(* and one that no file names keeps what it had, live or remembered        *)
(* (stats_service.cpp 363-372).                                            *)
LoadPrecedence ==
  [][LoadStats /\ loaded' = "ok" =>
       \A s \in Stat \ Ngpc :
         LET names(f)  == file[f].entries[s] # NoEntry
             wins(f)   == /\ names(f)
                          /\ \A g \in FileId : names(g) => g <= f
         IN /\ \A f \in FileId :
                 wins(f) => live'[s] = Fits(file[f].entries[s])
            /\ (\A f \in FileId : ~names(f)) =>
                 live'[s] \in {live[s], Fits(stat_maps[s])}]_vars

(* README 7: the save files are "user editable".  A file that stops no load *)
(* should stop no save: save_stats never meets a hash get_stat_by_hash does *)
(* not find (stats_service.cpp 118).                                        *)
EditedSaveSurvives == fault # "null_stat"

(* settings.hpp 39: what save_unmodified_stats leaves out by default is    *)
(* the stats that were not modified, so a stat the player brought to zero  *)
(* is saved as zero and comes back as zero.                                *)
ModifiedStatsSaved ==
  [][pc = "write_char" /\ pc' = "idle" /\ Opens(0) =>
       \A s \in Online \ Ngpc :
         /\ get_char_index_from_stat(s) \in {0, index}
         /\ Opens(get_char_index_from_stat(s))
         /\ live[s] # Long
         /\ named => s \in registered
         /\ OwnFileOnly(s, file')
         => Restored(file')[s] = live[s]]_vars

-----------------------------------------------------------------------------
(* Refinement *)

OnStats(entries) == [s \in Stat |-> entries[s]]

Mem      == OnStats(stat_maps)
Disk     == [f \in FileId |-> [state   |-> file[f].state,
                               entries |-> OnStats(file[f].entries)]]
Phase    == IF pc \in {"off", "idle"} THEN pc ELSE "saving"
Nameless == IF named THEN Stat \ registered ELSE {}
Home     == [s \in Stat |-> get_char_index_from_stat(s)]

Store == INSTANCE SaveStore WITH
  Forced <- Ngpc, SaveId <- SaveIndex, OverrideId <- SAVE_OVERWRITE_INDEX,
  Main <- 0, mem <- Mem, disk <- Disk, phase <- Phase, torn <- TornFile,
  nameless <- Nameless

(* The service keeps the promise of SaveStore: whatever hashes, names and  *)
(* file order it works with, a player sees one file at a time emptied and  *)
(* refilled with the remembered values of the stats that live in it, and   *)
(* loads that bring back only values on disk or remembered.                *)
ImplementsStore == Store!Spec
=============================================================================
