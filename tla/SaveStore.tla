------------------------------ MODULE SaveStore ------------------------------
(***************************************************************************)
(* What the save service promises the player, without the maps of hashes,  *)
(* the names, the character index or the order in which files are read: a  *)
(* process has a memory of saved values, a save copies the game's stats    *)
(* into it and then replaces files one at a time, each by exactly the      *)
(* memory of the stats that live there, and a load brings back values that *)
(* are on disk or remembered, for all stats at once or for none.           *)
(***************************************************************************)
EXTENDS Integers

CONSTANTS
  Stat, Online, Forced,           \* the stats, and kinds of them
  Home,                           \* index of the file a stat is saved in
  SaveId, OverrideId,             \* the save files, the override file
  Main,                           \* the save file without which no load succeeds
  ReadOnly,                       \* save files that cannot be written
  Value, Long, Garbled, NoEntry,  \* values, and texts longer than a stat
  NoFile

FileId == SaveId \cup {OverrideId}
Entry  == Value \cup {Long, Garbled, NoEntry}

VARIABLES
  live,      \* the game's stats
  mem,       \* the values the process remembers
  disk,      \* the files
  phase,     \* "off", "idle" or "saving"
  torn,      \* the file a save has emptied and not yet filled
  nameless   \* stats the process has no name for and cannot write

vars == <<live, mem, disk, phase, torn, nameless>>

Nothing == [s \in Stat |-> NoEntry]
Torn    == [state |-> "bad", entries |-> Nothing]
Zeros   == [s \in Stat |-> 0]

Init ==
  /\ live = Zeros
  /\ mem = Nothing
  /\ disk = [f \in FileId |-> [state |-> "absent", entries |-> Nothing]]
  /\ phase = "off"
  /\ torn = NoFile
  /\ nameless = {}

Edit ==
  /\ phase = "off"
  /\ \E f \in FileId, st \in {"absent", "ok", "bad"}, e \in [Stat -> Entry] :
       /\ st = "absent" => e = Nothing
       /\ disk' = [disk EXCEPT ![f] = [state |-> st, entries |-> e]]
  /\ UNCHANGED <<live, mem, phase, torn, nameless>>

Start ==
  /\ phase = "off"
  /\ phase' = "idle"
  /\ nameless' \in SUBSET Stat
  /\ UNCHANGED <<live, mem, disk, torn>>

\* The game and its scripts change any stats, but write no longer texts.
Play ==
  /\ phase = "idle"
  /\ live' \in [Stat -> Value \cup {Long}]
  /\ \A s \in Stat : live'[s] \in Value \cup {live[s]}
  /\ UNCHANGED <<mem, disk, phase, torn, nameless>>

\* A value on disk beats a remembered one; if the main file cannot be read
\* the game's stats stay as they are.
OnDisk(s) == {disk[f].entries[s] : f \in FileId} \ {NoEntry}

Load ==
  /\ phase = "idle"
  /\ mem' \in [Stat -> Entry]
  /\ \A s \in Stat : mem'[s] \in OnDisk(s) \cup {mem[s]}
  /\ IF disk[Main].state = "ok"
     THEN /\ \A s \in Stat : OnDisk(s) # {} => mem'[s] \in OnDisk(s)
          /\ live' = [s \in Stat |-> IF s \in Forced THEN 1
                                    ELSE IF mem'[s] = NoEntry THEN live[s]
                                    ELSE IF mem'[s] \in Value THEN mem'[s]
                                    ELSE Long]
     ELSE live' = live
  /\ UNCHANGED <<disk, phase, torn, nameless>>

Copies(s) == IF live[s] = Long THEN {Long, Garbled} ELSE {live[s]}

\* A save remembers every online stat that is not zero; whether it also
\* remembers the zeros is a setting.
BeginSave ==
  /\ phase = "idle"
  /\ phase' = "saving"
  /\ mem' \in [Stat -> Entry]
  /\ \A s \in Stat : mem'[s] \in IF s \notin Online THEN {mem[s]}
                                 ELSE IF live[s] = 0 THEN {mem[s], 0}
                                 ELSE Copies(s)
  /\ IF Main \in ReadOnly
     THEN torn' = NoFile /\ UNCHANGED disk
     ELSE torn' = Main /\ disk' = [disk EXCEPT ![Main] = Torn]
  /\ UNCHANGED <<live, nameless>>

Saved(f) == [s \in Stat |-> IF Home[s] = f /\ s \notin nameless THEN mem[s]
                            ELSE NoEntry]

Fill ==
  /\ phase = "saving" /\ torn # NoFile
  /\ disk' = [disk EXCEPT ![torn] = [state |-> "ok", entries |-> Saved(torn)]]
  /\ torn' = NoFile
  /\ phase' \in {"saving", "idle"}
  /\ UNCHANGED <<live, mem, nameless>>

Empty ==
  /\ phase = "saving" /\ torn = NoFile
  /\ torn' \in SaveId \ ReadOnly
  /\ disk' = [disk EXCEPT ![torn'] = Torn]
  /\ UNCHANGED <<live, mem, phase, nameless>>

Finish ==
  /\ phase = "saving" /\ torn = NoFile
  /\ phase' = "idle"
  /\ UNCHANGED <<live, mem, disk, torn, nameless>>

End ==
  /\ phase # "off"
  /\ phase' = "off"
  /\ live' = Zeros
  /\ mem' = Nothing
  /\ torn' = NoFile
  /\ nameless' = {}
  /\ UNCHANGED disk

Next == Edit \/ Start \/ Play \/ Load \/ BeginSave \/ Fill \/ Empty \/ Finish
          \/ End

Spec == Init /\ [][Next]_vars
=============================================================================
