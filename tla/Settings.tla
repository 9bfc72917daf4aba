------------------------------ MODULE Settings ------------------------------
(***************************************************************************)
(* The settings of core/settings.cpp: one launch of CLS reads              *)
(* settings.json, repairs it and hands the options to g.  load() is cut    *)
(* where a process that dies leaves another file behind: each write        *)
(* truncates the file first.                                               *)
(***************************************************************************)
EXTENDS Integers, Sequences

CONSTANTS
  Options,     \* the names of the options, in the order from_json reads them
  Odd,         \* a json value that is no boolean
  Missing,     \* no value
  UserFiles,   \* what the user may leave in settings.json
  StackLimit   \* calls of load() that fit the stack; bounds the recursion

Option == {Options[i] : i \in DOMAIN Options}
None   == [o \in Option |-> Missing]

\* What settings.json holds; "other" is json whose top level is neither an
\* object nor null, and "bad" no json at all (as is a folder of that name).
Content == [kind : {"absent", "bad", "other", "null", "object"},
            value : [Option -> BOOLEAN \cup {Odd, Missing}]]
Absent  == [kind |-> "absent", value |-> None]
Torn    == [kind |-> "bad", value |-> None]
Object(v) == [kind |-> "object", value |-> v]
Default == [o \in Option |-> FALSE]

ASSUME SettingsAssumption ==
  /\ Options \in Seq(Option) /\ Options # << >>
  /\ Odd \notin BOOLEAN /\ Missing \notin BOOLEAN /\ Odd # Missing
  /\ UserFiles \subseteq {c \in Content : c.kind = "object" \/ c.value = None}
  /\ Absent \in UserFiles
  /\ StackLimit \in Nat \ {0, 1}

VARIABLES
  base,      \* %appdata%/CLS
  content,   \* settings.json in it
  writable,  \* whether it can be opened for writing
  g,         \* the options the rest of CLS reads
  pc, depth, \* where load() is, and how many calls of it have recursed
  result,    \* what init's load() returned
  launched   \* history: what the file held at the launch

vars == <<base, content, writable, g, pc, depth, result, launched>>
disk == <<base, writable, launched>>

-----------------------------------------------------------------------------
ensure_folder_exists_Existing(b) == IF b = "missing" THEN "folder" ELSE b
ensure_folder_exists(b) == "folder"

\* deep_compare on a json that is an object or null.  No default is an object.
deep_compare_Values(v) == Default
deep_compare(v) == [o \in Option |-> IF v[o] = Missing THEN Default[o] ELSE v[o]]

\* from_json assigns the options in order and throws at the first odd one.
from_json(v) ==
  [o \in Option |->
     IF \E i \in DOMAIN Options :
          Options[i] = o /\ \A j \in 1..i : v[Options[j]] # Odd
     THEN v[o] ELSE g[o]]

NoOdd(v) == \A o \in Option : v[o] # Odd

\* An ofstream on a file that cannot be opened writes nothing.
Truncated == IF writable THEN Torn ELSE content
Written_Nothing(v) == content
Written_Default(v) == Object(Default)
Written(v) == IF writable THEN Object(v) ELSE content

Init ==
  /\ base = "missing" /\ content = Absent /\ writable = TRUE
  /\ g = Default
  /\ pc = "off" /\ depth = 0 /\ result = FALSE
  /\ launched = Absent

\* While the game is off the user edits the file, or the folder around it.
UserEdit(b, c) ==
  /\ pc = "off"
  /\ b # "folder" => c = Absent
  /\ base' = b /\ content' = c
  /\ UNCHANGED <<writable, g, pc, depth, result, launched>>

\* file_manager::init, get_project_file, menu_settings::init.
Launch(w) ==
  /\ pc = "off"
  /\ base' = ensure_folder_exists(base)
  /\ writable' = w
  /\ launched' = content
  /\ g' = Default
  /\ pc' = "load" /\ depth' = 0 /\ result' = FALSE
  /\ UNCHANGED content

\* load() up to the reading of the file: a missing one is written first.
Load ==
  /\ pc = "load"
  /\ IF content.kind = "absent"
     THEN content' = Truncated /\ pc' = "write_missing"
     ELSE UNCHANGED content /\ pc' = "parse"
  /\ UNCHANGED <<disk, g, depth, result>>

WriteMissing ==
  /\ pc = "write_missing"
  /\ content' = Written(Default)
  /\ pc' = "parse"
  /\ UNCHANGED <<disk, g, depth, result>>

\* file >> m_options throws: the defaults are written and load() starts over.
Corrupt ==
  /\ pc = "parse" /\ content.kind \in {"absent", "bad"}
  /\ content' = Truncated
  /\ pc' = "write_corrupt"
  /\ UNCHANGED <<disk, g, depth, result>>

WriteCorrupt ==
  /\ pc = "write_corrupt"
  /\ content' = Written(Default)
  /\ depth' = depth + 1
  /\ pc' = IF depth + 1 = StackLimit THEN "overflow" ELSE "load"
  /\ UNCHANGED <<disk, g, result>>

\* operator[] of deep_compare throws outside the try blocks of load().
Throw ==
  /\ pc = "parse" /\ content.kind = "other"
  /\ pc' = "threw"
  /\ UNCHANGED <<disk, content, g, depth, result>>

\* deep_compare, from_json, and save() if an option was missing.
Read ==
  /\ pc = "parse" /\ content.kind \in {"object", "null"}
  /\ LET v == deep_compare(content.value)
         should_save == v # content.value
     IN /\ g' = from_json(v)
        /\ result' = NoOdd(v)
        /\ IF NoOdd(v) /\ should_save
           THEN content' = Truncated /\ pc' = "save"
           ELSE UNCHANGED content /\ pc' = "returned"
  /\ UNCHANGED <<disk, depth>>

Save ==
  /\ pc = "save"
  /\ content' = Written(g)
  /\ pc' = "returned"
  /\ UNCHANGED <<disk, g, depth, result>>

\* The game ends, at any point.
Exit ==
  /\ pc # "off"
  /\ pc' = "off"
  /\ UNCHANGED <<disk, content, g, depth, result>>

Next ==
  \/ \E b \in {"missing", "file", "folder"}, c \in UserFiles : UserEdit(b, c)
  \/ \E w \in BOOLEAN : Launch(w)
  \/ Load \/ WriteMissing \/ Corrupt \/ WriteCorrupt \/ Throw \/ Read \/ Save
  \/ Exit

Spec == Init /\ [][Next]_vars

-----------------------------------------------------------------------------
(* Properties *)

TypeOK ==
  /\ base \in {"missing", "file", "folder"}
  /\ content \in Content /\ launched \in Content
  /\ writable \in BOOLEAN /\ result \in BOOLEAN
  /\ g \in [Option -> BOOLEAN]
  /\ pc \in {"off", "load", "write_missing", "parse", "write_corrupt", "save",
             "returned", "threw", "overflow"}
  /\ depth \in 0..StackLimit
  /\ content.kind # "absent" => base = "folder"

(* load() calls itself at most once, and so returns or throws, as long as   *)
(* the file can be written: what it writes over a corrupt file parses.      *)
(* (settings.cpp 46)                                                        *)
RecursesOnce == writable => depth <= 1

\* The options a launch finds in a file, a missing one being the default.
Found(c) == [o \in Option |-> IF c.value[o] = Missing THEN FALSE ELSE c.value[o]]

(* A boolean the user chose is what g has once load() succeeded, and is     *)
(* still in the file, whatever else was missing from it; when load() fails  *)
(* over an odd value the file is as the user left it (settings.cpp 49-66).  *)
(* Whatever was repaired, the next launch finds the same options.           *)
ChoiceKept ==
  /\ pc = "returned" /\ launched.kind = "object" =>
       /\ result => \A o \in Option :
            launched.value[o] \in BOOLEAN =>
              g[o] = launched.value[o] /\ content.value[o] = launched.value[o]
       /\ ~result => content = launched
  /\ pc = "returned" /\ result => Found(content) = g

(* Only a launch that finds something to repair ever opens the file for     *)
(* writing: a game that dies while it starts cannot cost the user a file    *)
(* that names every option (settings.cpp 111).                              *)
CompleteUntouched ==
  [][pc # "off" /\ launched.kind = "object"
       /\ (\A o \in Option : launched.value[o] # Missing)
       => content' = launched]_vars
=============================================================================
