--------------------------- MODULE LifecycleProofs ---------------------------
(***************************************************************************)
(* For any options and any file: load() calls itself at most once over a   *)
(* file it can write, keeps what the user chose, and leaves a file that    *)
(* names every option alone -- of Settings by itself, and of the start of  *)
(* CLS because that start implements it.  Then the two windows, and no     *)
(* more, in which a detour meets an instance that is not there.            *)
(***************************************************************************)
EXTENDS Lifecycle, SequenceTheorems, TLAPS

-----------------------------------------------------------------------------
(* load() *)

\* Until load() has written, the file is as the launch found it; what it
\* writes over a file that does not parse is the defaults, which do.
Unwritten ==
  pc # "off" =>
    /\ base = "folder"
    /\ ~writable => content = launched
    /\ launched.kind = "object" =>
         /\ pc \notin {"write_missing", "write_corrupt", "overflow"}
         /\ pc \in {"load", "parse"} => content = launched

Recursed ==
  /\ pc \in {"load", "write_missing", "parse", "write_corrupt"} =>
       depth < StackLimit
  /\ writable /\ depth >= 1 =>
       /\ depth = 1
       /\ pc \notin {"write_missing", "write_corrupt"}
       /\ pc \in {"load", "parse"} => content = Object(Default)

\* save() writes what from_json read from the file the user left.
Saving ==
  pc = "save" => /\ result
                 /\ launched.kind = "object" \/ ~writable => g = Found(launched)

Complete ==
  pc # "off" /\ launched.kind = "object"
    /\ (\A o \in Option : launched.value[o] # Missing)
  => content = launched /\ pc # "save"

SettingsInv == TypeOK /\ Unwritten /\ Recursed /\ Saving /\ Complete /\ ChoiceKept

\* A value of each option, absent or odd ones included.
Values == [Option -> BOOLEAN \cup {Odd, Missing}]

(* What load() and save() leave in a file is a content.                    *)
LEMMA Contents ==
  /\ Absent \in Content /\ Torn \in Content
  /\ Default \in Values /\ Default \in [Option -> BOOLEAN]
  /\ \A v \in Values : Object(v) \in Content
<1>1. None \in Values /\ Default \in Values /\ Default \in [Option -> BOOLEAN]
  BY DEF None, Default, Values
<1>2. \A k \in {"absent", "bad", "object"}, v \in Values :
        [kind |-> k, value |-> v] \in Content
  BY DEF Content, Values
<1> QED
  BY <1>1, <1>2 DEF Absent, Torn, Object

(* What deep_compare leaves is what a launch finds: every option, a        *)
(* missing one off.                                                        *)
LEMMA Compared ==
  ASSUME NEW c \in Content
  PROVE  /\ deep_compare(c.value) = Found(c)
         /\ Found(c) \in [Option -> BOOLEAN \cup {Odd}]
         /\ (\A o \in Option : c.value[o] # Missing) => Found(c) = c.value
<1>1. c.value \in Values
  BY DEF Content, Values
<1>2. \A o \in Option : c.value[o] \in BOOLEAN \cup {Odd, Missing}
  BY <1>1 DEF Values
<1>3. deep_compare(c.value) = Found(c)
  BY DEF deep_compare, Found, Default
<1>4. Found(c) \in [Option -> BOOLEAN \cup {Odd}]
  BY <1>2 DEF Found
<1>5. (\A o \in Option : c.value[o] # Missing) => Found(c) = c.value
  BY <1>1 DEF Found, Values
<1> QED
  BY <1>3, <1>4, <1>5

(* from_json reads every option, unless one is odd.                        *)
LEMMA FromJson ==
  ASSUME TypeOK, NEW v \in [Option -> BOOLEAN \cup {Odd}]
  PROVE  /\ from_json(v) \in [Option -> BOOLEAN]
         /\ NoOdd(v) => from_json(v) = v
<1>1. \A o \in Option : v[o] \in BOOLEAN \cup {Odd} /\ g[o] \in BOOLEAN
  BY DEF TypeOK
<1>2. DOMAIN Options \subseteq Nat \ {0}
  BY SettingsAssumption, LenProperties DEF Option
<1>3. \A o \in Option, i \in DOMAIN Options :
        (Options[i] = o /\ \A j \in 1..i : v[Options[j]] # Odd) => v[o] \in BOOLEAN
  BY <1>1, <1>2
<1>4. from_json(v) \in [Option -> BOOLEAN]
  BY <1>1, <1>3 DEF from_json
<1>5. ASSUME NoOdd(v), NEW o \in Option PROVE from_json(v)[o] = v[o]
  <2>1. PICK i \in DOMAIN Options : Options[i] = o
    BY DEF Option
  <2>2. \A j \in 1..i : j \in DOMAIN Options
    BY <1>2, <2>1, SettingsAssumption
  <2>3. \A j \in 1..i : v[Options[j]] # Odd
    BY <1>5, <2>2 DEF NoOdd, Option
  <2> QED
    BY <2>1, <2>3 DEF from_json
<1>6. NoOdd(v) => from_json(v) = v
  BY <1>4, <1>5
<1> QED
  BY <1>4, <1>6

LEMMA SettingsInit == Init => SettingsInv
<1> SUFFICES ASSUME Init PROVE SettingsInv
  OBVIOUS
<1>1. TypeOK
  <2>1. StackLimit \in Nat /\ Absent.kind = "absent"
    BY SettingsAssumption DEF Absent
  <2>2. content \in Content /\ launched \in Content
    BY Contents DEF Init
  <2>3. g \in [Option -> BOOLEAN]
    BY Contents DEF Init
  <2>4. writable \in BOOLEAN /\ result \in BOOLEAN
    BY DEF Init
  <2>5. depth \in 0..StackLimit
    BY <2>1 DEF Init
  <2>6. content.kind # "absent" => base = "folder"
    BY <2>1 DEF Init
  <2>7. /\ base \in {"missing", "file", "folder"}
        /\ pc \in {"off", "load", "write_missing", "parse", "write_corrupt",
                   "save", "returned", "threw", "overflow"}
    BY DEF Init
  <2> QED
    BY <2>2, <2>3, <2>4, <2>5, <2>6, <2>7 DEF TypeOK
<1>2. Unwritten /\ Recursed /\ Saving /\ Complete /\ ChoiceKept
  BY DEF Init, Unwritten, Recursed, Saving, Complete, ChoiceKept
<1> QED
  BY <1>1, <1>2 DEF SettingsInv

(* No step of load(), nor what the user does to the file between launches, *)
(* leaves the invariant.                                                   *)
LEMMA SettingsStep == SettingsInv /\ [Next]_vars => SettingsInv'
<1> SUFFICES ASSUME SettingsInv, [Next]_vars PROVE SettingsInv'
  OBVIOUS
<1> USE DEF SettingsInv
<1>0. /\ Object(Default).kind = "object" /\ Object(Default).value = Default
      /\ Torn.kind = "bad" /\ Absent.kind = "absent"
      /\ StackLimit \in Nat /\ StackLimit >= 2
  BY SettingsAssumption DEF Object, Torn, Absent
<1>a. \A o \in Option : Default[o] \notin {Odd, Missing}
  BY SettingsAssumption DEF Default
<1>1. ASSUME NEW b \in {"missing", "file", "folder"}, NEW c \in UserFiles,
             UserEdit(b, c)
      PROVE  SettingsInv'
  <2>1. c \in Content
    BY SettingsAssumption
  <2>2. TypeOK'
    BY <1>0, <1>1, <2>1 DEF UserEdit, TypeOK
  <2>3. (Unwritten /\ Recursed /\ Saving /\ Complete /\ ChoiceKept)'
    BY <1>1 DEF UserEdit, TypeOK, Unwritten, Recursed, Saving, Complete, ChoiceKept
  <2> QED BY <2>2, <2>3
<1>2. ASSUME NEW w \in BOOLEAN, Launch(w) PROVE SettingsInv'
  <2>1. g' \in [Option -> BOOLEAN]
    BY <1>2, Contents DEF Launch
  <2>2. writable' \in BOOLEAN /\ result' \in BOOLEAN
    BY <1>2 DEF Launch
  <2>3. /\ content' = content /\ launched' = content
        /\ base' = "folder" /\ pc' = "load" /\ depth' = 0
    BY <1>2 DEF Launch, ensure_folder_exists
  <2>4. TypeOK'
    BY <1>0, <2>1, <2>2, <2>3 DEF TypeOK
  <2>5. (Unwritten /\ Recursed /\ Saving /\ Complete /\ ChoiceKept)'
    BY <1>0, <1>2 DEF Launch, ensure_folder_exists,
       Unwritten, Recursed, Saving, Complete, ChoiceKept
  <2> QED BY <2>4, <2>5
<1>3. CASE Load
  <2>1. TypeOK'
    BY <1>0, <1>3, Contents DEF Load, TypeOK, Truncated, disk, Unwritten
  <2>2. (Unwritten /\ Recursed /\ Saving /\ Complete /\ ChoiceKept)'
    BY <1>0, <1>3 DEF Load, TypeOK, Truncated, disk,
       Unwritten, Recursed, Saving, Complete, ChoiceKept
  <2> QED BY <2>1, <2>2
<1>4. CASE WriteMissing
  <2>1. TypeOK'
    BY <1>0, <1>4, Contents DEF WriteMissing, TypeOK, Written, disk, Unwritten
  <2>2. (Unwritten /\ Recursed /\ Saving /\ Complete /\ ChoiceKept)'
    BY <1>0, <1>4 DEF WriteMissing, TypeOK, Written, disk,
       Unwritten, Recursed, Saving, Complete, ChoiceKept
  <2> QED BY <2>1, <2>2
<1>5. CASE Corrupt
  <2>1. TypeOK'
    BY <1>0, <1>5, Contents DEF Corrupt, TypeOK, Truncated, disk, Unwritten
  <2>2. (Unwritten /\ Recursed /\ Saving /\ Complete /\ ChoiceKept)'
    BY <1>0, <1>5 DEF Corrupt, TypeOK, Truncated, disk,
       Unwritten, Recursed, Saving, Complete, ChoiceKept
  <2> QED BY <2>1, <2>2
<1>6. CASE WriteCorrupt
  <2>1. TypeOK'
    BY <1>0, <1>6, Contents DEF WriteCorrupt, TypeOK, Written, disk, Unwritten, Recursed
  <2>2. (Unwritten /\ Recursed /\ Saving /\ Complete /\ ChoiceKept)'
    BY <1>0, <1>6 DEF WriteCorrupt, TypeOK, Written, disk,
       Unwritten, Recursed, Saving, Complete, ChoiceKept
  <2> QED BY <2>1, <2>2
<1>7. CASE Throw
  BY <1>7 DEF Throw, TypeOK, disk, Unwritten, Recursed, Saving, Complete, ChoiceKept
<1>8. CASE Read
  <2> DEFINE v == Found(content)
  <2> HIDE DEF v
  <2>1. /\ v \in [Option -> BOOLEAN \cup {Odd}]
        /\ deep_compare(content.value) = v
        /\ v = [o \in Option |-> IF content.value[o] = Missing THEN FALSE
                                 ELSE content.value[o]]
    BY Compared DEF TypeOK, v, Found
  <2>2. /\ g' = from_json(v) /\ result' = NoOdd(v)
        /\ IF NoOdd(v) /\ v # content.value
           THEN content' = Truncated /\ pc' = "save"
           ELSE content' = content /\ pc' = "returned"
        /\ UNCHANGED <<disk, depth>> /\ pc = "parse"
    BY <1>8, <2>1 DEF Read
  <2>3. g' \in [Option -> BOOLEAN] /\ (NoOdd(v) => g' = v)
    BY <2>1, <2>2, FromJson
  <2>4. TypeOK'
    BY <1>0, <2>2, <2>3, Contents DEF TypeOK, Truncated, disk, Unwritten, NoOdd
  <2>5. (Unwritten /\ Recursed)'
    BY <2>2 DEF TypeOK, Truncated, disk, Unwritten, Recursed
  <2>6. content = launched \/ launched.kind # "object"
    BY <2>2 DEF Unwritten
  <2>7. content.value = v => \A o \in Option : content.value[o] # Missing
    BY <1>a, <2>1, SettingsAssumption
  <2>8. Found(content) = v /\ (content = launched => Found(launched) = v)
    BY DEF v
  <2>9. Saving'
    <3>1. writable \/ content = launched
      BY <2>2 DEF Unwritten
    <3> QED
      BY <2>2, <2>3, <2>6, <2>8, <3>1 DEF disk, Saving
  <2>10. ASSUME pc' = "returned", launched.kind = "object"
         PROVE  /\ result' => \A o \in Option :
                     launched.value[o] \in BOOLEAN =>
                       /\ g'[o] = launched.value[o]
                       /\ content'.value[o] = launched.value[o]
                /\ ~result' => content' = launched
    <3>1. content' = launched /\ content = launched
      BY <2>2, <2>6, <2>10
    <3>2. result' => g' = v
      BY <2>2, <2>3
    <3>3. \A o \in Option : content.value[o] \in BOOLEAN => v[o] = content.value[o]
      BY <2>1, SettingsAssumption
    <3> QED
      BY <3>1, <3>2, <3>3
  <2>11. pc' = "returned" /\ result' => Found(content') = g'
    BY <2>2, <2>3, <2>8
  <2>12. launched' = launched
    BY <2>2 DEF disk
  <2>13. Complete'
    <3>1. (\A o \in Option : content.value[o] # Missing) => v = content.value
      BY Compared DEF TypeOK, v
    <3> QED
      BY <2>2, <2>6, <2>12, <3>1 DEF Complete
  <2>14. ChoiceKept'
    BY <2>10, <2>11, <2>12 DEF ChoiceKept
  <2> QED BY <2>4, <2>5, <2>9, <2>13, <2>14
<1>9. CASE Save
  <2>1. TypeOK'
    BY <1>0, <1>9, Contents DEF Save, TypeOK, Written, disk, Unwritten, Values
  <2>2. (Unwritten /\ Recursed /\ Saving /\ Complete)'
    BY <1>0, <1>9 DEF Save, TypeOK, Written, disk,
       Unwritten, Recursed, Saving, Complete
  <2>3. /\ pc = "save" /\ pc' = "returned" /\ result /\ result'
        /\ launched.kind = "object" \/ ~writable => g = Found(launched)
        /\ g' = g /\ launched' = launched
        /\ content' = IF writable THEN Object(g) ELSE launched
    BY <1>9 DEF Save, Written, disk, Saving, Unwritten
  <2>4. launched.kind = "object" =>
          \A o \in Option : launched.value[o] \in BOOLEAN => g[o] = launched.value[o]
    BY <2>3, SettingsAssumption DEF Found
  <2>5. Object(g).value = g
    BY DEF Object
  <2>6. Found(Object(g)) = g
    <3>1. \A o \in Option : g[o] # Missing
      BY SettingsAssumption DEF TypeOK
    <3> QED
      BY <2>5, <3>1 DEF Found, TypeOK
  <2>7. ChoiceKept'
    BY <2>3, <2>4, <2>5, <2>6 DEF ChoiceKept
  <2> QED BY <2>1, <2>2, <2>7
<1>10. CASE Exit
  BY <1>10 DEF Exit, TypeOK, disk, Unwritten, Recursed, Saving, Complete, ChoiceKept
<1>11. CASE UNCHANGED vars
  BY <1>11 DEF vars, TypeOK, disk, Unwritten, Recursed, Saving, Complete, ChoiceKept
<1> QED
  BY <1>1, <1>2, <1>3, <1>4, <1>5, <1>6, <1>7, <1>8, <1>9, <1>10, <1>11 DEF Next

(* Over a file it can write, load() calls itself at most once, whatever    *)
(* the file held.                                                          *)
THEOREM LoadRecursesOnce == Spec => []RecursesOnce
<1>1. SettingsInv => RecursesOnce
  BY DEF SettingsInv, Recursed, RecursesOnce, TypeOK
<1> QED
  BY <1>1, SettingsInit, SettingsStep, PTL DEF Spec

(* What the user chose is what CLS runs with and what stays in the file,   *)
(* and the next launch finds what this one settled on.                     *)
THEOREM ChoiceIsKept == Spec => []ChoiceKept
<1>1. SettingsInv => ChoiceKept
  BY DEF SettingsInv
<1> QED
  BY <1>1, SettingsInit, SettingsStep, PTL DEF Spec

(* A launch never writes a file that names every option.                   *)
THEOREM CompleteIsUntouched == Spec => CompleteUntouched
<1>1. SettingsInv /\ SettingsInv' /\ [Next]_vars =>
        [pc # "off" /\ launched.kind = "object"
           /\ (\A o \in Option : launched.value[o] # Missing)
           => content' = launched]_vars
  <2> SUFFICES ASSUME SettingsInv, SettingsInv', [Next]_vars, pc # "off",
                      launched.kind = "object",
                      \A o \in Option : launched.value[o] # Missing
               PROVE  content' = launched
    OBVIOUS
  <2>1. launched' = launched /\ (pc' = "off" => content' = content)
    BY DEF Next, UserEdit, Launch, Load, WriteMissing, Corrupt, WriteCorrupt,
       Throw, Read, Save, Exit, disk, vars
  <2> QED
    BY <2>1 DEF SettingsInv, Complete
<1> QED
  BY <1>1, SettingsInit, SettingsStep, PTL DEF Spec, CompleteUntouched

-----------------------------------------------------------------------------
(* The start of CLS *)

(* Each step of the two threads is a step of load() or leaves it alone, so *)
(* that the start of CLS reads its settings as Settings says.              *)
THEOREM LifecycleReadsSettings == LifeSpec => Spec
<1>1. LifeInit => Init
  BY DEF LifeInit
<1>2. [LifeNext]_all => [Next]_vars
  <2> SUFFICES ASSUME [LifeNext]_all PROVE [Next]_vars
    OBVIOUS
  <2>1. ASSUME NEW c \in UserFiles, UserEdit("folder", c) PROVE Next
    BY <2>1 DEF Next
  <2>2. ASSUME NEW b \in {"missing", "file"}, UserEdit(b, Absent) PROVE Next
    BY <2>2, SettingsAssumption DEF Next
  <2>3. ASSUME NEW w \in BOOLEAN, Boot(w) PROVE Next
    BY <2>3 DEF Boot, Next
  <2>4. CASE LoadSettings
    BY <2>4 DEF LoadSettings, Next
  <2>5. CASE End
    BY <2>5 DEF End, Next
  <2>6. CASE GameStep
    BY <2>6 DEF GameStep, Use, ReadRunning, NoMainPersistent, Tick, RunScripts,
       Return
  <2>7. CASE \E i \in DOMAIN Start : Construct(Start[i]) \/ ConstructThrows(Start[i])
    BY <2>7 DEF Construct, ConstructThrows
  <2>8. CASE Unwind \/ Destruct \/ Stop \/ \E d \in Detour : Enter(d)
    BY <2>8 DEF Unwind, Destruct, Stop, Enter
  <2>9. CASE UNCHANGED all
    BY <2>9 DEF all
  <2> QED
    BY <2>1, <2>2, <2>3, <2>4, <2>5, <2>6, <2>7, <2>8, <2>9 DEF LifeNext, MainStep
<1> QED
  BY <1>1, <1>2, PTL DEF LifeSpec, Spec

(* Whatever the two threads do, the user's choice is kept.                 *)
THEOREM StartKeepsChoices ==
  LifeSpec => [](RecursesOnce /\ ChoiceKept) /\ CompleteUntouched
<1> QED
  BY LifecycleReadsSettings, LoadRecursesOnce, ChoiceIsKept,
     CompleteIsUntouched, PTL

-----------------------------------------------------------------------------
(* The two threads *)

\* Where the game's thread is in its detour, and that it holds the mutex of
\* the scripts only within a tick.
CallOK ==
  /\ call \in Detour \cup {NoCall} /\ at \in Nat /\ locked \in BOOLEAN
  /\ IF call = NoCall THEN at = 0 ELSE at \in 1..(Len(Uses[call]) + 1)
  /\ locked => call = "run_script_threads" /\ at = 4

\* What exists, by where the main thread is.
UpOK ==
  /\ phase \in {"off", "start", "run", "stop", "unwind", "gone", "terminated"}
  /\ step \in 1..Len(Start) /\ up \subseteq Things /\ running \in BOOLEAN
  /\ phase = "off" => up = {} /\ fault = << >>
  /\ phase = "start" =>
       /\ \A i \in 1..Len(Start) : i < step => Start[i] \in up
       /\ "detours" \in up => step = Len(Start)
  /\ phase = "run" => up = Things /\ step = 1
  /\ phase = "stop" => /\ step \in 2..9
                       /\ "detours" \notin up
                       /\ "fiber_pool" \in up \/ step > 7
                       /\ "scripts" \in up => step = 2
  /\ phase = "gone" => "detours" \notin up /\ "scripts" \notin up
  /\ "scripts" \in up => "fiber_pool" \in up \/ phase \in {"unwind", "terminated"}

\* The game is in no detour that was never enabled.
InDetours ==
  /\ call # NoCall => "detours" \in up \/ phase \in {"stop", "gone"}
  /\ phase = "unwind" \/ phase = "terminated" => "detours" \notin up

LifeInv == CallOK /\ UpOK /\ InDetours /\ FaultsOnlyInWindows

(* The two sequences of main.cpp, and no detour uses the fiber pool.       *)
LEMMA Orders ==
  /\ Len(Start) = 10 /\ Len(Shutdown) = 9
  /\ Start[1] = "thread_pool" /\ Start[2] = "settings" /\ Start[3] = "pointers"
  /\ Start[4] = "byte_patch_manager" /\ Start[5] = "fiber_pool"
  /\ Start[6] = "hooking" /\ Start[7] = "stats_service" /\ Start[8] = "scripts"
  /\ Start[9] = "detours" /\ Start[10] = "native_hooks"
  /\ Shutdown[1] = "detours" /\ Shutdown[2] = "scripts" /\ Shutdown[7] = "fiber_pool"
  /\ \A i \in 3..9 : Shutdown[i] \notin {"detours", "scripts"}
  /\ \A i \in 1..6 : Shutdown[i] # "fiber_pool"
BY DEF Start, Shutdown

LEMMA ThingsMade ==
  /\ DOMAIN Start = 1..10
  /\ Things = {"thread_pool", "settings", "pointers", "byte_patch_manager",
               "fiber_pool", "hooking", "stats_service", "scripts", "detours",
               "native_hooks"}
  /\ \A x \in Things : \E i \in 1..10 : Start[i] = x
  /\ \A i \in 1..10 : Start[i] \in Things
<1>1. DOMAIN Start = 1..10
  BY DEF Start
<1> QED
  BY <1>1 DEF Things, Start

LEMMA DetourNames ==
  /\ Detour = {"run_script_threads", "init_native_tables", "stat_ctor",
               "stat_dtor", "mp_stats_save", "mp_save_download_load",
               "mp_save_download_finish", "profile_stats_download"}
  /\ NoCall \notin Detour
BY DEF Detour, Uses, NoCall

LEMMA DetourUses ==
  ASSUME NEW d \in Detour
  PROVE  /\ Len(Uses[d]) \in 1..5
         /\ d = "run_script_threads" => Len(Uses[d]) = 5 /\ Uses[d][4] = "tick"
         /\ \A i \in 1..Len(Uses[d]) :
              /\ Uses[d][i] # "fiber_pool"
              /\ Uses[d][i] = "native_hooks" => d = "init_native_tables"
              /\ Uses[d][i] = "tick" => d = "run_script_threads" /\ i = 4
<1>1. CASE d = "run_script_threads"
  <2>1. Uses[d] = <<"pointers", "g_running", "pointers", "tick", "detours">>
    BY <1>1 DEF Uses
  <2> QED
    BY <1>1, <2>1
<1>2. CASE d = "init_native_tables"
  <2>1. Uses[d] = <<"detours", "native_hooks">>
    BY <1>2 DEF Uses
  <2> QED
    BY <1>2, <2>1
<1>3. CASE d = "stat_ctor"
  <2>1. Uses[d] = <<"detours", "stats_service">>
    BY <1>3 DEF Uses
  <2> QED
    BY <1>3, <2>1
<1>4. CASE d = "mp_stats_save"
  <2>1. Uses[d] = <<"stats_service">>
    BY <1>4 DEF Uses
  <2> QED
    BY <1>4, <2>1
<1>5. CASE d = "mp_save_download_load"
  <2>1. Uses[d] = <<"stats_service", "byte_patch_manager", "detours">>
    BY <1>5 DEF Uses
  <2> QED
    BY <1>5, <2>1
<1>6. CASE d = "mp_save_download_finish"
  <2>1. Uses[d] = <<"byte_patch_manager", "pointers", "detours">>
    BY <1>6 DEF Uses
  <2> QED
    BY <1>6, <2>1
<1>7. CASE d = "profile_stats_download"
  <2>1. Uses[d] = <<"byte_patch_manager", "detours">>
    BY <1>7 DEF Uses
  <2> QED
    BY <1>7, <2>1
<1>8. CASE d = "stat_dtor"
  <2>1. Uses[d] = <<"detours">>
    BY <1>8 DEF Uses
  <2> QED
    BY <1>8, <2>1
<1> QED
  BY <1>1, <1>2, <1>3, <1>4, <1>5, <1>6, <1>7, <1>8, DetourNames

LEMMA LifeInitInv == LifeInit => LifeInv
<1> SUFFICES ASSUME LifeInit PROVE LifeInv
  OBVIOUS
<1>1. locked \in BOOLEAN /\ running \in BOOLEAN
  BY DEF LifeInit
<1>2. CallOK /\ UpOK
  BY <1>1, Orders DEF LifeInit, CallOK, UpOK
<1>3. InDetours /\ FaultsOnlyInWindows
  BY DEF LifeInit, InDetours, FaultsOnlyInWindows
<1> QED
  BY <1>2, <1>3 DEF LifeInv

(* The main thread makes and drops instances in the order of main.cpp; a   *)
(* fault of the other thread ends it.                                      *)
LEMMA MainInv ==
  ASSUME LifeInv,
         \/ \E i \in DOMAIN Start : Construct(Start[i]) \/ ConstructThrows(Start[i])
         \/ Unwind \/ Destruct
  PROVE  LifeInv'
<1> USE DEF LifeInv
<1>1. CASE \E i \in DOMAIN Start : Construct(Start[i])
  <2>1. PICK i \in 1..10 : Construct(Start[i])
    BY <1>1, ThingsMade
  <2>2. /\ phase = "start" /\ Start[step] = Start[i] /\ fault = << >>
        /\ up' = up \cup Makes(Start[i])
        /\ IF step = 10 THEN phase' = "run" /\ step' = 1
                        ELSE phase' = phase /\ step' = step + 1
        /\ UNCHANGED <<running, call, at, locked, fault>>
    BY <2>1, Orders DEF Construct, Starting, game
  <2>3. step \in 1..10 /\ step' \in 1..10
    BY <2>2, Orders DEF UpOK
  <2>4. /\ Start[i] \in up' /\ up \subseteq up' /\ up' \subseteq Things
        /\ "detours" \in up' \ up => Start[i] = "detours"
        /\ "scripts" \in up' \ up => Start[i] = "scripts" \/ "fiber_pool" \in up'
    <3>1. Start[i] \in Things /\ up \subseteq Things /\ "scripts" \in Things
      BY <2>1, ThingsMade DEF UpOK
    <3>2. \/ Makes(Start[i]) = {Start[i]}
          \/ Start[i] = "fiber_pool" /\ Makes(Start[i]) = {"fiber_pool", "scripts"}
      <4>1. \A s : IF s = "fiber_pool" THEN Makes(s) = {"fiber_pool", "scripts"}
                                      ELSE Makes(s) = {s}
        BY DEF Makes
      <4> QED
        BY <4>1
    <3>3. Makes(Start[i]) \subseteq Things /\ Start[i] \in Makes(Start[i])
      BY <3>1, <3>2
    <3> QED
      BY <2>2, <3>1, <3>2, <3>3
  <2>5. Start[i] = "detours" => step = 9
    BY <2>2, <2>3, Orders
  <2>6. Start[i] = "scripts" => step = 8
    BY <2>2, <2>3, Orders
  <2>7. \A j \in 1..10 : j <= step => Start[j] \in up'
    BY <2>2, <2>3, <2>4, Orders DEF UpOK
  <2>8. step = 10 => up' = Things
    <3> SUFFICES ASSUME step = 10, NEW x \in Things PROVE x \in up'
      BY <2>4
    <3>1. PICK j \in 1..10 : Start[j] = x
      BY ThingsMade
    <3> QED
      BY <2>7, <3>1
  <2>9. "scripts" \in up' => "fiber_pool" \in up'
    BY <2>2, <2>4, <2>6, <2>7, Orders DEF UpOK
  <2>10. "detours" \in up' => step \in {9, 10}
    BY <2>2, <2>4, <2>5, Orders DEF UpOK
  <2>11. UpOK'
    BY <2>2, <2>3, <2>4, <2>7, <2>8, <2>9, <2>10, Orders DEF UpOK
  <2>12. (CallOK /\ InDetours /\ FaultsOnlyInWindows)'
    BY <2>2, <2>4 DEF CallOK, InDetours, FaultsOnlyInWindows
  <2> QED BY <2>11, <2>12
<1>2. CASE \E i \in DOMAIN Start : ConstructThrows(Start[i])
  <2>1. PICK i \in 1..10 : ConstructThrows(Start[i])
    BY <1>2, ThingsMade
  <2>2. /\ phase = "start" /\ Start[step] = Start[i] /\ fault = << >>
        /\ Start[i] \in Throws /\ phase' = "unwind"
        /\ UNCHANGED <<step, up, running, call, at, locked, fault>>
    BY <2>1 DEF ConstructThrows, Starting, game
  <2>3. step # 10 /\ "detours" \notin up
    BY <2>2, Orders DEF Throws, UpOK
  <2> QED
    BY <2>2, <2>3 DEF CallOK, UpOK, InDetours, FaultsOnlyInWindows
<1>3. CASE Unwind
  <2>1. /\ phase = "unwind" /\ phase' \in {"unwind", "terminated"}
        /\ up' \subseteq up /\ fault = << >>
        /\ UNCHANGED <<step, running, call, at, locked, fault>>
    BY <1>3 DEF Unwind, game
  <2> QED
    BY <2>1 DEF CallOK, UpOK, InDetours, FaultsOnlyInWindows
<1>4. CASE Destruct
  <2>1. /\ phase \in {"run", "stop"} /\ fault = << >>
        /\ up' = up \ {Shutdown[step]}
        /\ IF step = 9 THEN phase' = "gone" /\ step' = step
                       ELSE phase' = "stop" /\ step' = step + 1
        /\ UNCHANGED <<running, call, at, locked, fault>>
    BY <1>4, Orders DEF Destruct, game
  <2>2. step \in 1..10 /\ (phase = "run" => step = 1)
    BY Orders DEF UpOK
  <2>3. step' \in 1..10 /\ (phase' = "stop" => step' \in 2..9)
    BY <2>1, <2>2 DEF UpOK
  <2>4. UpOK'
    <3>1. phase = "run" => /\ Shutdown[step] = "detours"
                           /\ "scripts" \in up /\ "fiber_pool" \in up
      BY <2>2, Orders, ThingsMade DEF UpOK
    <3>2. phase' = "stop" \/ phase' = "gone" => "detours" \notin up'
      BY <2>1, <2>2, <3>1 DEF UpOK
    <3>3. phase' = "stop" => "fiber_pool" \in up' \/ step' > 7
      BY <2>1, <2>2, <3>1, Orders DEF UpOK
    <3>4. "scripts" \in up' => phase' = "stop" /\ step' = 2 /\ phase = "run"
      BY <2>1, <2>2, <3>1, Orders DEF UpOK
    <3>5. "scripts" \in up' => "fiber_pool" \in up'
      BY <2>1, <3>1, <3>4
    <3> QED
      BY <2>1, <2>3, <3>2, <3>3, <3>4, <3>5, Orders DEF UpOK
  <2>5. CallOK' /\ FaultsOnlyInWindows'
    BY <2>1 DEF CallOK, FaultsOnlyInWindows
  <2>6. "detours" \notin up'
    BY <2>1, <2>2, Orders DEF UpOK
  <2>7. InDetours'
    BY <2>1, <2>6 DEF InDetours
  <2> QED
    BY <2>4, <2>5, <2>7
<1> QED
  BY <1>1, <1>2, <1>3, <1>4

(* A detour that runs uses what is there, or finds what is missing in one  *)
(* of the two windows.                                                     *)
LEMMA GameInv ==
  ASSUME LifeInv, GameStep
  PROVE  LifeInv'
<1> USE DEF LifeInv
<1>1. /\ UNCHANGED <<phase, step, up, running>>
      /\ call # NoCall /\ phase # "terminated"
  BY DEF GameStep, Use, ReadRunning, NoMainPersistent, Tick, RunScripts, Return,
     NextUse, Things, Start, main, CallOK
<1>2. /\ call \in Detour /\ at \in 1..(Len(Uses[call]) + 1)
      /\ Len(Uses[call]) \in 1..5
      /\ NextUse # "none" => at \in 1..Len(Uses[call]) /\ NextUse = Uses[call][at]
  BY <1>1, DetourUses DEF CallOK, NextUse
<1>3. /\ NextUse # "fiber_pool"
      /\ NextUse = "native_hooks" => call = "init_native_tables"
      /\ NextUse = "tick" => call = "run_script_threads" /\ at = 4
      /\ locked => NextUse \in {"tick", "none"}
  BY <1>2, DetourUses DEF CallOK, NextUse
<1>4. /\ phase = "start" => "detours" \in up /\ step = 10
      /\ phase # "unwind" /\ phase # "off"
  BY <1>1, Orders DEF InDetours, UpOK
<1>5. ASSUME NEW x \in Things, x \notin up
      PROVE  \/ phase = "start" /\ x = "native_hooks"
             \/ phase \in {"stop", "gone"} /\ "detours" \notin up
  <2>1. PICK i \in 1..10 : Start[i] = x
    BY ThingsMade
  <2> QED
    BY <1>1, <1>4, <1>5, <2>1, Orders DEF UpOK
<1>6. ASSUME NEW x \in Things, x \notin up, x # "fiber_pool",
             x = "native_hooks" => call = "init_native_tables",
             fault' = <<call, x>>
      PROVE  FaultsOnlyInWindows'
  BY <1>1, <1>5, <1>6 DEF FaultsOnlyInWindows
<1>7. UpOK'
  BY <1>1, <1>4 DEF UpOK
<1>8. InDetours' \/ call' \notin {call, NoCall}
  BY <1>1 DEF InDetours
<1>9. ASSUME UNCHANGED fault PROVE FaultsOnlyInWindows'
  BY <1>1, <1>9 DEF FaultsOnlyInWindows
<1>10. "tick" \notin Things /\ "none" \notin Things
  BY ThingsMade
<1>11. CASE Use
  <2>1. NextUse \in Things /\ ~locked /\ NextUse # "none"
    BY <1>3, <1>10, <1>11 DEF Use
  <2>2. CallOK'
    BY <1>2, <1>11, <2>1 DEF Use, CallOK
  <2>3. FaultsOnlyInWindows'
    BY <1>3, <1>6, <1>9, <1>11, <2>1 DEF Use
  <2> QED
    BY <1>7, <1>8, <1>11, <2>2, <2>3 DEF Use
<1>12. CASE ReadRunning
  <2>1. NextUse = "g_running" /\ ~locked
    BY <1>3, <1>12 DEF ReadRunning
  <2>2. CallOK'
    BY <1>2, <1>12, <2>1 DEF ReadRunning, CallOK
  <2> QED
    BY <1>7, <1>8, <1>9, <1>12, <2>2 DEF ReadRunning
<1>13. CASE NoMainPersistent
  <2>1. CallOK'
    BY <1>2, <1>13 DEF NoMainPersistent, CallOK
  <2> QED
    BY <1>7, <1>8, <1>9, <1>13, <2>1 DEF NoMainPersistent
<1>14. CASE Tick
  <2>1. call = "run_script_threads" /\ at = 4
    BY <1>3, <1>14 DEF Tick
  <2>2. CallOK'
    BY <1>14, <2>1 DEF Tick, CallOK
  <2> QED
    BY <1>7, <1>8, <1>9, <1>14, <2>2 DEF Tick
<1>15. CASE RunScripts
  <2>1. NextUse = "tick"
    BY <1>15 DEF RunScripts
  <2>2. call = "run_script_threads" /\ at = 4 /\ call' = call
    BY <1>3, <1>15, <2>1 DEF RunScripts
  <2>3. CallOK'
    <3>1. locked' \in BOOLEAN /\ at' \in {at, at + 1} /\ (locked' => at' = at)
      BY <1>15 DEF RunScripts, CallOK, Released
    <3>2. at \in 1..Len(Uses[call]) /\ Len(Uses[call]) \in 1..5
      BY <1>2, <2>1
    <3> QED
      BY <1>2, <2>2, <3>1, <3>2 DEF CallOK
  <2>4. FaultsOnlyInWindows'
    <3>1. CASE UNCHANGED fault
      BY <1>9, <3>1
    <3>2. CASE ~UNCHANGED fault
      <4>1. /\ "scripts" \in up
            /\ \E need \in {"fiber_pool", "pointers"} \ up : fault' = <<call, need>>
        BY <1>15, <3>2 DEF RunScripts
      <4>2. "fiber_pool" \in up /\ "pointers" \in Things
        BY <1>1, <1>4, <4>1, ThingsMade DEF UpOK
      <4>3. "pointers" \notin up /\ fault' = <<call, "pointers">>
        BY <4>1, <4>2
      <4> QED
        BY <1>6, <4>2, <4>3
    <3> QED BY <3>1, <3>2
  <2> QED
    BY <1>7, <1>8, <2>2, <2>3, <2>4
<1>16. CASE Return
  <2>1. ~locked
    BY <1>2, <1>16, DetourUses DEF Return, CallOK
  <2>2. CallOK'
    BY <1>16, <2>1 DEF Return, CallOK
  <2> QED
    BY <1>7, <1>8, <1>9, <1>16, <2>2 DEF Return
<1> QED
  BY <1>11, <1>12, <1>13, <1>14, <1>15, <1>16 DEF GameStep

LEMMA LifeStep == LifeInv /\ [LifeNext]_all => LifeInv'
<1> SUFFICES ASSUME LifeInv, [LifeNext]_all PROVE LifeInv'
  OBVIOUS
<1> USE DEF LifeInv
<1>1. ASSUME UNCHANGED <<main, game>> PROVE LifeInv'
  BY <1>1 DEF main, game, CallOK, UpOK, InDetours, FaultsOnlyInWindows
<1>2. ASSUME NEW w \in BOOLEAN, Boot(w) PROVE LifeInv'
  <2>1. /\ phase = "off" /\ phase' = "start" /\ step' = 1 /\ up' = {}
        /\ running' = TRUE /\ UNCHANGED game
    BY <1>2 DEF Boot
  <2>2. call = NoCall /\ fault = << >>
    BY <2>1 DEF InDetours, UpOK
  <2>3. running' \in BOOLEAN
    BY <2>1
  <2> QED
    BY <2>1, <2>2, <2>3, Orders DEF game, CallOK, UpOK, InDetours, FaultsOnlyInWindows
<1>3. CASE LoadSettings
  BY <1>1, <1>3 DEF LoadSettings
<1>4. CASE \/ \E i \in DOMAIN Start : Construct(Start[i]) \/ ConstructThrows(Start[i])
           \/ Unwind \/ Destruct
  BY <1>4, MainInv
<1>5. CASE Stop
  <2>1. running' \in BOOLEAN
    BY <1>5 DEF Stop
  <2> QED
    BY <1>5, <2>1 DEF Stop, game, CallOK, UpOK, InDetours, FaultsOnlyInWindows
<1>6. ASSUME NEW d \in Detour, Enter(d) PROVE LifeInv'
  <2>1. CallOK'
    BY <1>6, DetourUses, DetourNames DEF Enter, CallOK
  <2> QED
    BY <1>6, <2>1 DEF Enter, main, UpOK, InDetours, FaultsOnlyInWindows
<1>7. CASE GameStep
  BY <1>7, GameInv
<1>8. CASE End
  <2>1. running' \in BOOLEAN /\ locked' \in BOOLEAN
    BY <1>8 DEF End
  <2> QED
    BY <1>8, <2>1, Orders DEF End, CallOK, UpOK, InDetours, FaultsOnlyInWindows
<1>9. CASE UNCHANGED all
  BY <1>1, <1>9 DEF all
<1> QED
  BY <1>1, <1>2, <1>3, <1>4, <1>5, <1>6, <1>7, <1>8, <1>9 DEF LifeNext, MainStep

(* The order of main.cpp leaves two windows in which a detour meets an     *)
(* instance that is not there, and in none of them a fiber runs without    *)
(* its pool.                                                               *)
THEOREM FaultsAreInWindows == LifeSpec => []FaultsOnlyInWindows
<1>1. LifeInv => FaultsOnlyInWindows
  BY DEF LifeInv
<1> QED
  BY <1>1, LifeInitInv, LifeStep, PTL DEF LifeSpec

(* What a start-up that fails drops is in use by no detour.                *)
THEOREM UnwindingIsUnused == LifeSpec => []UnwindsUnused
<1>1. LifeInv => UnwindsUnused
  BY DEF LifeInv, InDetours, UnwindsUnused
<1> QED
  BY <1>1, LifeInitInv, LifeStep, PTL DEF LifeSpec

(* The type invariant of both threads and of the settings, the mutex of    *)
(* the scripts being held only within a tick.                              *)
THEOREM LifeTypeCorrect == LifeSpec => []LifeTypeOK
<1>1. SettingsInv /\ LifeInv => LifeTypeOK
  <2> SUFFICES ASSUME SettingsInv, LifeInv PROVE LifeTypeOK
    OBVIOUS
  <2>1. call # NoCall => Len(Uses[call]) \in 1..5
    BY DetourUses DEF LifeInv, CallOK
  <2>2. at \in 0..6 /\ (at = 0 <=> call = NoCall)
    <3>1. CASE call = NoCall
      BY <3>1 DEF LifeInv, CallOK
    <3>2. CASE call # NoCall
      <4>1. at \in 1..(Len(Uses[call]) + 1)
        BY <3>2 DEF LifeInv, CallOK
      <4>2. PICK n \in 1..5 : Len(Uses[call]) = n
        BY <2>1, <3>2
      <4>3. at \in 1..(n + 1)
        BY <4>1, <4>2
      <4> QED
        BY <3>2, <4>3
    <3> QED BY <3>1, <3>2
  <2>3. Uses["run_script_threads"][4] = "tick"
    BY DetourUses, DetourNames
  <2>4. locked => call = "run_script_threads" /\ Uses[call][at] = "tick"
    BY <2>3 DEF LifeInv, CallOK
  <2> QED
    BY <2>2, <2>4 DEF SettingsInv, LifeInv, CallOK, UpOK, LifeTypeOK
<1>2. LifeSpec => []SettingsInv
  BY LifecycleReadsSettings, SettingsInit, SettingsStep, PTL DEF Spec
<1> QED
  BY <1>1, <1>2, LifeInitInv, LifeStep, PTL DEF LifeSpec
=============================================================================
