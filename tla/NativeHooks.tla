----------------------------- MODULE NativeHooks -----------------------------
(***************************************************************************)
(* native_hooks of native_hooks.cpp: the game's script programs, each with *)
(* the table its scripts call natives through, and the tables CLS puts in  *)
(* their place.                                                            *)
(*                                                                         *)
(* Two threads: the main thread of main.cpp, which enables the detours and *)
(* then constructs native_hooks, and drops it in a shutdown, and the       *)
(* game's, which loads programs and destroys them.  No lock is taken, so   *)
(* the main thread's work on one program is cut wherever the game may      *)
(* destroy it.  A detour of the game thread is one step.  A program is put *)
(* in the game's program table after its natives are resolved: the         *)
(* constructor takes them from there.                                      *)
(***************************************************************************)
EXTENDS FiniteSets

CONSTANTS
  Program,      \* addresses of scrProgram objects; the game uses them again
  NoProgram,
  Script,       \* m_name_hash of a program
  AllScripts,   \* RAGE_JOAAT("ALL_SCRIPTS")
  Native,       \* the natives programs call, by hash
  Resolved,     \* natives get_native_handler returns a handler for
  Detour, NoDetour,
  Registered    \* m_native_registrations

ASSUME HooksAssumption ==
  /\ NoProgram \notin Program
  /\ AllScripts \notin Script
  /\ NoDetour \notin Detour
  /\ Resolved \subseteq Native
  /\ Registered \in [Script \cup {AllScripts} ->
                       [Native -> Detour \cup {NoDetour}]]
  /\ \E n \in Native : Registered[AllScripts][n] # NoDetour

VARIABLES
  main,             \* where the main thread is
  current,          \* the program it is hooking or unhooking
  unvisited,        \* entries of the program table still to look at
  enabled,          \* the detours are in place
  g_native_hooks,   \* whether the pointer is set
  m_native_hooks,   \* programs with a native_hook
  life,             \* per program, how far the game has taken it
  script,           \* per program, its name
  vtable,           \* per program, whose virtual table it has
  entrypoints,      \* per program, whose native table it has
  new_table,        \* per program, what its hook's native table overrides
  fault             \* why the process went down

constructor == <<main, current, unvisited, enabled, g_native_hooks>>
game        == <<life, script>>
tables      == <<m_native_hooks, vtable, entrypoints, new_table>>
vars        == <<constructor, game, tables, fault>>

\* "plain" and "detoured": inside the game's function that resolves the
\* natives, entered before or after the detours were enabled.
Life == {"none", "plain", "detoured", "resolved", "listed"}
Owner == {"game", "hook"}
\* Only a native the game has a handler for is ever overridden.
Table == {t \in [Native -> Detour \cup {NoDetour}] :
            \A n \in Native \ Resolved : t[n] = NoDetour}
Copied == [n \in Native |-> NoDetour]

Up == fault = "none"

-----------------------------------------------------------------------------
\* native_replacements.insert does not replace: ALL_SCRIPTS, inserted first,
\* wins over what is registered for the script alone.
native_replacements_LastWins(s) ==
  [n \in Native |-> IF Registered[s][n] # NoDetour
                    THEN Registered[s][n] ELSE Registered[AllScripts][n]]
native_replacements(s) ==
  [n \in Native |-> IF Registered[AllScripts][n] # NoDetour
                    THEN Registered[AllScripts][n] ELSE Registered[s][n]]

\* The hook's table: a native without a handler keeps what was copied.
Replaced(s) ==
  [n \in Native |-> IF n \in Resolved THEN native_replacements(s)[n]
                    ELSE NoDetour]

\* What a script of program p runs when it calls native n.
Called(p, n) == IF entrypoints[p] = "hook" THEN new_table[p][n] ELSE NoDetour

Init ==
  /\ main = "before"
  /\ current = NoProgram
  /\ unvisited = {}
  /\ enabled = FALSE
  /\ g_native_hooks = FALSE
  /\ m_native_hooks = {}
  /\ life = [p \in Program |-> "none"]
  /\ script \in [Program -> Script]
  /\ vtable = [p \in Program |-> "game"]
  /\ entrypoints = [p \in Program |-> "game"]
  /\ new_table = [p \in Program |-> Copied]
  /\ fault = "none"

Fail(why) ==
  /\ fault' = why
  /\ UNCHANGED <<constructor, tables, game>>

(* The main thread: hooking::enable, then the constructor of native_hooks *)

Enable ==
  /\ Up /\ main = "before"
  /\ enabled' = TRUE
  /\ main' = "visiting"
  /\ unvisited' = Program
  /\ UNCHANGED <<current, g_native_hooks, tables, game, fault>>

Visit(p) ==
  /\ Up /\ main = "visiting"
  /\ p \in unvisited
  /\ unvisited' = unvisited \ {p}
  /\ IF life[p] = "listed"
     THEN current' = p /\ main' = "vtable"
     ELSE UNCHANGED <<current, main>>
  /\ UNCHANGED <<enabled, g_native_hooks, tables, game, fault>>

\* The program the main thread is hooking was destroyed under its hands.
UseFreed ==
  /\ Up /\ main \in {"vtable", "entrypoints", "replace"}
  /\ life[current] \notin {"resolved", "listed"}
  /\ Fail("freed_program")

\* The hook of the virtual table, the destructor among it, comes first.
VtableHooked_Last == vtable
VtableHooked == [vtable EXCEPT ![current] = "hook"]
HookVtable ==
  /\ Up /\ main = "vtable"
  /\ life[current] \in {"resolved", "listed"}
  /\ vtable' = VtableHooked
  /\ main' = "entrypoints"
  /\ UNCHANGED <<current, unvisited, enabled, g_native_hooks, m_native_hooks,
                 game, entrypoints, new_table, fault>>

HookEntrypoints ==
  /\ Up /\ main = "entrypoints"
  /\ life[current] \in {"resolved", "listed"}
  /\ entrypoints' = [entrypoints EXCEPT ![current] = "hook"]
  /\ new_table' = [new_table EXCEPT ![current] = Copied]
  /\ main' = "replace"
  /\ UNCHANGED <<current, unvisited, enabled, g_native_hooks, m_native_hooks,
                 game, vtable, fault>>

Replace ==
  /\ Up /\ main = "replace"
  /\ life[current] \in {"resolved", "listed"}
  /\ new_table' = [new_table EXCEPT ![current] = Replaced(script[current])]
  /\ main' = "insert"
  /\ UNCHANGED <<current, unvisited, enabled, g_native_hooks, m_native_hooks,
                 game, vtable, entrypoints, fault>>

Insert ==
  /\ Up /\ main = "insert"
  /\ m_native_hooks' = m_native_hooks \cup {current}
  /\ current' = NoProgram
  /\ main' = "visiting"
  /\ UNCHANGED <<unvisited, enabled, g_native_hooks, game, vtable,
                 entrypoints, new_table, fault>>

Publish ==
  /\ Up /\ main = "visiting"
  /\ unvisited = {}
  /\ g_native_hooks' = TRUE
  /\ main' = "done"
  /\ UNCHANGED <<current, unvisited, enabled, tables, game, fault>>

(* The shutdown: hooking::disable, then the destructor of native_hooks,    *)
(* whose body clears the map and forgets itself, and whose members go last *)

Disable ==
  /\ Up /\ main = "done"
  /\ enabled' = FALSE
  /\ main' = "clearing"
  /\ UNCHANGED <<current, unvisited, g_native_hooks, tables, game, fault>>

\* ~native_hook gives the native table back first, the virtual one second.
RestoreEntrypoints(p) ==
  /\ Up /\ main = "clearing" /\ p \in m_native_hooks
  /\ entrypoints' = [entrypoints EXCEPT ![p] = "game"]
  /\ current' = p
  /\ main' = "restoring"
  /\ UNCHANGED <<unvisited, enabled, g_native_hooks, m_native_hooks, game,
                 vtable, new_table, fault>>

RestoreVtable ==
  /\ Up /\ main = "restoring"
  /\ vtable' = [vtable EXCEPT ![current] = "game"]
  /\ new_table' = [new_table EXCEPT ![current] = Copied]
  /\ m_native_hooks' = m_native_hooks \ {current}
  /\ current' = NoProgram
  /\ main' = "clearing"
  /\ UNCHANGED <<unvisited, enabled, g_native_hooks, game, entrypoints, fault>>

Cleared ==
  /\ Up /\ main = "clearing" /\ m_native_hooks = {}
  /\ main' = IF g_native_hooks THEN "cleared" ELSE "gone"
  /\ UNCHANGED <<current, unvisited, enabled, g_native_hooks, tables, game, fault>>

Retract ==
  /\ Up /\ main = "cleared"
  /\ g_native_hooks' = FALSE
  /\ main' = "clearing"
  /\ UNCHANGED <<current, unvisited, enabled, tables, game, fault>>

(* The game *)

\* A program is made and its natives are to be resolved.
Load(p, s) ==
  /\ Up /\ life[p] = "none"
  /\ life' = [life EXCEPT ![p] = IF enabled THEN "detoured" ELSE "plain"]
  /\ script' = [script EXCEPT ![p] = s]
  /\ UNCHANGED <<constructor, tables, fault>>

ResolvePlain(p) ==
  /\ Up /\ life[p] = "plain"
  /\ life' = [life EXCEPT ![p] = "resolved"]
  /\ UNCHANGED <<constructor, tables, script, fault>>

\* hook_program and hook_instance in one go, on the game thread.
hook_program(p) ==
  /\ vtable' = [vtable EXCEPT ![p] = "hook"]
  /\ entrypoints' = [entrypoints EXCEPT ![p] = "hook"]
  /\ new_table' = [new_table EXCEPT ![p] = Replaced(script[p])]
  /\ m_native_hooks' = m_native_hooks \cup {p}

init_native_tables(p) ==
  /\ Up /\ life[p] = "detoured" /\ g_native_hooks
  /\ life' = [life EXCEPT ![p] = "resolved"]
  /\ hook_program(p)
  /\ UNCHANGED <<constructor, script, fault>>

\* The detours use g_native_hooks without a look at it.
NullHooks ==
  /\ Up /\ ~g_native_hooks
  /\ \E p \in Program :
       \/ life[p] = "detoured"
       \/ life[p] \in {"resolved", "listed"} /\ vtable[p] = "hook"
  /\ Fail("null_hooks")

\* A detour that was entered before the shutdown, or the destructor of a
\* program not yet unhooked, uses the map while it is being cleared: it may
\* find it as it was or as it will be, or what was freed.
MapRace ==
  /\ Up /\ main \in {"clearing", "restoring"} /\ g_native_hooks
  /\ \E p \in Program :
       \/ life[p] = "detoured"
       \/ life[p] \in {"resolved", "listed"} /\ vtable[p] = "hook"
  /\ Fail("map_race")

List(p) ==
  /\ Up /\ life[p] = "resolved"
  /\ life' = [life EXCEPT ![p] = "listed"]
  /\ UNCHANGED <<constructor, tables, script, fault>>

\* The virtual destructor of a program that is not hooked.
Destroy(p) ==
  /\ Up /\ life[p] \in {"resolved", "listed"} /\ vtable[p] = "game"
  /\ life' = [life EXCEPT ![p] = "none"]
  /\ UNCHANGED <<constructor, tables, script, fault>>

\* Both tables of the program are its own again and the hook is gone before
\* the game's destructor frees them.
Unhook_OnlyVtable(p) ==
  /\ vtable' = [vtable EXCEPT ![p] = "game"]
  /\ m_native_hooks' = m_native_hooks \ {p}
  /\ UNCHANGED <<entrypoints, new_table>>
Unhook_KeepsEntry(p) ==
  /\ vtable' = [vtable EXCEPT ![p] = "game"]
  /\ entrypoints' = [entrypoints EXCEPT ![p] = "game"]
  /\ UNCHANGED <<m_native_hooks, new_table>>
Unhook(p) ==
  /\ vtable' = [vtable EXCEPT ![p] = "game"]
  /\ entrypoints' = [entrypoints EXCEPT ![p] = "game"]
  /\ new_table' = [new_table EXCEPT ![p] = Copied]
  /\ m_native_hooks' = m_native_hooks \ {p}

\* Without a native_hook the detour only logs: the program stays as it is.
scrprogram_dtor(p) ==
  /\ Up /\ life[p] \in {"resolved", "listed"} /\ vtable[p] = "hook"
  /\ g_native_hooks
  /\ p \in m_native_hooks \ {current}
  /\ Unhook(p)
  /\ life' = [life EXCEPT ![p] = "none"]
  /\ UNCHANGED <<constructor, script, fault>>

Next ==
  \/ Enable
  \/ \E p \in Program : Visit(p)
  \/ UseFreed
  \/ HookVtable \/ HookEntrypoints \/ Replace \/ Insert
  \/ Publish
  \/ Disable \/ (\E p \in Program : RestoreEntrypoints(p)) \/ RestoreVtable
  \/ Cleared \/ Retract
  \/ \E p \in Program, s \in Script : Load(p, s)
  \/ \E p \in Program : \/ ResolvePlain(p) \/ init_native_tables(p) \/ List(p)
                        \/ Destroy(p) \/ scrprogram_dtor(p)
  \/ NullHooks \/ MapRace

Spec == Init /\ [][Next]_vars

-----------------------------------------------------------------------------
TypeOK ==
  /\ main \in {"before", "visiting", "vtable", "entrypoints", "replace",
               "insert", "done", "clearing", "restoring", "cleared", "gone"}
  /\ current \in Program \cup {NoProgram}
  /\ main \in {"vtable", "entrypoints", "replace", "insert", "restoring"} =>
       current \in Program
  /\ unvisited \subseteq Program
  /\ enabled \in BOOLEAN /\ g_native_hooks \in BOOLEAN
  /\ m_native_hooks \subseteq Program
  /\ life \in [Program -> Life]
  /\ script \in [Program -> Script]
  /\ vtable \in [Program -> Owner]
  /\ entrypoints \in [Program -> Owner]
  /\ new_table \in [Program -> Table]
  /\ fault \in {"none", "freed_program", "null_hooks", "map_race"}

(* The detoured destructor always finds the native_hook of its program:    *)
(* the branch that logs "Cannot find hook for program" and leaves the      *)
(* program undestroyed (native_hooks.cpp 104-107) is never taken.          *)
DtorFindsHook ==
  g_native_hooks =>
    \A p \in Program : vtable[p] = "hook" <=> p \in m_native_hooks

(* A destroyed program leaves nothing of CLS behind at its address: the    *)
(* game freed its own native table, not the hook's, and the next program   *)
(* made there starts without a hook (97-102).  Neither does any program,   *)
(* once native_hooks is gone: a hook made by a detour still under way when *)
(* the map was cleared goes with the members (137-141).                    *)
OwnTablesFreed ==
  \A p \in Program :
    life[p] \in {"none", "plain", "detoured"} \/ main = "gone" =>
      vtable[p] = "game" /\ entrypoints[p] = "game" /\ p \notin m_native_hooks

(* A hooked program calls the detour of every native registered for all    *)
(* scripts, whatever else is registered for its own script, as long as it  *)
(* lives and however often its address was used before (166-174), until    *)
(* its hook is dropped.                                                    *)
HookedIsDetoured ==
  \A p \in m_native_hooks \ {current}, n \in Resolved :
    Registered[AllScripts][n] # NoDetour =>
      Called(p, n) = Registered[AllScripts][n]

(* What may take the process down is what the order of the constructor and *)
(* of the shutdown leaves open, and no more.  The game can destroy the     *)
(* program the constructor is at only until its virtual table is the       *)
(* hook's: not while its natives are copied and replaced one by one (65-89).*)
(* A detour finds native_hooks missing between the enabling of the detours *)
(* and the end of the constructor, or after the map was cleared; once the  *)
(* members are gone only inside a call made before the detours were        *)
(* disabled, for no program calls through a table of CLS any more (139).   *)
FaultsInWindows ==
  /\ fault = "freed_program" => main = "vtable"
  /\ fault = "null_hooks" => main \notin {"before", "done", "cleared"}
  /\ fault = "null_hooks" /\ main = "gone" =>
       \E p \in Program : life[p] = "detoured"
=============================================================================
