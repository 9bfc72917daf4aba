-------------------------- MODULE NativeHooksProofs --------------------------
(***************************************************************************)
(* Proofs about NativeHooks, for any programs, scripts, natives and        *)
(* registrations.                                                          *)
(*                                                                         *)
(* The invariant says what the constructor of native_hooks has done to the *)
(* program it is at, and that the game cannot have destroyed that program  *)
(* from the moment its virtual table is the hook's: the detoured           *)
(* destructor needs g_native_hooks, which is set when no program is left.  *)
(* The shutdown takes the tables back from a program that is still in the  *)
(* map, so its hook is either whole or half undone, never forgotten.       *)
(***************************************************************************)
EXTENDS NativeHooks, TLAPS

Alive == {"resolved", "listed"}
Hooking == {"vtable", "entrypoints", "replace", "insert"}

\* Programs whose virtual table the constructor has taken but whose hook it
\* has not put in the map.
Half(p) == main \in {"entrypoints", "replace", "insert"} /\ p = current

PhaseInv ==
  /\ g_native_hooks => main \in {"done", "clearing", "restoring", "cleared"}
  /\ main \in {"done", "cleared"} => g_native_hooks
  /\ main \in Hooking =>
       /\ current \notin unvisited
       /\ current \notin m_native_hooks
  /\ main \in {"visiting"} \cup Hooking => unvisited \cap m_native_hooks = {}
  /\ main \in {"before", "gone"} => m_native_hooks = {}
  /\ main = "restoring" => current \in m_native_hooks

LinkInv ==
  \A p \in Program :
    /\ vtable[p] = "hook" <=> p \in m_native_hooks \/ Half(p)
    /\ entrypoints[p] = "hook" => vtable[p] = "hook"
    /\ vtable[p] = "hook" => life[p] \in Alive

TableInv ==
  /\ \A p \in Program :
       \/ p \in m_native_hooks /\ ~(main = "restoring" /\ p = current)
       \/ main = "insert" /\ p = current
       =>
         entrypoints[p] = "hook" /\ new_table[p] = Replaced(script[p])
  /\ main = "replace" => entrypoints[current] = "hook"
  /\ main = "restoring" => entrypoints[current] = "game"

HooksInv == TypeOK /\ PhaseInv /\ LinkInv /\ TableInv

-----------------------------------------------------------------------------
(* The tables the hooks put in place are tables: the registrations of all  *)
(* scripts and of one script give each native a detour or none.            *)
LEMMA ReplacedIsTable ==
  ASSUME NEW s \in Script
  PROVE  Replaced(s) \in Table
<1>1. /\ Registered[s] \in [Native -> Detour \cup {NoDetour}]
      /\ Registered[AllScripts] \in [Native -> Detour \cup {NoDetour}]
  BY HooksAssumption
<1>2. Replaced(s) \in [Native -> Detour \cup {NoDetour}]
  BY <1>1 DEF Replaced, native_replacements
<1>3. \A n \in Native \ Resolved : Replaced(s)[n] = NoDetour
  BY DEF Replaced
<1> QED
  BY <1>2, <1>3 DEF Table

LEMMA CopiedIsTable == Copied \in Table
BY DEF Copied, Table

(* A constructor or a detour that finishes leaves every native of all      *)
(* scripts that has a handler detoured.                                    *)
LEMMA ReplacedDetours ==
  ASSUME NEW s \in Script, NEW n \in Resolved,
         Registered[AllScripts][n] # NoDetour
  PROVE  Replaced(s)[n] = Registered[AllScripts][n]
BY HooksAssumption DEF Replaced, native_replacements

-----------------------------------------------------------------------------
LEMMA InitHooks == Init => HooksInv
BY CopiedIsTable
   DEF Init, HooksInv, TypeOK, PhaseInv, LinkInv, TableInv, Half, Hooking,
       Alive, Life, Owner

LEMMA NextHooks == HooksInv /\ [Next]_vars => HooksInv'
<1> SUFFICES ASSUME HooksInv, [Next]_vars
             PROVE  HooksInv'
  OBVIOUS
<1> USE DEF constructor, game, tables, HooksInv, TypeOK, PhaseInv, LinkInv,
            TableInv, Half, Hooking, Alive, Life, Owner
<1> HIDE DEF Table
<1>0. NoProgram \notin Program
  BY HooksAssumption
<1>1. CASE Enable
  BY <1>1 DEF Enable
<1>2. ASSUME NEW p \in Program, Visit(p)
      PROVE  HooksInv'
  BY <1>2 DEF Visit
<1>3. CASE HookVtable
  BY <1>3 DEF HookVtable, VtableHooked
<1>4. CASE HookEntrypoints
  BY <1>4, CopiedIsTable DEF HookEntrypoints
<1>5. CASE Replace
  BY <1>5, ReplacedIsTable DEF Replace
<1>6. CASE Insert
  BY <1>6, <1>0 DEF Insert
<1>7. CASE Publish
  BY <1>7 DEF Publish
<1>8. ASSUME NEW p \in Program, NEW s \in Script, Load(p, s)
      PROVE  HooksInv'
  BY <1>8 DEF Load
<1>9. ASSUME NEW p \in Program, ResolvePlain(p)
      PROVE  HooksInv'
  BY <1>9 DEF ResolvePlain
<1>10. ASSUME NEW p \in Program, init_native_tables(p)
       PROVE  HooksInv'
  BY <1>10, ReplacedIsTable DEF init_native_tables, hook_program
<1>11. ASSUME NEW p \in Program, List(p)
       PROVE  HooksInv'
  BY <1>11 DEF List
<1>12. ASSUME NEW p \in Program, Destroy(p)
       PROVE  HooksInv'
  BY <1>12 DEF Destroy
<1>13. ASSUME NEW p \in Program, scrprogram_dtor(p)
       PROVE  HooksInv'
  BY <1>13, CopiedIsTable DEF scrprogram_dtor, Unhook
<1>14. CASE UseFreed
  BY <1>14 DEF UseFreed, Fail
<1>15. CASE NullHooks
  BY <1>15 DEF NullHooks, Fail
<1>16. CASE UNCHANGED vars
  BY <1>16 DEF vars
<1>17. CASE Disable
  BY <1>17 DEF Disable
<1>18. ASSUME NEW p \in Program, RestoreEntrypoints(p)
       PROVE  HooksInv'
  BY <1>18 DEF RestoreEntrypoints
<1>19. CASE RestoreVtable
  <2>1. TypeOK'
    BY <1>19, CopiedIsTable DEF RestoreVtable
  <2>2. PhaseInv'
    BY <1>19 DEF RestoreVtable
  <2>3. LinkInv'
    BY <1>19 DEF RestoreVtable
  <2>4. TableInv'
    BY <1>19 DEF RestoreVtable
  <2> QED
    BY <2>1, <2>2, <2>3, <2>4
<1>20. CASE Cleared
  BY <1>20 DEF Cleared
<1>21. CASE Retract
  BY <1>21 DEF Retract
<1>22. CASE MapRace
  BY <1>22 DEF MapRace, Fail
<1> QED
  BY <1>1, <1>2, <1>3, <1>4, <1>5, <1>6, <1>7, <1>8, <1>9, <1>10, <1>11,
     <1>12, <1>13, <1>14, <1>15, <1>16, <1>17, <1>18, <1>19, <1>20, <1>21,
     <1>22 DEF Next

(* What the constructor, the detours and the game do to the programs'      *)
(* tables, together, keeps the invariant.                                  *)
THEOREM Invariance == Spec => []HooksInv
<1>1. Init => HooksInv
  BY InitHooks
<1>2. HooksInv /\ [Next]_vars => HooksInv'
  BY NextHooks
<1> QED
  BY <1>1, <1>2, PTL DEF Spec

-----------------------------------------------------------------------------
(* Every variable of native_hooks keeps its type, and no native without a  *)
(* handler is ever overridden.                                             *)
THEOREM TypeCorrect == Spec => []TypeOK
<1>1. HooksInv => TypeOK
  BY DEF HooksInv
<1> QED
  BY <1>1, Invariance, PTL

(* The detoured destructor of a program (native_hooks.cpp 92-108) always   *)
(* finds the native_hook.                                                  *)
THEOREM DtorAlwaysFinds == Spec => []DtorFindsHook
<1>1. HooksInv => DtorFindsHook
  BY DEF HooksInv, PhaseInv, LinkInv, Half, DtorFindsHook
<1> QED
  BY <1>1, Invariance, PTL

(* No program is destroyed with a table of CLS in it (97-102), and none    *)
(* has one once native_hooks is gone (137-141).                            *)
THEOREM OwnTables == Spec => []OwnTablesFreed
<1>1. HooksInv => OwnTablesFreed
  BY DEF HooksInv, TypeOK, PhaseInv, LinkInv, Half, Alive, Owner,
         OwnTablesFreed
<1> QED
  BY <1>1, Invariance, PTL

(* A hooked program calls the detours registered for all scripts           *)
(* (161-180).                                                              *)
THEOREM HookedDetoured == Spec => []HookedIsDetoured
<1>1. ASSUME HooksInv
      PROVE  HookedIsDetoured
  <2> SUFFICES ASSUME NEW p \in m_native_hooks \ {current}, NEW n \in Resolved,
                      Registered[AllScripts][n] # NoDetour
               PROVE  Called(p, n) = Registered[AllScripts][n]
    BY DEF HookedIsDetoured
  <2>1. p \in Program /\ script[p] \in Script
    BY <1>1 DEF HooksInv, TypeOK
  <2>2. entrypoints[p] = "hook" /\ new_table[p] = Replaced(script[p])
    BY <1>1, <2>1 DEF HooksInv, TableInv
  <2> QED
    BY <2>1, <2>2, ReplacedDetours DEF Called
<1> QED
  BY <1>1, Invariance, PTL

-----------------------------------------------------------------------------
\* A detour is entered only once the detours are enabled; the rest is where
\* the two threads stood when the process went down.
WindowInv ==
  /\ main = "before" => ~enabled /\ \A p \in Program : life[p] # "detoured"
  /\ FaultsInWindows

LEMMA WindowStep == HooksInv /\ WindowInv /\ [Next]_vars => WindowInv'
<1> SUFFICES ASSUME HooksInv, WindowInv, [Next]_vars PROVE WindowInv'
  OBVIOUS
<1> USE DEF WindowInv, FaultsInWindows, constructor, game, tables, Up, HooksInv,
            TypeOK
<1>1. CASE UseFreed
  BY <1>1 DEF UseFreed, Fail, LinkInv, Half, Alive
<1>2. CASE NullHooks
  BY <1>2 DEF NullHooks, Fail, PhaseInv, LinkInv, Half
<1>3. CASE MapRace
  BY <1>3 DEF MapRace, Fail
<1>4. CASE Enable \/ HookVtable \/ HookEntrypoints \/ Replace \/ Insert \/ Publish
           \/ Disable \/ RestoreVtable \/ Cleared \/ Retract
  BY <1>4 DEF Enable, HookVtable, HookEntrypoints, Replace, Insert, Publish,
              Disable, RestoreVtable, Cleared, Retract
<1>5. ASSUME NEW p \in Program,
             \/ Visit(p) \/ RestoreEntrypoints(p)
             \/ ResolvePlain(p) \/ List(p) \/ Destroy(p)
      PROVE  WindowInv'
  BY <1>5 DEF Visit, RestoreEntrypoints, ResolvePlain, List, Destroy
<1>6. ASSUME NEW p \in Program, NEW s \in Script, Load(p, s) PROVE WindowInv'
  BY <1>6 DEF Load
<1>7. ASSUME NEW p \in Program, init_native_tables(p) \/ scrprogram_dtor(p)
      PROVE  WindowInv'
  BY <1>7 DEF init_native_tables, scrprogram_dtor
<1>8. CASE UNCHANGED vars
  BY <1>8 DEF vars
<1> QED
  BY <1>1, <1>2, <1>3, <1>4, <1>5, <1>6, <1>7, <1>8 DEF Next

(* A program is never freed under the constructor once its virtual table   *)
(* is the hook's (native_hooks.cpp 61-89), and no detour misses native_hooks *)
(* outside the windows of its construction and destruction (137-143).      *)
THEOREM FaultsAreInWindows == Spec => []FaultsInWindows
<1>1. Init => WindowInv
  BY DEF Init, WindowInv, FaultsInWindows
<1>2. WindowInv => FaultsInWindows
  BY DEF WindowInv
<1> QED
  BY <1>1, <1>2, WindowStep, Invariance, PTL DEF Spec
=============================================================================
