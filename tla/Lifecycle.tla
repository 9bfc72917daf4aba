------------------------------ MODULE Lifecycle ------------------------------
(***************************************************************************)
(* The main thread of main.cpp beside the game's thread: the order in      *)
(* which the instances behind the global pointers are made and dropped,    *)
(* the load of the settings among them, and the detours, each of which     *)
(* uses some of those instances while it runs on the game's thread.        *)
(*                                                                         *)
(* Nothing in src/ clears g_running today; Stop is whoever does, and the   *)
(* shutdown it begins is the one main.cpp is written for.                  *)
(***************************************************************************)
EXTENDS Settings, FiniteSets

VARIABLES
  phase,    \* what the main thread is at
  step,     \* its place in Start or Shutdown
  up,       \* what exists: instances, "scripts" in g_script_mgr, "detours"
  running,  \* g_running
  call,     \* the detour the game's thread is in
  at,       \* which of its uses comes next there
  locked,   \* m_mutex of g_script_mgr
  fault     \* the detour and what it used that was not there

main == <<phase, step, up, running>>
game == <<call, at, locked, fault>>
all  == <<vars, main, game>>

-----------------------------------------------------------------------------
\* The order of the try block.
Start ==
  <<"thread_pool", "settings", "pointers", "byte_patch_manager", "fiber_pool",
    "hooking", "stats_service", "scripts", "detours", "native_hooks">>

Things == {Start[i] : i \in DOMAIN Start}

\* The order after the loop on g_running.
Shutdown_PoolFirst ==
  <<"detours", "fiber_pool", "scripts", "thread_pool", "stats_service",
    "hooking", "native_hooks", "byte_patch_manager", "pointers">>
Shutdown ==
  <<"detours", "scripts", "thread_pool", "stats_service", "hooking",
    "native_hooks", "fiber_pool", "byte_patch_manager", "pointers">>

\* What is made by a unique_ptr, and what may throw when it is made.
Owned == Things \ {"settings", "scripts", "detours"}
Throws_AlsoLate == {"settings", "pointers", "hooking", "detours", "native_hooks"}
Throws == {"settings", "pointers", "hooking", "detours"}

\* The scripts a fiber_pool adds in its constructor run with the others.
Makes(s) == IF s = "fiber_pool" THEN {"fiber_pool", "scripts"} ELSE {s}

\* What each detour uses, in order: "detours" stands for get_original, which
\* reads a detour_hook that disable() deletes, "byte_patch_manager" for the
\* patches it owns.  mp_save_download is in one state or another.
Uses ==
  [run_script_threads      |-> <<"pointers", "g_running", "pointers", "tick", "detours">>,
   init_native_tables      |-> <<"detours", "native_hooks">>,
   stat_ctor               |-> <<"detours", "stats_service">>,
   stat_dtor               |-> <<"detours">>,
   mp_stats_save           |-> <<"stats_service">>,
   mp_save_download_load   |-> <<"stats_service", "byte_patch_manager", "detours">>,
   mp_save_download_finish |-> <<"byte_patch_manager", "pointers", "detours">>,
   profile_stats_download  |-> <<"byte_patch_manager", "detours">>]
Detour == DOMAIN Uses
NoCall == "none"

-----------------------------------------------------------------------------
LifeInit ==
  /\ Init
  /\ phase = "off" /\ step = 1 /\ up = {} /\ running = TRUE
  /\ call = NoCall /\ at = 0 /\ locked = FALSE /\ fault = << >>

Boot(w) ==
  /\ phase = "off" /\ Launch(w)
  /\ phase' = "start" /\ step' = 1 /\ up' = {} /\ running' = TRUE
  /\ UNCHANGED game

Starting(s) == phase = "start" /\ Start[step] = s /\ fault = << >>

LoadSettings ==
  /\ Starting("settings")
  /\ Load \/ WriteMissing \/ Corrupt \/ WriteCorrupt \/ Throw \/ Read \/ Save
  /\ UNCHANGED <<main, game>>

Construct(s) ==
  /\ Starting(s)
  /\ s = "settings" => pc = "returned"
  /\ up' = up \cup Makes(s)
  /\ IF step = Len(Start) THEN phase' = "run" /\ step' = 1
                          ELSE phase' = phase /\ step' = step + 1
  /\ UNCHANGED <<vars, running, game>>

ConstructThrows(s) ==
  /\ Starting(s) /\ s \in Throws
  /\ s = "settings" => pc = "threw"
  /\ phase' = "unwind"
  /\ UNCHANGED <<vars, step, up, running, game>>

\* The unique_ptrs go in reverse order; the pool's threads are joinable.
Unwind ==
  /\ phase = "unwind" /\ fault = << >>
  /\ LET live == {i \in DOMAIN Start : Start[i] \in Owned \cap up}
         i    == CHOOSE m \in live : \A n \in live : n <= m
     IN IF Start[i] = "thread_pool"
        THEN phase' = "terminated" /\ UNCHANGED up
        ELSE /\ up' = up \ ({Start[i]} \cup
                            IF Start[i] = "hooking" THEN {"detours"} ELSE {})
             /\ UNCHANGED phase
  /\ UNCHANGED <<vars, step, running, game>>

Stop ==
  /\ phase = "run" /\ running /\ fault = << >>
  /\ running' = FALSE
  /\ UNCHANGED <<vars, phase, step, up, game>>

\* remove_all_scripts waits for the mutex.
Destruct ==
  /\ phase \in {"run", "stop"} /\ ~running /\ fault = << >>
  /\ LET s == Shutdown[step]
     IN /\ s = "scripts" => ~locked
        /\ up' = up \ {s}
  /\ IF step = Len(Shutdown) THEN phase' = "gone" /\ UNCHANGED step
                             ELSE phase' = "stop" /\ step' = step + 1
  /\ UNCHANGED <<vars, running, game>>

-----------------------------------------------------------------------------
(* The game's thread *)

Enter(d) ==
  /\ call = NoCall /\ "detours" \in up /\ phase \notin {"off", "terminated"}
  /\ fault = << >>
  /\ call' = d /\ at' = 1
  /\ UNCHANGED <<vars, main, locked, fault>>

NextUse ==
  IF call = NoCall \/ fault # << >> \/ phase = "terminated" \/ at > Len(Uses[call])
  THEN "none" ELSE Uses[call][at]

\* A detour uses an instance, or brings the game down.
Use ==
  /\ NextUse \in Things
  /\ IF NextUse \in up THEN at' = at + 1 /\ UNCHANGED fault
                       ELSE fault' = <<call, NextUse>> /\ UNCHANGED at
  /\ UNCHANGED <<vars, main, call, locked>>

ReadRunning ==
  /\ NextUse = "g_running"
  /\ at' = IF running THEN at + 1 ELSE Len(Uses[call])
  /\ UNCHANGED <<vars, main, call, locked, fault>>

\* execute_as_script: nothing is called while the game has no main_persistent.
NoMainPersistent ==
  /\ NextUse = "tick" /\ ~locked
  /\ at' = at + 1
  /\ UNCHANGED <<vars, main, call, locked, fault>>

\* The lock_guard of tick_internal at the end of its scope.
Released_Kept == locked
Released == FALSE

\* tick_internal: the mutex is held while the scripts run.
Tick ==
  /\ NextUse = "tick" /\ ~locked
  /\ locked' = TRUE
  /\ UNCHANGED <<vars, main, call, at, fault>>

\* The fibers use their pool, the script of backend::loop the pointers.
RunScripts ==
  /\ NextUse = "tick" /\ locked
  /\ \/ /\ "scripts" \in up
        /\ \E need \in {"fiber_pool", "pointers"} \ up : fault' = <<call, need>>
        /\ UNCHANGED <<at, locked>>
     \/ /\ "scripts" \in up => {"fiber_pool", "pointers"} \subseteq up
        /\ at' = at + 1 /\ locked' = Released
        /\ UNCHANGED fault
  /\ UNCHANGED <<vars, main, call>>

Return ==
  /\ call # NoCall /\ at > Len(Uses[call]) /\ phase # "terminated"
  /\ call' = NoCall /\ at' = 0
  /\ UNCHANGED <<vars, main, locked, fault>>

GameStep == Use \/ ReadRunning \/ NoMainPersistent \/ Tick \/ RunScripts \/ Return

\* The game's process ends.
End ==
  /\ phase # "off" /\ Exit
  /\ phase' = "off" /\ step' = 1 /\ up' = {} /\ running' = TRUE
  /\ call' = NoCall /\ at' = 0 /\ locked' = FALSE /\ fault' = << >>

MainStep ==
  \/ LoadSettings
  \/ \E i \in DOMAIN Start : Construct(Start[i])
  \/ Unwind \/ Destruct

LifeNext ==
  \/ \E c \in UserFiles : UserEdit("folder", c) /\ UNCHANGED <<main, game>>
  \/ \E b \in {"missing", "file"} : UserEdit(b, Absent) /\ UNCHANGED <<main, game>>
  \/ \E w \in BOOLEAN : Boot(w)
  \/ MainStep
  \/ \E i \in DOMAIN Start : ConstructThrows(Start[i])
  \/ Stop
  \/ \E d \in Detour : Enter(d)
  \/ GameStep
  \/ End

\* The system runs both threads; what they are asked to do is the user's.
LifeSpec == LifeInit /\ [][LifeNext]_all
            /\ WF_all(MainStep \/ \E i \in DOMAIN Start : ConstructThrows(Start[i]))
            /\ WF_all(GameStep)
-----------------------------------------------------------------------------
(* Properties *)

LifeTypeOK ==
  /\ TypeOK
  /\ phase \in {"off", "start", "run", "stop", "unwind", "gone", "terminated"}
  /\ step \in 1..Len(Start) /\ up \subseteq Things
  /\ running \in BOOLEAN /\ locked \in BOOLEAN
  /\ call \in Detour \cup {NoCall}
  /\ at \in 0..6 /\ (at = 0 <=> call = NoCall)
  /\ locked => call = "run_script_threads" /\ Uses[call][at] = "tick"

(* A detour only meets an instance that is not there in the two windows the *)
(* order of main.cpp leaves: init_native_tables before native_hooks is made *)
(* (95-98), and a call that was still inside when the detours were disabled *)
(* (104).  Even then no fiber runs after its pool is gone: remove_all_      *)
(* scripts waits for a tick, and the pool goes after it (107, 126).         *)
FaultsOnlyInWindows ==
  fault # << >> =>
    /\ \/ phase = "start" /\ fault = <<"init_native_tables", "native_hooks">>
       \/ phase \in {"stop", "gone"} /\ "detours" \notin up
    /\ fault[2] # "fiber_pool"

(* A start-up step that throws finds no detour enabled and the game in none *)
(* of them, so that nothing of what the unwinding drops is in use           *)
(* (main.cpp 95, 140).                                                      *)
UnwindsUnused ==
  phase \in {"unwind", "terminated"} => "detours" \notin up /\ call = NoCall

(* A settings file that can be written keeps no launch from running: it may *)
(* be absent, torn, null or hold options that are no booleans, it is        *)
(* repaired in bounded time and CLS gets to its loop -- unless the player   *)
(* quits, a detour faults, or the game's code, MinHook or the detours make  *)
(* a step throw.  Only json that is neither object nor null is left out:    *)
(* it makes load() itself throw (settings.cpp 32-66, main.cpp 66-99).       *)
StartRuns ==
  phase = "start" /\ writable /\ launched.kind # "other" ~>
    \/ phase \in {"run", "off"} \/ fault # << >>
    \/ phase = "unwind" /\ Start[step] # "settings"

(* A shutdown comes to its end: it waits for a tick that is under way, and  *)
(* no tick waits for it (main.cpp 104-138, script_mgr.cpp 31, 52).          *)
ShutdownEnds ==
  ~running ~> phase \in {"gone", "off"} \/ fault # << >>
=============================================================================
