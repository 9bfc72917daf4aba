------------------------------- MODULE Scripts -------------------------------
(***************************************************************************)
(* The scripts of script_mgr.cpp and the job stack of fiber_pool.cpp.  On  *)
(* each frame the game's thread switches to the fiber of one script after  *)
(* the other, and each returns by yielding; other threads queue jobs,      *)
(* clear the stack or remove the scripts meanwhile.  The scripts are those *)
(* of the pool: none of them can be disabled, and a job returns, or yields *)
(* from where it is, but throws nothing.                                   *)
(***************************************************************************)
EXTENDS Integers, Sequences, FiniteSets

CONSTANTS
  Fibers,     \* fibers of the pool
  Job,
  Endless,    \* jobs that never return
  NoJob,
  MaxNap,     \* longest sleep, in ticks of the clock
  MaxYields   \* how often any other job yields before it returns

Fiber == 1..Fibers

ASSUME ScriptsAssumption ==
  /\ Fibers \in Nat \ {0} /\ MaxNap \in Nat /\ MaxYields \in Nat
  /\ NoJob \notin Job /\ Endless \subseteq Job

VARIABLES
  m_jobs,   \* the stack, its top last
  owner,    \* per fiber, the job it is in
  nap,      \* per fiber, how long until m_wake_time; 0 if none or past
  turn,     \* the script tick_internal is at, holding the mutex, or 0
  active,   \* whether the game's thread is on that script's fiber
  listed,   \* whether the scripts are in g_script_mgr
  status,   \* history: what became of each job
  yields    \* how often each job has yielded

vars == <<m_jobs, owner, nap, turn, active, listed, status, yields>>

-----------------------------------------------------------------------------
Init ==
  /\ m_jobs = << >>
  /\ owner = [f \in Fiber |-> NoJob] /\ nap = [f \in Fiber |-> 0]
  /\ turn = 0 /\ active = FALSE /\ listed = TRUE
  /\ status = [j \in Job |-> "new"] /\ yields = [j \in Job |-> 0]

queue_job(j) ==
  /\ status[j] = "new"
  /\ m_jobs' = Append(m_jobs, j)
  /\ status' = [status EXCEPT ![j] = "queued"]
  /\ UNCHANGED <<owner, nap, turn, active, listed, yields>>

reset ==
  /\ m_jobs # << >>
  /\ m_jobs' = << >>
  /\ status' = [j \in Job |-> IF status[j] = "queued" THEN "dropped" ELSE status[j]]
  /\ UNCHANGED <<owner, nap, turn, active, listed, yields>>

BeginTick ==
  /\ turn = 0 /\ listed
  /\ turn' = 1
  /\ UNCHANGED <<m_jobs, owner, nap, active, listed, status, yields>>

\* The loop of tick_internal goes on to the next script.
After_EndsTick(f) == 0
After(f) == IF f = Fibers THEN 0 ELSE f + 1

\* script::tick on a script that sleeps.
Skip ==
  /\ turn # 0 /\ ~active /\ nap[turn] > 0
  /\ turn' = (turn + 1) % (Fibers + 1)
  /\ UNCHANGED <<m_jobs, owner, nap, active, listed, status, yields>>

Awake == turn # 0 /\ ~active /\ nap[turn] = 0

\* A job that yielded goes on.
Resume ==
  /\ Awake /\ owner[turn] # NoJob
  /\ active' = TRUE
  /\ UNCHANGED <<m_jobs, owner, nap, turn, listed, status, yields>>

\* fiber_tick takes the top of the stack and calls it without the lock.
AfterTake_Bottom(s) == Tail(s)
AfterTake(s) == SubSeq(s, 1, Len(s) - 1)
Take ==
  /\ Awake /\ owner[turn] = NoJob /\ m_jobs # << >>
  /\ LET j == m_jobs[Len(m_jobs)]
     IN /\ m_jobs' = AfterTake(m_jobs)
        /\ owner' = [owner EXCEPT ![turn] = j]
        /\ status' = [status EXCEPT ![j] = "running"]
  /\ active' = TRUE
  /\ UNCHANGED <<nap, turn, listed, yields>>

Idle ==
  /\ Awake /\ owner[turn] = NoJob /\ m_jobs = << >>
  /\ turn' = After(turn)
  /\ UNCHANGED <<m_jobs, owner, nap, active, listed, status, yields>>

\* script::yield, called by a job, with a time or without one (0).
yield(t) ==
  /\ active
  /\ LET j == owner[turn]
     IN /\ j \notin Endless => yields[j] < MaxYields
        /\ yields' = IF j \in Endless THEN yields ELSE [yields EXCEPT ![j] = @ + 1]
  /\ nap' = [nap EXCEPT ![turn] = t]
  /\ active' = FALSE /\ turn' = After(turn)
  /\ UNCHANGED <<m_jobs, owner, listed, status>>

\* The job returns; fiber_func yields at once and looks for another when it
\* is switched to again.
Finish ==
  /\ active /\ owner[turn] \notin Endless
  /\ status' = [status EXCEPT ![owner[turn]] = "done"]
  /\ owner' = [owner EXCEPT ![turn] = NoJob]
  /\ active' = FALSE /\ turn' = After(turn)
  /\ UNCHANGED <<m_jobs, nap, listed, yields>>

Clock ==
  /\ \E f \in Fiber : nap[f] > 0
  /\ nap' = [f \in Fiber |-> IF nap[f] > 0 THEN nap[f] - 1 ELSE 0]
  /\ UNCHANGED <<m_jobs, owner, turn, active, listed, status, yields>>

\* remove_all_scripts deletes the fibers, and with them the jobs they are in.
MayRemove_Anytime == TRUE
MayRemove == turn = 0
remove_all_scripts ==
  /\ listed /\ MayRemove
  /\ listed' = FALSE
  /\ owner' = [f \in Fiber |-> NoJob] /\ nap' = [f \in Fiber |-> 0]
  /\ status' = [j \in Job |-> IF \E f \in Fiber : owner[f] = j
                              THEN "dropped" ELSE status[j]]
  /\ UNCHANGED <<m_jobs, turn, active, yields>>

GameThread ==
  \/ BeginTick \/ Skip \/ Resume \/ Take \/ Idle \/ Finish
  \/ \E t \in 0..MaxNap : yield(t)

Next ==
  \/ GameThread \/ Clock \/ reset \/ remove_all_scripts
  \/ \E j \in Job : queue_job(j)

Spec == Init /\ [][Next]_vars

\* The game calls run_script_threads on every frame, and time passes.
FairSpec == Spec /\ WF_vars(GameThread) /\ WF_vars(Clock)

-----------------------------------------------------------------------------
(* Properties *)

TypeOK ==
  /\ m_jobs \in Seq(Job)
  /\ owner \in [Fiber -> Job \cup {NoJob}] /\ nap \in [Fiber -> 0..MaxNap]
  /\ turn \in 0..Fibers /\ active \in BOOLEAN /\ listed \in BOOLEAN
  /\ status \in [Job -> {"new", "queued", "running", "done", "dropped"}]
  /\ yields \in [Job -> 0..MaxYields]

Places(j) == Cardinality({i \in DOMAIN m_jobs : m_jobs[i] = j})
             + Cardinality({f \in Fiber : owner[f] = j})

(* A job is run by one fiber, once, whatever is queued, reset or removed    *)
(* while it sleeps on its fiber: it is on the stack as long as it waits and *)
(* with one fiber as long as it runs, and the fiber the game's thread is on *)
(* always has one (fiber_pool.cpp 43-54, script_mgr.cpp 31 and 52).         *)
EachJobOnce ==
  /\ active => owner[turn] # NoJob
  /\ \A j \in Job :
       Places(j) = IF status[j] \in {"queued", "running"} THEN 1 ELSE 0

(* The fiber pool is a stack of jobs, although a job may sleep on its fiber *)
(* for many frames: what was queued last starts first, a job that started   *)
(* is never queued or started again, and only reset and remove_all_scripts  *)
(* end one that has not returned (fiber_pool.cpp 36-57, 73-79).             *)
Jobs == INSTANCE JobStack WITH
  stack <- m_jobs, running <- {j \in Job : status[j] = "running"},
  done <- {j \in Job : status[j] = "done"},
  dropped <- {j \in Job : status[j] = "dropped"}
ImplementsJobs == Jobs!Spec

(* A sleeping or endless job blocks no other: as long as one fiber is left  *)
(* that no endless job holds, every queued job is run to its end, unless    *)
(* the stack is cleared or the scripts are removed (script.cpp 66-73).      *)
JobsRun ==
  Cardinality(Endless) < Fibers =>
    \A j \in Job \ Endless :
      status[j] = "queued" ~> status[j] \in {"done", "dropped"} \/ ~listed
=============================================================================
