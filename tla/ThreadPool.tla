----------------------------- MODULE ThreadPool -----------------------------
(***************************************************************************)
(* thread_pool of thread_pool.cpp: a managing thread that starts the       *)
(* workers, a stack of jobs under a mutex, a condition variable, and the   *)
(* main thread of main.cpp, which owns the pool.                           *)
(*                                                                         *)
(* A step is what a thread does between two points where another thread    *)
(* can see the difference.  A wait is two steps, the predicate and the     *)
(* release of the lock, so that a change made without the lock, or a       *)
(* notification, can fall between them.  Each job is pushed once, by some  *)
(* thread of its own.                                                      *)
(***************************************************************************)
EXTENDS Integers, Sequences, FiniteSets

CONSTANTS
  Thread,       \* the hardware_concurrency() workers
  Job,          \* the jobs anyone will push
  Main,         \* the main thread
  Free,         \* nobody holds the lock
  NoJob,
  MaxSpurious   \* bound on the spurious wakeups of one behavior

ASSUME PoolAssumption ==
  /\ IsFiniteSet(Thread)
  /\ Main \notin Thread /\ Free \notin Thread
  /\ NoJob \notin Job
  /\ MaxSpurious \in Nat

VARIABLES
  m_lock,        \* who holds the mutex
  m_job_stack,   \* jobs, the top one last
  m_accept_jobs,
  m_available_thread_count,
  created,       \* create() has set the count and reserved the vector
  worker,        \* per worker, where it is in run()
  job,           \* per worker, the job it took
  client,        \* per job, where its push is
  done,          \* jobs that have been executed
  main,          \* where the main thread is
  spurious       \* spurious wakeups so far

queue   == <<m_job_stack, m_accept_jobs, m_available_thread_count, created>>
outside == <<client, done, main, spurious>>
vars    == <<m_lock, queue, worker, job, outside>>

\* "wait" holds the lock and has found the predicate false; "asleep" has
\* released it.
WorkerState == {"none", "lock", "locked", "wait", "asleep", "took", "running",
                "exited"}
MainState == {"running", "join_managing", "close", "notify", "join_workers",
              "destroyed", "gone", "terminated"}

Running == main # "terminated"

\* notify_all: every sleeper competes for the lock again.
Notified_Nobody == worker
Notified ==
  [t \in Thread |-> IF worker[t] = "asleep" THEN "lock" ELSE worker[t]]

-----------------------------------------------------------------------------
Init ==
  /\ m_lock = Free
  /\ m_job_stack = <<>>
  /\ m_accept_jobs = TRUE
  /\ m_available_thread_count = 0
  /\ created = FALSE
  /\ worker = [t \in Thread |-> "none"]
  /\ job = [t \in Thread |-> NoJob]
  /\ client = [j \in Job |-> "idle"]
  /\ done = {}
  /\ main = "running"
  /\ spurious = 0

(* create(), on the managing thread *)

InitialCount == Cardinality(Thread)

Reserve ==
  /\ Running /\ ~created
  /\ created' = TRUE
  /\ m_available_thread_count' = InitialCount
  /\ UNCHANGED <<m_lock, m_job_stack, m_accept_jobs, worker, job, outside>>

Spawn(t) ==
  /\ Running /\ created
  /\ worker[t] = "none"
  /\ worker' = [worker EXCEPT ![t] = "lock"]
  /\ UNCHANGED <<m_lock, queue, job, outside>>

(* push() *)

Push(j) ==
  /\ Running /\ main # "gone"
  /\ client[j] = "idle"
  /\ m_lock = Free
  /\ m_job_stack' = Append(m_job_stack, j)
  /\ client' = [client EXCEPT ![j] = "unlocked"]
  /\ UNCHANGED <<m_lock, m_accept_jobs, m_available_thread_count, created,
                 worker, job, done, main, spurious>>

Notify(j) ==
  /\ Running /\ main # "gone"
  /\ client[j] = "unlocked"
  /\ worker' = Notified
  /\ client' = [client EXCEPT ![j] = "notified"]
  /\ UNCHANGED <<m_lock, queue, job, done, main, spurious>>

(* run(), on a worker *)

Acquire(t) ==
  /\ Running
  /\ worker[t] = "lock"
  /\ m_lock = Free
  /\ m_lock' = t
  /\ worker' = [worker EXCEPT ![t] = "locked"]
  /\ UNCHANGED <<queue, job, outside>>

\* The predicate of the wait is false.
Wait(t) ==
  /\ Running
  /\ worker[t] = "locked"
  /\ m_job_stack = <<>> /\ m_accept_jobs
  /\ worker' = [worker EXCEPT ![t] = "wait"]
  /\ UNCHANGED <<m_lock, queue, job, outside>>

Sleep(t) ==
  /\ Running
  /\ worker[t] = "wait"
  /\ worker' = [worker EXCEPT ![t] = "asleep"]
  /\ m_lock' = Free
  /\ UNCHANGED <<queue, job, outside>>

SpuriousWakeup(t) ==
  /\ Running
  /\ worker[t] = "asleep"
  /\ spurious < MaxSpurious
  /\ spurious' = spurious + 1
  /\ worker' = [worker EXCEPT ![t] = "lock"]
  /\ UNCHANGED <<m_lock, queue, job, client, done, main>>

Exit(t) ==
  /\ Running
  /\ worker[t] = "locked"
  /\ ~m_accept_jobs
  /\ worker' = [worker EXCEPT ![t] = "exited"]
  /\ m_lock' = Free
  /\ UNCHANGED <<queue, job, outside>>

\* The stack's pop takes the job its top gave.
Top_Oldest == m_job_stack[1]
Top == m_job_stack[Len(m_job_stack)]
AfterPop_Leaves == m_job_stack
AfterPop == SubSeq(m_job_stack, 1, Len(m_job_stack) - 1)

Take(t) ==
  /\ Running
  /\ worker[t] = "locked"
  /\ m_job_stack # <<>> /\ m_accept_jobs
  /\ job' = [job EXCEPT ![t] = Top]
  /\ m_job_stack' = AfterPop
  /\ worker' = [worker EXCEPT ![t] = "took"]
  /\ m_lock' = Free
  /\ UNCHANGED <<m_accept_jobs, m_available_thread_count, created, outside>>

Begin(t) ==
  /\ Running
  /\ worker[t] = "took"
  /\ worker' = [worker EXCEPT ![t] = "running"]
  /\ m_available_thread_count' = m_available_thread_count - 1
  /\ UNCHANGED <<m_lock, m_job_stack, m_accept_jobs, created, job, outside>>

\* The job returns or throws a std::exception: the handler lets both reach
\* the increment.
CountAfterJob_UnlessItThrows == {m_available_thread_count,
                                 m_available_thread_count + 1}
CountAfterJob == {m_available_thread_count + 1}

Finish(t) ==
  /\ Running
  /\ worker[t] = "running"
  /\ done' = done \cup {job[t]}
  /\ job' = [job EXCEPT ![t] = NoJob]
  /\ m_available_thread_count' \in CountAfterJob
  /\ worker' = [worker EXCEPT ![t] = "lock"]
  /\ UNCHANGED <<m_lock, m_job_stack, m_accept_jobs, created, client, main,
                 spurious>>

(* destroy() and ~thread_pool(), on the main thread *)

Destroy ==
  /\ main = "running"
  /\ main' = "join_managing"
  /\ UNCHANGED <<m_lock, queue, worker, job, client, done, spurious>>

JoinManaging ==
  /\ main = "join_managing"
  /\ \A t \in Thread : worker[t] # "none"
  /\ main' = "close"
  /\ UNCHANGED <<m_lock, queue, worker, job, client, done, spurious>>

MayClose_Unlocked == TRUE
MayClose == m_lock = Free

Close ==
  /\ main = "close"
  /\ MayClose
  /\ m_accept_jobs' = FALSE
  /\ main' = "notify"
  /\ UNCHANGED <<m_lock, m_job_stack, m_available_thread_count, created,
                 worker, job, client, done, spurious>>

NotifyClosed ==
  /\ main = "notify"
  /\ worker' = Notified
  /\ main' = "join_workers"
  /\ UNCHANGED <<m_lock, queue, job, client, done, spurious>>

JoinWorkers ==
  /\ main = "join_workers"
  /\ \A t \in Thread : worker[t] = "exited"
  /\ main' = "destroyed"
  /\ UNCHANGED <<m_lock, queue, worker, job, client, done, spurious>>

\* The unique_ptr of main.cpp lets go of the pool: at the end of a shutdown,
\* or while a step of the start-up that threw is unwound.  A std::thread that
\* is still joinable then ends the process.
Destruct ==
  /\ main \in {"running", "destroyed"}
  /\ main' = IF main = "destroyed" THEN "gone" ELSE "terminated"
  /\ UNCHANGED <<m_lock, queue, worker, job, client, done, spurious>>

WorkerStep(t) == \/ Acquire(t) \/ Wait(t) \/ Sleep(t) \/ Exit(t) \/ Take(t)
                 \/ Begin(t) \/ Finish(t)
DestroySteps == JoinManaging \/ Close \/ NotifyClosed \/ JoinWorkers

Next ==
  \/ Reserve
  \/ \E t \in Thread : Spawn(t) \/ WorkerStep(t) \/ SpuriousWakeup(t)
  \/ \E j \in Job : Push(j) \/ Notify(j)
  \/ Destroy
  \/ DestroySteps
  \/ Destruct

Spec == Init /\ [][Next]_vars

(* The operating system runs every thread that can run, and jobs return.   *)
FairSpec ==
  /\ Spec
  /\ WF_vars(Reserve)
  /\ \A t \in Thread : WF_vars(Spawn(t)) /\ WF_vars(WorkerStep(t))
  /\ \A j \in Job : WF_vars(Notify(j))
  /\ WF_vars(DestroySteps)

-----------------------------------------------------------------------------
TypeOK ==
  /\ m_lock \in Thread \cup {Free}
  /\ m_job_stack \in Seq(Job)
  /\ m_accept_jobs \in BOOLEAN
  /\ m_available_thread_count \in Nat
  /\ created \in BOOLEAN
  /\ worker \in [Thread -> WorkerState]
  /\ job \in [Thread -> Job \cup {NoJob}]
  /\ client \in [Job -> {"idle", "unlocked", "notified"}]
  /\ done \subseteq Job
  /\ main \in MainState
  /\ spurious \in 0..MaxSpurious

(* No wakeup is lost: whenever a worker sleeps although there is a job, or *)
(* although the pool has been closed, somebody is still on the way to      *)
(* notify_all (thread_pool.cpp 44-48, 61-69, 77-81: both the job and the   *)
(* flag are changed under the lock, the notification is not).              *)
NoLostWakeup ==
  \A t \in Thread :
    worker[t] = "asleep" =>
      /\ m_job_stack # <<>> => \E j \in Job : client[j] = "unlocked"
      /\ ~m_accept_jobs => main = "notify"

Stacked(j) == \E i \in DOMAIN m_job_stack : m_job_stack[i] = j
Held(j)    == \E t \in Thread : job[t] = j

(* A job is in exactly one place from its push on -- on the stack, with    *)
(* one worker, or executed -- so none is dropped by a running pool and     *)
(* none runs twice, however many workers compete (88-100).                 *)
EachJobOnce ==
  /\ \A i, k \in DOMAIN m_job_stack : m_job_stack[i] = m_job_stack[k] => i = k
  /\ \A t, u \in Thread : job[t] = job[u] /\ job[t] # NoJob => t = u
  /\ \A j \in Job :
       /\ client[j] # "idle" <=> Stacked(j) \/ Held(j) \/ j \in done
       /\ ~(Stacked(j) /\ Held(j))
       /\ j \in done => ~Stacked(j) /\ ~Held(j)

(* The count of available threads, changed outside the lock, is off by no  *)
(* job whatever throws (92-107), and never wraps below zero.               *)
AvailableCount ==
  created => m_available_thread_count =
               Cardinality({t \in Thread : worker[t] # "running"})

(* The pool is a stack of jobs: whatever the order in which workers wake,  *)
(* the last job pushed is the first one run, and none comes back from a    *)
(* worker (62, 88-89).                                                     *)
Jobs == INSTANCE JobStack WITH
  stack <- m_job_stack, running <- {job[t] : t \in Thread} \ {NoJob}, dropped <- {}
ImplementsJobs == Jobs!Spec

(* A job is executed in the end unless the pool is destroyed first.        *)
JobsRun ==
  \A j \in Job :
    client[j] # "idle" ~> (j \in done \/ ~m_accept_jobs \/ ~Running)

(* destroy() returns: no worker stays asleep, and no join waits for ever.  *)
DestroyReturns == main = "join_managing" ~> main \in {"destroyed", "gone"}
=============================================================================
