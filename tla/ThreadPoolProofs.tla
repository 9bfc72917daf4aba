-------------------------- MODULE ThreadPoolProofs --------------------------
(***************************************************************************)
(* For every number of workers and jobs: the pool loses no wakeup, keeps   *)
(* its count of available threads exact, and runs no job twice.            *)
(***************************************************************************)
EXTENDS ThreadPool, FiniteSetTheorems, SequenceTheorems, TLAPS

\* Between the predicate of a wait and the release of the lock nobody else
\* can have pushed a job or closed the pool.
LockInv ==
  \A t \in Thread :
    /\ worker[t] \in {"locked", "wait"} => m_lock = t
    /\ worker[t] = "wait" => m_job_stack = <<>> /\ m_accept_jobs

\* create() counts the workers before it starts the first.
CreatedInv == ~created => \A t \in Thread : worker[t] = "none"

HeldInv ==
  \A t \in Thread : worker[t] \in {"took", "running"} <=> job[t] \in Job

WaitInv == LockInv /\ CreatedInv /\ HeldInv /\ NoLostWakeup
PoolInv == TypeOK /\ WaitInv /\ AvailableCount /\ EachJobOnce

Idle(w) == {t \in Thread : w[t] # "running"}

LEMMA IdleSame ==
  ASSUME NEW w, NEW v,
         \A t \in Thread : w[t] = "running" <=> v[t] = "running"
  PROVE  Idle(w) = Idle(v)
BY DEF Idle

LEMMA IdleFinite ==
  ASSUME NEW w
  PROVE  IsFiniteSet(Idle(w)) /\ Cardinality(Idle(w)) \in Nat
<1>1. Idle(w) \subseteq Thread
  BY DEF Idle
<1>2. IsFiniteSet(Idle(w))
  BY <1>1, PoolAssumption, FS_Subset
<1> QED
  BY <1>2, FS_CardinalityType

LEMMA IdleLeaves ==
  ASSUME NEW w \in [Thread -> WorkerState], NEW t \in Thread,
         w[t] # "running"
  PROVE  LET v == [w EXCEPT ![t] = "running"]
         IN  Cardinality(Idle(v)) = Cardinality(Idle(w)) - 1
<1> DEFINE v == [w EXCEPT ![t] = "running"]
<1>1. Idle(v) = Idle(w) \ {t} /\ t \in Idle(w)
  BY DEF Idle
<1>2. IsFiniteSet(Idle(w))
  BY IdleFinite
<1> QED
  BY <1>1, <1>2, FS_RemoveElement

LEMMA IdleReturns ==
  ASSUME NEW w \in [Thread -> WorkerState], NEW t \in Thread,
         w[t] = "running"
  PROVE  LET v == [w EXCEPT ![t] = "lock"]
         IN  Cardinality(Idle(v)) = Cardinality(Idle(w)) + 1
<1> DEFINE v == [w EXCEPT ![t] = "lock"]
<1>1. Idle(v) = Idle(w) \cup {t} /\ t \notin Idle(w)
  BY DEF Idle
<1>2. IsFiniteSet(Idle(w))
  BY IdleFinite
<1> QED
  BY <1>1, <1>2, FS_AddElement

LEMMA PopTyped ==
  ASSUME m_job_stack \in Seq(Job), m_job_stack # <<>>
  PROVE  AfterPop \in Seq(Job) /\ Top \in Job
<1>1. Len(m_job_stack) \in Nat \ {0}
  BY EmptySeq, LenProperties
<1> QED
  BY <1>1, SubSeqProperties, ElementOfSeq DEF AfterPop, Top

LEMMA NotifiedTyped ==
  ASSUME worker \in [Thread -> WorkerState]
  PROVE  /\ Notified \in [Thread -> WorkerState]
         /\ \A t \in Thread : Notified[t] # "asleep"
         /\ \A t \in Thread :
              \/ Notified[t] = worker[t]
              \/ worker[t] = "asleep" /\ Notified[t] = "lock"
BY DEF Notified, WorkerState

Count(w) == m_available_thread_count = Cardinality(Idle(w))

LEMMA AvailableIsIdle == AvailableCount <=> (created => Count(worker))
BY DEF AvailableCount, Count, Idle

LEMMA InitInv == Init => PoolInv
<1> SUFFICES ASSUME Init PROVE PoolInv
  OBVIOUS
<1>1. TypeOK
  <2>1. m_job_stack \in Seq(Job)
    BY EmptySeq DEF Init
  <2>2. m_available_thread_count \in Nat /\ spurious \in 0..MaxSpurious
    BY PoolAssumption DEF Init
  <2> QED
    BY <2>1, <2>2 DEF Init, TypeOK, WorkerState, MainState
<1>2. WaitInv
  <2>1. LockInv /\ CreatedInv /\ NoLostWakeup
    BY DEF Init, LockInv, CreatedInv, NoLostWakeup
  <2>2. HeldInv
    BY PoolAssumption DEF Init, HeldInv
  <2> QED
    BY <2>1, <2>2 DEF WaitInv
<1>3. AvailableCount
  BY DEF Init, AvailableCount
<1>4. EachJobOnce
  BY PoolAssumption DEF Init, EachJobOnce, Stacked, Held
<1> QED
  BY <1>1, <1>2, <1>3, <1>4 DEF PoolInv

LEMMA StepLock == PoolInv /\ [Next]_vars => WaitInv'
<1> SUFFICES ASSUME PoolInv, [Next]_vars
             PROVE  WaitInv'
  OBVIOUS
<1> USE PoolAssumption, NotifiedTyped, PopTyped
    DEF PoolInv, TypeOK, WaitInv, LockInv, CreatedInv, HeldInv, NoLostWakeup,
        Running, queue, outside
<1>1. CASE Reserve
  BY <1>1 DEF Reserve, WorkerState
<1>2. ASSUME NEW t \in Thread, Spawn(t) PROVE WaitInv'
  BY <1>2 DEF Spawn, WorkerState
<1>3. ASSUME NEW t \in Thread, Acquire(t) PROVE WaitInv'
  BY <1>3 DEF Acquire, WorkerState
<1>4. ASSUME NEW t \in Thread, Wait(t) PROVE WaitInv'
  BY <1>4 DEF Wait, WorkerState
<1>5. ASSUME NEW t \in Thread, Sleep(t) PROVE WaitInv'
  BY <1>5 DEF Sleep, WorkerState
<1>6. ASSUME NEW t \in Thread, SpuriousWakeup(t) PROVE WaitInv'
  BY <1>6 DEF SpuriousWakeup, WorkerState
<1>7. ASSUME NEW t \in Thread, Exit(t) PROVE WaitInv'
  BY <1>7 DEF Exit, WorkerState
<1>8. ASSUME NEW t \in Thread, Take(t) PROVE WaitInv'
  BY <1>8 DEF Take, WorkerState
<1>9. ASSUME NEW t \in Thread, Begin(t) PROVE WaitInv'
  BY <1>9 DEF Begin, WorkerState
<1>10. ASSUME NEW t \in Thread, Finish(t) PROVE WaitInv'
  BY <1>10 DEF Finish, WorkerState
<1>11. ASSUME NEW j \in Job, Push(j) PROVE WaitInv'
  BY <1>11 DEF Push, WorkerState
<1>12. ASSUME NEW j \in Job, Notify(j) PROVE WaitInv'
  BY <1>12 DEF Notify, WorkerState
<1>13. CASE Destroy
  BY <1>13 DEF Destroy, WorkerState
<1>14. CASE JoinManaging
  BY <1>14 DEF JoinManaging, WorkerState
<1>15. CASE Close
  BY <1>15 DEF Close, MayClose, WorkerState
<1>16. CASE NotifyClosed
  BY <1>16 DEF NotifyClosed, WorkerState
<1>17. CASE JoinWorkers
  BY <1>17 DEF JoinWorkers, WorkerState
<1>18. CASE Destruct
  BY <1>18 DEF Destruct, WorkerState
<1>19. CASE UNCHANGED vars
  BY <1>19 DEF vars
<1> QED
  BY <1>1, <1>2, <1>3, <1>4, <1>5, <1>6, <1>7, <1>8, <1>9, <1>10, <1>11, <1>12,
     <1>13, <1>14, <1>15, <1>16, <1>17, <1>18, <1>19
     DEF Next, WorkerStep, DestroySteps

\* Every part of the type invariant but the count.
RestOK ==
  /\ m_lock \in Thread \cup {Free}
  /\ m_job_stack \in Seq(Job)
  /\ m_accept_jobs \in BOOLEAN
  /\ created \in BOOLEAN
  /\ worker \in [Thread -> WorkerState]
  /\ job \in [Thread -> Job \cup {NoJob}]
  /\ client \in [Job -> {"idle", "unlocked", "notified"}]
  /\ done \subseteq Job
  /\ main \in MainState
  /\ spurious \in 0..MaxSpurious

LEMMA StepRest == PoolInv /\ [Next]_vars => RestOK'
<1> SUFFICES ASSUME PoolInv, [Next]_vars PROVE RestOK'
  OBVIOUS
<1> USE DEF queue, outside, PoolInv, WaitInv, TypeOK, RestOK
<1>1. CASE Reserve
  BY <1>1 DEF Reserve
<1>2. ASSUME NEW t \in Thread, Spawn(t) PROVE RestOK'
  BY <1>2 DEF Spawn, WorkerState
<1>3. ASSUME NEW t \in Thread, Acquire(t) PROVE RestOK'
  BY <1>3 DEF Acquire, WorkerState
<1>4. ASSUME NEW t \in Thread, Wait(t) PROVE RestOK'
  BY <1>4 DEF Wait, WorkerState
<1>5. ASSUME NEW t \in Thread, Sleep(t) PROVE RestOK'
  BY <1>5 DEF Sleep, WorkerState
<1>6. ASSUME NEW t \in Thread, SpuriousWakeup(t) PROVE RestOK'
  BY <1>6, PoolAssumption DEF SpuriousWakeup, WorkerState
<1>7. ASSUME NEW t \in Thread, Exit(t) PROVE RestOK'
  BY <1>7 DEF Exit, WorkerState
<1>8. ASSUME NEW t \in Thread, Take(t) PROVE RestOK'
  BY <1>8, PopTyped DEF Take, WorkerState
<1>9. ASSUME NEW t \in Thread, Begin(t) PROVE RestOK'
  BY <1>9 DEF Begin, WorkerState
<1>10. ASSUME NEW t \in Thread, Finish(t) PROVE RestOK'
  BY <1>10 DEF Finish, HeldInv, WorkerState
<1>11. ASSUME NEW j \in Job, Push(j) PROVE RestOK'
  BY <1>11, AppendProperties DEF Push
<1>12. ASSUME NEW j \in Job, Notify(j) PROVE RestOK'
  BY <1>12, NotifiedTyped DEF Notify
<1>13. CASE Destroy
  BY <1>13 DEF Destroy, MainState
<1>14. CASE JoinManaging
  BY <1>14 DEF JoinManaging, MainState
<1>15. CASE Close
  BY <1>15 DEF Close, MainState
<1>16. CASE NotifyClosed
  BY <1>16, NotifiedTyped DEF NotifyClosed, MainState
<1>17. CASE JoinWorkers
  BY <1>17 DEF JoinWorkers, MainState
<1>18. CASE Destruct
  BY <1>18 DEF Destruct, MainState
<1>19. CASE UNCHANGED vars
  BY <1>19 DEF vars
<1> QED
  BY <1>1, <1>2, <1>3, <1>4, <1>5, <1>6, <1>7, <1>8, <1>9, <1>10, <1>11, <1>12,
     <1>13, <1>14, <1>15, <1>16, <1>17, <1>18, <1>19
     DEF Next, WorkerStep, DestroySteps

\* The count, and the workers that are not running a job, change together.
LEMMA StepCount == PoolInv /\ [Next]_vars => AvailableCount'
<1> SUFFICES ASSUME PoolInv, [Next]_vars PROVE AvailableCount'
  OBVIOUS
<1> DEFINE Same ==
             \A t \in Thread : worker'[t] = "running" <=> worker[t] = "running"
<1>a. ASSUME Same, UNCHANGED <<created, m_available_thread_count>>
      PROVE  AvailableCount'
  <2>1. Idle(worker') = Idle(worker)
    BY <1>a, IdleSame
  <2> QED
    BY <1>a, <2>1 DEF PoolInv, AvailableCount, Idle
<1> HIDE DEF Same
<1> USE DEF queue, outside, PoolInv, WaitInv, TypeOK
<1>1. CASE Reserve
  <2>1. Idle(worker') = Thread
    BY <1>1 DEF Reserve, CreatedInv, Idle
  <2> QED
    BY <1>1, <2>1 DEF Reserve, InitialCount, AvailableCount, Idle
<1>2. ASSUME NEW t \in Thread, Spawn(t) PROVE AvailableCount'
  BY <1>2, <1>a DEF Spawn, Same
<1>3. ASSUME NEW t \in Thread, Acquire(t) PROVE AvailableCount'
  BY <1>3, <1>a DEF Acquire, Same
<1>4. ASSUME NEW t \in Thread, Wait(t) PROVE AvailableCount'
  BY <1>4, <1>a DEF Wait, Same
<1>5. ASSUME NEW t \in Thread, Sleep(t) PROVE AvailableCount'
  BY <1>5, <1>a DEF Sleep, Same
<1>6. ASSUME NEW t \in Thread, SpuriousWakeup(t) PROVE AvailableCount'
  BY <1>6, <1>a DEF SpuriousWakeup, Same
<1>7. ASSUME NEW t \in Thread, Exit(t) PROVE AvailableCount'
  BY <1>7, <1>a DEF Exit, Same
<1>8. ASSUME NEW t \in Thread, Take(t) PROVE AvailableCount'
  BY <1>8, <1>a DEF Take, Same
<1>9. ASSUME NEW t \in Thread, Begin(t) PROVE AvailableCount'
  <2>1. created
    BY <1>9 DEF Begin, CreatedInv
  <2>2. Cardinality(Idle(worker')) = Cardinality(Idle(worker)) - 1
    BY <1>9, IdleLeaves DEF Begin
  <2> QED
    BY <1>9, <2>1, <2>2 DEF Begin, AvailableCount, Idle
<1>10. ASSUME NEW t \in Thread, Finish(t) PROVE AvailableCount'
  <2>1. created
    BY <1>10 DEF Finish, CreatedInv
  <2>2. Cardinality(Idle(worker')) = Cardinality(Idle(worker)) + 1
    BY <1>10, IdleReturns DEF Finish
  <2> QED
    BY <1>10, <2>1, <2>2 DEF Finish, CountAfterJob, AvailableCount, Idle
<1>11. ASSUME NEW j \in Job, Push(j) PROVE AvailableCount'
  BY <1>11, <1>a DEF Push, Same
<1>12. ASSUME NEW j \in Job, Notify(j) PROVE AvailableCount'
  BY <1>12, <1>a, NotifiedTyped DEF Notify, Same
<1>13. CASE Destroy
  BY <1>13, <1>a DEF Destroy, Same
<1>14. CASE JoinManaging
  BY <1>14, <1>a DEF JoinManaging, Same
<1>15. CASE Close
  BY <1>15, <1>a DEF Close, Same
<1>16. CASE NotifyClosed
  BY <1>16, <1>a, NotifiedTyped DEF NotifyClosed, Same
<1>17. CASE JoinWorkers
  BY <1>17, <1>a DEF JoinWorkers, Same
<1>18. CASE Destruct
  BY <1>18, <1>a DEF Destruct, Same
<1>19. CASE UNCHANGED vars
  BY <1>19, <1>a DEF vars, Same
<1> QED
  BY <1>1, <1>2, <1>3, <1>4, <1>5, <1>6, <1>7, <1>8, <1>9, <1>10, <1>11, <1>12,
     <1>13, <1>14, <1>15, <1>16, <1>17, <1>18, <1>19
     DEF Next, WorkerStep, DestroySteps

(* What happens to a job on its way from a push through the stack and a    *)
(* worker.                                                                 *)
LEMMA StepOnce == PoolInv /\ [Next]_vars => EachJobOnce'
<1> SUFFICES ASSUME PoolInv, [Next]_vars PROVE EachJobOnce'
  OBVIOUS
<1> USE DEF EachJobOnce, Stacked, Held, PoolInv, TypeOK
<1>a. ASSUME UNCHANGED <<m_job_stack, job, done>>,
             \A j \in Job : client'[j] # "idle" <=> client[j] # "idle"
      PROVE  EachJobOnce'
  BY <1>a
<1>1. ASSUME NEW j \in Job, Push(j) PROVE EachJobOnce'
  <2> DEFINE n == Len(m_job_stack)
  <2>1. /\ n \in Nat
        /\ DOMAIN m_job_stack = 1..n
        /\ DOMAIN m_job_stack' = 1..(n + 1)
        /\ m_job_stack'[n + 1] = j
        /\ \A i \in 1..n : m_job_stack'[i] = m_job_stack[i]
    BY <1>1 DEF Push
  <2>2. client[j] = "idle" /\ client' = [client EXCEPT ![j] = "unlocked"]
    BY <1>1 DEF Push
  <2>3. UNCHANGED <<job, done>>
    BY <1>1 DEF Push, outside
  <2> HIDE DEF n
  <2>4. \A k \in Job : Stacked(k)' <=> Stacked(k) \/ k = j
    BY <2>1
  <2>5. \A i, k \in DOMAIN m_job_stack' :
          m_job_stack'[i] = m_job_stack'[k] => i = k
    BY <2>1, <2>2
  <2> QED
    BY <2>2, <2>3, <2>4, <2>5
<1>2. ASSUME NEW t \in Thread, Take(t) PROVE EachJobOnce'
  <2> DEFINE n == Len(m_job_stack)
             j == Top
  <2>1. n \in Nat \ {0} /\ DOMAIN m_job_stack = 1..n /\ j \in Job
    BY <1>2, PopTyped, EmptySeq, LenProperties DEF Take
  <2>2. /\ DOMAIN m_job_stack' = 1..(n - 1)
        /\ \A i \in 1..(n - 1) : m_job_stack'[i] = m_job_stack[i]
    BY <1>2, <2>1 DEF Take, AfterPop
  <2>3. job' = [job EXCEPT ![t] = j] /\ job[t] = NoJob
    BY <1>2 DEF Take, WaitInv, HeldInv
  <2>4. UNCHANGED <<client, done>>
    BY <1>2 DEF Take, outside
  <2>a. j = m_job_stack[n]
    BY DEF Top
  <2> HIDE DEF n, j
  <2>5. \A k \in Job : Stacked(k)' <=> Stacked(k) /\ k # j
    BY <2>1, <2>2, <2>a
  <2>6. \A k \in Job : Held(k)' <=> Held(k) \/ k = j
    BY <2>1, <2>3, PoolAssumption
  <2>7. Stacked(j)
    BY <2>1, <2>a
  <2>8. \A i, k \in DOMAIN m_job_stack' :
          m_job_stack'[i] = m_job_stack'[k] => i = k
    BY <2>1, <2>2
  <2>9. \A u, v \in Thread : job'[u] = job'[v] /\ job'[u] # NoJob => u = v
    BY <2>1, <2>3, <2>7
  <2> QED
    BY <2>1, <2>4, <2>5, <2>6, <2>7, <2>8, <2>9
<1>3. ASSUME NEW t \in Thread, Finish(t) PROVE EachJobOnce'
  <2>1. job[t] \in Job
    BY <1>3 DEF Finish, WaitInv, HeldInv
  <2>2. /\ UNCHANGED <<m_job_stack, client>>
        /\ job' = [job EXCEPT ![t] = NoJob]
        /\ done' = done \cup {job[t]}
    BY <1>3 DEF Finish
  <2>3. \A k \in Job : Held(k)' <=> Held(k) /\ k # job[t]
    BY <2>1, <2>2, PoolAssumption
  <2> QED
    BY <2>1, <2>2, <2>3
<1>4. ASSUME NEW j \in Job, Notify(j) PROVE EachJobOnce'
  BY <1>4, <1>a DEF Notify, queue
<1>5. ASSUME NEW t \in Thread,
             Spawn(t) \/ SpuriousWakeup(t) \/ Acquire(t) \/ Wait(t)
             \/ Sleep(t) \/ Exit(t) \/ Begin(t)
      PROVE  EachJobOnce'
  BY <1>5, <1>a
     DEF Spawn, SpuriousWakeup, Acquire, Wait, Sleep, Exit, Begin, queue,
         outside
<1>6. CASE Reserve \/ Destroy \/ DestroySteps \/ Destruct \/ UNCHANGED vars
  BY <1>6, <1>a
     DEF Reserve, Destroy, DestroySteps, JoinManaging, Close, NotifyClosed,
         JoinWorkers, Destruct, vars, queue, outside
<1> QED
  BY <1>1, <1>2, <1>3, <1>4, <1>5, <1>6 DEF Next, WorkerStep

LEMMA CountIsNat ==
  PoolInv /\ [Next]_vars => m_available_thread_count' \in Nat
<1> SUFFICES ASSUME PoolInv, [Next]_vars PROVE m_available_thread_count' \in Nat
  OBVIOUS
<1>1. CASE created'
  <2>1. m_available_thread_count' = Cardinality(Idle(worker'))
    BY <1>1, StepCount DEF AvailableCount, Idle
  <2> QED
    BY <2>1, IdleFinite
<1>2. CASE ~created'
  <2>1. UNCHANGED m_available_thread_count
    BY <1>2
       DEF Next, vars, queue, outside, WorkerStep, DestroySteps, PoolInv,
           WaitInv, CreatedInv, Reserve, Spawn, Acquire, Wait, Sleep,
           SpuriousWakeup, Exit, Take, Begin, Finish, Push, Notify, Destroy,
           JoinManaging, Close, NotifyClosed, JoinWorkers, Destruct
  <2> QED
    BY <2>1 DEF PoolInv, TypeOK
<1> QED
  BY <1>1, <1>2

LEMMA StepInv == PoolInv /\ [Next]_vars => PoolInv'
<1> SUFFICES ASSUME PoolInv, [Next]_vars PROVE PoolInv'
  OBVIOUS
<1>1. TypeOK'
  BY StepRest, CountIsNat DEF RestOK, TypeOK
<1> QED
  BY <1>1, StepLock, StepCount, StepOnce DEF PoolInv

THEOREM Invariance == Spec => []PoolInv
BY InitInv, StepInv, PTL DEF Spec

(* The state of the pool is always well formed; in particular the count of *)
(* available threads, a size_t, never wraps.                               *)
THEOREM TypeCorrect == Spec => []TypeOK
<1>1. PoolInv => TypeOK
  BY DEF PoolInv
<1> QED
  BY <1>1, Invariance, PTL

(* Whatever the number of workers, jobs and spurious wakeups, no worker    *)
(* sleeps through a job or through the closing of the pool                 *)
(* (thread_pool.cpp 44-48, 61-69, 77-81).                                  *)
THEOREM NoWakeupLost == Spec => []NoLostWakeup
<1>1. PoolInv => NoLostWakeup
  BY DEF PoolInv, WaitInv
<1> QED
  BY <1>1, Invariance, PTL

(* The count that push compares the stack with (64) is the number of       *)
(* workers that run no job, at every step between 92 and 107.              *)
THEOREM CountExact == Spec => []AvailableCount
<1>1. PoolInv => AvailableCount
  BY DEF PoolInv
<1> QED
  BY <1>1, Invariance, PTL

(* No job a running pool was given is dropped or runs twice (56-69,        *)
(* 83-107).                                                                *)
THEOREM NoJobTwice == Spec => []EachJobOnce
<1>1. PoolInv => EachJobOnce
  BY DEF PoolInv
<1> QED
  BY <1>1, Invariance, PTL

-----------------------------------------------------------------------------
(* The pool implements JobStack *)

Runs == {job[t] : t \in Thread} \ {NoJob}

LEMMA JobsInit == Init => Jobs!Init
<1> SUFFICES ASSUME Init PROVE Jobs!Init
  OBVIOUS
<1>1. Runs = {}
  BY DEF Init, Runs
<1> QED
  BY <1>1 DEF Init, Jobs!Init, Runs

(* A job is new to the stack when it is pushed: it is nowhere.             *)
LEMMA PushMaps ==
  ASSUME PoolInv, NEW j \in Job, Push(j)
  PROVE  Jobs!Push(j)
<1>1. ~Stacked(j) /\ ~Held(j) /\ j \notin done
  BY DEF Push, PoolInv, EachJobOnce
<1>2. j \notin Jobs!Waiting \cup Runs \cup done \cup {}
  BY <1>1 DEF Jobs!Waiting, Runs, Stacked, Held
<1> QED
  BY <1>2 DEF Push, Jobs!Push, Runs

(* The worker that takes a job had none, so the jobs with the workers are  *)
(* those they had and the new one.                                         *)
LEMMA TakeMaps ==
  ASSUME PoolInv, NEW t \in Thread, Take(t)
  PROVE  Jobs!Take
<1>1. /\ m_job_stack \in Seq(Job) /\ m_job_stack # << >>
      /\ job \in [Thread -> Job \cup {NoJob}] /\ job[t] = NoJob
  BY DEF Take, PoolInv, TypeOK, WaitInv, HeldInv
<1>2. Top \in Job /\ Top # NoJob
  BY <1>1, PopTyped, PoolAssumption
<1>3. job' = [job EXCEPT ![t] = Top]
  BY DEF Take
<1>4. Stacked(Top)
  BY <1>1, EmptySeq, LenProperties DEF Stacked, Top
<1>5. Top \notin Runs
  BY <1>2, <1>4 DEF PoolInv, EachJobOnce, Held, Runs
<1>6. Runs' = Runs \cup {Top}
  BY <1>1, <1>2, <1>3 DEF Runs
<1>7. m_job_stack' = SubSeq(m_job_stack, 1, Len(m_job_stack) - 1)
  BY DEF Take, AfterPop
<1> QED
  BY <1>1, <1>5, <1>6, <1>7 DEF Jobs!Take, Take, Runs, outside, Top

(* No other worker has the job that ends.                                  *)
LEMMA FinishMaps ==
  ASSUME PoolInv, NEW t \in Thread, Finish(t)
  PROVE  \E j \in Job : Jobs!Finish(j)
<1>1. job[t] \in Job /\ job \in [Thread -> Job \cup {NoJob}]
  BY DEF Finish, PoolInv, TypeOK, WaitInv, HeldInv
<1>2. job[t] \in Runs
  BY <1>1, PoolAssumption DEF Runs
<1>3. job' = [job EXCEPT ![t] = NoJob]
  BY DEF Finish
<1>4. \A u \in Thread : job[u] = job[t] => u = t
  BY <1>1, PoolAssumption DEF PoolInv, EachJobOnce
<1>5. Runs' = Runs \ {job[t]}
  BY <1>1, <1>3, <1>4 DEF Runs
<1> QED
  BY <1>1, <1>2, <1>5 DEF Jobs!Finish, Finish, Runs

LEMMA JobsStep == PoolInv /\ [Next]_vars => [Jobs!Next]_(Jobs!vars)
<1> SUFFICES ASSUME PoolInv, [Next]_vars PROVE [Jobs!Next]_(Jobs!vars)
  OBVIOUS
<1>1. ASSUME NEW j \in Job, Push(j) PROVE [Jobs!Next]_(Jobs!vars)
  BY <1>1, PushMaps DEF Jobs!Next
<1>2. ASSUME NEW t \in Thread, Take(t) PROVE [Jobs!Next]_(Jobs!vars)
  BY <1>2, TakeMaps DEF Jobs!Next
<1>3. ASSUME NEW t \in Thread, Finish(t) PROVE [Jobs!Next]_(Jobs!vars)
  BY <1>3, FinishMaps DEF Jobs!Next
<1>4. ASSUME UNCHANGED <<m_job_stack, job, done>> PROVE UNCHANGED Jobs!vars
  BY <1>4 DEF Jobs!vars
<1>5. ASSUME NEW j \in Job, Notify(j) PROVE UNCHANGED <<m_job_stack, job, done>>
  BY <1>5 DEF Notify, queue
<1>6. ASSUME NEW t \in Thread,
             Spawn(t) \/ SpuriousWakeup(t) \/ Acquire(t) \/ Wait(t)
             \/ Sleep(t) \/ Exit(t) \/ Begin(t)
      PROVE  UNCHANGED <<m_job_stack, job, done>>
  BY <1>6
     DEF Spawn, SpuriousWakeup, Acquire, Wait, Sleep, Exit, Begin, queue,
         outside
<1>7. ASSUME Reserve \/ Destroy \/ DestroySteps \/ Destruct \/ UNCHANGED vars
      PROVE  UNCHANGED <<m_job_stack, job, done>>
  BY <1>7
     DEF Reserve, Destroy, DestroySteps, JoinManaging, Close, NotifyClosed,
         JoinWorkers, Destruct, vars, queue, outside
<1> QED
  BY <1>1, <1>2, <1>3, <1>4, <1>5, <1>6, <1>7 DEF Next, WorkerStep

(* Whatever workers sleep, wake and compete, those who push see a stack of *)
(* jobs: the last pushed is the first run, and each ends once.             *)
THEOREM PoolIsJobStack == Spec => ImplementsJobs
BY JobsInit, JobsStep, Invariance, PTL DEF Spec, ImplementsJobs, Jobs!Spec

-----------------------------------------------------------------------------
(* The safety of destroy() *)

\* The workers destroy() joins: each will take the lock again, or runs a job
\* and will then, or has exited.
Joinable(t) == worker[t] \in {"lock", "locked", "took", "running", "exited"}

Joined == main \in {"destroyed", "gone"}

\* What each step of destroy() has behind it when the next one is taken.
DestroyInv ==
  /\ m_accept_jobs <=>
       main \in {"running", "join_managing", "close", "terminated"}
  /\ main \in {"close", "notify", "join_workers", "destroyed", "gone"} =>
       \A t \in Thread : worker[t] # "none"
  /\ Joined => \A t \in Thread : worker[t] = "exited"

LEMMA DestroyInit == Init => DestroyInv
BY DEF Init, DestroyInv, Joined

LEMMA DestroyStep == PoolInv /\ DestroyInv /\ [Next]_vars => DestroyInv'
<1> SUFFICES ASSUME PoolInv, DestroyInv, [Next]_vars PROVE DestroyInv'
  OBVIOUS
<1> USE DEF DestroyInv, Joined, PoolInv, TypeOK
<1>1. ASSUME NEW t \in Thread,
             Spawn(t) \/ SpuriousWakeup(t) \/ Acquire(t) \/ Wait(t)
             \/ Sleep(t) \/ Exit(t) \/ Take(t) \/ Begin(t) \/ Finish(t)
      PROVE  DestroyInv'
  BY <1>1
     DEF Spawn, SpuriousWakeup, Acquire, Wait, Sleep, Exit, Take, Begin,
         Finish, queue, outside
<1>2. ASSUME NEW j \in Job, Push(j) \/ Notify(j) PROVE DestroyInv'
  BY <1>2, NotifiedTyped DEF Push, Notify, queue
<1>3. CASE Reserve
  BY <1>3 DEF Reserve, outside
<1>4. CASE Destroy \/ JoinManaging \/ JoinWorkers
  BY <1>4 DEF Destroy, JoinManaging, JoinWorkers, queue
<1>5. CASE Close
  BY <1>5 DEF Close
<1>6. CASE NotifyClosed
  BY <1>6, NotifiedTyped DEF NotifyClosed, queue
<1>7. CASE Destruct
  BY <1>7 DEF Destruct, queue
<1>8. CASE UNCHANGED vars
  BY <1>8 DEF vars, queue, outside
<1> QED
  BY <1>1, <1>2, <1>3, <1>4, <1>5, <1>6, <1>7, <1>8
     DEF Next, WorkerStep, DestroySteps

THEOREM DestroyInvariance == Spec => []DestroyInv
BY DestroyInit, DestroyStep, Invariance, PTL DEF Spec

(* Once destroy() is joining the workers, none is asleep or about to sleep *)
(* and none can go to sleep again, so each join is one that returns when   *)
(* the jobs in progress do (thread_pool.cpp 42-53, 77-86).                 *)
THEOREM JoinsNobodyAsleep ==
  Spec => [](main = "join_workers" => \A t \in Thread : Joinable(t))
<1>1. PoolInv /\ DestroyInv =>
        (main = "join_workers" => \A t \in Thread : Joinable(t))
  BY DEF PoolInv, DestroyInv, TypeOK, WaitInv, LockInv, NoLostWakeup, Joinable,
     WorkerState
<1> QED
  BY <1>1, Invariance, DestroyInvariance, PTL

(* When destroy() has returned, and when the pool is gone, no worker is    *)
(* left that would touch it, no job is half done, and the count says that  *)
(* all are free (50-53, 103-107; main.cpp lets go of the pool only then).  *)
THEOREM NobodyLeftBehind ==
  Spec => [](Joined => /\ \A t \in Thread : worker[t] = "exited"
                       /\ \A j \in Job : ~Held(j)
                       /\ created => m_available_thread_count = Cardinality(Thread))
<1>1. ASSUME PoolInv, DestroyInv, Joined
      PROVE  /\ \A t \in Thread : worker[t] = "exited"
             /\ \A j \in Job : ~Held(j)
             /\ created => m_available_thread_count = Cardinality(Thread)
  <2>1. \A t \in Thread : worker[t] = "exited"
    BY <1>1 DEF DestroyInv
  <2>2. \A j \in Job : ~Held(j)
    BY <1>1, <2>1 DEF PoolInv, WaitInv, HeldInv, Held
  <2>3. {t \in Thread : worker[t] # "running"} = Thread
    BY <2>1
  <2> QED
    BY <1>1, <2>1, <2>2, <2>3 DEF PoolInv, AvailableCount
<1> QED
  BY <1>1, Invariance, DestroyInvariance, PTL
=============================================================================
