---------------------------- MODULE ScriptsProofs ----------------------------
(***************************************************************************)
(* Each job is run once and by one fiber, for any number of fibers and any *)
(* jobs.  EachJobOnce counts places and is not inductive: the invariant    *)
(* below says of each place what the history of its job is.                *)
(***************************************************************************)
EXTENDS Scripts, SequenceTheorems, FiniteSetTheorems, TLAPS

\* A job is on the stack at one place while it waits.
OnStack ==
  /\ \A i, k \in 1..Len(m_jobs) : m_jobs[i] = m_jobs[k] => i = k
  /\ \A i \in 1..Len(m_jobs) : status[m_jobs[i]] = "queued"
  /\ \A j \in Job : status[j] = "queued" => \E i \in 1..Len(m_jobs) : m_jobs[i] = j

\* It is with one fiber while it runs.
OnFiber ==
  /\ \A f, h \in Fiber : owner[f] = owner[h] /\ owner[f] # NoJob => f = h
  /\ \A f \in Fiber : owner[f] # NoJob => status[owner[f]] = "running"
  /\ \A j \in Job : status[j] = "running" => \E f \in Fiber : owner[f] = j

\* The game's thread is on the fiber of a script only within a tick.
OnTurn == active => turn # 0 /\ owner[turn] # NoJob

ScriptsInv == TypeOK /\ OnStack /\ OnFiber /\ OnTurn

LEMMA ScriptsInit == Init => ScriptsInv
<1> SUFFICES ASSUME Init PROVE ScriptsInv
  OBVIOUS
<1>1. TypeOK
  <2>1. m_jobs \in Seq(Job)
    BY EmptySeq DEF Init
  <2>2. active \in BOOLEAN /\ listed \in BOOLEAN
    BY DEF Init
  <2> QED
    BY <2>1, <2>2, ScriptsAssumption DEF Init, TypeOK, Fiber
<1>2. Len(m_jobs) = 0
  BY DEF Init
<1>3. OnStack /\ OnFiber /\ OnTurn
  BY <1>2 DEF Init, OnStack, OnFiber, OnTurn
<1> QED
  BY <1>1, <1>3 DEF ScriptsInv

(* The stack and the histories are left alone by all but four actions.     *)
LEMMA SameJobs ==
  ASSUME ScriptsInv, UNCHANGED <<m_jobs, owner, status>>
  PROVE  OnStack' /\ OnFiber'
BY DEF ScriptsInv, OnStack, OnFiber

LEMMA Indices ==
  ASSUME TypeOK
  PROVE  /\ m_jobs \in Seq(Job) /\ Len(m_jobs) \in Nat
         /\ \A i \in 1..Len(m_jobs) : m_jobs[i] \in Job
         /\ (m_jobs # << >>) => Len(m_jobs) >= 1
         /\ \A f \in Fiber : After(f) \in 0..Fibers
         /\ \A f \in Fiber : f # 0 /\ f \in 1..Fibers
         /\ Fibers \in Nat /\ Fibers >= 1 /\ NoJob \notin Job
         /\ turn # 0 => turn \in Fiber
BY ScriptsAssumption, LenProperties, ElementOfSeq, EmptySeq
   DEF TypeOK, After, Fiber

(* fiber_tick takes the last of the stack.                                 *)
LEMMA Popped ==
  ASSUME NEW S, NEW s \in Seq(S), Len(s) >= 1
  PROVE  /\ SubSeq(s, 1, Len(s) - 1) \in Seq(S)
         /\ Len(SubSeq(s, 1, Len(s) - 1)) = Len(s) - 1
         /\ \A i \in 1..(Len(s) - 1) : SubSeq(s, 1, Len(s) - 1)[i] = s[i]
<1>1. Len(s) \in Nat
  BY LenProperties
<1>2. PICK n \in Nat : n = Len(s) - 1
  BY <1>1
<1>3. n \in 0..Len(s) /\ 1 \in 1..(Len(s) + 1) /\ n \in (1 - 1)..Len(s)
  BY <1>1, <1>2
<1>4. /\ SubSeq(s, 1, n) \in Seq(S)
      /\ Len(SubSeq(s, 1, n)) = IF 1 <= n THEN n - 1 + 1 ELSE 0
      /\ \A i \in 1..(n - 1 + 1) : SubSeq(s, 1, n)[i] = s[1 + i - 1]
  BY <1>1, <1>3, SubSeqProperties
<1>5. \A i \in 1..n : i \in 1..(n - 1 + 1) /\ 1 + i - 1 = i
  BY <1>2
<1>6. Len(SubSeq(s, 1, n)) = n
  BY <1>2, <1>4
<1> QED
  BY <1>2, <1>4, <1>5, <1>6

LEMMA ScriptsStep == ScriptsInv /\ [Next]_vars => ScriptsInv'
<1> SUFFICES ASSUME ScriptsInv, [Next]_vars PROVE ScriptsInv'
  OBVIOUS
<1> USE DEF ScriptsInv
<1>0. /\ m_jobs \in Seq(Job) /\ Len(m_jobs) \in Nat
      /\ \A i \in 1..Len(m_jobs) : m_jobs[i] \in Job
      /\ (m_jobs # << >>) => Len(m_jobs) >= 1
      /\ \A f \in Fiber : After(f) \in 0..Fibers
      /\ \A f \in Fiber : f # 0 /\ f \in 1..Fibers
      /\ Fibers \in Nat /\ Fibers >= 1 /\ NoJob \notin Job
      /\ turn # 0 => turn \in Fiber
  BY Indices
<1>1. ASSUME NEW j \in Job, queue_job(j) PROVE ScriptsInv'
  <2>1. /\ m_jobs' \in Seq(Job) /\ Len(m_jobs') = Len(m_jobs) + 1
        /\ m_jobs'[Len(m_jobs) + 1] = j
        /\ \A i \in 1..Len(m_jobs) : m_jobs'[i] = m_jobs[i]
    BY <1>0, <1>1, AppendProperties DEF queue_job
  <2>2. /\ status[j] = "new" /\ status' = [status EXCEPT ![j] = "queued"]
        /\ UNCHANGED <<owner, nap, turn, active, listed, yields>>
    BY <1>1 DEF queue_job
  <2>3. TypeOK'
    BY <2>1, <2>2 DEF TypeOK
  <2>4. OnStack'
    <3>1. \A i \in 1..Len(m_jobs) : m_jobs[i] # j
      BY <2>2 DEF OnStack
    <3>2. \A i \in 1..Len(m_jobs') : i \in 1..Len(m_jobs) \/ i = Len(m_jobs) + 1
      BY <1>0, <2>1
    <3>3. \A i, k \in 1..Len(m_jobs') : m_jobs'[i] = m_jobs'[k] => i = k
      <4> SUFFICES ASSUME NEW i \in 1..Len(m_jobs'), NEW k \in 1..Len(m_jobs'),
                          m_jobs'[i] = m_jobs'[k]
                   PROVE  i = k
        OBVIOUS
      <4>1. CASE i \in 1..Len(m_jobs) /\ k \in 1..Len(m_jobs)
        BY <2>1, <4>1 DEF OnStack
      <4>2. CASE i = Len(m_jobs) + 1 \/ k = Len(m_jobs) + 1
        BY <1>0, <2>1, <3>1, <3>2, <4>2
      <4> QED
        BY <3>2, <4>1, <4>2
    <3>4. ASSUME NEW i \in 1..Len(m_jobs') PROVE status'[m_jobs'[i]] = "queued"
      <4>1. status'[j] = "queued" /\ \A h \in Job : h # j => status'[h] = status[h]
        BY <2>2 DEF TypeOK
      <4>2. CASE i \in 1..Len(m_jobs)
        BY <1>0, <2>1, <3>1, <4>1, <4>2 DEF OnStack
      <4>3. CASE i = Len(m_jobs) + 1
        BY <2>1, <4>1, <4>3
      <4> QED
        BY <3>2, <4>2, <4>3
    <3>5. \A h \in Job : status'[h] = "queued" =>
            \E i \in 1..Len(m_jobs') : m_jobs'[i] = h
      <4> SUFFICES ASSUME NEW h \in Job, status'[h] = "queued"
                   PROVE  \E i \in 1..Len(m_jobs') : m_jobs'[i] = h
        OBVIOUS
      <4>1. CASE h = j
        BY <1>0, <2>1, <4>1
      <4>2. CASE h # j
        <5>1. status[h] = "queued"
          BY <2>2, <4>2 DEF TypeOK
        <5>2. PICK i \in 1..Len(m_jobs) : m_jobs[i] = h
          BY <5>1 DEF OnStack
        <5> QED
          BY <1>0, <2>1, <5>2
      <4> QED BY <4>1, <4>2
    <3> QED
      BY <3>3, <3>4, <3>5 DEF OnStack
  <2>5. OnFiber' /\ OnTurn'
    BY <2>2 DEF OnFiber, OnTurn, TypeOK
  <2> QED
    BY <2>3, <2>4, <2>5
<1>2. CASE reset
  <2>1. m_jobs' \in Seq(Job) /\ Len(m_jobs') = 0
    BY <1>2, EmptySeq DEF reset
  <2>2. /\ status' = [j \in Job |-> IF status[j] = "queued" THEN "dropped"
                                    ELSE status[j]]
        /\ UNCHANGED <<owner, nap, turn, active, listed, yields>>
    BY <1>2 DEF reset
  <2>3. TypeOK'
    BY <2>1, <2>2 DEF TypeOK
  <2>4. OnStack' /\ OnFiber' /\ OnTurn'
    BY <2>1, <2>2 DEF OnStack, OnFiber, OnTurn, TypeOK
  <2> QED
    BY <2>3, <2>4
<1>3. CASE BeginTick \/ Skip \/ Idle
  <2>1. /\ UNCHANGED <<m_jobs, owner, nap, active, listed, status, yields>>
        /\ turn' \in 0..Fibers /\ (~active \/ turn = 0)
    BY <1>0, <1>3 DEF BeginTick, Skip, Idle, Awake, Fiber
  <2>2. ~active /\ turn' \in 0..Fibers
    BY <1>0, <1>3, <2>1 DEF BeginTick, Skip, Idle, Awake, OnTurn
  <2> QED
    BY <2>1, <2>2, SameJobs DEF TypeOK, OnTurn
<1>4. CASE Resume
  <2>1. active' \in BOOLEAN
    BY <1>4 DEF Resume
  <2> QED
    BY <1>4, <2>1, SameJobs DEF Resume, Awake, TypeOK, OnTurn
<1>5. CASE Take
  <2> DEFINE top == m_jobs[Len(m_jobs)]
  <2>1. /\ turn \in Fiber /\ turn # 0 /\ owner[turn] = NoJob /\ m_jobs # << >>
        /\ m_jobs' = SubSeq(m_jobs, 1, Len(m_jobs) - 1)
        /\ owner' = [owner EXCEPT ![turn] = top]
        /\ status' = [status EXCEPT ![top] = "running"]
        /\ active' = TRUE
        /\ UNCHANGED <<nap, turn, listed, yields>>
    BY <1>0, <1>5 DEF Take, Awake, AfterTake
  <2>2. top \in Job /\ status[top] = "queued" /\ Len(m_jobs) >= 1
    BY <1>0, <2>1 DEF OnStack
  <2>3. /\ m_jobs' \in Seq(Job) /\ Len(m_jobs') = Len(m_jobs) - 1
        /\ \A i \in 1..Len(m_jobs') : m_jobs'[i] = m_jobs[i]
    BY <1>0, <2>1, <2>2, Popped
  <2> HIDE DEF top
  <2>4. TypeOK'
    <3>1. active' \in BOOLEAN
      BY <2>1
    <3>2. owner' \in [Fiber -> Job \cup {NoJob}]
      BY <2>1, <2>2 DEF TypeOK
    <3>3. status' \in [Job -> {"new", "queued", "running", "done", "dropped"}]
      BY <2>1, <2>2 DEF TypeOK
    <3> QED
      BY <2>1, <2>3, <3>1, <3>2, <3>3 DEF TypeOK
  <2>5. OnStack'
    <3>1. \A i \in 1..Len(m_jobs') : m_jobs[i] # top
      BY <1>0, <2>2, <2>3 DEF OnStack, top
    <3>2. \A i \in 1..Len(m_jobs) : i # Len(m_jobs) => i \in 1..Len(m_jobs')
      BY <1>0, <2>3
    <3>3. \A i, k \in 1..Len(m_jobs') : m_jobs'[i] = m_jobs'[k] => i = k
      BY <1>0, <2>3 DEF OnStack
    <3>4. \A i \in 1..Len(m_jobs') : status'[m_jobs'[i]] = "queued"
      <4>1. ASSUME NEW i \in 1..Len(m_jobs')
            PROVE  status'[m_jobs'[i]] = "queued"
        <5>1. i \in 1..Len(m_jobs) /\ m_jobs'[i] = m_jobs[i]
          BY <1>0, <2>2, <2>3
        <5>2. m_jobs[i] \in Job /\ status[m_jobs[i]] = "queued"
          BY <1>0, <5>1 DEF OnStack
        <5>3. m_jobs[i] # top
          BY <3>1
        <5> QED
          BY <1>0, <2>1, <5>1, <5>2, <5>3 DEF TypeOK
      <4> QED BY <4>1
    <3>5. ASSUME NEW h \in Job, status'[h] = "queued"
          PROVE  \E i \in 1..Len(m_jobs') : m_jobs'[i] = h
      <4>1. h # top /\ status[h] = "queued"
        BY <2>1, <2>2, <3>5 DEF TypeOK
      <4>2. PICK i \in 1..Len(m_jobs) : m_jobs[i] = h
        BY <4>1 DEF OnStack
      <4>3. i # Len(m_jobs)
        BY <4>1, <4>2 DEF top
      <4> QED
        BY <2>3, <3>2, <4>2, <4>3
    <3> QED
      BY <3>3, <3>4, <3>5 DEF OnStack
  <2>6. OnFiber'
    BY <1>0, <2>1, <2>2 DEF OnFiber, TypeOK
  <2>7. OnTurn'
    BY <1>0, <2>1, <2>2 DEF OnTurn, TypeOK
  <2> QED
    BY <2>4, <2>5, <2>6, <2>7
<1>6. ASSUME NEW t \in 0..MaxNap, yield(t) PROVE ScriptsInv'
  <2>1. /\ active /\ active' = FALSE /\ turn' = After(turn)
        /\ nap' = [nap EXCEPT ![turn] = t]
        /\ UNCHANGED <<m_jobs, owner, listed, status>>
    BY <1>6 DEF yield
  <2>2. turn \in Fiber /\ owner[turn] \in Job
    BY <1>0, <2>1 DEF OnTurn, TypeOK
  <2>3. yields' \in [Job -> 0..MaxYields]
    BY <1>6, <2>2, ScriptsAssumption DEF yield, TypeOK
  <2>4. nap' \in [Fiber -> 0..MaxNap] /\ active' \in BOOLEAN /\ turn' \in 0..Fibers
    BY <1>0, <2>1, <2>2 DEF TypeOK
  <2> QED
    BY <2>1, <2>3, <2>4, SameJobs DEF TypeOK, OnTurn
<1>7. CASE Finish
  <2>1. /\ active /\ active' = FALSE /\ turn' = After(turn)
        /\ owner' = [owner EXCEPT ![turn] = NoJob]
        /\ status' = [status EXCEPT ![owner[turn]] = "done"]
        /\ UNCHANGED <<m_jobs, nap, listed, yields>>
    BY <1>7 DEF Finish
  <2>2. turn \in Fiber /\ owner[turn] \in Job /\ status[owner[turn]] = "running"
    BY <1>0, <2>1 DEF OnTurn, OnFiber, TypeOK
  <2>3. TypeOK'
    <3>1. active' \in BOOLEAN /\ turn' \in 0..Fibers
      BY <1>0, <2>1, <2>2
    <3> QED
      BY <2>1, <2>2, <3>1 DEF TypeOK
  <2>4. OnStack'
    BY <1>0, <2>1, <2>2 DEF OnStack, TypeOK
  <2>5. OnFiber'
    BY <1>0, <2>1, <2>2 DEF OnFiber, TypeOK
  <2>6. OnTurn'
    BY <2>1 DEF OnTurn
  <2> QED
    BY <2>3, <2>4, <2>5, <2>6
<1>8. CASE Clock
  <2>1. nap' \in [Fiber -> 0..MaxNap]
    BY <1>8, ScriptsAssumption DEF Clock, TypeOK
  <2> QED
    BY <1>8, <2>1, SameJobs DEF Clock, TypeOK, OnTurn
<1>9. CASE remove_all_scripts
  <2>1. /\ turn = 0 /\ listed' = FALSE
        /\ owner' = [f \in Fiber |-> NoJob] /\ nap' = [f \in Fiber |-> 0]
        /\ status' = [j \in Job |-> IF \E f \in Fiber : owner[f] = j
                                    THEN "dropped" ELSE status[j]]
        /\ UNCHANGED <<m_jobs, turn, active, yields>>
    BY <1>9 DEF remove_all_scripts, MayRemove
  <2>2. TypeOK'
    <3>1. listed' \in BOOLEAN
      BY <2>1
    <3>2. nap' \in [Fiber -> 0..MaxNap]
      BY <2>1, ScriptsAssumption
    <3> QED
      BY <2>1, <3>1, <3>2 DEF TypeOK
  <2>3. OnStack'
    <3>1. \A j \in Job : status[j] = "queued" <=> status'[j] = "queued"
      BY <1>0, <2>1 DEF OnFiber, TypeOK
    <3> QED
      BY <1>0, <2>1, <3>1 DEF OnStack
  <2>4. OnFiber' /\ OnTurn'
    BY <1>0, <2>1 DEF OnFiber, OnTurn, TypeOK
  <2> QED
    BY <2>2, <2>3, <2>4
<1>10. CASE UNCHANGED vars
  BY <1>10, SameJobs DEF vars, TypeOK, OnTurn
<1> QED
  BY <1>1, <1>2, <1>3, <1>4, <1>5, <1>6, <1>7, <1>8, <1>9, <1>10
     DEF Next, GameThread

(* Nothing leaves the types, the stack a sequence of jobs.                 *)
THEOREM ScriptsTypeCorrect == FairSpec => []TypeOK
<1>1. ScriptsInv => TypeOK
  BY DEF ScriptsInv
<1> QED
  BY <1>1, ScriptsInit, ScriptsStep, PTL DEF FairSpec, Spec

(* A set all of whose members are one has one member, or none.             *)
LEMMA AtMostOne ==
  ASSUME NEW S, \A x, y \in S : x = y
  PROVE  Cardinality(S) = IF S = {} THEN 0 ELSE 1
<1>1. CASE S = {}
  BY <1>1, FS_EmptySet
<1>2. CASE S # {}
  <2>1. PICK x \in S : S = {x}
    BY <1>2
  <2> QED
    BY <1>2, <2>1, FS_Singleton
<1> QED BY <1>1, <1>2

(* A job has one place as long as it waits or runs, whatever is queued,    *)
(* cleared or removed meanwhile.                                           *)
THEOREM JobsAreRunOnce == FairSpec => []EachJobOnce
<1>1. ScriptsInv => EachJobOnce
  <2> SUFFICES ASSUME ScriptsInv PROVE EachJobOnce
    OBVIOUS
  <2>1. TypeOK /\ OnStack /\ OnFiber /\ OnTurn
    BY DEF ScriptsInv
  <2>2. ASSUME NEW j \in Job
        PROVE  Places(j) = IF status[j] \in {"queued", "running"} THEN 1 ELSE 0
    <3> DEFINE I == {i \in DOMAIN m_jobs : m_jobs[i] = j}
               F == {f \in Fiber : owner[f] = j}
    <3>1. DOMAIN m_jobs = 1..Len(m_jobs) /\ j # NoJob
      BY <2>1, LenProperties, ScriptsAssumption DEF TypeOK
    <3>2. Cardinality(I) = IF status[j] = "queued" THEN 1 ELSE 0
      <4>1. \A x, y \in I : x = y
        BY <2>1, <3>1 DEF OnStack
      <4>2. I = {} <=> status[j] # "queued"
        BY <2>1, <3>1 DEF OnStack
      <4> HIDE DEF I
      <4> QED
        BY <4>1, <4>2, AtMostOne
    <3>3. Cardinality(F) = IF status[j] = "running" THEN 1 ELSE 0
      <4>1. \A x, y \in F : x = y
        BY <2>1, <3>1 DEF OnFiber
      <4>2. F = {} <=> status[j] # "running"
        BY <2>1, <3>1 DEF OnFiber
      <4> HIDE DEF F
      <4> QED
        BY <4>1, <4>2, AtMostOne
    <3>4. Places(j) = Cardinality(I) + Cardinality(F)
      BY DEF Places
    <3> HIDE DEF I, F
    <3> QED
      BY <3>2, <3>3, <3>4
  <2> QED
    BY <2>1, <2>2 DEF EachJobOnce, OnTurn
<1> QED
  BY <1>1, ScriptsInit, ScriptsStep, PTL DEF FairSpec, Spec

-----------------------------------------------------------------------------
(* The fiber pool implements JobStack *)

Became(what) == {j \in Job : status[j] = what}

LEMMA JobsInit == Init => Jobs!Init
BY DEF Init, Jobs!Init

(* The jobs that wait are those whose history says so.                     *)
LEMMA WaitingQueued ==
  ASSUME ScriptsInv
  PROVE  Jobs!Waiting = Became("queued")
<1>1. DOMAIN m_jobs = 1..Len(m_jobs) /\ \A i \in 1..Len(m_jobs) : m_jobs[i] \in Job
  BY LenProperties, ElementOfSeq DEF ScriptsInv, TypeOK
<1>2. Jobs!Waiting = {m_jobs[i] : i \in 1..Len(m_jobs)}
  BY <1>1 DEF Jobs!Waiting
<1> QED
  BY <1>1, <1>2 DEF ScriptsInv, OnStack, Became

LEMMA QueueMaps ==
  ASSUME ScriptsInv, NEW j \in Job, queue_job(j)
  PROVE  Jobs!Push(j)
<1>1. status \in [Job -> {"new", "queued", "running", "done", "dropped"}]
  BY DEF ScriptsInv, TypeOK
<1>2. j \notin Jobs!Waiting \cup Became("running") \cup Became("done")
                \cup Became("dropped")
  BY WaitingQueued DEF queue_job, Became
<1>3. \A what \in {"running", "done", "dropped"} : Became(what)' = Became(what)
  BY <1>1 DEF queue_job, Became
<1> QED
  BY <1>2, <1>3 DEF queue_job, Jobs!Push, Became

(* Clearing the stack drops the jobs on it and no other.                   *)
LEMMA ResetMaps ==
  ASSUME ScriptsInv, reset
  PROVE  Jobs!Clear
<1>1. status \in [Job -> {"new", "queued", "running", "done", "dropped"}]
  BY DEF ScriptsInv, TypeOK
<1>2. Became("running")' = Became("running") /\ Became("done")' = Became("done")
  BY <1>1 DEF reset, Became
<1>3. Became("dropped")' = Became("dropped") \cup Jobs!Waiting
  BY <1>1, WaitingQueued DEF reset, Became
<1> QED
  BY <1>2, <1>3 DEF reset, Jobs!Clear, Became

LEMMA TakeMaps ==
  ASSUME ScriptsInv, Take
  PROVE  Jobs!Take
<1> DEFINE top == m_jobs[Len(m_jobs)]
<1>1. status \in [Job -> {"new", "queued", "running", "done", "dropped"}]
  BY DEF ScriptsInv, TypeOK
<1>2. m_jobs # << >> /\ m_jobs' = SubSeq(m_jobs, 1, Len(m_jobs) - 1)
  BY DEF Take, AfterTake
<1>3. top \in Job /\ status[top] = "queued"
  BY <1>2, Indices DEF ScriptsInv, OnStack
<1>4. status' = [status EXCEPT ![top] = "running"]
  BY DEF Take
<1> HIDE DEF top
<1>5. /\ top \notin Became("running")
      /\ Became("running")' = Became("running") \cup {top}
      /\ Became("done")' = Became("done") /\ Became("dropped")' = Became("dropped")
  BY <1>1, <1>3, <1>4 DEF Became
<1> QED
  BY <1>2, <1>5 DEF Jobs!Take, Became, top

LEMMA FinishMaps ==
  ASSUME ScriptsInv, Finish
  PROVE  \E j \in Job : Jobs!Finish(j)
<1>1. status \in [Job -> {"new", "queued", "running", "done", "dropped"}]
  BY DEF ScriptsInv, TypeOK
<1>2. PICK j \in Job : j = owner[turn] /\ status[j] = "running"
  BY Indices DEF Finish, ScriptsInv, TypeOK, OnTurn, OnFiber
<1>3. status' = [status EXCEPT ![j] = "done"] /\ m_jobs' = m_jobs
  BY <1>2 DEF Finish
<1>4. /\ j \in Became("running")
      /\ Became("running")' = Became("running") \ {j}
      /\ Became("done")' = Became("done") \cup {j}
      /\ Became("dropped")' = Became("dropped")
  BY <1>1, <1>2, <1>3 DEF Became
<1> QED
  BY <1>3, <1>4 DEF Jobs!Finish, Became

(* Removing the scripts drops the jobs that run, each being on a fiber.    *)
LEMMA RemoveMaps ==
  ASSUME ScriptsInv, remove_all_scripts
  PROVE  Jobs!Abandon
<1>1. status \in [Job -> {"new", "queued", "running", "done", "dropped"}]
  BY DEF ScriptsInv, TypeOK
<1>2. \A j \in Job : (\E f \in Fiber : owner[f] = j) <=> status[j] = "running"
  BY ScriptsAssumption DEF ScriptsInv, OnFiber
<1>3. status' = [j \in Job |-> IF status[j] = "running" THEN "dropped"
                              ELSE status[j]]
  BY <1>2 DEF remove_all_scripts
<1>4. /\ Became("running")' = {} /\ Became("done")' = Became("done")
      /\ Became("dropped")' = Became("dropped") \cup Became("running")
  BY <1>1, <1>3 DEF Became
<1> QED
  BY <1>4 DEF remove_all_scripts, Jobs!Abandon, Became

LEMMA JobsStep == ScriptsInv /\ [Next]_vars => [Jobs!Next]_(Jobs!vars)
<1> SUFFICES ASSUME ScriptsInv, [Next]_vars PROVE [Jobs!Next]_(Jobs!vars)
  OBVIOUS
<1>1. ASSUME NEW j \in Job, queue_job(j) PROVE [Jobs!Next]_(Jobs!vars)
  BY <1>1, QueueMaps DEF Jobs!Next
<1>2. CASE reset
  BY <1>2, ResetMaps DEF Jobs!Next
<1>3. CASE Take
  BY <1>3, TakeMaps DEF Jobs!Next
<1>4. CASE Finish
  BY <1>4, FinishMaps DEF Jobs!Next
<1>5. CASE remove_all_scripts
  BY <1>5, RemoveMaps DEF Jobs!Next
<1>6. ASSUME NEW t \in 0..MaxNap, yield(t) PROVE UNCHANGED <<m_jobs, status>>
  BY <1>6 DEF yield
<1>7. ASSUME BeginTick \/ Skip \/ Idle \/ Resume \/ Clock \/ UNCHANGED vars
      PROVE  UNCHANGED <<m_jobs, status>>
  BY <1>7 DEF BeginTick, Skip, Idle, Resume, Clock, vars
<1>8. ASSUME UNCHANGED <<m_jobs, status>> PROVE UNCHANGED Jobs!vars
  BY <1>8 DEF Jobs!vars
<1> QED
  BY <1>1, <1>2, <1>3, <1>4, <1>5, <1>6, <1>7, <1>8 DEF Next, GameThread

(* However jobs sleep on their fibers, are cleared or removed with them,   *)
(* those who queue see a stack of jobs that end once.                      *)
THEOREM PoolIsJobStack == FairSpec => ImplementsJobs
BY JobsInit, JobsStep, ScriptsInit, ScriptsStep, PTL
   DEF FairSpec, Spec, ImplementsJobs, Jobs!Spec
=============================================================================
