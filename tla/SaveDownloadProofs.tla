-------------------------- MODULE SaveDownloadProofs --------------------------
(***************************************************************************)
(* Proofs about SaveDownload for any set of slots.  DownloadInv is the     *)
(* inductive invariant: TypeOK, where in an operation each flag can be up, *)
(* what the swap of the save buffer has changed while pso_loaded is up,    *)
(* and what the latch and the skip patch say about the process' past.      *)
(***************************************************************************)
EXTENDS SaveDownload, TLAPS

\* While pso_loaded is up, and only then, the buffer is swapped.
SwapInv ==
  /\ pso_loaded =>
       /\ ~json_loaded
       /\ op.state \in {2, 3}
       /\ op.buffer = PsoBuffer
       /\ pso_buffer = op.slot /\ og_buffer = op.slot
       /\ decrypt_patch
  /\ ~pso_loaded =>
       /\ op.buffer = op.slot
       /\ pso_buffer = NoSlot
       /\ ~decrypt_patch

\* A flag is up only in an operation that went through state 1.
PhaseInv ==
  /\ json_loaded => op.state = 3
  /\ op.state \in {2, 3} => tried_loading
  /\ op.state \in {1, 2} => op.error = 0 /\ ~op.successful
  /\ op.state \in {0, 3} /\ op.successful => op.error = 0
  /\ op.state = NoOperation => ~op.successful /\ op.slot = NoSlot

\* Once the profile stats may come, the latch is stuck and nothing local is
\* ever loaded again; once json was loaded, every later try loads it again.
PastInv ==
  /\ ~skip_patch \/ synced => tried_loading /\ ~json_loaded /\ ~pso_loaded
  /\ (json_loaded \/ \E s \in Slot : got[s] = "json") =>
       default_json = "ok" /\ skip_patch /\ ~synced
  /\ (\E s \in Slot : got[s] = "json") /\ tried_loading => json_loaded

DownloadInv == TypeOK /\ SwapInv /\ PhaseInv /\ PastInv /\ SuccessHasSource

-----------------------------------------------------------------------------
(* A process starts in the invariant.                                      *)
LEMMA InitInv == Init => DownloadInv
<1> SUFFICES ASSUME Init PROVE DownloadInv
  OBVIOUS
<1>1. op \in Operation /\ op.state = 0 /\ ~op.successful /\ op.buffer = op.slot
      /\ op.slot = NoSlot
  BY DEF Init, NoOp, Operation, NoOperation, Pending
<1>2. got \in [Slot -> Source] /\ ~ \E s \in Slot : got[s] = "json"
  BY DEF Init, Source
<1>3. TypeOK
  BY <1>1, <1>2 DEF Init, TypeOK, NoOperation
<1> QED
  BY <1>1, <1>2, <1>3 DEF Init, DownloadInv, SwapInv, PhaseInv, PastInv,
     SuccessHasSource, NoOperation, Done

(* A restart puts the process back into the invariant.                     *)
LEMMA RestartInv == Restart => DownloadInv'
<1> SUFFICES ASSUME Restart PROVE DownloadInv'
  OBVIOUS
<1>1. /\ op' \in Operation
      /\ op'.state = 0 /\ ~op'.successful /\ op'.buffer = op'.slot
      /\ op'.slot = NoSlot
  BY DEF Restart, NoOp, Operation, NoOperation, Pending
<1>2. got' \in [Slot -> Source] /\ ~ \E s \in Slot : got'[s] = "json"
  BY DEF Restart, Source
<1>3. TypeOK'
  BY <1>1, <1>2 DEF Restart, TypeOK, NoOperation
<1> QED
  BY <1>1, <1>2, <1>3 DEF Restart, DownloadInv, SwapInv, PhaseInv, PastInv,
     SuccessHasSource, NoOperation, Done

\* The operation keeps everything but its state, status and error.
SameLoad ==
  /\ op' \in Operation
  /\ op'.slot = op.slot /\ op'.buffer = op.buffer
  /\ op'.successful = op.successful

(* Setting the state of an operation leaves its other fields alone.        *)
LEMMA SetState ==
  ASSUME NEW o \in Operation, NEW v \in 0..4,
         NEW r, r = [o EXCEPT !.state = v]
  PROVE  /\ r \in Operation
         /\ r.state = v
         /\ r.slot = o.slot
         /\ r.status = o.status
         /\ r.buffer = o.buffer
         /\ r.successful = o.successful
         /\ r.error = o.error
  BY DEF Operation

(* Setting the buffer of an operation leaves its other fields alone.       *)
LEMMA SetBuffer ==
  ASSUME NEW o \in Operation, NEW v \in Slot \cup {NoSlot, PsoBuffer},
         NEW r, r = [o EXCEPT !.buffer = v]
  PROVE  /\ r \in Operation
         /\ r.buffer = v
         /\ r.slot = o.slot
         /\ r.state = o.state
         /\ r.status = o.status
         /\ r.successful = o.successful
         /\ r.error = o.error
  BY DEF Operation

(* Setting the status of an operation leaves its other fields alone.       *)
LEMMA SetStatus ==
  ASSUME NEW o \in Operation, NEW v \in 1..3,
         NEW r, r = [o EXCEPT !.status = v]
  PROVE  /\ r \in Operation
         /\ r.status = v
         /\ r.slot = o.slot
         /\ r.state = o.state
         /\ r.buffer = o.buffer
         /\ r.successful = o.successful
         /\ r.error = o.error
  BY DEF Operation

(* Setting the outcome of an operation leaves its other fields alone.      *)
LEMMA SetSuccessful ==
  ASSUME NEW o \in Operation, NEW r, r = [o EXCEPT !.successful = TRUE]
  PROVE  /\ r \in Operation
         /\ r.successful
         /\ r.slot = o.slot
         /\ r.state = o.state
         /\ r.status = o.status
         /\ r.buffer = o.buffer
         /\ r.error = o.error
  BY DEF Operation

(* Setting the error of an operation leaves its other fields alone.        *)
LEMMA SetError ==
  ASSUME NEW o \in Operation, NEW v \in {0, 1},
         NEW r, r = [o EXCEPT !.error = v]
  PROVE  /\ r \in Operation
         /\ r.error = v
         /\ r.slot = o.slot
         /\ r.state = o.state
         /\ r.status = o.status
         /\ r.buffer = o.buffer
         /\ r.successful = o.successful
  BY DEF Operation

(* What the game's process_load makes of an operation in state 1: it waits,*)
(* fails or goes on to parse, and touches no other field than the error.   *)
LEMMA DownloadedFields ==
  ASSUME NEW o \in Operation, o.state = 1, o.error = 0
  PROVE  /\ Downloaded(o) \in Operation
         /\ Downloaded(o).slot = o.slot
         /\ Downloaded(o).buffer = o.buffer
         /\ Downloaded(o).successful = o.successful
         /\ Downloaded(o).state \in 1..3
         /\ Downloaded(o).state = 3 <=> o.status = Failed
         /\ Downloaded(o).state = 2 <=> o.status = Arrived
         /\ Downloaded(o).state \in {1, 2} => Downloaded(o).error = 0
<1>1. CASE o.status = Pending
  BY <1>1 DEF Downloaded, Operation, Pending, Failed, Arrived
<1>2. CASE o.status = Failed
  <2> DEFINE e == [o EXCEPT !.state = 3]
  <2>1. Downloaded(o) = [e EXCEPT !.error = 1]
    BY <1>2 DEF Downloaded, Pending, Failed, Arrived
  <2>2. e \in Operation /\ e.slot = o.slot /\ e.buffer = o.buffer
        /\ e.successful = o.successful /\ e.state = 3
    BY SetState
  <2> HIDE DEF e
  <2> QED
    BY <1>2, <2>1, <2>2, SetError DEF Failed, Arrived
<1>3. CASE o.status = Arrived
  BY <1>3 DEF Downloaded, Operation, Pending, Failed, Arrived
<1>4. o.status \in 1..3
  BY DEF Operation
<1> QED
  BY <1>1, <1>2, <1>3, <1>4 DEF Pending, Failed, Arrived

(* What the last call of the hook makes of an operation: the game has its  *)
(* own buffer back, and with a local save a success without an error.      *)
LEMMA FinishedOperation ==
  ASSUME DownloadInv, Finish
  PROVE  /\ op' \in Operation
         /\ op'.slot = op.slot /\ op'.buffer = op.slot
         /\ op'.state = Done
         /\ json_loaded \/ pso_loaded => op'.error = 0 /\ op'.successful
         /\ ~json_loaded /\ ~pso_loaded =>
              op'.error = op.error /\ op'.successful = op.successful
<1> USE DEF NoOperation, Done
<1>0. op \in Operation /\ op.state = 3 /\ op.slot \in Slot
  BY DEF Finish, DownloadInv, TypeOK
<1>1. CASE json_loaded \/ pso_loaded
  <2> DEFINE back  == IF pso_loaded THEN [op EXCEPT !.buffer = og_buffer]
                      ELSE op
             clear == [back EXCEPT !.error = 0]
             final == [clear EXCEPT !.successful = TRUE]
  <2>1. op' = [final EXCEPT !.state = Done]
    BY <1>1 DEF Finish, MarkSuccessful, RestoreBuffer
  <2>2. back \in Operation /\ back.slot = op.slot /\ back.buffer = op.slot
    <3>1. CASE pso_loaded
      BY <1>0, <3>1, SetBuffer DEF DownloadInv, SwapInv
    <3>2. CASE ~pso_loaded
      BY <1>0, <3>2 DEF DownloadInv, SwapInv
    <3> QED BY <3>1, <3>2
  <2> HIDE DEF back
  <2>3. clear \in Operation /\ clear.slot = op.slot
        /\ clear.buffer = op.slot /\ clear.error = 0
    BY <2>2, SetError
  <2> HIDE DEF clear
  <2>4. final \in Operation /\ final.slot = op.slot /\ final.buffer = op.slot
        /\ final.error = 0 /\ final.successful
    BY <2>3, SetSuccessful
  <2> HIDE DEF final
  <2> QED
    BY <1>1, <2>1, <2>4, SetState
<1>2. CASE ~json_loaded /\ ~pso_loaded
  <2>1. op' = [op EXCEPT !.state = Done]
    BY <1>2, <1>0 DEF Finish, MarkSuccessful, RestoreBuffer
  <2>2. op.buffer = op.slot
    BY <1>2 DEF DownloadInv, SwapInv
  <2> QED
    BY <1>0, <1>2, <2>1, <2>2, SetState
<1> QED BY <1>1, <1>2

(* No step of the hook, the game or the user leaves the invariant.         *)
LEMMA StepInv == DownloadInv /\ [Next]_vars => DownloadInv'
<1> SUFFICES ASSUME DownloadInv, [Next]_vars PROVE DownloadInv'
  OBVIOUS
<1> USE SlotAssumption DEF NoOperation, Failed, Arrived, Done
<1>0. op \in Operation /\ (op.state # 0 => op.slot \in Slot)
  BY DEF DownloadInv, TypeOK
<1>1. ASSUME NEW s \in Slot, StartOperation(s) PROVE DownloadInv'
  <2>1. op' \in Operation /\ op'.slot = s /\ op'.state = 1 /\ op'.buffer = s
        /\ ~op'.successful /\ op'.error = 0
    BY <1>1 DEF StartOperation, Operation, Pending
  <2>2. op.state = 0 /\ ~json_loaded /\ ~pso_loaded
    BY <1>1 DEF StartOperation, DownloadInv, SwapInv, PhaseInv
  <2> QED
    BY <1>1, <2>1, <2>2 DEF StartOperation, DownloadInv, TypeOK, SwapInv,
       PhaseInv, PastInv, SuccessHasSource, settings, flags, buffers
<1>2. CASE CloudAnswer
  <2>1. SameLoad /\ op'.state = op.state /\ op'.error = op.error
    BY <1>0, <1>2 DEF CloudAnswer, SameLoad, Operation
  <2> QED
    BY <1>2, <2>1 DEF SameLoad, CloudAnswer, DownloadInv, TypeOK, SwapInv,
       PhaseInv, PastInv, SuccessHasSource, settings, flags, buffers
<1>3. CASE AlreadyTried
  <2>1. op.state = 1 /\ op.error = 0 /\ ~op.successful /\ op' = Downloaded(op)
    BY <1>3 DEF AlreadyTried, DownloadInv, PhaseInv
  <2>2. SameLoad /\ op'.state \in 1..3
        /\ (op'.state \in {1, 2} => op'.error = 0)
    BY <1>0, <2>1, DownloadedFields DEF SameLoad
  <2> QED
    BY <1>3, <2>1, <2>2 DEF SameLoad, AlreadyTried, DownloadInv, TypeOK,
       SwapInv, PhaseInv, PastInv, SuccessHasSource, settings, flags, buffers
<1>4. CASE TryLoading
  <2>1. op.state = 1 /\ op.error = 0 /\ ~op.successful /\ op.buffer = op.slot
        /\ ~pso_loaded /\ ~json_loaded /\ ~tried_loading
    BY <1>4 DEF TryLoading, DownloadInv, PhaseInv, SwapInv
  <2>2. CASE json_loaded' \/ ~load_fsl_files
    <3> DEFINE o == [op EXCEPT !.status = Failed]
    <3>1. op' = Downloaded(o)
      BY <1>4, <2>2 DEF TryLoading, FailCloud
    <3>2. o \in Operation /\ o.slot = op.slot /\ o.state = 1 /\ o.error = 0
          /\ o.buffer = op.buffer /\ o.successful = op.successful
          /\ o.status = Failed
      BY <1>0, <2>1, SetStatus
    <3> HIDE DEF o
    <3>3. SameLoad /\ op'.state = 3
      BY <3>1, <3>2, DownloadedFields DEF SameLoad
    <3> QED
      BY <1>4, <2>1, <2>2, <3>3 DEF SameLoad, TryLoading, DownloadInv,
         TypeOK, SwapInv, PhaseInv, PastInv, SuccessHasSource, settings,
         buffers
  <2>3. CASE ~json_loaded' /\ load_fsl_files /\ op.slot \notin pso_files
    <3>1. op' = Downloaded(op)
      BY <1>4, <2>3 DEF TryLoading
    <3>2. SameLoad /\ op'.state \in 1..3
          /\ (op'.state \in {1, 2} => op'.error = 0)
      BY <1>0, <2>1, <3>1, DownloadedFields DEF SameLoad
    <3> QED
      BY <1>4, <2>1, <2>3, <3>2 DEF SameLoad, TryLoading, DownloadInv,
         TypeOK, SwapInv, PhaseInv, PastInv, SuccessHasSource, settings,
         buffers
  <2>4. CASE ~json_loaded' /\ load_fsl_files /\ op.slot \in pso_files
    <3> DEFINE b == [op EXCEPT !.buffer = PsoBuffer]
               o == [b EXCEPT !.status = Arrived]
    <3>1. op' = Downloaded(o)
      BY <1>4, <2>4 DEF TryLoading, LoadPso
    <3>0. b \in Operation /\ b.slot = op.slot /\ b.state = 1 /\ b.error = 0
          /\ b.buffer = PsoBuffer /\ b.successful = op.successful
      BY <1>0, <2>1, SetBuffer
    <3> HIDE DEF b
    <3>2. o \in Operation /\ o.slot = op.slot /\ o.state = 1 /\ o.error = 0
          /\ o.buffer = PsoBuffer /\ o.successful = op.successful
          /\ o.status = Arrived
      BY <2>1, <3>0, SetStatus
    <3> HIDE DEF o
    <3>3. op' \in Operation /\ op'.slot = op.slot /\ op'.buffer = PsoBuffer
          /\ op'.state = 2 /\ op'.error = 0 /\ ~op'.successful
      BY <2>1, <3>1, <3>2, DownloadedFields
    <3>4. /\ pso_buffer' = op.slot /\ og_buffer' = op.slot /\ pso_loaded'
          /\ decrypt_patch' = TRUE
      BY <1>4, <2>1, <2>4 DEF TryLoading, LoadPso
    <3> QED
      BY <1>0, <1>4, <2>1, <2>4, <3>3, <3>4 DEF TryLoading, LoadPso, DownloadInv,
         TypeOK, SwapInv, PhaseInv, PastInv, SuccessHasSource, settings
  <2> QED BY <1>4, <2>2, <2>3, <2>4 DEF TryLoading
<1>5. CASE Parse
  <2>1. op' \in Operation /\ op'.slot = op.slot /\ op'.buffer = op.buffer
        /\ op'.state = 3 /\ op'.error = op.error
    <3> DEFINE o == [op EXCEPT !.state = 3]
    <3>1. op' = [o EXCEPT !.successful = TRUE]
      BY <1>5 DEF Parse
    <3>2. o \in Operation /\ o.slot = op.slot /\ o.buffer = op.buffer
          /\ o.state = 3 /\ o.error = op.error
      BY <1>0, SetState
    <3> HIDE DEF o
    <3> QED
      BY <3>1, <3>2, SetSuccessful
  <2> QED
    BY <1>5, <2>1 DEF Parse, DownloadInv, TypeOK, SwapInv, PhaseInv, PastInv,
       SuccessHasSource, settings, flags, buffers
<1>6. CASE Finish
  <2>1. op.state = 3 /\ tried_loading /\ op.slot \in Slot
    BY <1>0, <1>6 DEF Finish, DownloadInv, PhaseInv
  <2>2. got' \in [Slot -> Source]
    BY <1>6 DEF Finish, DownloadInv, TypeOK, Source
  <2>3. CASE json_loaded \/ pso_loaded
    <3>1. op' \in Operation /\ op'.slot = op.slot /\ op'.buffer = op.slot
          /\ op'.state = Done /\ op'.error = 0
      BY <1>6, <2>3, FinishedOperation
    <3>2. ~tried_loading' /\ ~decrypt_patch' /\ pso_buffer' = NoSlot
          /\ (skip_patch' <=> skip_patch)
      BY <1>6, <2>3 DEF Finish, KeepsSkipping, DownloadInv, SwapInv
    <3>3. got'[op.slot] = IF json_loaded THEN "json" ELSE "pso"
      BY <1>6, <2>1, <2>3 DEF Finish, DownloadInv, TypeOK
    <3>4. \A s \in Slot \ {op.slot} : got'[s] = got[s]
      BY <1>6 DEF Finish, DownloadInv, TypeOK
    <3>5. TypeOK'
      BY <1>6, <2>1, <2>2, <3>1, <3>2 DEF Finish, DownloadInv, TypeOK,
         settings
    <3>6. SwapInv' /\ PhaseInv'
      BY <1>6, <3>1, <3>2 DEF Finish, SwapInv, PhaseInv
    <3>7. PastInv'
      BY <1>6, <2>1, <2>3, <3>2, <3>3, <3>4 DEF Finish, DownloadInv, PastInv,
         SwapInv
    <3>8. SuccessHasSource'
      BY <3>1, <3>3 DEF SuccessHasSource
    <3> QED
      BY <3>5, <3>6, <3>7, <3>8 DEF DownloadInv
  <2>4. CASE ~json_loaded /\ ~pso_loaded
    <3>1. op' \in Operation /\ op'.slot = op.slot /\ op'.buffer = op.slot
          /\ op'.state = Done /\ op'.error = op.error
          /\ op'.successful = op.successful
      BY <1>6, <2>4, FinishedOperation
    <3>2. tried_loading' /\ ~decrypt_patch' /\ pso_buffer' = NoSlot
      BY <1>6, <2>1, <2>4 DEF Finish, DownloadInv, SwapInv
    <3>3. got'[op.slot] = IF op.successful THEN "cloud" ELSE "failed"
      BY <1>6, <2>1, <2>4 DEF Finish, DownloadInv, TypeOK
    <3>4. ~ \E s \in Slot : got[s] = "json"
      BY <2>1, <2>4 DEF DownloadInv, PastInv
    <3>5. ~ \E s \in Slot : got'[s] = "json"
      BY <1>6, <2>4, <3>3, <3>4 DEF Finish, DownloadInv, TypeOK
    <3>6. TypeOK'
      BY <1>6, <2>1, <2>2, <2>4, <3>1, <3>2 DEF Finish, DownloadInv, TypeOK,
         settings
    <3>7. SwapInv' /\ PhaseInv'
      BY <1>6, <2>1, <2>4, <3>1, <3>2 DEF Finish, DownloadInv, SwapInv,
         PhaseInv
    <3>8. PastInv'
      BY <1>6, <2>4, <3>2, <3>5 DEF Finish, PastInv
    <3>9. SuccessHasSource'
      BY <2>1, <3>1, <3>3 DEF SuccessHasSource, DownloadInv, PhaseInv
    <3> QED
      BY <3>6, <3>7, <3>8, <3>9 DEF DownloadInv
  <2> QED BY <2>3, <2>4
<1>7. CASE Release
  <2>1. op' \in Operation /\ op'.slot = op'.buffer /\ op'.state = 0
        /\ ~op'.successful /\ op'.slot = NoSlot
    BY <1>7 DEF Release, NoOp, Operation, Pending
  <2>2. ~json_loaded /\ ~pso_loaded
    BY <1>7 DEF Release, DownloadInv, SwapInv, PhaseInv
  <2> QED
    BY <1>7, <2>1, <2>2 DEF Release, DownloadInv, TypeOK, SwapInv, PhaseInv,
       PastInv, SuccessHasSource, settings, flags, buffers
<1>8. CASE profile_stats_download
  BY <1>8 DEF profile_stats_download, DownloadInv, TypeOK, SwapInv, PhaseInv,
     PastInv, SuccessHasSource, settings, flags, buffers
<1>9. CASE mp_stats_save
  BY <1>9 DEF mp_stats_save, DownloadInv, TypeOK, SwapInv, PhaseInv, PastInv,
     SuccessHasSource, settings, flags, buffers
<1>10. CASE UNCHANGED vars
  BY <1>10 DEF vars, DownloadInv, TypeOK, SwapInv, PhaseInv, PastInv,
     SuccessHasSource, settings, flags, buffers
<1> QED
  BY <1>1, <1>2, <1>3, <1>4, <1>5, <1>6, <1>7, <1>8, <1>9, <1>10, RestartInv
  DEF Next

(* The inductive invariant holds in every reachable state.                 *)
THEOREM Invariance == Spec => []DownloadInv
  BY InitInv, StepInv, PTL DEF Spec

(* Every variable of the hook keeps its type.                              *)
THEOREM TypeCorrect == Spec => []TypeOK
<1>1. DownloadInv => TypeOK
  BY DEF DownloadInv
<1> QED BY <1>1, Invariance, PTL

(* For any number of slots the game parses the buffer of the slot at hand, *)
(* with decryption off exactly for an FSL file.                            *)
THEOREM RightBuffer == Spec => []ParsesRightBuffer
<1>1. DownloadInv => ParsesRightBuffer
  BY SlotAssumption DEF DownloadInv, ParsesRightBuffer, SwapInv, TypeOK,
     NoOperation
<1> QED BY <1>1, Invariance, PTL

(* The swap and the patch never outlive the operation that made them.      *)
THEOREM CleanHandover == Spec => []NothingLeftBehind
<1>1. DownloadInv => NothingLeftBehind
  BY SlotAssumption DEF DownloadInv, NothingLeftBehind, SwapInv, PhaseInv,
     TypeOK, Operation, NoOperation, Done
<1> QED BY <1>1, Invariance, PTL

(* A process that restored any slot from json never fetches profile stats. *)
THEOREM NeverMixed == Spec => []JsonNeverMixed
<1>1. DownloadInv => JsonNeverMixed
  BY DEF DownloadInv, JsonNeverMixed, PastInv
<1> QED BY <1>1, Invariance, PTL

(* A successful operation has a source and no error.                       *)
THEOREM SuccessFounded == Spec => []SuccessHasSource
<1>1. DownloadInv => SuccessHasSource
  BY DEF DownloadInv
<1> QED BY <1>1, Invariance, PTL

-----------------------------------------------------------------------------
\* The operation is on its way: same slot, no outcome, nothing in the past.
OnItsWay ==
  /\ op.state # Done /\ op'.state # Done
  /\ op'.slot = op.slot
  /\ got' = got /\ synced' = synced

(* Until the last call of the hook an operation is only on its way.        *)
LEMMA WayStep ==
  ASSUME DownloadInv, CloudAnswer \/ AlreadyTried \/ TryLoading \/ Parse
  PROVE  OnItsWay
<1> USE DEF Done
<1>0. op \in Operation
  BY DEF DownloadInv, TypeOK
<1>1. CASE CloudAnswer
  BY <1>0, <1>1 DEF CloudAnswer, OnItsWay, Operation
<1>2. CASE AlreadyTried
  <2>1. op.state = 1 /\ op.error = 0 /\ op' = Downloaded(op)
    BY <1>2 DEF AlreadyTried, DownloadInv, PhaseInv
  <2>2. op'.slot = op.slot /\ op'.state \in 1..3
    BY <1>0, <2>1, DownloadedFields
  <2> QED
    BY <1>2, <2>1, <2>2 DEF AlreadyTried, OnItsWay
<1>3. CASE TryLoading
  <2>1. op.state = 1 /\ op.error = 0
    BY <1>3 DEF TryLoading, DownloadInv, PhaseInv
  <2>2. PICK o \in Operation :
          op' = Downloaded(o) /\ o.slot = op.slot /\ o.state = 1 /\ o.error = 0
    <3>1. op' = Downloaded([op EXCEPT !.status = Failed])
          \/ op' = Downloaded(op)
          \/ op' = Downloaded([op EXCEPT !.buffer = PsoBuffer,
                                         !.status = Arrived])
      BY <1>3 DEF TryLoading, FailCloud, LoadPso
    <3>2. CASE op' = Downloaded([op EXCEPT !.status = Failed])
      BY <1>0, <2>1, <3>2, SetStatus DEF Failed
    <3>3. CASE op' = Downloaded(op)
      BY <1>0, <2>1, <3>3
    <3>4. CASE op' = Downloaded([op EXCEPT !.buffer = PsoBuffer,
                                         !.status = Arrived])
      <4> DEFINE b == [op EXCEPT !.buffer = PsoBuffer]
                 o == [b EXCEPT !.status = Arrived]
      <4>1. op' = Downloaded(o)
        BY <3>4
      <4>2. b \in Operation /\ b.slot = op.slot /\ b.state = 1 /\ b.error = 0
        BY <1>0, <2>1, SetBuffer
      <4> HIDE DEF b
      <4>3. o \in Operation /\ o.slot = op.slot /\ o.state = 1 /\ o.error = 0
        BY <4>2, SetStatus DEF Arrived
      <4> QED BY <4>1, <4>3
    <3> QED BY <3>1, <3>2, <3>3, <3>4
  <2>3. op'.slot = op.slot /\ op'.state \in 1..3
    BY <2>2, DownloadedFields
  <2> QED
    BY <1>3, <2>1, <2>3 DEF TryLoading, OnItsWay
<1>4. CASE Parse
  <2> DEFINE o == [op EXCEPT !.state = 3]
  <2>1. op' = [o EXCEPT !.successful = TRUE] /\ op.state = 2
    BY <1>4 DEF Parse
  <2>2. o \in Operation /\ o.slot = op.slot /\ o.state = 3
    BY <1>0, SetState
  <2> HIDE DEF o
  <2>3. op'.slot = op.slot /\ op'.state = 3
    BY <2>1, <2>2, SetSuccessful
  <2> QED
    BY <1>4, <2>1, <2>3 DEF Parse, OnItsWay
<1> QED BY <1>1, <1>2, <1>3, <1>4

(* A process starts without an operation, an outcome or a past.            *)
LEMMA LoadsInit == Init => Loads!Init
  BY DEF Init, NoOp, NoOperation, Done, Loads!Init, Loads!Fresh

(* Every step of the hook and of the game is a step of the load operation  *)
(* or none: the last call of the hook ends it, from json or an FSL file    *)
(* only while the profile stats of the cloud have not come.                *)
LEMMA LoadsStep ==
  DownloadInv /\ [Next]_vars => [Loads!Next]_(Loads!vars)
<1> SUFFICES ASSUME DownloadInv, [Next]_vars
             PROVE  [Loads!Next]_(Loads!vars)
  OBVIOUS
<1> USE DEF Loads!Next, Loads!vars, Done, NoOperation
<1>1. ASSUME NEW s \in Slot, StartOperation(s) PROVE Loads!Begin(s)
  BY <1>1 DEF StartOperation, Loads!Begin, DownloadInv, PhaseInv
<1>2. CASE CloudAnswer \/ AlreadyTried \/ TryLoading \/ Parse
  BY <1>2, WayStep DEF OnItsWay
<1>3. CASE Finish
  <2> DEFINE source == IF json_loaded THEN "json"
                       ELSE IF pso_loaded THEN "pso"
                       ELSE IF op.successful THEN "cloud" ELSE "failed"
  <2>1. op.state = 3 /\ op.slot \in Slot /\ op.slot # NoSlot
    BY <1>3, SlotAssumption DEF Finish, DownloadInv, TypeOK
  <2>2. source \in Loads!Source
    BY DEF Loads!Source, Loads!Local
  <2>3. source \in Loads!Local => ~synced
    BY DEF Loads!Local, DownloadInv, PastInv
  <2>4. op'.slot = op.slot /\ op'.state = Done
        /\ (op'.successful <=> source # "failed")
    BY <1>3, FinishedOperation
  <2>5. got' = [got EXCEPT ![op.slot] = source] /\ synced' = synced
    BY <1>3 DEF Finish
  <2> HIDE DEF source
  <2>6. Loads!End(source)
    BY <2>1, <2>3, <2>4, <2>5 DEF Loads!End
  <2> QED BY <2>2, <2>6
<1>4. CASE Release
  <2>1. op'.slot = NoSlot /\ op'.state = 0
    BY <1>4 DEF Release, NoOp
  <2>2. Loads!Release
    BY <1>4, <2>1 DEF Release, Loads!Release
  <2> QED BY <2>2
<1>5. CASE profile_stats_download
  <2>1. \A s \in Slot : got[s] # "json"
    BY <1>5 DEF profile_stats_download, DownloadInv, PastInv
  <2>2. Loads!Sync
    BY <1>5, <2>1 DEF profile_stats_download, Loads!Sync
  <2> QED BY <2>2
<1>6. CASE mp_stats_save
  BY <1>6 DEF mp_stats_save
<1>7. CASE Restart
  <2>1. Loads!Fresh'
    BY <1>7 DEF Restart, NoOp, Loads!Fresh
  <2> QED BY <2>1
<1>8. CASE UNCHANGED vars
  BY <1>8 DEF vars
<1> QED
  BY <1>1, <1>2, <1>3, <1>4, <1>5, <1>6, <1>7, <1>8 DEF Next

(* For any number of slots the flags, buffers and patches of the hook are  *)
(* a load operation that ends with stats from one source and says so.      *)
THEOREM LoadsAreOperations == Spec => ImplementsLoads
<1> USE LoadsInit, LoadsStep, Invariance
<1> QED BY PTL DEF Spec, ImplementsLoads, Loads!Spec
=============================================================================
