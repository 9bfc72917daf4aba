---------------------------- MODULE SaveDownload ----------------------------
(***************************************************************************)
(* The hook mp_save_download (hooks/saves/stat.cpp) with the globals it    *)
(* keeps between the game's load operations, the two byte patches it       *)
(* switches, and profile_stats_download.  The game runs one queued load    *)
(* operation per save slot and calls the hook on every tick of it; each    *)
(* call is the whole handler, the game's own process_load included.        *)
(*                                                                         *)
(* External, read off the way the hook uses it: an operation waits in      *)
(* download state 1 until its status says failed (2) or arrived (3), parses*)
(* the save buffer in state 2, finishes in state 3.  The game asks for     *)
(* profile stats only where the skip patch is not applied.                 *)
(***************************************************************************)
EXTENDS Integers

CONSTANTS
  Slot,       \* save slots an operation may be about
  NoSlot,     \* no slot
  PsoBuffer   \* op.buffer: this, or the slot whose own buffer it is

ASSUME SlotAssumption ==
  NoSlot \notin Slot /\ PsoBuffer \notin Slot /\ NoSlot # PsoBuffer

NoOperation == 0      \* values of op.state besides the game's 1, 2 and 3
Done        == 4
Pending     == 1      \* values of op.status
Failed      == 2
Arrived     == 3

Source == {"none", "json", "pso", "cloud", "failed"}

VARIABLES
  default_json,    \* save_default0000.json: what load_stats would meet
  pso_files,       \* slots with a .pso file in the project folder
  load_fsl_files,  \* g.load_fsl_files
  no_rgs,          \* g.no_rgs
  json_loaded, pso_loaded, tried_loading,
  pso_buffer,      \* slot whose file pso_buffer holds
  og_buffer,       \* og_buffer_ptr
  op,              \* the running load operation
  skip_patch,      \* skip_profile_stats_patch is applied
  decrypt_patch,   \* decrypt_save_patch is applied
  got,             \* history: where each slot's stats last came from
  synced           \* history: the game fetched profile stats

settings == <<load_fsl_files, no_rgs>>
flags    == <<json_loaded, pso_loaded, tried_loading>>
buffers  == <<pso_buffer, og_buffer>>
vars == <<default_json, pso_files, settings, flags, buffers, op, skip_patch,
          decrypt_patch, got, synced>>

NoOp == [slot |-> NoSlot, state |-> NoOperation, status |-> Pending,
         buffer |-> NoSlot, successful |-> FALSE, error |-> 0]

-----------------------------------------------------------------------------
\* A process starts with whatever files and settings the user left; the
\* byte patch manager applies the skip patch.
Init ==
  /\ default_json \in {"absent", "corrupt", "ok"}
  /\ pso_files \in SUBSET Slot
  /\ load_fsl_files \in BOOLEAN /\ no_rgs \in BOOLEAN
  /\ json_loaded = FALSE /\ pso_loaded = FALSE /\ tried_loading = FALSE
  /\ pso_buffer = NoSlot /\ og_buffer = NoSlot
  /\ op = NoOp
  /\ skip_patch = TRUE
  /\ decrypt_patch = FALSE
  /\ got = [s \in Slot |-> "none"]
  /\ synced = FALSE

\* The game starts the operation of a slot and sends its request.
StartOperation(s) ==
  /\ op.state = NoOperation
  /\ op' = [slot |-> s, state |-> 1, status |-> Pending, buffer |-> s,
            successful |-> FALSE, error |-> 0]
  /\ UNCHANGED <<default_json, pso_files, settings, flags, buffers,
                 skip_patch, decrypt_patch, got, synced>>

CloudAnswer ==
  /\ op.state = 1 /\ op.status = Pending
  /\ \E answer \in {Failed, Arrived} : op' = [op EXCEPT !.status = answer]
  /\ UNCHANGED <<default_json, pso_files, settings, flags, buffers,
                 skip_patch, decrypt_patch, got, synced>>

\* process_load of the game in state 1, on the operation the hook hands it.
Downloaded(o) ==
  CASE o.status = Pending -> o
    [] o.status = Failed  -> [o EXCEPT !.state = 3, !.error = 1]
    [] o.status = Arrived -> [o EXCEPT !.state = 2]

\* case 1 when the latch is set: nothing of the hook's own.
AlreadyTried_Returns == op.state = 1 /\ tried_loading /\ UNCHANGED vars
AlreadyTried ==
  /\ op.state = 1 /\ tried_loading
  /\ op' = Downloaded(op)
  /\ UNCHANGED <<default_json, pso_files, settings, flags, buffers,
                 skip_patch, decrypt_patch, got, synced>>

FailCloud_Forgotten(o) == o
FailCloud(o) == [o EXCEPT !.status = Failed]

\* The buffer of the slot's FSL file takes the place of the game's own, and
\* the game is kept from decrypting it.
LoadPso_WithoutPatch ==
  /\ pso_buffer' = op.slot
  /\ pso_loaded' = TRUE
  /\ og_buffer' = op.buffer
  /\ op' = Downloaded([op EXCEPT !.buffer = PsoBuffer, !.status = Arrived])
  /\ UNCHANGED decrypt_patch

LoadPso ==
  /\ pso_buffer' = op.slot
  /\ pso_loaded' = TRUE
  /\ og_buffer' = op.buffer
  /\ op' = Downloaded([op EXCEPT !.buffer = PsoBuffer, !.status = Arrived])
  /\ decrypt_patch' = TRUE

\* case 1, the first try: load_stats, else the slot's FSL file.
TryLoading ==
  /\ op.state = 1 /\ ~tried_loading
  /\ tried_loading' = TRUE
  /\ json_loaded' = (default_json = "ok")
  /\ \/ /\ json_loaded' \/ ~load_fsl_files
        /\ op' = Downloaded(FailCloud(op))
        /\ UNCHANGED <<pso_loaded, buffers, decrypt_patch>>
     \/ /\ ~json_loaded' /\ load_fsl_files
        /\ op.slot \notin pso_files
        /\ op' = Downloaded(op)
        /\ UNCHANGED <<pso_loaded, buffers, decrypt_patch>>
     \/ /\ ~json_loaded' /\ load_fsl_files
        /\ op.slot \in pso_files
        /\ LoadPso
  /\ UNCHANGED <<default_json, pso_files, settings, skip_patch, got, synced>>

\* State 2: the switch has no case for it; the game parses the buffer.
Parse ==
  /\ op.state = 2
  /\ op' = [op EXCEPT !.state = 3, !.successful = TRUE]
  /\ UNCHANGED <<default_json, pso_files, settings, flags, buffers,
                 skip_patch, decrypt_patch, got, synced>>

KeepsSkipping_ExceptJson == pso_loaded \/ no_rgs
KeepsSkipping == json_loaded \/ pso_loaded \/ no_rgs

RestoreBuffer_Forgotten(o) == o
RestoreBuffer(o) == IF pso_loaded THEN [o EXCEPT !.buffer = og_buffer] ELSE o

MarkSuccessful_KeepsError(o) ==
  IF json_loaded \/ pso_loaded THEN [o EXCEPT !.successful = TRUE] ELSE o
MarkSuccessful_OnlyPso(o) ==
  IF pso_loaded THEN [o EXCEPT !.error = 0, !.successful = TRUE] ELSE o
MarkSuccessful(o) ==
  IF json_loaded \/ pso_loaded
  THEN [o EXCEPT !.error = 0, !.successful = TRUE] ELSE o

\* case 3, then the game's own last step.
Finish ==
  /\ op.state = 3
  /\ skip_patch' = (skip_patch /\ KeepsSkipping)
  /\ decrypt_patch' = (decrypt_patch /\ ~pso_loaded)
  /\ pso_buffer' = IF pso_loaded THEN NoSlot ELSE pso_buffer
  /\ op' = [MarkSuccessful(RestoreBuffer(op)) EXCEPT !.state = Done]
  /\ tried_loading' = (tried_loading /\ ~json_loaded /\ ~pso_loaded)
  /\ json_loaded' = FALSE /\ pso_loaded' = FALSE
  /\ got' = [got EXCEPT ![op.slot] =
               IF json_loaded THEN "json"
               ELSE IF pso_loaded THEN "pso"
               ELSE IF op.successful THEN "cloud" ELSE "failed"]
  /\ UNCHANGED <<default_json, pso_files, settings, og_buffer, synced>>

\* The game drops the operation and what its buffer points to.
Release ==
  /\ op.state = Done
  /\ op' = NoOp
  /\ UNCHANGED <<default_json, pso_files, settings, flags, buffers,
                 skip_patch, decrypt_patch, got, synced>>

profile_stats_download ==
  /\ ~skip_patch
  /\ skip_patch' = TRUE
  /\ synced' = TRUE
  /\ UNCHANGED <<default_json, pso_files, settings, flags, buffers, op,
                 decrypt_patch, got>>

\* hooks::mp_stats_save: save_stats leaves a default file that parses, or the
\* one there was if it cannot be opened for writing.
mp_stats_save ==
  /\ default_json' \in {"ok", default_json}
  /\ UNCHANGED <<pso_files, settings, flags, buffers, op, skip_patch,
                 decrypt_patch, got, synced>>

\* The game ends, or dies in a save, and is started again later.
Restart ==
  /\ default_json' \in {"absent", "corrupt", "ok"}
  /\ pso_files' \in SUBSET Slot
  /\ load_fsl_files' \in BOOLEAN /\ no_rgs' \in BOOLEAN
  /\ json_loaded' = FALSE /\ pso_loaded' = FALSE /\ tried_loading' = FALSE
  /\ pso_buffer' = NoSlot /\ og_buffer' = NoSlot
  /\ op' = NoOp
  /\ skip_patch' = TRUE
  /\ decrypt_patch' = FALSE
  /\ got' = [s \in Slot |-> "none"]
  /\ synced' = FALSE

Tick == AlreadyTried \/ TryLoading \/ Parse \/ Finish

Next ==
  \/ \E s \in Slot : StartOperation(s)
  \/ CloudAnswer
  \/ AlreadyTried
  \/ TryLoading
  \/ Parse
  \/ Finish
  \/ Release
  \/ profile_stats_download
  \/ mp_stats_save
  \/ Restart

Spec == Init /\ [][Next]_vars

(* The game ticks a queued operation until it is done.  Whether the cloud  *)
(* ever answers is left to the properties that need it.                    *)
FairSpec  == Spec /\ WF_vars(Tick)
Answering == WF_vars(CloudAnswer)

-----------------------------------------------------------------------------
Operation == [slot : Slot \cup {NoSlot}, state : 0..4, status : 1..3,
              buffer : Slot \cup {NoSlot, PsoBuffer}, successful : BOOLEAN,
              error : {0, 1}]

TypeOK ==
  /\ default_json \in {"absent", "corrupt", "ok"}
  /\ pso_files \in SUBSET Slot
  /\ load_fsl_files \in BOOLEAN /\ no_rgs \in BOOLEAN
  /\ json_loaded \in BOOLEAN /\ pso_loaded \in BOOLEAN
  /\ tried_loading \in BOOLEAN
  /\ pso_buffer \in Slot \cup {NoSlot}
  /\ og_buffer \in Slot \cup {NoSlot}
  /\ op \in Operation
  /\ op.state # NoOperation => op.slot \in Slot
  /\ skip_patch \in BOOLEAN /\ decrypt_patch \in BOOLEAN
  /\ got \in [Slot -> Source]
  /\ synced \in BOOLEAN

(* Whatever buffer the game parses in state 2 is the right one under the   *)
(* right patch: the FSL buffer only while it holds the file of this very   *)
(* slot and decryption is off, the game's own buffer only with decryption  *)
(* on (stat.cpp 65-76 set these up one call earlier).                      *)
ParsesRightBuffer ==
  op.state = 2 =>
    IF op.buffer = PsoBuffer
    THEN pso_buffer = op.slot /\ decrypt_patch
    ELSE op.buffer = op.slot /\ ~decrypt_patch

(* When the game lets go of an operation it owns its buffer again, and no  *)
(* trace of the swap is left for the next operation (stat.cpp 87-102).     *)
NothingLeftBehind ==
  op.state \in {NoOperation, Done} =>
    /\ op.buffer # PsoBuffer
    /\ ~decrypt_patch /\ pso_buffer = NoSlot
    /\ ~json_loaded /\ ~pso_loaded

(* Stats restored from json are never mixed with the profile stats of the  *)
(* cloud: in a process where one slot came from json, the profile sync the *)
(* skip patch holds back (stat.cpp 81-85) does not happen, whatever other  *)
(* slots are loaded before and after and however long it goes on.          *)
JsonNeverMixed ==
  ~(synced /\ \E s \in Slot : got[s] = "json")

(* An operation the game takes for successful has stats from somewhere: a  *)
(* failed download is turned into a success (stat.cpp 103-105) only when a *)
(* local save was loaded by this same operation, and no error is left.     *)
SuccessHasSource ==
  op.state = Done /\ op.successful =>
    got[op.slot] \in {"json", "pso", "cloud"} /\ op.error = 0

(* Flags, buffers and patches together are a load operation that ends with *)
(* stats from one source and says so: in particular a local save is never  *)
(* reported as a failure although the download it replaces failed, and no  *)
(* local save is loaded after the profile stats of the cloud (40-106).     *)
Loads == INSTANCE LoadOperation WITH
  slot <- op.slot, ended <- op.state = Done,
  successful <- op.state = Done /\ op.successful, origin <- got
ImplementsLoads == Loads!Spec

(* Every load operation comes to its end if the cloud answers.             *)
OperationsFinish ==
  Answering => (op.state = 1 ~> op.state \in {NoOperation, Done})

(* With a local save to load, an operation that is the first to try comes  *)
(* to its end even if the cloud never answers (README 2, 62-64).           *)
LocalLoadFinishes ==
  (/\ op.state = 1 /\ ~tried_loading
   /\ default_json = "ok" \/ (load_fsl_files /\ op.slot \in pso_files))
     ~> op.state \in {NoOperation, Done}

(* README 14: "FSL saves will only load if json saves were not found".     *)
FslOnlyWithoutJson ==
  [][~pso_loaded /\ pso_loaded' => default_json = "absent"]_vars

(* README 13: FSL save files are loaded if they are placed in the project  *)
(* folder and load_fsl_files is enabled.                                   *)
FslLoadedIfPlaced ==
  [][/\ op.state = 3 /\ op'.state = Done
     /\ load_fsl_files /\ op.slot \in pso_files /\ default_json = "absent"
     => got'[op.slot] = "pso"]_vars
=============================================================================
