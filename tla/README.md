# CustomLocalSaves: models, checks and proofs

CustomLocalSaves (CLS) is a library loaded into GTA V. It keeps the player's
online stats in json files of the user's own: detours of game functions make the
game's "save" write the files and its "load" read them. This directory holds
TLA+ models of the parts that carry that logic, TLC configurations that check
small instances, and proofs checked by TLAPS that hold for every instance.

Source paths below are relative to `src/src/`.

## 1. The system

Two long-lived kinds of thread run CLS code. The *main thread* of `main.cpp`
constructs the services, enables the detours and then sleeps. The *game's
threads* run the detours. Beside them are the pool's workers and the fibers of
the script manager.

| Component | State | Operations | Interacts with |
|---|---|---|---|
| **Stats service** `services/stats/` | fourteen `m_*_stats` maps (hash to value), `m_stat_hash_to_string`, paths of four json and three FSL files | `load_stats`, `save_stats`, `register_stat`, FSL readers | called by the hooks; reads and sets the game's stats; reads the settings |
| **Save download hook** `hooks/saves/` | `json_loaded`, `pso_loaded`, `tried_loading`, `pso_buffer`, `og_buffer_ptr`; two byte patches | `mp_save_download` on each tick of a load operation, `mp_stats_save`, `profile_stats_download` | calls the stats service, changes the operation and calls the game's own function |
| **Thread pool** `thread_pool.cpp` | job stack, mutex, condition variable, `m_accept_jobs`, count of available threads | constructor and `create`, `push`, `run`, `destroy`, destructor | owned by the main thread |
| **Native hooks** `native_hooks/` | `m_native_registrations`, `m_native_hooks`, `g_native_hooks`; per program two replaced tables | constructor and destructor, `hook_program`, `scrprogram_dtor`, `init_native_tables` | the game's script programs, which the game makes and destroys meanwhile |
| **Virtual currency natives** `native_hooks/all_scripts.hpp` | none of its own: two stats | `WITHDRAW_VC`, `DEPOSIT_VC` | called by scripts through native hooks; stats service |
| **Settings** `core/settings.cpp` | options, `settings.json` | `load`, `deep_compare`, `save`, `write_default_config` | read by the hooks and the stats service; loaded once in start-up, in the folder the file manager makes |
| **Scripts and fibers** `script*.cpp`, `fiber_pool.cpp`, `backend/` | list of scripts and its mutex, wake times, job stack | `tick`, `yield`, `queue_job`, `reset`, `fiber_tick`, `remove_all_scripts` | run inside the `run_script_threads` detour |
| **Detours** `hooking/` | helpers, `m_enabled` | `enable`, `disable`, late registration | every hook |
| **Byte patches** `memory/byte_patch.*`, `byte_patch_manager.cpp` | list of patches with original bytes | `make`, `apply`, `restore`, `remove`, `restore_all` | the two patches of the download hook |
| **Patterns, pointers** `memory/`, `pointers.cpp` | none | parse and scan | start-up |
| **Start-up and shutdown** `main.cpp` | order of the instances, `g_running` | the one function of the main thread | all of the above, through their global pointers |

What is hard about it, and makes the behaviours worth checking:

- *Sequences over sessions.* A player's stat travels from the game into a map,
  into one of several files, through a crash or an edit, and back. Each step is
  simple; a value is lost or comes back from the dead only over several. Money
  travels twice: a transfer changes stats of two files.
- *State kept between callbacks.* The download hook sets flags, a buffer and
  patches in one tick of an operation and takes them back in a later one, and
  the flags are shared by the operations of all slots. A job of the fiber pool
  may yield for many frames while others queue, clear or take jobs.
- *Threads.* The pool's condition variable; the main thread working on programs
  the game may destroy; a shutdown that drops instances a detour on the game's
  thread may be about to use.
- *Failure.* Files opened with truncation, `dump` and `deep_compare` throwing
  outside their `try`, a `load` that calls itself, a start-up that unwinds with
  threads running.

What is correct behaviour, per component:

- stats service: what a completed save recorded, in files that can be opened, is
  what a fresh process loads; a completed save drops from the files it rewrites
  only what the process never read there; a process that ends in a save costs at
  most the file the save had open, and of a default file it has completed what
  was never read; overrides win and are never written;
- virtual currency: no account is ever overdrawn, in the game or in a file, and
  a completed save keeps the money of the current character;
- download hook: the game parses the right buffer under the right patch; nothing
  of the swap outlives the operation; local stats are never mixed with the
  cloud's; success means stats came from somewhere; operations end;
- pool: no wakeup lost, each job once, exact count, `destroy` returns;
- native hooks: the destructor detour finds its hook, no table of CLS is freed
  by the game or left at a reused address or after the shutdown, a hooked
  program is fully detoured;
- settings: a file is repaired without losing what the user chose, `load` of a
  file that can be written returns or throws, a complete file is never opened
  for writing;
- scripts: a job runs once, on one fiber nobody deletes meanwhile; a job that
  sleeps or never ends blocks no other while a fiber is free;
- start-up and shutdown: no settings file that can be written, short of json
  that is neither object nor null, keeps a launch from running; every shutdown
  ends, no start-up step throws under a detour, and a detour misses an instance
  only in the two windows the order of `main.cpp` leaves;
- patterns and patches: a pointer is the first place its signature means;
  `restore_all` gives the game its code back.

Some code has no caller in `src/` and is modelled as the class it is, with the
callers its interface allows: `thread_pool::push`, `fiber_pool::queue_job` and
`reset`. Nothing in `src/` clears `g_running` either; the models take its
clearing as a step of whoever does, and check the shutdown `main.cpp` 104-138 is
written for.

## 2. The models

### StatsService, SaveStore

`StatsService` is `stats_service.cpp`. `live` is the game's stats, `stat_maps`
the fourteen maps as one function (a stat has one type, so one map), `file` the
three save files and `save_overwrite.json`. A file is *absent*, *ok*, or *bad*:
one that makes the loader throw. The entries of a bad file are those merged
before the throw, its `rest` the stats it names after that place, which no load
reads and the next save of that file drops. `LoadStats` is one action: it
happens within one hook call and only reads the disk. `SaveStats`,
`WriteDefault`, `OpenChar`, `WriteChar` are `save_stats` cut where a process
that dies leaves another disk behind. `Start` is a launch (settings, then the
stat constructors, of which those in `Early` were missed by the hook), `Crash`
its end, `UserEdit` an edit while the game is off, `Play` the game's own
changes. A file in `ReadOnly` cannot be opened for writing: the save does not
look at its stream, so what it writes there is lost and the file stays as it was
(`Opens`, `Truncated`, `Written`). The history variable `before` is the files as
the save in progress found them.

`SaveKeepsRead` bounds what a completed save loses: of the stats its two files
named, only those this process never read (`Unread`). These are the rest of a
file that stopped parsing half way, a character file when the default file
failed to load (the early return of `load_stats`), and any file saved before the
first load; such stats are lost, and no line of the code promises otherwise.
`EndCostsOneFile` bounds what the end of the process costs, whether it is
killed, `json.dump` throws, or a missing stat is dereferenced. It does not say
that the last never happens: besides the files a user edited
(`edited_save_faults`), CLS writes a stat whose constructor it did not see under
the empty name, and the save after the next load dereferences null.

`SaveStore` is the abstract specification: a memory of saved values, files
replaced one at a time by the memory of the stats that live there, loads that
bring back values on disk or remembered, for all stats at once or for none. It
knows no hashes, names, indexes or file order. `ImplementsStore` is the
refinement: `StatsService` implements it with `mem <- stat_maps` restricted to
stats, `torn` the file a save has truncated, `nameless` the stats without a
registered name. Its `Play` lets any stats change at once, so that a transfer
between two accounts is a step of the store too: `VirtualCurrency` implements it
by the same mapping.

Abstractions: values are a small set of integers and, for strings, `Long` (32
bytes or more, left without a terminator by `strncpy`) and `Garbled` (what such
a buffer may read as). Widths and formats of the fourteen types are the game's.
A float that is not finite, which json writes as null, and a file that lacks a
section, which is undefined behaviour of `operator[]`, are left out. A hash is
given a value only in the section of its type. A file that was opened is written
completely unless the process ends: a disk that fills up in between is left out.

### VirtualCurrency

`VirtualCurrency` extends `StatsService` with the natives of
`native_hooks/all_scripts.hpp`: `WITHDRAW_VC` and `DEPOSIT_VC` move an amount
between the bank, a stat of the default file, and the wallet of the last
character, a stat of a character file, and `Pay` is the game paying the player.
The steps of the save service go on around them, so that a transfer may fall
before or after any save, load, crash or change of character. Scripts and save
hooks run on the same thread of the game: a call falls between whole saves. A
character without a wallet only logs. `MaxMoney` bounds the sum of the two
balances: they are 64 bits wide and an amount 32.

### SaveDownload

`SaveDownload` is the hook `mp_save_download` with its globals. Each tick is the
whole handler, the game's own `process_load` included, which is external and
read off the way the hook uses it: state 1 waits for a status (2 failed, 3
arrived), state 2 parses the buffer, state 3 finishes. Each `case` of the switch
is split by its early exits: `AlreadyTried`, `TryLoading`, `Parse`, `Finish`.
The two history variables `got` and `synced` record where stats came from. The
stats service appears as what `load_stats` would return (`default_json`).

`LoadOperation` is what all this is for, without flags, buffers and patches: the
load of one slot at a time ends with stats from one source and succeeds if there
is any; profile stats of the cloud come only into a process without stats from
json, and once they have come no local save is loaded. `SaveDownload` implements
it with `origin <- got` and the rest read off the operation.

Assumed of the game: it runs one load operation at a time, and deletes it only
after its last state.

### ThreadPool

Workers, pushing threads and the main thread, one action for each point where
another thread could see a difference. A wait is two steps, `Wait` (predicate
found false, lock held) and `Sleep` (released), so a change made without the lock
can fall between. `notify_all` is `Notified`. `Reserve` and `Spawn` are
`create`, on the managing thread. `Destruct` is the `unique_ptr` letting go:
after `destroy` it is harmless, during the unwinding of a start-up step that
threw it ends the process, since `~thread_pool` joins nothing. A job may return
or throw a `std::exception`; `run` treats both the same.

What the pool is to those who push is `JobStack`: a job goes onto a stack, from
its top to one runner, and from there to its end; nothing is said of threads,
sleep or locks. `ThreadPool` implements it with the jobs of the workers as
`running`, and so does `Scripts` with those of the fibers.

### NativeHooks

Programs of the game by address, each with its virtual table and its native
table, either the game's (`"game"`) or a hook's. The main thread's steps are
`Enable`, `Visit`, `HookVtable`, `HookEntrypoints`, `Replace`, `Insert`,
`Publish`, and in a shutdown `Disable`, `RestoreEntrypoints`, `RestoreVtable`,
`Cleared`, `Retract`; between any two of them the game may make, resolve, list
or destroy a program, and use its address again. The destructor clears the map
in its body, retracts `g_native_hooks`, and drops what a late detour added with
the members, which is why `Cleared` leads to `Retract` once and to the end the
second time. `init_native_tables` and `scrprogram_dtor` run on the game's
thread, one step each. `UseFreed`, `NullHooks` and `MapRace` end a behaviour
where the code would use a destroyed program, a null `g_native_hooks`, or the
map while another thread clears it: they are steps of the model, and no property
assumes them away. `FaultsInWindows` says when the first two can happen: a
program can be destroyed under the constructor only until its virtual table is
the hook's, and not while its natives are copied and replaced; `native_hooks` is
missing only while its constructor runs, or when it is gone and a call that
entered before the detours were disabled goes on.

Assumed of the game: one thread handles programs, and a program is put in the
program table after its natives are resolved. Handlers of different natives are
assumed different.

### Settings, Lifecycle

`Settings` is `core/settings.cpp` with the launch that calls it: the folder
`ensure_folder_exists` leaves, `load` with its repairs (a missing file, one that
does not parse, one whose top level is no object, options missing or not
boolean), each write cut into truncation and text, and a file that may be
read-only. `depth` counts the calls of `load` from itself, up to `StackLimit`,
where the stack is full.

`Lifecycle` extends it with the two threads of `main.cpp`. The main thread makes
the instances in the order `Start`, the load of the settings among them, unwinds
them when a step throws, runs, and drops them in the order `Shutdown`. The
game's thread is in one detour at a time, each of which is the sequence of
instances it uses (`Uses`, read off the bodies of the hooks; those that use none
are left out); using one that is
not there ends the behaviour with a `fault` that says what was missing.
`run_script_threads` takes the mutex of the script manager for its tick, and
`remove_all_scripts` waits for it. `Lifecycle` implements `Settings` by hiding
its own variables.

Left out: instances built only with `ENABLE_GUI`; a call still under way after
the last instance is gone, when the library itself is unmapped; the single
MinHook calls of `enable` and `disable`, and detours added later, which nothing
does.

### Scripts

The fibers of `fiber_pool` as scripts of `g_script_mgr`. A tick of the game's
thread is `BeginTick`, then for each fiber one of `Skip` (its wake time has not
come), `Idle`, `Take` (the top of the stack, called without the lock) or
`Resume`, and the job gives the fiber back by `yield` or `Finish`. Wake times
are kept as the time left. `queue_job`, `reset` and `remove_all_scripts` may
fall anywhere their mutexes allow. A job in `Endless` never returns; any other
yields at most `MaxYields` times. `backend::loop` is one more script with no
jobs, and is a step of `Lifecycle`.

### Patches

`Patches` has the pure functions of `memory/`: `pattern` parses the text of a
signature the way `pattern.cpp` does, character by character with the next one
looked at, and `scan` tries the offsets `range.cpp` tries. The parser's loop is
stated by its result: the k-th byte is what the k-th character that gives
something (`Gives`) gives. The text is the one place where characters matter;
they are digits as numbers, `Space` and `Mark`. That a text means its signature,
in whatever spacing, is `Spells`, an assumption on the constant `Signature`. The
reference definition is `Places`: where the bytes of the code are those the
signature names. On top of them are `make`, `apply`, `restore` and `restore_all`
in the order of `byte_patch_manager::init`, and the two patches hooks switch.
What `restore_all` leaves is stated per address: a byte ends as the last patch
that covers it found it.
`rip` and the offsets from a place found are data of the game's build.

## 3. The runs

| Run | Shows |
|---|---|
| `stats_edited_files` | over edited files, one of them read-only: a save drops only what was never read, an end costs at most the open file, default file settled first, precedence, refinement of `SaveStore` |
| `currency` | over the service's own files, with transfers, payments, saves, crashes and changes of character (-1, 0, 1, 110): a completed save restores, the override file is never written, no account overdrawn, a save keeps the money |
| `edited_save_faults` | *violation*: a foreign hash that loads brings the next save down |
| `zero_is_forgotten` | *violation*: a stat spent to zero comes back |
| `download` | two slots, all files and settings, any cloud answers, saves, syncs and restarts: the swap, the patches and the flags stay consistent and implement `LoadOperation`, and operations end |
| `fsl_beside_corrupt_json` | *violation*: an FSL file loads beside a json save that does not parse |
| `fsl_after_failed_try` | *violation*: one failed try keeps every later slot from its FSL file |
| `thread_pool` | three workers, two jobs, a spurious wakeup, destruction at any moment: no wakeup or job lost, the count exact, refinement of `JobStack`, jobs run, `destroy` returns |
| `native_hooks` | two programs, two scripts, three natives, start and shutdown: tables and map agree, hooked programs are detoured, faults only in the windows the order leaves |
| `startup` | every settings file of three options, writable or not; start, failure, unwinding and shutdown beside each detour: settings repaired, no writable file keeps a launch from running, shutdowns end, faults only in two windows |
| `scripts` | three fibers, two jobs that end, two that never do: each job once, refinement of `JobStack`, and every queued one run while a fiber is free |
| `patches` | every code of five bytes and every pair of short signatures: pointers right, code given back |

Each property of a passing run has a mutant, a definition changed the way a
slip in that code would change it (a dropped guard, a missing reset, a swapped
order), under which TLC finds it violated. They stand beside the definitions
they change, under the same name with a suffix.

### Bounds

- *Stats:* four, one per role: the last character, one stat of each character
  or a string, one the loader forces; in `currency` the bank and two wallets. No
  action relates more than two stats and a file. *Values:* 0, because it is
  skipped; 1 and 2, to tell an old value from a new one; -1 and 110, at which
  the index of the character file wraps to the default file and reaches the
  override file. *Money:* the balances of a call hold at most `MaxMoney` = 2,
  amounts go from -1 (refused) to 2 (all of it).
- *Files of the user:* one for each way to be strange: a foreign hash, a long
  text, another character's stat, files that throw half way with a stat of their
  own behind that place; the file of character 2, whose saves are the ones with
  a last character of 1, is read-only. In `currency`
  there are none, stats have names (`Readable` = {TRUE}) and all files open:
  `SaveKeepsMoney` speaks of files the service wrote, and an
  override changes a balance on purpose.
- *Slots:* two. The hook's globals are shared between operations, never between
  more than the present one and one before.
- *Pool:* three workers, so that one may sleep while one executes and one competes
  for the lock, and two jobs, so that a push may fall between the wakeup and the
  work of another. `MaxSpurious` bounds spurious wakeups only to keep the state
  finite; the proofs take any bound.
- *Programs:* two, one under the main thread's hands while another moves, each
  address reusable without limit.
- *Settings:* three options, so that `from_json` may throw at the first, between
  or at the last; every value of each, and every kind of file. `StackLimit` = 3
  is one call more than `RecursesOnce` allows; a read-only file reaches it.
- *Fibers:* three, of which endless jobs hold two, so that one is left for the
  others; `MaxNap` = 2, so that two fibers may sleep for different times;
  `MaxYields` = 1, since each yield leaves the same state behind.
- *Code:* five bytes of two kinds whose hex digits are each other's, so that a
  byte cut wrongly is found somewhere else; signatures of one and two bytes with
  wildcards, so that the last offset scanned, the first one not scanned and a
  match before the right one all occur; three patches, two of which overlap for
  some pairs of signatures.

`CHECK_DEADLOCK FALSE` stands where the system may stop: the pool after the
process or the pool is gone, the hooks after a fault or the shutdown, the
scripts when they are removed and nothing is queued, the patches when CLS gave
up or gave the code back.

### Fairness

- `SaveDownload`: weak fairness of `Tick`, because the game processes a queued
  operation on every frame. `OperationsFinish` assumes, in its own statement,
  that the cloud answers; `LocalLoadFinishes` does without, which is what the
  README promises of playing without the services.
- `ThreadPool`: weak fairness per worker, per notification and of the main
  thread's steps inside `destroy`: the system runs a thread that can run. Calls
  of `push` and `destroy`, and spurious wakeups, need not happen. That jobs
  return is an assumption on the callers.
- `Lifecycle`: weak fairness of the main thread (its next step, or the exception
  of that step) and of the game's thread inside a detour. That the player quits,
  that anyone stops CLS, and that the game calls a detour, need not happen.
- `Scripts`: weak fairness of the game's thread, which calls
  `run_script_threads` on every frame, and of the clock. Jobs outside `Endless`
  return after boundedly many yields; endless ones need not.

The save models, the currency, the hooks and the patches have no liveness:
nothing must happen there but what the player or the game chooses.

## 4. What is proved

For every value of the constants under the named assumptions of the modules
(`StatsAssumption`, `CurrencyAssumption`, `BalancesAssumption`,
`SlotAssumption`, `PoolAssumption`, `HooksAssumption`, `SettingsAssumption`,
`ScriptsAssumption`, `PatchesAssumption`), each stated in the module that
declares the constants and evaluated by TLC. The type invariant of every
component is a theorem, also where no run lists it.

- **StatsServiceProofs.** The inductive invariant is `TypeOK`, what holds while
  the process is off (`OffInv`), `ReadInv`, `TouchedInv` and `DefaultSettled`. A
  save rewrites a file from the maps, so `SaveKeepsRead` needs that the maps hold
  every stat that was read, of the files there are and of those the save found
  (`ReadInv`: nothing removes from the maps, and a failed load keeps what it
  merged), and that both agree but where the save has been (`TouchedInv`), for
  the second write may be to the file of the first. `EndCostsOneFile` follows from
  the same two and from `ForeignInv`: a foreign hash in the maps is still in one
  of the files while nothing is opened. `RestartRestores` relates
  the last step of a save to a load that has not happened: it needs in addition
  that through all of a save the maps hold what the loop recorded (`SavedInv`).
  `OverwriteNeverWritten` follows from `SaveIndex` alone, and `LoadPrecedence`
  from a lemma on `MapsAfterLoad`: the last file that names a stat wins. And
  `StatsService` implements `SaveStore`: initial states map to initial states,
  each action to one of the store's or a stutter.
- **VirtualCurrencyProofs.** `NeverOverdrawn` holds under `BalancesAssumption`
  (the user's files and the game give no account a negative balance). It is
  inductive together with the invariant of `StatsServiceProofs`: a balance only
  gets into the game from the maps, into the maps from the game or a file, and
  into a file from the maps; a transfer is checked against the balance it takes
  from. `RestartRestores` and `OverwriteNeverWritten` hold with transfers too,
  which fall only between saves. `SavesKeepMoney` proves `SaveKeepsMoney` from
  `OwnAccounts`, for files that can be opened: the accounts are online stats,
  the bank one of the default file and each wallet one of its character's, and
  the user puts a balance in no other file. `AtHome`, that no other file ever
  holds it, is what has to be inductive; a balance that was spent to zero and
  skipped comes back as what the file remembers, never as a debt, which is where
  `NeverOverdrawn` is needed. `TransfersImplement`: with calls and payments
  between its steps the service still implements `SaveStore`.
- **SaveDownloadProofs.** The invariant ties the flags to the phase of the
  operation: a swapped buffer exists exactly while `pso_loaded` is set, with the
  saved one the slot's own and decryption off. `JsonNeverMixed` needs the past:
  the skip patch is only ever lifted by an operation that leaves the latch set,
  after which no json save is loaded in that process. `LoadsAreOperations` then
  maps every tick to `LoadOperation`: all before the last are stutters that keep
  the slot (`WayStep`), and the last one may end from a local source because the
  flags are down once the profile stats have come.
- **ThreadPoolProofs.** The invariant says who may hold the lock, that the
  predicate a worker found false still is while it holds the lock, and that a
  worker has a job exactly between taking and finishing one. With these,
  `NoLostWakeup`, `AvailableCount` and `EachJobOnce` are inductive; without the
  exact count it could not be shown to stay a natural number. `PoolIsJobStack`
  uses that a worker that takes a job had none and that no other has the one it
  finishes. `JoinsNobodyAsleep` and `NobodyLeftBehind` are the safety of
  `destroy`: while it joins the workers none is asleep or can fall asleep again,
  and when it has returned none is in `run`, holds a job or is missing from the
  count. They need what each step of `destroy` has behind it (`DestroyInv`):
  no worker takes a job from `Close` on, and none starts after `JoinManaging`.
- **NativeHooksProofs.** The invariant says what the constructor has done to the
  program at hand and that the game cannot have destroyed it since its virtual
  table is the hook's: the destructor detour needs `g_native_hooks`, published
  last. In the shutdown, the program half restored is still in the map.
  `FaultsInWindows` follows from it and from `WindowInv`: before the detours are
  enabled no call is under way in one.
- **LifecycleProofs.** First `Settings` alone: its invariant says that the file
  is as the launch found it until `load` writes, that what is written over a
  corrupt file are the defaults, which parse (`RecursesOnce`), and that `save`
  writes what was read (`ChoiceKept`, `CompleteUntouched`). Then that `Lifecycle`
  implements `Settings` (`LifecycleReadsSettings`), so the three hold of the whole
  start. Then the two threads: the invariant (`LifeInv`) says what is up at each
  step of `Start`, `Shutdown` and the unwinding, and that the game's thread is in
  no detour before they are enabled; from it `FaultsOnlyInWindows` and
  `UnwindsUnused`.
- **ScriptsProofs.** `EachJobOnce`: the stack holds a job once, as its places are
  singletons and the fiber takes the last one; removing the scripts falls
  outside a tick. `PoolIsJobStack`: a fiber takes a job only when it has none, a
  `reset` drops what waits and `remove_all_scripts` what the fibers hold.
- **PatchesProofs.** `PointersRight`: the positions a text gives its bytes at are
  ascending, so the k-th place that gives something is that of the k-th byte
  (`Ascending`, by counting the places up to it), the pattern parsed is the
  signature meant (`TextIsParsed`), and the first offset that matches is the
  least of `Places`. `CodeGivenBack` needs `Remembered`: while patches are made
  and switched, an address no patch covers is as it was loaded, and one that a
  single patch covers is remembered by it as it was loaded. Where patches overlap
  it is false, and the property promises nothing.

Only model-checked: all liveness (`OperationsFinish`, `LocalLoadFinishes`,
`JobsRun`, `DestroyReturns`, `StartRuns`, `ShutdownEnds`), which is beyond the
prover. Every other property of a passing run is a theorem.

## 5. Where code and documents disagree

The four violation runs are findings; `PROJECT.json` quotes the line each
contradicts. In short: an edited save with an unknown hash crashes the next
save; a stat at zero is not saved; an FSL file loads beside a corrupt json save;
one failed try keeps later slots from their FSL files.

Noted while modelling, without a run of their own:

- a stat whose constructor the hook did not see is written under the empty name
  (`stats_service.cpp` 123), which comes back as a hash the game does not have:
  CLS can write a file that brings the save after its next load down, at the
  same line 118 as an edited one;
- a default file that fails to load keeps the character files unread
  (`stats_service.cpp` 363), and the next save rewrites one of them from maps
  that lack what it held;
- the overrides are read only if the default save loaded
  (`stats_service.cpp` 363), while the repository's README (17-20) describes them
  without that condition;
- a start-up that throws destructs the pool while its threads are joinable
  (`thread_pool.cpp` 25), so the process is terminated before the message at
  `main.cpp` 140; `main.cpp` 113 says threads must have stopped first.
  `Lifecycle` ends in `"terminated"`, `ThreadPool` in the same step `Destruct`;
- a program resolved before the detours are enabled and listed after the
  constructor has passed its entry is hooked by neither path
  (`native_hooks.cpp` 132, 166 "for all scripts");
- with `load_fsl_files` off the cloud's answer is made a failure even when no
  json save was loaded (`hooks/saves/stat.cpp` 52-55), so the comment's "since we
  already have the stats" holds only of one of the two cases.

The two windows of `FaultsOnlyInWindows` are of the same kind: no document
excludes them, and they are stated as what the code does leave open.

## 6. Plan

Done: the save service with its abstract store, the currency on top of it, the
download hook with its abstract load operation, the pool and the fibers with
their common abstract stack, the native hooks with their shutdown, settings and
the start, patterns and patches; all their safety and the six refinements are
proved. What is left, in order of worth:

1. **SaveDownload with StatsService** instead of `default_json`, so that a load's
   result and the files are one system; a second operation beside the first, if
   the game is found to run any.
2. Stats constructed while the game runs (`register_stat` between loads).
3. The registry of detours and the queue of MinHook, once anything adds a detour
   after the start.

## 7. Not modelled

- *Data.* About 30,000 of the repository's 37,000 lines of code are tables: the
  font `fonts/rubik.cpp`, the wrappers `natives.hpp`, the hashes of
  `crossmap.hpp`, the enumerations and layouts under `gta/`, script and vehicle
  names. They have no state and no step; the models take from them what matters
  as constants (`Resolved`, `Registered`, `Signature`). What remains
  is some 5,000 lines; the third of them that keeps state or decides anything is
  mapped, the others are declarations, includes, logging and what follows.
- *Output.* Logger, stack trace and exception handler (built only with
  `ENABLE_EXCEPTION_HANDLER`): no other component reads what they write.
- *The native invoker.* A table of handlers filled once.
- *GUI hooks.* Built only with `ENABLE_GUI`, around a renderer that is not in the
  repository.
- *Left out of modelled components:* the wrapped end of a scan over a range
  shorter than its pattern (`range.cpp` 49), since no signature is longer than
  the module; a crash between the two files of a save as it bears on money,
  which may double or lose a transfer and of which nothing is promised; `remove`
  of a byte patch, `scan_all`, `call_hook`, `vtable_hook`, `vmt_hook::unhook`,
  `set_enabled` of a script and `file_manager::get_project_folder`, which have
  no callers or no effect.

`PROJECT.json` lists every component with its status and the reason.
