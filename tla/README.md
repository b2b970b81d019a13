# TLA+ models of the autofs automounter

This directory holds TLA+ models of the autofs daemon sources under `src/`. Each
model is checked with TLC. `PROJECT.json` records the component
inventory, the runs, the mutants that validate every checked property, the map
from each TLA+ definition to the source lines it translates, the findings and
the hazard list.

## The system

autofs mounts file systems on demand. Its parts, and the state each part keeps:

| Part | Source | State | Operations |
|---|---|---|---|
| Master-map registry | `src/lib/master.c` | `master->mounts` (list of entries: path, age, map sources, automount point); `master_mutex` | `master_read_master`, `master_find/new/add_mapent`, `master_free_mapent`, `master_add/find/free_map_source`, source instances under `instance_mutex` |
| Mount-point lifecycle | `src/lib/master.c` (`master_mount_mounts`, `master_do_mount`, `shutdown_entry`, `check_update_map_sources`, `master_notify_state_change`, `notify_submounts`) | `ap->state`, `ap->state_pipe`, startup condition `sc` | reconcile after a read, start workers, fan signals out |
| Worker state machine | `handle_mounts` and `lib/state.c`, **not in this tree** (spec 4.E) | `ap->state` ∈ INIT, READY, EXPIRE, PRUNE, READMAP, SHUTDOWN_PENDING, SHUTDOWN_FORCE, SHUTDOWN | start-up handshake, timer expire, reading state bytes, shutdown |
| NSS pipeline | `src/daemon/lookup.c` | none of its own: it drives the modules and the cache | `lookup_nss_read_map`, `lookup_nss_mount`, `lookup_enumerate`, `lookup_ghost` |
| Cache | `lib/cache.c`, **not in this tree** (spec 4.B) | key → map entry, age, negative-cache status | `cache_update`, `cache_clean`, ... |
| Lookup modules | `src/modules/lookup_file.c`, `lookup_yp.c`, `lookup_nisplus.c`, `lookup_hesiod.c` | per-source include depth and recursion guard, the cache | `lookup_read_master`, `lookup_read_map`, `lookup_mount` |
| Mount module | `src/modules/mount_generic.c` | none | spawn mount(8), remove the directory on failure |
| SASL binding | `src/modules/cyrus-sasl.c` | SASL connection | LDAP bind |

The threads interact like this:

- **The dispatcher.** This is one signal-handling context. At start-up and on
  SIGHUP it reads the master map through the NSS pipeline and the file module,
  then reconciles the registry with `master_mount_mounts`. On SIGTERM, SIGUSR1
  and SIGUSR2 it runs `master_notify_state_change`, which writes a state byte
  into every mount point's state pipe.
- **The workers.** Each mount point has one worker thread. It starts under the
  startup condition `sc`. It then reads its pipe, runs expires, and re-reads
  its map through `lookup_nss_read_map`. At shutdown it frees its entry with
  `master_free_mapent`, which takes `master_mutex`.
- **Mount-request threads.** These run `lookup_nss_mount`. When a lookup finds
  the map changed, it writes READMAP into the worker's pipe
  (`lookup_file.c:1009-1022`).

The files under `src/` are not all of one version.

- `lookup_file.c` uses `ap->entry->current` and `master_source_current_wait`.
- `master.c` and `lookup.c` do not have these.

The models follow each file as it is.

### Hard behaviours

- **`master_mutex` handling.** The code takes and releases `master_mutex` in
  many places. Two of those places are wrong:
  - `master_read_master` unlocks it twice more after `master_mount_mounts`.
  - `master_add_map_source` locks it twice.
- **The start-up handshake.** The dispatcher waits on `sc.cond` while it holds
  `master_mutex`.
- **FIFO state pipes.** Several writers use them: the dispatcher, the
  mount-request threads, and `check_update_map_sources`. Only the worker reads
  them. Bytes are lost when the pipe is closed.
- **Cache age sweeps.** `cache_clean` runs on the success and the failure paths
  of a read.
- **Include recursion** in the file module. It is bounded only by depth for
  cycles that are not direct self-includes.
- **The negative-cache time window.**

## Modules

### `NssRules` (from `src/daemon/lookup.c`)

This module holds the pure action matching of the pipeline:
- `NssVerdict` is what the loop does after one source returned a status: the
  negated-action loop first, then the action for that status.
- `SingleSourceMount` is the value `lookup_nss_mount` returns for a one-source
  list. When the list runs out without a RETURN, that value is 1.

`NssLookup` and `FileLookup` both extend it.

### `NssLookup` (from `src/daemon/lookup.c`)

One behaviour is one call of `lookup_nss_read_map` or of `lookup_nss_mount`.

`Init` chooses the call's configuration:
- the operation;
- a forced map type;
- the shape of the map name: absolute, plain, or containing `/`;
- whether the nsswitch file parsed;
- a source list of up to `MaxSources` sources, each with one of the action
  tables in `ActionTables`.

Each action is one step of the code:
- `Start` is lines 54-78: the function entry up to the loop.
- `ForcedCall` is the one-call branches at lines 54-70.
- `FilesRejectsName` is lines 98-101.
- `CallSource` is one loop iteration, lines 94-159. It first runs the negated
  loop, then the direct action. Both are combined in `NssVerdict`.
- `EndOfList` is lines 162-169.

A source name opens a module: `files` the file module, `nis` the NIS
module, `nisplus` and `hesiod` their own. `ModuleCall` is the set of outcomes
of one call:
- the file and NIS modules return any NSS status, and before returning may
  have written their keys into the cache (`Delivered`);
- the NIS+ and Hesiod modules behave as their code does (`LookupModules`
  below). Either can also fail in `lookup_init`, which makes the call
  UNAVAIL.

`Record` keeps four histories of the call: the keys written, the entries
handed to `parse_mount` (current or stale), whether a status read after
`nis_freeresult` was garbled, and whether a SIGHUP went to the parent. A
mount looks up one `key`, on a direct or an indirect map (`direct`).

The cache is modelled from the spec. Each key has an age, one of absent, old
or fresh, where fresh means the age of this read. `cache_update` makes keys
fresh and `cache_clean` removes the old ones.

The MC module sets these bounds:
- five keys: `k1` in the file map, `k2` in the NIS map, and the NIS+ table
  holding `k3`, the wildcard `kw` and a plus key `kp`; Hesiod has a record
  for `k3`. A mount looks up `k1` (cached but in no NIS+ entry, so a stale
  entry for NIS+), `k2` or `k3`;
- up to two sources from the four names;
- 13 action tables: the all-UNKNOWN table, and each table with one slot set
  to CONTINUE, RETURN or negated RETURN.

Every branch of the traversal and of the module outcomes is reached. TLC
explores about 5.1 million states in about a minute.

### `LookupModules` (from `src/modules/lookup_nisplus.c`, `lookup_hesiod.c`)

Of the lookup modules, these two have the entry points `lookup.c` calls.
Each entry point is an operator giving the set of outcomes of one call. An
outcome is the NSS status, the cache left behind, the entry handed to
`parse_mount`, and whether a SIGHUP was sent. These operators are composed
into `NssLookup`'s source loop and forced path.

- `NisplusReadMap` is `lookup_read_map`. It returns NOTFOUND when the table is
  missing, UNAVAIL when enumeration fails, and otherwise caches every key that
  does not begin with `+`.
- `NisplusMatch` is `lookup_one`, and `lookup_wild` with the key `*`.
  - A key the table holds is cached. This is CHE_OK, or CHE_FAIL when
    `cache_update` cannot allocate.
  - After `nis_list` fails, the code frees the result and then reads
    `result->status` (lines 135-141, 168-174). That read is of freed memory,
    so `FreedRead` lets the value fall in any class the later tests tell
    apart: CHE_MISSING, 0, negative, or another positive value. The outcome
    is `garbled` when the class differs from what the server answered.
- `CheckMapIndirect` is lines 186-238.
  - 0 gives NOTFOUND, and a negative value gives UNAVAIL.
  - CHE_MISSING looks up the wildcard, deletes `*` if that is missing too,
    deletes the key, and gives NOTFOUND.
  - Anything else gives SUCCESS.
  - A SIGHUP to the parent is a choice where the code's time test could pass.
- `NisplusMount` is `lookup_mount`. An indirect map is checked first. Then the
  cached entry, if there is one, goes to `parse_mount`; its failure, or no
  entry, gives TRYAGAIN. A direct map is never checked (lines 257-261).
- `HesiodReadMap` always returns UNAVAIL. `HesiodMount` returns UNAVAIL when
  no record resolves, and otherwise returns `parse_mount`'s 0 or 1 as SUCCESS
  or NOTFOUND.

The record data is abstracted away: keys only. The Hesiod choice of the
lowest-priority record is therefore not modelled.

### `MasterLifecycle` (from `src/lib/master.c`)

**Threads.** The model has the dispatcher, one worker per path in `Paths`,
and the environment's mount-request threads.

**`master_mutex`.**
- It is the variable `mutex`, which holds its owner.
- `inCS` is the set of threads between their lock and their unlock.
- `Unlock` clears the lock word whoever holds it. This is what glibc does for
  a mutex made with `PTHREAD_MUTEX_INITIALIZER`.
- A step that holds an automount point's `state_mutex` for its whole duration
  is a single step. This makes `state_mutex` implicit.

**Dispatcher actions.** Each action is one locked region or one step of the
code:
- `ParseNewLine` is a master-map line for a new path: the find, new, add and
  add-source calls, each locked and unlocked on its own.
- `ParseRegisteredLine` and `Relock` are a line for a registered entry:
  `master_add_map_source` locks, then `master_find_map_source` locks again.
- `MountMountsLock` takes the lock for `master_mount_mounts`.
- `MountMountsStep` handles one entry. It either shuts it down, or runs
  `check_update_map_sources`, then fstat, then launches a worker.
- `WaitStartup` is the wait on `sc.cond`.
- `MountMountsUnlock` releases the lock.
- `ReadMasterUnlock1` and `ReadMasterUnlock2` are the two extra unlocks.
- `NotifyLock`, `NotifyStep` and `NotifyUnlock` are
  `master_notify_state_change`.

**Workers.** Per spec 4.E:
- `WorkerStart` either succeeds or fails. Either way it sets `sc.done`.
- `Expire` is the expire timer. `TaskDone` ends an expire, prune or re-read
  task.
- `ReadPipe` reads one state byte, in FIFO order.
- `ShutdownDone` closes the pipe.
- `FreeMapentLock` and `FreeMapentBody` are `master_free_mapent`.

`RequestReadmap` is a mount-request thread writing READMAP.

**Inputs.**
- `MasterMaps` is the sequence of master maps, one per read.
- `SigBudget` is how many of each signal arrive.
- `CreateFails` says whether `pthread_create` may fail.

**Abstractions.**
- Every master-map line names a single map, so an entry has one map source.
  `source[p]` is that source: absent, live, or freed while still linked.
  It also records the source's age and how often it was freed.
  - A new entry's first source takes the age of the read.
  - A line for a registered entry takes the duplicate-source path. The linked
    source keeps its old age.
  - `CheckUpdateMapSources`, the first half of `MountMountsStep` for a
    surviving entry, frees a source older than the read without unlinking it.
    A freed source's age, read from the freed memory, is still old, so it is
    freed again. It writes READMAP when a source went away, or when the
    caller's `readall` is set, which is either value.
  - `FreeMapentBody` frees whatever `entry->maps` holds.
  - Type `null` sources and entries with several maps are not modelled.
- `SourceFreedOnce` states that no source is freed twice. No run checks it.
  With the constants of `MasterLifecycle.cfg`, TLC violates it in 38 steps:
  1. A relisted entry gets past the line-281 self-deadlock through the
     line-692 stray unlock.
  2. Its source, never re-aged, is freed by `check_update_map_sources`.
  3. `master_free_mapent` frees it again when the entry shuts down.
- The dispatcher's list cursor behaves like a pointer: unlinking an earlier
  node does not move it.

**Fairness.**
- Each dispatcher step after a signal's arrival is weakly fair, because the
  dispatcher is a thread that runs whenever it can.
- A worker's start-up, task completion, shutdown and entry freeing are weakly
  fair.
- A worker's read of its pipe is strongly fair. The worker polls the pipe
  whenever it is READY, and the timer cannot take it to EXPIRE forever ahead
  of a queued byte.
- Signal arrival, the expire timer and mount requests are the environment's,
  so they get no fairness.

**Bounds.**
- Two paths.
- Master maps: the start-up read lists `/p1`, and a SIGHUP read drops it and
  adds `/p2`. The relist configuration adds a third read that lists `/p2`
  again.
- At most one of each signal.
- At most one READMAP request queued by a mount-request thread.

These bounds make every interleaving of interest happen. The configurations
cover these cases:
- a worker freeing its entry during the extra unlocks;
- a stale entry shut down while another starts;
- SIGTERM reaching workers that are busy expiring;
- READMAP queued ahead of a shutdown;
- a relisted entry.

### `Submount` (from `src/lib/master.c`)

This module models `notify_submounts` (`master.c:711-757`) against the threads
that change the submount tree.

**State.**
- `subs[a]` is `a->submounts` in list order.
- `mm` and `sm` are the owners of each `mounts_mutex` and `state_mutex`.
- `stack` holds the frames of the recursion. Each frame has the list `ap`,
  the cursor `p`, and the `this` and `empty` of the loop body.
- `got[a]` counts the state bytes written into `a`'s pipe.
- `exiting` and `freed` track `master_free_autofs_point`.
- `fatal` is set when a mutex destroy fails.

**Actions.** The notifier's steps follow the code's unlock and lock points:
- `LockMounts`: lock `mounts_mutex`;
- `Advance`: the loop body up to the unlock;
- `LockState`: lock the child's `state_mutex`, and recurse if it has
  submounts;
- `Write`: `nextstate` and unlock;
- `Relock`: take `mounts_mutex` back;
- `Return`: the end of the list.

The other threads have these actions:
- `Unlink` and `Release`: `master_free_autofs_point` of an exiting submount.
  A destroy of a held mutex is fatal.
- `Join`: the spec-modelled `mount_autofs`, which links a new submount under
  its parent's `mounts_mutex`.

The root's `state_mutex` is held from the start, as
`master_notify_state_change` holds it.

**Bounds.** The tree is a root with children `a` and `b`, and `a` has a child
`g`. This is the smallest tree with both a recursion and a sibling after it.
`c` may be mounted under the root or under `a` during the walk. In the pass
run another entry `o` gets a submount `d` that exits. In the violation run
`b` and `g` may exit.

**Fairness.** The walk is weakly fair. The code's walk never blocks except on
locks.

### `FileLookup` (from `src/modules/lookup_file.c`)

**Map files.** A map file is a sequence of lines. A line is either a key with
its map entry, or a `+map` include. An include names its map in one of two
ways:
- by a path, which forces the file source;
- by a plain name, which is resolved through nsswitch.

The variable `content` holds the files as they are on disk. `EditMaps` lets
the administrator rewrite them.

**The include recursion.** It is written as RECURSIVE operators:
- `ReadMapRec` is `lookup_read_map`. Every included read is a whole
  `lookup_nss_read_map`, with its own `cache_clean` on the shared cache
  (`IncludeCleans`).
- `ReadMasterRec` is `lookup_read_master`, with `master->depth` and
  `master->recurse` restored after each include.
- `LookupMount`, `LookupOne`, `CheckMapIndirect`, `LookupWild` and
  `ParseMount` are `lookup_mount` and its helpers. An include line in
  `lookup_one` runs the included map's `lookup_mount`. `IncludeStatus` maps
  the result to what `lookup_nss_mount` returns: `!status` for a path, the
  one-source nsswitch verdict for a name.

Every level shares one cache, because `prepare_plus_include` copies
`current->mc`.

**Actions.**
- `ReadMap` and `ReadMaster` are one read each.
- `MountRequest(k, ok)` is one `lookup_nss_mount` of key `k`, where `ok` is
  the outcome of `parse_mount`.
- `Tick` advances `time(NULL)`.

**The cache.** `lib/cache.c` is not in this tree, so the cache is modelled
from spec 4.A. Each key has an entry with its map entry and its
negative-status deadline. `cache_lookup` falls back to the wildcard.

**Recorded state.** `failedAt[k]` is the second at which `parse_mount` last
failed for `k` at the top level of a request. A re-read that no longer
lists `k` resets it, because its `cache_clean` drops `k`'s entry and the
negative status with it. `last` records what the last request saw and did:
- the failure time of its key before it ran;
- whether the negative check answered;
- the status it returned;
- the entry it mounted.

**Abstractions.**
- A mount request is atomic with respect to reads. The transient
  `cache_clean` of a nested read is therefore not interleaved with requests
  (listed as a hazard).
- Multi-mount keys are left out.
- The key-length check is left out.
- `fopen` and `fstat` failures are left out, since every file exists.
- `read_one` is left out.

**Version skew.** `lookup_file.c` calls `lookup_nss_read_master` and
`master_new_mapent(master, path, age)`, which the `lookup.c` and `master.c`
of this tree do not have. The include step through the pipeline follows the
spec, and `ReadMaster` is marked spec-modelled.

**Bounds.**
- Two map files, two keys and two map entries.
- `MAX_INCLUDE_DEPTH` is 1 or 2 instead of 16. The depth test and the cycle
  behaviour are the same at any bound; a smaller bound only shortens the
  repetition.
- `NEGATIVE_TIMEOUT` is 2.
- Time runs to 4 seconds. This is enough for a failure at second 1, a
  request inside the window (second 2), one at the deadline (3), and one
  after it (4).

**Fairness.** None is assumed. Every property of this module is a safety
property.

## Runs

| Run | cfg | Expect | Checks |
|---|---|---|---|
| nss_pipeline | `NssLookup.cfg` | pass | `TypeOK`; `ReadMapCacheReflectsSources`: after a read_map, every key a module delivered is cached, and on success the cache holds exactly what was delivered. `NoStaleIndirectMount`: on an indirect map, the NIS+ module never hands `parse_mount` the cached entry of a key its table no longer holds, whatever earlier sources wrote or deleted, unless a status read after `nis_freeresult` was garbled |
| nss_clean_on_failure | `NssLookupCleanOnFailure.cfg` | violation | `CacheKeptWhenAllUnavailable` (spec 4.E): a read_map through the nsswitch list in which every source answers UNAVAIL leaves the cache unchanged. It is violated: with the default continue action the list runs out, and `lookup.c:164` runs `cache_clean` and returns success |
| master_lifecycle | `MasterLifecycle.cfg` | pass | `TypeOK`, with thread-creation failure, a relisted entry and all three signals. The run drives the failure paths whose consequences the violation runs below report |
| master_progress | `MasterLifecycleLiveness.cfg` | pass | `ShutdownReachesWorker`: a queued SHUTDOWN is eventually acted on. `SignalHandlingCompletes`: every signal's handling ends. This assumes no relisted entry and a `pthread_create` that succeeds |
| master_stray_unlock | `MasterMutexStrayUnlock.cfg` | violation | `MasterMutexExclusive`: a worker in `master_free_mapent` and the SIGTERM fan-out are both inside `master_mutex` |
| master_usr1_assert | `MasterUsr1Assert.cfg` | violation | `NoAssertionFailure`: SIGUSR1 reaches an entry that is in INIT after a failed start, or in EXPIRE, and the assertion aborts the daemon |
| master_relist_deadlock | `MasterRelistDeadlock.cfg` | violation | `SignalHandlingCompletes`: a re-read that lists a registered entry hangs in `master_add_map_source` |
| file_lookup | `FileLookup.cfg` | pass | `TypeOK`. `ReadMapMatchesReference` and `ReadMasterMatchesReference`: the recursive reads deliver exactly the keys of the maps reachable within the include depth, computed over the include graph. The maps include another by path, or themselves and each other by name and by path; they are edited, re-read and looked up as the clock runs |
| file_negative_reread | `FileLookupNegativeReread.cfg` | violation | `NegativeWindowHonoured` (spec 8, scenario 6; spec 4.A): after a failed mount of `k`, requests for `k` inside the `NEGATIVE_TIMEOUT` window are answered NOTFOUND as long as the map still lists `k`. It is violated: the map includes another before `k`, and a re-read runs the included map's `lookup_nss_read_map`, whose `cache_clean` on the shared cache deletes `k`'s entry before the outer read re-creates it without its status |
| submount_notify | `Submount.cfg` | pass | `NotifiedOnce`: one walk writes the state once into every submount of the tree. `ChildrenBeforeParent`: a submount gets the state only after every submount below it. A submount is mounted under the root or under `a` during the walk, and another entry's submount is mounted and exits |
| submount_free | `SubmountFree.cfg` | violation | `SubmountWalkSafe`: a submount exits while the walk has dropped its parent's `mounts_mutex`; the walk then locks its destroyed `state_mutex` (or `master_free_autofs_point` finds the mutex held and calls `fatal`) |
| file_stale_key | `FileLookupStaleKey.cfg` | violation | `MountUsesCurrentEntry`: after a key is removed from the map, a request still mounts its cached entry. The always-true test at line 991 skips the delete |

Each property of a passing run has a mutant in `PROJECT.json`. A mutant is a
plausible bug of the code that TLC then catches:
- SIGUSR1 writing ST_INVAL because `next = ST_PRUNE` is missing;
- `master_free_mapent` returning without its unlock;
- `master_notify_state_change` returning without its unlock;
- `!status` lost in the forced path;
- `cache_clean` dropped at list exhaustion;
- the NIS+ `lookup_mount` using the cache without `check_map_indirect`;
- the negative deadline set one second late;
- the include depth test off by one, in `lookup_read_map` and in
  `lookup_read_master`;
- `p = p->next` missing in `notify_submounts`;
- the recursion into a child with submounts missing.

TLC also finds these, with no run kept for them:
- With `pthread_create` failing, `SignalHandlingCompletes` is violated.
- With maps that include no other map ahead of a key, `NegativeWindowHonoured`
  holds; the `file_negative_reread` violation needs the include line.
- At the deadline second itself, `lookup_mount` refuses a key that spec 3
  (`status > now`) would look up.
- With the relisting maps of `MasterLifecycle.cfg`, an entry whose worker
  has closed its pipe at shutdown, and waits for `master_mutex` to free the entry, is listed again. fstat gives
  EBADF, and `master_do_mount` starts a second handler on the same
  `autofs_point` (`master.c:989`). The state goes from SHUTDOWN back to
  READY while the first handler is about to free it. This depends on the
  worker closing its pipe before `master_free_mapent`, which is outside this
  tree.
- An exceeded include depth makes `lookup_mount` return SUCCESS
  (`lookup_file.c:1057`), and a failed include by name ahead of the key ends
  the scan as completed (`lookup_file.c:845`), because `lookup_nss_mount`
  returns 1 when its list runs out. Both are in `LookupMount` and
  `LookupOne`; the spec says nothing of either case, so no property is
  stated about them.
- With `MCMasterCycle` at depth 2, `MasterEntriesParsedOnce` is violated.
  Only a direct self-include is detected (`lookup_file.c:462`), and a second
  parse of a registered path is the `master_add_map_source` self-deadlock.

- Without the garbled exception, `NoStaleIndirectMount` is violated in one
  NIS+ call. The server reports the key missing. The status read from the
  freed result comes out as a positive value, `check_map_indirect` returns
  SUCCESS, and the stale cached entry is mounted
  (`lookup_nisplus.c:137`).
- With a Hesiod-only source list, a read_map is UNAVAIL, the list runs out,
  and `cache_clean` empties the cache. This is the `nss_clean_on_failure`
  finding, under the usual `automount: hesiod` configuration.

These are listed as hazards.

## Not modelled

These parts stay out. Each reason is given with it:

- **`lookup_yp.c`.** It exports `lookup_ghost(root, ...)` and
  `lookup_mount(const char *root, ...)`, and calls `cache_update(root, ...)`.
  That is an older module interface than the `lookup_read_map(ap, age, ctxt)`
  and `lookup_mount(ap, ...)` which `lookup.c` calls. Its code cannot be
  composed with this tree's pipeline faithfully. The pipeline's `nis` source
  stays the abstract module call of `NssLookup`.
- **`lookup_ghost` and `lookup_enumerate` of `lookup.c`.** They walk the cache
  and make or stat a directory per key. Their only state is directories and
  `me->dev`/`me->ino`, which no property is about.
- **Source instances** (`master_find_source_instance`,
  `master_add_source_instance`). Nothing in this tree calls them: `lookup.c`
  here predates source instances. Their find-then-insert race has no actor to
  model.
- **Mount requests interleaved with a map re-read** in `FileLookup`. The
  cache operations are modelled from the spec, because `lib/cache.c` is not in
  this tree. Their locking, which decides that interleaving, is not in the
  tree either.
- **The Hesiod record choice** (`lookup_hesiod.c:95-106`). This is string and
  `atoi` data. Its overflow edge is listed as a hazard.
- **`rmdir_path` and `mkdir_path`**, the directories of NIS+ and
  `mount_generic.c`. `mount_generic.c` spawns mount(8) and removes the
  directory on failure: process and file-system I/O with no shared state.
- **`read_one`**, the character-level parser. It is text processing.
- **`cyrus-sasl.c`.** It is an exchange with an external library.
- **The default-setting helpers of `master.c`.**
- **New runs.** The project keeps to twelve runs, and every slot holds a
  distinct question. The double free of a map source, the second handler on a
  relisted, shutting-down entry, and the NIS+ use-after-free are therefore
  described above and in the hazards, not given runs of their own.
