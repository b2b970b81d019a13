-------------------------- MODULE MasterLifecycle --------------------------
(***************************************************************************)
(* The master-map registry and the mount-point lifecycle of               *)
(* src/lib/master.c, with the threads that share it:                       *)
(*                                                                         *)
(*  - the dispatcher: it reads the master map at start-up and on SIGHUP   *)
(*    (master_read_master -> master_mount_mounts) and fans SIGTERM,        *)
(*    SIGUSR1 and SIGUSR2 out to the mount points                          *)
(*    (master_notify_state_change);                                        *)
(*  - one worker per master entry, running the mount-point state machine  *)
(*    of spec section 4.E (handle_mounts is not in this tree); it starts   *)
(*    up under the startup condition `sc', reads state bytes from its      *)
(*    state pipe, and on shutdown frees its entry (master_free_mapent);    *)
(*  - the mount-request threads of a mount point, which ask for a map      *)
(*    re-read by writing READMAP into its state pipe (lookup_file.c).     *)
(*                                                                         *)
(* master_mutex is modelled as its owner; pthread_mutex_unlock on this     *)
(* default (PTHREAD_MUTEX_INITIALIZER) mutex clears the lock word whoever *)
(* holds it, which is what the build does for an unlock by a thread that  *)
(* does not own it.  A step that holds an ap's state_mutex for its whole  *)
(* duration is one atomic step, which makes state_mutex implicit.          *)
(***************************************************************************)
EXTENDS Naturals, Sequences, FiniteSets

CONSTANTS
    Paths,        \* mount paths of master-map entries
    MasterMaps,   \* MasterMaps[r]: the entry paths, in file order, of the r-th master-map read
    SigBudget,    \* [{"TERM", "USR1", "USR2"} -> Nat]: how many of each signal arrive
    MaxEnvPipe,   \* READMAP requests a mount-request thread may leave queued in a pipe
    CreateFails,  \* whether pthread_create of a mount handler may fail
    NoOwner       \* master_mutex is free

Disp == "dispatcher"
Threads == {Disp} \cup Paths

ASSUME /\ MasterMaps \in Seq(Seq(Paths))
       /\ Len(MasterMaps) >= 1
       /\ NoOwner \notin Threads
       /\ CreateFails \in BOOLEAN

\* enum states (spec section 4.E); ST_INVAL is never stored in ap->state.
States == {"INIT", "READY", "EXPIRE", "PRUNE", "READMAP",
           "SHUTDOWN_PENDING", "SHUTDOWN_FORCE", "SHUTDOWN"}
Signals == {"TERM", "USR1", "USR2"}

DispPcs == {"parse", "relock", "mm_lock", "mm_loop", "mm_wait", "rm_unlock1",
            "rm_unlock2", "ns_lock", "ns_loop", "idle", "aborted"}
WorkerPcs == {"none", "start", "run", "free_lock", "free_body", "done"}

VARIABLES
    mutex,     \* owner of master_mutex, or NoOwner
    inCS,      \* threads executing between their lock and unlock of master_mutex
    dpc,       \* dispatcher program counter
    sig,       \* signal being fanned out by master_notify_state_change
    cursor,    \* dispatcher position in master->mounts
    line,      \* position in the master map being parsed
    epoch,     \* number of the current master-map read: its age
    sigsLeft,  \* signals still to arrive
    list,      \* master->mounts: registered entry paths in list order
    age,       \* entry->age
    state,     \* ap->state
    pipe,      \* state bytes written to ap->state_pipe and not yet read
    pipeOpen,  \* fstat(ap->state_pipe[1]) succeeds: a worker has the pipe open
    wpc,       \* worker program counter of each entry
    scDone,    \* sc.done: the starting worker has signalled the startup condition
    queued,    \* history: entries that were sent SHUTDOWN_PENDING or SHUTDOWN_FORCE
    source     \* source[p]: entry->maps of p's entry, a single map source (st
               \* "none", "live", or "freed" while still linked), its age,
               \* and how often that map_source has been freed

vars == <<mutex, inCS, dpc, sig, cursor, line, epoch, sigsLeft, list, age,
          state, pipe, pipeOpen, wpc, scDone, queued, source>>

-----------------------------------------------------------------------------
(* master_mutex *)

Lock(t) ==
    /\ mutex = NoOwner
    /\ mutex' = t
    /\ inCS' = inCS \cup {t}

\* pthread_mutex_unlock by t: clears the lock word, whoever holds it.
Unlock(t) ==
    /\ mutex' = NoOwner
    /\ inCS' = inCS \ {t}

Registered(p) == \E j \in DOMAIN list : list[j] = p

\* list_del of p from master->mounts.
ListDel(l, p) == [j \in 1..(Len(l) - 1) |-> IF j < CHOOSE n \in DOMAIN l : l[n] = p
                                            THEN l[j] ELSE l[j + 1]]

\* nextstate(ap->state_pipe[1], s): the write reaches the worker only if
\* its pipe is open.
NextState(p, s) ==
    pipe' = IF pipeOpen[p] THEN [pipe EXCEPT ![p] = Append(@, s)] ELSE pipe

Queue(p, s) ==
    queued' = IF pipeOpen[p] /\ s \in {"SHUTDOWN_PENDING", "SHUTDOWN_FORCE"}
              THEN queued \cup {p} ELSE queued

\* A master-map line names one map, so every source added to an entry is
\* the same map: the first becomes entry->maps, the others are duplicates.
NoSource == [st |-> "none", age |-> 0, frees |-> 0]

\* check_update_map_sources (master.c:898-948), with master_mutex held: a
\* source older than this read "has gone away" and is freed, but stays
\* linked in entry->maps (the loop then reads source->next from it); a
\* source freed before is still linked, and its age, read from the freed
\* memory, is still old, so it is freed again.  A source that went away,
\* or readall set by the caller, makes it write READMAP if the pipe is open
\* (readall is the caller's, not in this tree, and either value is taken).
CheckUpdateMapSources(p) ==
    LET stale == source[p].st # "none" /\ source[p].age < epoch IN
    /\ source' = IF stale
                 THEN [source EXCEPT ![p] = [@ EXCEPT !.st = "freed", !.frees = @ + 1]]
                 ELSE source
    /\ \/ NextState(p, "READMAP")
       \/ ~stale /\ UNCHANGED pipe

-----------------------------------------------------------------------------
(* The dispatcher *)

Init ==
    /\ mutex = NoOwner
    /\ inCS = {}
    /\ dpc = "parse"        \* main's start-up master_read_master
    /\ sig = "TERM"
    /\ cursor = 1
    /\ line = 1
    /\ epoch = 1
    /\ sigsLeft = SigBudget
    /\ list = <<>>
    /\ age = [p \in Paths |-> 0]
    /\ state = [p \in Paths |-> "INIT"]
    /\ pipe = [p \in Paths |-> <<>>]
    /\ pipeOpen = [p \in Paths |-> FALSE]
    /\ wpc = [p \in Paths |-> "none"]
    /\ scDone = TRUE
    /\ queued = {}
    /\ source = [p \in Paths |-> NoSource]

WorkerVars == <<state, pipe, pipeOpen, wpc, scDone, queued>>

\* A signal arrives at the idle dispatcher: SIGHUP starts a master-map
\* read with the next age, the others master_notify_state_change.
ReceiveSignal ==
    /\ dpc = "idle"
    /\ \/ /\ epoch < Len(MasterMaps)
          /\ dpc' = "parse"
          /\ epoch' = epoch + 1
          /\ line' = 1
          /\ UNCHANGED <<sig, sigsLeft>>
       \/ \E s \in Signals :
            /\ sigsLeft[s] > 0
            /\ sigsLeft' = [sigsLeft EXCEPT ![s] = @ - 1]
            /\ sig' = s
            /\ dpc' = "ns_lock"
            /\ UNCHANGED <<epoch, line>>
    /\ UNCHANGED <<mutex, inCS, cursor, list, age, source, WorkerVars>>

\* lookup_nss_read_master fails: "can't read master map", return 0
\* before master_mount_mounts (master.c:685-688).
ReadMasterFails ==
    /\ dpc = "parse"
    /\ line = 1
    /\ dpc' = "idle"
    /\ UNCHANGED <<mutex, inCS, sig, cursor, line, epoch, sigsLeft, list, age, source, WorkerVars>>

\* A master-map line for a path not registered: master_find_mapent,
\* master_new_mapent, master_add_autofs_point (state ST_INIT, no pipe),
\* master_add_mapent and master_add_map_source on an entry without maps;
\* each takes and releases master_mutex (master.c:118-193, 222-311, 533-611).
ParseNewLine ==
    /\ dpc = "parse"
    /\ line <= Len(MasterMaps[epoch])
    /\ ~Registered(MasterMaps[epoch][line])
    /\ mutex = NoOwner
    /\ LET p == MasterMaps[epoch][line] IN
         /\ list' = Append(list, p)
         /\ age' = [age EXCEPT ![p] = epoch]
         /\ state' = [state EXCEPT ![p] = "INIT"]
         /\ wpc' = [wpc EXCEPT ![p] = "none"]
         /\ source' = [source EXCEPT ![p] = [st |-> "live", age |-> epoch, frees |-> 0]]
    /\ line' = line + 1
    /\ UNCHANGED <<mutex, inCS, dpc, sig, cursor, epoch, sigsLeft, pipe, pipeOpen, scDone, queued>>

\* A line for a registered path: the entry is found, its age refreshed, and
\* master_add_map_source, seeing entry->maps set, calls
\* master_find_map_source with master_mutex held (master.c:269-281).  The
\* source already linked keeps the age of the read that added it.
ParseRegisteredLine ==
    /\ dpc = "parse"
    /\ line <= Len(MasterMaps[epoch])
    /\ Registered(MasterMaps[epoch][line])
    /\ Lock(Disp)
    /\ age' = [age EXCEPT ![MasterMaps[epoch][line]] = epoch]
    /\ dpc' = "relock"
    /\ UNCHANGED <<sig, cursor, line, epoch, sigsLeft, list, WorkerVars, source>>

\* master_find_map_source locks master_mutex again (master.c:348); once it
\* gets it, it finds the duplicate and unlocks (368), and
\* master_add_map_source returns NULL without unlocking (281-285).
Relock ==
    /\ dpc = "relock"
    /\ mutex = NoOwner
    /\ inCS' = inCS \ {Disp}
    /\ dpc' = "parse"
    /\ line' = line + 1
    /\ UNCHANGED <<mutex, sig, cursor, epoch, sigsLeft, list, age, source, WorkerVars>>

\* The master map is parsed: master_mount_mounts takes master_mutex.
MountMountsLock ==
    /\ dpc = "parse"
    /\ line > Len(MasterMaps[epoch])
    /\ Lock(Disp)
    /\ dpc' = "mm_loop"
    /\ cursor' = 1
    /\ UNCHANGED <<sig, line, epoch, sigsLeft, list, age, source, WorkerVars>>

\* One entry of master_mount_mounts (master.c:966-993): an entry older than
\* this read gets SHUTDOWN_PENDING if its pipe is open (shutdown_entry);
\* otherwise check_update_map_sources runs, and an entry whose pipe fstat
\* fails with EBADF is mounted: master_do_mount resets sc and creates the
\* worker (822-845).
MountMountsStep ==
    /\ dpc = "mm_loop"
    /\ cursor <= Len(list)
    /\ LET p == list[cursor] IN
       \/ /\ age[p] < epoch
          /\ NextState(p, "SHUTDOWN_PENDING")
          /\ Queue(p, "SHUTDOWN_PENDING")
          /\ cursor' = cursor + 1
          /\ UNCHANGED <<dpc, wpc, scDone, source>>
       \/ /\ age[p] >= epoch
          /\ CheckUpdateMapSources(p)
          /\ \/ /\ pipeOpen[p]
                /\ cursor' = cursor + 1
                /\ UNCHANGED <<dpc, wpc, scDone, queued>>
             \/ /\ ~pipeOpen[p]
                /\ wpc' = [wpc EXCEPT ![p] = "start"]
                /\ scDone' = FALSE
                /\ dpc' = "mm_wait"
                /\ UNCHANGED <<cursor, queued>>
             \/ /\ ~pipeOpen[p]
                /\ CreateFails
                \* pthread_create fails: sc.mutex is unlocked and the loop
                \* waits on sc.cond for a worker that does not exist (840-851).
                /\ scDone' = FALSE
                /\ dpc' = "mm_wait"
                /\ UNCHANGED <<cursor, wpc, queued>>
    /\ UNCHANGED <<mutex, inCS, sig, line, epoch, sigsLeft, list, age, state, pipeOpen>>

\* master_do_mount waits on sc.cond until the worker sets sc.done
\* (master.c:847-862), still holding master_mutex.
WaitStartup ==
    /\ dpc = "mm_wait"
    /\ scDone
    /\ dpc' = "mm_loop"
    /\ cursor' = cursor + 1
    /\ UNCHANGED <<mutex, inCS, sig, line, epoch, sigsLeft, list, age, source, WorkerVars>>

\* End of master_mount_mounts: unlock (master.c:996).
MountMountsUnlock ==
    /\ dpc = "mm_loop"
    /\ cursor > Len(list)
    /\ Unlock(Disp)
    /\ dpc' = "rm_unlock1"
    /\ UNCHANGED <<sig, cursor, line, epoch, sigsLeft, list, age, source, WorkerVars>>

\* master_read_master then unlocks master_mutex, which it does not hold
\* (master.c:692) ...
ReadMasterUnlock1 ==
    /\ dpc = "rm_unlock1"
    /\ mutex' = NoOwner
    /\ dpc' = "rm_unlock2"
    /\ UNCHANGED <<inCS, sig, cursor, line, epoch, sigsLeft, list, age, source, WorkerVars>>

\* ... and once more, on the "no mounts in table" path (698) or the
\* normal one (704).
ReadMasterUnlock2 ==
    /\ dpc = "rm_unlock2"
    /\ mutex' = NoOwner
    /\ dpc' = "idle"
    /\ UNCHANGED <<inCS, sig, cursor, line, epoch, sigsLeft, list, age, source, WorkerVars>>

\* master_notify_state_change takes master_mutex (master.c:766).
NotifyLock ==
    /\ dpc = "ns_lock"
    /\ Lock(Disp)
    /\ dpc' = "ns_loop"
    /\ cursor' = 1
    /\ UNCHANGED <<sig, line, epoch, sigsLeft, list, age, source, WorkerVars>>

\* Mutation of NotifyStep: the SIGUSR1 case misses next = ST_PRUNE and
\* writes next's initial value ST_INVAL.
NotifyStepNoPrune ==
    /\ dpc = "ns_loop"
    /\ cursor <= Len(list)
    /\ LET p == list[cursor]
           next == CASE sig = "TERM" -> "SHUTDOWN_PENDING"
                     [] sig = "USR2" -> "SHUTDOWN_FORCE"
                     [] sig = "USR1" -> "INVAL"
       IN \/ /\ sig \in {"TERM", "USR2"}
             /\ state[p] # "SHUTDOWN"
             /\ NextState(p, next)
             /\ Queue(p, next)
             /\ cursor' = cursor + 1
             /\ UNCHANGED dpc
          \/ /\ sig \in {"TERM", "USR2"}
             /\ state[p] = "SHUTDOWN"
             /\ cursor' = cursor + 1
             /\ UNCHANGED <<dpc, pipe, queued>>
          \/ /\ sig = "USR1"
             /\ state[p] = "READY"
             /\ NextState(p, next)
             /\ cursor' = cursor + 1
             /\ UNCHANGED <<dpc, queued>>
          \/ /\ sig = "USR1"
             /\ state[p] # "READY"
             /\ dpc' = "aborted"
             /\ UNCHANGED <<cursor, pipe, queued>>
    /\ UNCHANGED <<mutex, inCS, sig, line, epoch, sigsLeft, list, age, source, state, pipeOpen, wpc, scDone>>

\* One entry, under its state_mutex (master.c:770-812): SIGTERM and SIGUSR2
\* write SHUTDOWN_PENDING / SHUTDOWN_FORCE unless the entry is in
\* ST_SHUTDOWN; SIGUSR1 asserts ST_READY, aborting the process otherwise,
\* and writes PRUNE.
NotifyStep ==
    /\ dpc = "ns_loop"
    /\ cursor <= Len(list)
    /\ LET p == list[cursor]
           next == CASE sig = "TERM" -> "SHUTDOWN_PENDING"
                     [] sig = "USR2" -> "SHUTDOWN_FORCE"
                     [] sig = "USR1" -> "PRUNE"
       IN \/ /\ sig \in {"TERM", "USR2"}
             /\ state[p] # "SHUTDOWN"
             /\ NextState(p, next)
             /\ Queue(p, next)
             /\ cursor' = cursor + 1
             /\ UNCHANGED dpc
          \/ /\ sig \in {"TERM", "USR2"}
             /\ state[p] = "SHUTDOWN"
             /\ cursor' = cursor + 1
             /\ UNCHANGED <<dpc, pipe, queued>>
          \/ /\ sig = "USR1"
             /\ state[p] = "READY"
             /\ NextState(p, next)
             /\ cursor' = cursor + 1
             /\ UNCHANGED <<dpc, queued>>
          \/ /\ sig = "USR1"
             /\ state[p] # "READY"
             /\ dpc' = "aborted"
             /\ UNCHANGED <<cursor, pipe, queued>>
    /\ UNCHANGED <<mutex, inCS, sig, line, epoch, sigsLeft, list, age, source, state, pipeOpen, wpc, scDone>>

\* Mutation of NotifyUnlock: the unlock at the end is missing.
NotifyUnlockMissing ==
    /\ dpc = "ns_loop"
    /\ cursor > Len(list)
    /\ dpc' = "idle"
    /\ UNCHANGED <<mutex, inCS, sig, cursor, line, epoch, sigsLeft, list, age, source, WorkerVars>>

NotifyUnlock ==
    /\ dpc = "ns_loop"
    /\ cursor > Len(list)
    /\ Unlock(Disp)
    /\ dpc' = "idle"
    /\ UNCHANGED <<sig, cursor, line, epoch, sigsLeft, list, age, source, WorkerVars>>


-----------------------------------------------------------------------------
(* A worker (handle_mounts and the state machine of spec section 4.E,     *)
(* lib/state.c; not in this tree)                                          *)

\* Start-up: the worker attaches its state pipe and enters READY, or fails
\* to mount; either way it sets sc.done and signals sc.cond (spec 4.D:
\* "the reader only proceeds once the worker has either signalled readiness
\* or failure").  A failed worker exits and leaves its entry registered.
WorkerStart(p) ==
    /\ wpc[p] = "start"
    /\ scDone' = TRUE
    /\ \/ /\ state' = [state EXCEPT ![p] = "READY"]
          /\ pipeOpen' = [pipeOpen EXCEPT ![p] = TRUE]
          /\ wpc' = [wpc EXCEPT ![p] = "run"]
       \/ /\ wpc' = [wpc EXCEPT ![p] = "done"]
          /\ UNCHANGED <<state, pipeOpen>>
    /\ UNCHANGED <<mutex, inCS, dpc, sig, cursor, line, epoch, sigsLeft, list, age, source, pipe, queued>>

\* The periodic expire timer fires in READY.
Expire(p) ==
    /\ wpc[p] = "run"
    /\ state[p] = "READY"
    /\ state' = [state EXCEPT ![p] = "EXPIRE"]
    /\ UNCHANGED <<mutex, inCS, dpc, sig, cursor, line, epoch, sigsLeft, list, age, source,
                   pipe, pipeOpen, wpc, scDone, queued>>

\* EXPIRE, PRUNE and READMAP return to READY when their task completes.
TaskDone(p) ==
    /\ wpc[p] = "run"
    /\ state[p] \in {"EXPIRE", "PRUNE", "READMAP"}
    /\ state' = [state EXCEPT ![p] = "READY"]
    /\ UNCHANGED <<mutex, inCS, dpc, sig, cursor, line, epoch, sigsLeft, list, age, source,
                   pipe, pipeOpen, wpc, scDone, queued>>

\* In READY the worker reads the next state byte from its pipe and enters
\* that state; bytes are read in the order they were written.
ReadPipe(p) ==
    /\ wpc[p] = "run"
    /\ state[p] = "READY"
    /\ pipe[p] # <<>>
    /\ state' = [state EXCEPT ![p] = Head(pipe[p])]
    /\ pipe' = [pipe EXCEPT ![p] = Tail(@)]
    /\ UNCHANGED <<mutex, inCS, dpc, sig, cursor, line, epoch, sigsLeft, list, age, source,
                   pipeOpen, wpc, scDone, queued>>

\* SHUTDOWN_PENDING / SHUTDOWN_FORCE end in SHUTDOWN: the worker closes its
\* pipe, dropping unread bytes, and goes on to free its entry.
ShutdownDone(p) ==
    /\ wpc[p] = "run"
    /\ state[p] \in {"SHUTDOWN_PENDING", "SHUTDOWN_FORCE"}
    /\ state' = [state EXCEPT ![p] = "SHUTDOWN"]
    /\ pipeOpen' = [pipeOpen EXCEPT ![p] = FALSE]
    /\ pipe' = [pipe EXCEPT ![p] = <<>>]
    /\ wpc' = [wpc EXCEPT ![p] = "free_lock"]
    /\ UNCHANGED <<mutex, inCS, dpc, sig, cursor, line, epoch, sigsLeft, list, age, source,
                   scDone, queued>>

\* master_free_mapent takes master_mutex (master.c:619) ...
FreeMapentLock(p) ==
    /\ wpc[p] = "free_lock"
    /\ Lock(p)
    /\ wpc' = [wpc EXCEPT ![p] = "free_body"]
    /\ UNCHANGED <<dpc, sig, cursor, line, epoch, sigsLeft, list, age, source,
                   state, pipe, pipeOpen, scDone, queued>>

\* master_free_mapent frees every source of entry->maps (628-639), a
\* source check_update_map_sources freed and left linked included.
FreeMaps(m) == IF m.st = "none" THEN m ELSE [st |-> "none", age |-> 0, frees |-> m.frees + 1]

\* Mutation of FreeMapentBody: returns without unlocking master_mutex.
FreeMapentBodyNoUnlock(p) ==
    /\ wpc[p] = "free_body"
    /\ list' = IF Registered(p) THEN ListDel(list, p) ELSE list
    /\ cursor' = IF Registered(p) /\ (CHOOSE n \in DOMAIN list : list[n] = p) < cursor
                 THEN cursor - 1 ELSE cursor
    /\ source' = [source EXCEPT ![p] = FreeMaps(@)]
    /\ wpc' = [wpc EXCEPT ![p] = "done"]
    /\ UNCHANGED <<mutex, inCS, dpc, sig, line, epoch, sigsLeft, age,
                   state, pipe, pipeOpen, scDone, queued>>

\* ... unlinks the entry from master->mounts, frees its sources and
\* unlocks (623-644); master_free_autofs_point and free follow.  The
\* dispatcher's list cursor is a pointer: it keeps designating the same
\* node when an earlier node is unlinked.  (Unlinking the node it stands
\* on leaves it on a freed node; it is modelled as going on with the
\* successor.)
FreeMapentBody(p) ==
    /\ wpc[p] = "free_body"
    /\ list' = IF Registered(p) THEN ListDel(list, p) ELSE list
    /\ cursor' = IF Registered(p) /\ (CHOOSE n \in DOMAIN list : list[n] = p) < cursor
                 THEN cursor - 1 ELSE cursor
    /\ Unlock(p)
    /\ source' = [source EXCEPT ![p] = FreeMaps(@)]
    /\ wpc' = [wpc EXCEPT ![p] = "done"]
    /\ UNCHANGED <<dpc, sig, line, epoch, sigsLeft, age,
                   state, pipe, pipeOpen, scDone, queued>>

\* A mount-request thread whose lookup found the map changed writes READMAP
\* into the pipe under state_mutex (lookup_file.c:1009-1022).
RequestReadmap(p) ==
    /\ wpc[p] = "run"
    /\ pipeOpen[p]
    /\ Len(SelectSeq(pipe[p], LAMBDA s : s = "READMAP")) < MaxEnvPipe
    /\ pipe' = [pipe EXCEPT ![p] = Append(@, "READMAP")]
    /\ UNCHANGED <<mutex, inCS, dpc, sig, cursor, line, epoch, sigsLeft, list, age, source,
                   state, pipeOpen, wpc, scDone, queued>>

-----------------------------------------------------------------------------
\* The dispatcher's steps once a signal is being handled.
DispatcherStep ==
    \/ ReadMasterFails \/ ParseNewLine \/ ParseRegisteredLine
    \/ Relock \/ MountMountsLock \/ MountMountsStep \/ WaitStartup
    \/ MountMountsUnlock \/ ReadMasterUnlock1 \/ ReadMasterUnlock2
    \/ NotifyLock \/ NotifyStep \/ NotifyUnlock

Dispatcher == ReceiveSignal \/ DispatcherStep

\* An abort ends every thread of the process.
Worker(p) ==
    /\ dpc # "aborted"
    /\ \/ WorkerStart(p) \/ Expire(p) \/ TaskDone(p) \/ ReadPipe(p)
       \/ ShutdownDone(p) \/ FreeMapentLock(p) \/ FreeMapentBody(p)
       \/ RequestReadmap(p)

Next ==
    \/ ReceiveSignal
    \/ DispatcherStep
    \/ \E p \in Paths : Worker(p)

\* The dispatcher and the workers are threads the scheduler keeps running;
\* signal arrival, the expire timer and mount requests are the
\* environment's and get no fairness.  A worker in READY reads a queued
\* byte before the timer can take it back to EXPIRE forever: its poll on
\* the pipe is strongly fair.
Fairness ==
    /\ WF_vars(DispatcherStep)
    /\ \A p \in Paths :
         /\ WF_vars(WorkerStart(p) \/ TaskDone(p) \/ ShutdownDone(p)
                    \/ FreeMapentLock(p) \/ FreeMapentBody(p))
         /\ SF_vars(ReadPipe(p))

Spec == Init /\ [][Next]_vars /\ Fairness

-----------------------------------------------------------------------------
TypeOK ==
    /\ mutex \in Threads \cup {NoOwner}
    /\ inCS \subseteq Threads
    /\ dpc \in DispPcs
    /\ sig \in Signals
    /\ cursor \in Nat
    /\ line \in Nat
    /\ epoch \in 1..Len(MasterMaps)
    /\ sigsLeft \in [Signals -> Nat]
    /\ list \in Seq(Paths)
    /\ age \in [Paths -> 0..Len(MasterMaps)]
    /\ state \in [Paths -> States]
    /\ pipe \in [Paths -> Seq(States)]
    /\ pipeOpen \in [Paths -> BOOLEAN]
    /\ wpc \in [Paths -> WorkerPcs]
    /\ scDone \in BOOLEAN
    /\ queued \subseteq Paths
    /\ source \in [Paths -> [st : {"none", "live", "freed"}, age : 0..Len(MasterMaps), frees : Nat]]

\* Spec section 8: once SHUTDOWN_PENDING or SHUTDOWN_FORCE has been written
\* into a worker's open pipe (shutdown_entry on a dropped entry, or the
\* SIGTERM/SIGUSR2 fan-out of master_notify_state_change), the worker
\* eventually reaches SHUTDOWN and frees its entry, whatever READMAP, PRUNE
\* and EXPIRE work was queued ahead of it.
ShutdownReachesWorker ==
    \A p \in Paths : (p \in queued) ~> (wpc[p] = "done" \/ dpc = "aborted")

\* Every signal the dispatcher starts handling (master_read_master with
\* master_mount_mounts, or master_notify_state_change) completes, so the
\* daemon goes back to waiting for signals.
SignalHandlingCompletes ==
    (dpc \notin {"idle", "aborted"}) ~> (dpc \in {"idle", "aborted"})

\* Every map_source is freed at most once: check_update_map_sources, which
\* frees a source that went away without unlinking it, and
\* master_free_mapent, which frees what is linked, never free it twice.
SourceFreedOnce == \A p \in Paths : source[p].frees <= 1

\* master_mutex excludes: at most one thread is between its lock and its
\* unlock (spec section 5; the open question of section 9 on the extra
\* unlocks in master_read_master).
MasterMutexExclusive == Cardinality(inCS) <= 1

\* The assertion assert(ap->state == ST_READY) in the SIGUSR1 case of
\* master_notify_state_change never fails, so the process never aborts.
NoAssertionFailure == dpc # "aborted"

=============================================================================
