----------------------------- MODULE NssLookup -----------------------------
(***************************************************************************)
(* The name-service-switch pipeline of src/daemon/lookup.c:               *)
(* lookup_nss_read_map (the map read of a mount point, which ends with    *)
(* cache_clean) and lookup_nss_mount (the on-demand lookup of one key).   *)
(*                                                                         *)
(* One behaviour is one call of the pipeline.  The configuration it runs  *)
(* under (forced map type, the map name, the parsed nsswitch source list  *)
(* with its per-status actions, the cache it starts from) is chosen in    *)
(* Init; each lookup-module call is one step whose NSS status is chosen   *)
(* nondeterministically, together with the keys the module wrote into     *)
(* the cache before returning it.                                          *)
(***************************************************************************)
EXTENDS Naturals, Sequences, FiniteSets, NssRules, LookupModules

CONSTANTS
    ModuleKeys,    \* [{"file", "yp"} -> SUBSET Keys]: the keys the file and NIS maps hold
    ActionTables,  \* the per-source action tables nsswitch_parse may produce
    MaxSources     \* the longest nsswitch source list considered

\* nsswitch source names and the lookup module each one opens.  "files" is
\* truncated to "file" (lookup.c:103) before open_lookup; the others name
\* their module.  The file and NIS modules are called abstractly here
\* (the file module is FileLookup; lookup_yp.c has the entry points of an
\* older interface), NIS+ and Hesiod by LookupModules.
SourceNames == {"files", "nis", "nisplus", "hesiod"}
Modules == {"file", "yp", "nisplus", "hesiod"}
ModuleOf(name) ==
    CASE name = "files" -> "file" [] name = "nis" -> "yp" [] OTHER -> name

NssSource == [source : SourceNames, action : [StatusSet -> Action]]

\* The shape of ap->mapargv[0]: an absolute path, a plain map name, or a
\* relative name containing a '/'.
MapNames == {"absolute", "plain", "slash"}
NoType == "none"

NoKey == "none"

ASSUME /\ ModuleKeys \in [{"file", "yp"} -> SUBSET Keys]
       /\ ActionTables \subseteq [StatusSet -> Action]
       /\ MaxSources \in Nat

VARIABLES
    op,        \* "read_map" (lookup_nss_read_map) or "mount" (lookup_nss_mount)
    maptype,   \* ap->maptype, or NoType
    mapname,   \* the shape of ap->mapargv[0]
    parsed,    \* whether nsswitch_parse succeeded
    nsslist,   \* the parsed source list
    pc,        \* "start", "forced", "loop" or "done"
    i,         \* index of the next nsswitch source
    calls,     \* history: the status of every module call, in order
    ret,       \* the pipeline's return value (1 success, 0 failure)
    cache,     \* [Keys -> {"absent", "old", "fresh"}]: "fresh" = age of this read
    delivered, \* history: every key a module wrote into the cache in this call
    key,       \* the name lookup_nss_mount looks up (NoKey on read_map)
    direct,    \* ap->type is LKP_DIRECT
    handed,    \* history: the entries modules handed to parse_mount
    garbled,   \* history: a status read after nis_freeresult was not the server's
    sighup     \* history: a module sent SIGHUP to its parent

vars == <<op, maptype, mapname, parsed, nsslist, pc, i, calls, ret, cache, delivered,
          key, direct, handed, garbled, sighup>>

CacheState == {"absent", "old", "fresh"}

-----------------------------------------------------------------------------
(* The cache operations the pipeline and the modules perform on the       *)
(* mount point's cache (lib/cache.c, not in this tree).                    *)

\* cache_clean(path, age): remove every entry whose age is below age.
CacheClean(c) == [k \in Keys |-> IF c[k] = "old" THEN "absent" ELSE c[k]]

-----------------------------------------------------------------------------
(* A lookup-module call (do_read_map / do_lookup_mount): the set of its   *)
(* outcomes (LookupModules).  The file and NIS modules return status s     *)
(* after writing the keys ks; one that fails may have written part of its *)
(* map first (lookup_file reads the whole file before fstat can fail).     *)
Delivered(m, s) ==
    IF s = "SUCCESS" THEN {ModuleKeys[m]} ELSE {{}, ModuleKeys[m]}

ModuleCall(m) ==
    CASE m = "nisplus" ->
           {LookupInitFails(cache)}
           \cup IF op = "read_map" THEN NisplusReadMap(cache) ELSE NisplusMount(cache, key, direct)
      [] m = "hesiod" ->
           {LookupInitFails(cache)}
           \cup IF op = "read_map" THEN HesiodReadMap(cache) ELSE HesiodMount(cache, key)
      [] OTHER ->
           UNION {{Outcome(s, CacheUpdate(cache, ks), "none", FALSE, FALSE) :
                     ks \in Delivered(m, s)} : s \in StatusSet}

\* What a module call leaves in the histories.
Record(o) ==
    /\ calls' = Append(calls, o.status)
    /\ delivered' = delivered \cup {k \in Keys : o.cache[k] = "fresh"}
    /\ handed' = IF o.handed = "none" THEN handed ELSE handed \cup {o.handed}
    /\ garbled' = (garbled \/ o.garbled)
    /\ sighup' = (sighup \/ o.hup)

\* cache_clean is part of lookup_nss_read_map only.
CleanIfReadMap(c) == IF op = "read_map" THEN CacheClean(c) ELSE c

-----------------------------------------------------------------------------
Init ==
    /\ op \in {"read_map", "mount"}
    /\ maptype \in {NoType} \cup Modules
    /\ mapname \in MapNames
    /\ parsed \in BOOLEAN
    /\ nsslist \in UNION {[1..n -> [source : SourceNames, action : ActionTables]]
                           : n \in 0..MaxSources}
    /\ pc = "start"
    /\ i = 1
    /\ calls = <<>>
    /\ ret = 0
    /\ cache = [k \in Keys |-> "old"]
    /\ delivered = {}
    /\ key \in IF op = "mount" THEN Keys \ ({Star} \cup PlusKeys) ELSE {NoKey}
    /\ direct \in IF op = "mount" THEN BOOLEAN ELSE {FALSE}
    /\ handed = {}
    /\ garbled = FALSE
    /\ sighup = FALSE

\* Entry of lookup_nss_read_map / lookup_nss_mount up to the source loop
\* (lookup.c:54-78, 282-301).
Start ==
    /\ pc = "start"
    /\ \/ /\ maptype # NoType \/ mapname = "absolute"
          /\ pc' = "forced"
          /\ UNCHANGED ret
       \/ /\ maptype = NoType /\ mapname # "absolute"
          /\ ~parsed
          /\ pc' = "done"
          /\ ret' = 0
       \/ /\ maptype = NoType /\ mapname # "absolute"
          /\ parsed
          /\ pc' = "loop"
          /\ UNCHANGED ret
    /\ UNCHANGED <<op, maptype, mapname, parsed, nsslist, i, calls, cache, delivered,
                   key, direct, handed, garbled, sighup>>

\* Mutation of ForcedCall: returns the NSS status instead of !status.
ForcedCallRawStatus ==
    /\ pc = "forced"
    /\ LET m == IF maptype # NoType THEN maptype ELSE "file"
       IN \E o \in ModuleCall(m) :
            /\ Record(o)
            /\ cache' = CleanIfReadMap(o.cache)
            /\ ret' = CHOOSE n \in 0..3 : Status[n + 1] = o.status
    /\ pc' = "done"
    /\ UNCHANGED <<op, maptype, mapname, parsed, nsslist, i, key, direct>>

\* A forced map type, or a map name that is an absolute path (forced to
\* the file module): one module call, then cache_clean on read_map
\* whatever the status, and return !status (lookup.c:54-70, 282-293).
ForcedCall ==
    /\ pc = "forced"
    /\ LET m == IF maptype # NoType THEN maptype ELSE "file"
       IN \E o \in ModuleCall(m) :
            /\ Record(o)
            /\ cache' = CleanIfReadMap(o.cache)
            /\ ret' = IF o.status = "SUCCESS" THEN 1 ELSE 0
    /\ pc' = "done"
    /\ UNCHANGED <<op, maptype, mapname, parsed, nsslist, i, key, direct>>

\* The "files" source refuses a map name containing '/' (lookup.c:98-101).
FilesRejectsName ==
    /\ pc = "loop"
    /\ i <= Len(nsslist)
    /\ nsslist[i].source = "files"
    /\ mapname = "slash"
    /\ pc' = "done"
    /\ ret' = 0
    /\ UNCHANGED <<op, maptype, mapname, parsed, nsslist, i, calls, cache, delivered,
                   key, direct, handed, garbled, sighup>>

\* One iteration of the source loop: call the module of source i and act
\* on its status; a success that ends a read_map cleans the cache
\* (lookup.c:94-159, 318-383).
CallSource ==
    /\ pc = "loop"
    /\ i <= Len(nsslist)
    /\ ~(nsslist[i].source = "files" /\ mapname = "slash")
    /\ \E o \in ModuleCall(ModuleOf(nsslist[i].source)) :
         LET v == NssVerdict(nsslist[i], o.status)
             c == o.cache
         IN /\ Record(o)
            /\ pc' = IF v = "continue" THEN "loop" ELSE "done"
            /\ i' = IF v = "continue" THEN i + 1 ELSE i
            /\ ret' = IF v = "success" THEN 1 ELSE 0
            /\ cache' = IF v = "success" THEN CleanIfReadMap(c) ELSE c
    /\ UNCHANGED <<op, maptype, mapname, parsed, nsslist, key, direct>>

\* Mutation of EndOfList: success without cache_clean.
EndOfListNoClean ==
    /\ pc = "loop"
    /\ i > Len(nsslist)
    /\ pc' = "done"
    /\ ret' = IF nsslist # <<>> THEN 1 ELSE 0
    /\ UNCHANGED <<op, maptype, mapname, parsed, nsslist, i, calls, cache, delivered,
                   key, direct, handed, garbled, sighup>>

\* The list is exhausted with no RETURN: success (and cache_clean on
\* read_map) if the list was non-empty, else "no sources found"
\* (lookup.c:162-169, 386-392).
EndOfList ==
    /\ pc = "loop"
    /\ i > Len(nsslist)
    /\ pc' = "done"
    /\ IF nsslist # <<>>
          THEN /\ ret' = 1
               /\ cache' = CleanIfReadMap(cache)
          ELSE /\ ret' = 0
               /\ UNCHANGED cache
    /\ UNCHANGED <<op, maptype, mapname, parsed, nsslist, i, calls, delivered,
                   key, direct, handed, garbled, sighup>>

Next ==
    \/ Start
    \/ ForcedCall
    \/ FilesRejectsName
    \/ CallSource
    \/ EndOfList

Spec == Init /\ [][Next]_vars /\ WF_vars(Next)

-----------------------------------------------------------------------------
TypeOK ==
    /\ op \in {"read_map", "mount"}
    /\ maptype \in {NoType} \cup Modules
    /\ mapname \in MapNames
    /\ parsed \in BOOLEAN
    /\ nsslist \in Seq(NssSource)
    /\ pc \in {"start", "forced", "loop", "done"}
    /\ i \in 1..(MaxSources + 1)
    /\ calls \in Seq(StatusSet)
    /\ ret \in {0, 1}
    /\ cache \in [Keys -> CacheState]
    /\ delivered \subseteq Keys
    /\ key \in Keys \cup {NoKey}
    /\ direct \in BOOLEAN
    /\ handed \subseteq {"current", "stale"}
    /\ garbled \in BOOLEAN /\ sighup \in BOOLEAN

\* Keys present in the cache.
Cached(c) == {k \in Keys : c[k] # "absent"}

\* After a read_map (lookup_nss_read_map, whose cache_clean on every success
\* path drops what the sources no longer hold): every key a module wrote in
\* this read is still cached, and when the read reports success the cache
\* holds exactly the keys the sources delivered, no entry of an older read.
ReadMapCacheReflectsSources ==
    (pc = "done" /\ op = "read_map") =>
        /\ delivered \subseteq Cached(cache)
        /\ ret = 1 => Cached(cache) = delivered

\* Section 4.E of the spec: "A lookup-module UNAVAIL during READMAP leaves
\* the cache unchanged."  A read_map through the nsswitch source list in
\* which every source answered UNAVAIL (and so none could return) ends
\* with every entry it started with still cached.  When the list runs out
\* without a RETURN, lookup_nss_read_map returns 1 and calls cache_clean
\* (lookup.c:162-166) whatever the sources answered.
CacheKeptWhenAllUnavailable ==
    (/\ pc = "done" /\ op = "read_map"
     /\ maptype = NoType /\ mapname # "absolute"
     /\ calls # <<>>
     /\ \A j \in DOMAIN calls : calls[j] = "UNAVAIL")
        => Cached(cache) = Keys

\* check_map_indirect (lookup_nisplus.c:186-238) asks the NIS+ server
\* before lookup_mount uses the cache, so a mount lookup on an indirect map
\* never hands parse_mount the cached entry of a key the NIS+ table no
\* longer holds, whatever the sources before it wrote or deleted, unless
\* a status read after nis_freeresult came out other than the server's.
NoStaleIndirectMount == (~direct /\ ~garbled) => "stale" \notin handed

=============================================================================
