----------------------------- MODULE FileLookup -----------------------------
(***************************************************************************)
(* The file lookup module, src/modules/lookup_file.c: the read of a file  *)
(* map into the mount point's cache (lookup_read_map), the on-demand       *)
(* lookup of one key (lookup_mount, check_map_indirect, lookup_one,        *)
(* lookup_wild), and the read of a file master map (lookup_read_master).   *)
(*                                                                         *)
(* A map file is a sequence of lines: a key with its map entry, or a      *)
(* "+map" include.  Includes recurse through the NSS pipeline into the    *)
(* file module of the included map, with the include depth and the        *)
(* self-include guard of the originating map source; the recursion is the *)
(* RECURSIVE operators below, one call of the module being one step.      *)
(* The cache is shared by every level of the recursion (prepare_plus_     *)
(* include copies current->mc into the included source).                  *)
(*                                                                         *)
(* The environment edits map files, lets time pass, and sends mount       *)
(* requests; parse_mount (the mount itself) succeeds or fails.            *)
(***************************************************************************)
EXTENDS Naturals, Sequences, FiniteSets, NssRules

CONSTANTS
    Files,            \* map files, named by their basename
    Keys,             \* map keys a request may ask for
    Ents,             \* map entries (the text after the key)
    NoKey, NoEnt, NoFile,
    Top,              \* the mount point's map (an absolute path: a forced file map)
    Versions,         \* the contents the map files can have: [Files -> Seq(Line)]
    MasterContent,    \* the master map files: [Files -> Seq(Line)], keys are mount paths
    MasterTop,        \* the master map file
    MaxIncludeDepth,  \* MAX_INCLUDE_DEPTH
    NegativeTimeout,  \* NEGATIVE_TIMEOUT
    MaxTime,          \* the last second the model lets the clock reach
    IncludeActions,   \* the nsswitch action table a "+name" include is resolved with
    Ghost,            \* ap->ghost
    Indirect          \* ap->type == LKP_INDIRECT

\* The wildcard key and the cache's keys.
Wild == "*"
CacheKeys == Keys \cup {Wild}

\* One line of a map file: "key entry", or "+map" where the included map
\* is named by a path (a forced file source) or by a plain name resolved
\* through nsswitch.
Line == [kind : {"key"}, key : CacheKeys, ent : Ents, target : {NoFile}, how : {"none"}]
   \cup [kind : {"plus"}, key : {NoKey}, ent : {NoEnt}, target : Files, how : {"path", "name"}]
KeyLine(k, e) == [kind |-> "key", key |-> k, ent |-> e, target |-> NoFile, how |-> "none"]
PlusLine(f, how) == [kind |-> "plus", key |-> NoKey, ent |-> NoEnt, target |-> f, how |-> how]

\* A cache entry: whether it exists, its map entry (NoEnt for the entry
\* lookup_mount creates to hold a negative status), its status deadline.
Entry == [in : BOOLEAN, ment : Ents \cup {NoEnt}, status : 0..(MaxTime + NegativeTimeout)]
Absent == [in |-> FALSE, ment |-> NoEnt, status |-> 0]

\* The outcome of the last mount request, for the properties.
NoRequest == [key |-> NoKey, at |-> 0, since |-> 0, st |-> "none",
              m |-> NoEnt, neg |-> FALSE, rm |-> FALSE]

ASSUME /\ Top \in Files /\ MasterTop \in Files
       /\ Versions \subseteq [Files -> Seq(Line)]
       /\ MasterContent \in [Files -> Seq(Line)]
       /\ MaxIncludeDepth \in Nat /\ NegativeTimeout \in Nat /\ MaxTime \in Nat
       /\ IncludeActions \in [StatusSet -> Action]
       /\ Ghost \in BOOLEAN /\ Indirect \in BOOLEAN

VARIABLES
    content,       \* the map files as they are on disk
    cache,         \* the mount point's map cache: [CacheKeys -> Entry]
    now,           \* time(NULL)
    last,          \* the last mount request and what lookup_mount did
    failedAt,      \* history: when parse_mount last failed for each key (0: never),
                   \* while the entry it marked negative stays cached
    readmapSent,   \* READMAP written to the worker's state pipe
    masterParsed   \* the master-map lines master_parse_entry was called on, in order

vars == <<content, cache, now, last, failedAt, readmapSent, masterParsed>>

-----------------------------------------------------------------------------
(* The cache operations of lib/cache.c (not in this tree; spec 4.A).      *)

\* cache_update(mc, key, mapent, age): CHE_UPDATED when the entry is new or
\* its map entry changed, CHE_OK otherwise; the status is kept.
UpdateResult(c, k, e) == IF c[k].in /\ c[k].ment = e THEN "OK" ELSE "UPDATED"
CacheUpdate(c, k, e) == [c EXCEPT ![k] = [in |-> TRUE, ment |-> e, status |-> c[k].status]]

\* cache_lookup(mc, key): the key's entry, else the wildcard entry.
CacheLookup(c, k) == IF c[k].in THEN c[k] ELSE c[Wild]

\* cache_clean(path, age): drop the entries not updated at this read's age.
CacheClean(c, upd) == [k \in CacheKeys |-> IF k \in upd THEN c[k] ELSE Absent]

-----------------------------------------------------------------------------
(* Reading a map: lookup_read_map, with lookup_nss_read_map around every  *)
(* included read.                                                          *)

\* check_self_include / check_master_self_include: the include names the
\* map being read (same path, or same basename).
IsSelfInclude(f, ln) == ln.target = f

\* The status lookup_read_map returns: UNAVAIL under the recursion guard or
\* past the include depth, SUCCESS otherwise (the file always opens).
ReadStatus(d, rec) == IF rec \/ d > MaxIncludeDepth THEN "UNAVAIL" ELSE "SUCCESS"

\* Whether the lookup_nss_read_map of an included map ends with
\* cache_clean: always for a map named by a path (the forced path), and
\* for a plain name unless the nsswitch action RETURNs on a failure.
IncludeCleans(how, st) ==
    how = "path" \/ NssVerdict([action |-> IncludeActions], st) # "failure"

\* lookup_read_map of map f at include depth d, source->recurse = rec,
\* threading r: the cache c and the keys upd updated at this read's age.
\* An included read is a whole lookup_nss_read_map, which may end with
\* cache_clean(ap->path, age) on the same cache.
RECURSIVE ReadMapRec(_, _, _, _)

\* Mutation of ReadMapRec: the include depth test off by one (>=).
ReadMapRecDepthOff(f, d, rec, r) ==
    LET RECURSIVE Lines(_, _)
        Lines(j, s) ==
            IF j > Len(content[f]) THEN s
            ELSE LET ln == content[f][j]
                 IN IF ln.kind = "plus"
                    THEN LET sub == ReadMapRec(ln.target, d + 1, IsSelfInclude(f, ln), s)
                             st == ReadStatus(d + 1, IsSelfInclude(f, ln))
                         IN Lines(j + 1, [c |-> IF IncludeCleans(ln.how, st)
                                                THEN CacheClean(sub.c, sub.upd) ELSE sub.c,
                                          upd |-> sub.upd])
                    ELSE Lines(j + 1, [c |-> CacheUpdate(s.c, ln.key, ln.ent),
                                       upd |-> s.upd \cup {ln.key}])
    IN IF rec \/ d >= MaxIncludeDepth THEN r ELSE Lines(1, r)

ReadMapRec(f, d, rec, r) ==
    LET RECURSIVE Lines(_, _)
        Lines(j, s) ==
            IF j > Len(content[f]) THEN s
            ELSE LET ln == content[f][j]
                 IN IF ln.kind = "plus"
                    THEN LET sub == ReadMapRec(ln.target, d + 1, IsSelfInclude(f, ln), s)
                             st == ReadStatus(d + 1, IsSelfInclude(f, ln))
                         IN Lines(j + 1, [c |-> IF IncludeCleans(ln.how, st)
                                                THEN CacheClean(sub.c, sub.upd) ELSE sub.c,
                                          upd |-> sub.upd])
                    ELSE Lines(j + 1, [c |-> CacheUpdate(s.c, ln.key, ln.ent),
                                       upd |-> s.upd \cup {ln.key}])
    IN IF rec \/ d > MaxIncludeDepth THEN r ELSE Lines(1, r)

\* lookup_read_master of master map file f with master->depth = d and
\* master->recurse = rec: the sequence of lines handed to
\* master_parse_entry.  recurse and depth are restored after an include.
RECURSIVE ReadMasterRec(_, _, _)

\* Mutation of ReadMasterRec: the include depth test off by one (>=).
ReadMasterRecDepthOff(f, d, rec) ==
    LET RECURSIVE Lines(_)
        Lines(j) ==
            IF j > Len(MasterContent[f]) THEN <<>>
            ELSE LET ln == MasterContent[f][j]
                 IN IF ln.kind = "plus"
                    THEN ReadMasterRec(ln.target, d + 1, IsSelfInclude(f, ln)) \o Lines(j + 1)
                    ELSE <<ln.key>> \o Lines(j + 1)
    IN IF rec \/ d >= MaxIncludeDepth THEN <<>> ELSE Lines(1)

ReadMasterRec(f, d, rec) ==
    LET RECURSIVE Lines(_)
        Lines(j) ==
            IF j > Len(MasterContent[f]) THEN <<>>
            ELSE LET ln == MasterContent[f][j]
                 IN IF ln.kind = "plus"
                    THEN ReadMasterRec(ln.target, d + 1, IsSelfInclude(f, ln)) \o Lines(j + 1)
                    ELSE <<ln.key>> \o Lines(j + 1)
    IN IF rec \/ d > MaxIncludeDepth THEN <<>> ELSE Lines(1)

-----------------------------------------------------------------------------
(* Looking a key up: lookup_mount and its helpers.  A result record       *)
(* carries the NSS status, the cache, the map entry mounted (NoEnt if     *)
(* none), whether the negative-cache check answered, and whether READMAP  *)
(* is to be sent.                                                          *)

Result(st, c, m, neg, rm) == [st |-> st, c |-> c, m |-> m, neg |-> neg, rm |-> rm, fail |-> FALSE]

\* The value lookup_nss_mount(iap) returns to lookup_one for an included
\* map: !status when the map is named by a path (forced file source), the
\* one-source nsswitch verdict when it is named by a plain name.
IncludeStatus(how, st) ==
    IF how = "path" THEN (IF st = "SUCCESS" THEN 1 ELSE 0)
    ELSE SingleSourceMount([action |-> IncludeActions], st)

\* The first line of f that is the wildcard.
WildLines(f) == {j \in DOMAIN content[f] : content[f][j].kind = "key" /\ content[f][j].key = Wild}

\* lookup_wild: scan f for the "*" key and cache it.
LookupWild(f, c) ==
    IF WildLines(f) = {} THEN [che |-> "MISSING", c |-> c]
    ELSE LET e == content[f][CHOOSE j \in WildLines(f) : \A i \in WildLines(f) : j <= i].ent
         IN [che |-> UpdateResult(c, Wild, e), c |-> CacheUpdate(c, Wild, e)]

\* Mutation of Negative: only entries that hold a map entry are checked,
\* missing the entry created to carry the negative status.
NegativeSkipsEmpty(c, k) == c[k].in /\ c[k].ment # NoEnt /\ c[k].status >= now

\* lookup_mount's negative-cache check: me->status >= time(NULL).
Negative(c, k) == c[k].in /\ c[k].status >= now

\* Mutation of MarkNegative: the deadline one second late.
MarkNegativeLate(c, k) ==
    [c EXCEPT ![k] = [in |-> TRUE, ment |-> c[k].ment, status |-> now + NegativeTimeout + 1]]

\* The failure path of lookup_mount after parse_mount: create the entry if
\* absent and set its status to now + NEGATIVE_TIMEOUT.
MarkNegative(c, k) ==
    [c EXCEPT ![k] = [in |-> TRUE, ment |-> c[k].ment, status |-> now + NegativeTimeout]]

\* The tail of lookup_mount: cache_lookup (wildcard fallback), then
\* parse_mount with the entry; ok is parse_mount's outcome.
ParseMount(k, c, ok, rm) ==
    LET e == CacheLookup(c, k).ment
    IN IF e = NoEnt THEN Result("TRYAGAIN", c, NoEnt, FALSE, rm)
       ELSE IF ok THEN Result("SUCCESS", c, e, FALSE, rm)
       ELSE [Result("TRYAGAIN", MarkNegative(c, k), NoEnt, FALSE, rm) EXCEPT !.fail = TRUE]

RECURSIVE LookupMount(_, _, _, _, _, _)

\* lookup_one: scan f for key k from line j.  An include line runs the
\* included map's lookup_mount for k and ends the scan when
\* lookup_nss_mount returned nonzero; the key's line is cached.
RECURSIVE LookupOne(_, _, _, _, _, _)
LookupOne(f, k, d, j, c, ok) ==
    IF j > Len(content[f]) THEN [che |-> "MISSING", c |-> c, m |-> NoEnt]
    ELSE LET ln == content[f][j]
         IN IF ln.kind = "plus"
            THEN LET sub == LookupMount(ln.target, k, d + 1, IsSelfInclude(f, ln), c, ok)
                 IN IF IncludeStatus(ln.how, sub.st) = 1
                    THEN [che |-> "COMPLETED", c |-> sub.c, m |-> sub.m]
                    ELSE LookupOne(f, k, d, j + 1, sub.c, ok)
            ELSE IF ln.key = k
            THEN [che |-> UpdateResult(c, k, ln.ent), c |-> CacheUpdate(c, k, ln.ent), m |-> NoEnt]
            ELSE LookupOne(f, k, d, j + 1, c, ok)

\* check_map_indirect.  A missing key is looked up as the wildcard, and
\* the test of line 991 (wild == CHE_COMPLETED || CHE_UPDATED || CHE_OK)
\* is always true: the call returns success before the cache deletes and
\* the READMAP request.  A key that was (re)cached asks for a READMAP when
\* the mount point is ghosted.
CheckMapIndirect(f, k, d, c, ok) ==
    LET one == LookupOne(f, k, d, 1, c, ok)
        needMap == one.che = "UPDATED" \/ (c[k].in /\ one.che = "MISSING")
    IN CASE one.che = "COMPLETED" -> Result("COMPLETED", one.c, one.m, FALSE, FALSE)
         [] one.che = "MISSING"   -> Result("SUCCESS", LookupWild(f, one.c).c, NoEnt, FALSE, FALSE)
         [] OTHER                 -> Result("SUCCESS", one.c, NoEnt, FALSE, Ghost /\ needMap)

\* lookup_mount of key k in map f at include depth d, source->recurse = rec.
\* An exceeded include depth returns SUCCESS (line 1057).
LookupMount(f, k, d, rec, c, ok) ==
    IF rec THEN Result("UNAVAIL", c, NoEnt, FALSE, FALSE)
    ELSE IF d > MaxIncludeDepth THEN Result("SUCCESS", c, NoEnt, FALSE, FALSE)
    ELSE IF Negative(c, k) THEN Result("NOTFOUND", c, NoEnt, TRUE, FALSE)
    ELSE IF ~Indirect THEN ParseMount(k, c, ok, FALSE)
    ELSE LET chk == CheckMapIndirect(f, k, d, c, ok)
         IN IF chk.st = "COMPLETED" THEN Result("SUCCESS", chk.c, chk.m, FALSE, chk.rm)
            ELSE ParseMount(k, chk.c, ok, chk.rm)

-----------------------------------------------------------------------------
Init ==
    /\ content \in Versions
    /\ cache = [k \in CacheKeys |-> Absent]
    /\ now = 1
    /\ last = NoRequest
    /\ failedAt = [k \in Keys |-> 0]
    /\ readmapSent = FALSE
    /\ masterParsed = <<>>

\* The clock advances one second.
Tick ==
    /\ now < MaxTime
    /\ now' = now + 1
    /\ UNCHANGED <<content, cache, last, failedAt, readmapSent, masterParsed>>

\* The administrator rewrites the map files.
EditMaps ==
    /\ content' \in Versions \ {content}
    /\ UNCHANGED <<cache, now, last, failedAt, readmapSent, masterParsed>>

\* lookup_nss_read_map of the mount point's map, an absolute path: the
\* file module's lookup_read_map, then cache_clean whatever the status.
ReadMap ==
    /\ LET r == ReadMapRec(Top, 0, FALSE, [c |-> cache, upd |-> {}])
       IN /\ cache' = CacheClean(r.c, r.upd)
          /\ failedAt' = [k \in Keys |-> IF k \in r.upd THEN failedAt[k] ELSE 0]
    /\ UNCHANGED <<content, now, last, readmapSent, masterParsed>>

\* lookup_mount of key k for a mount request on the mount point; READMAP
\* goes to the worker's state pipe when check_map_indirect asks for it.
MountRequest(k, ok) ==
    /\ LET r == LookupMount(Top, k, 0, FALSE, cache, ok)
       IN /\ cache' = r.c
          /\ last' = [key |-> k, at |-> now, since |-> failedAt[k],
                      st |-> r.st, m |-> r.m, neg |-> r.neg, rm |-> r.rm]
          /\ failedAt' = IF r.fail THEN [failedAt EXCEPT ![k] = now] ELSE failedAt
          /\ readmapSent' = (readmapSent \/ r.rm)
    /\ UNCHANGED <<content, now, masterParsed>>

\* lookup_read_master of the master map file.
ReadMaster ==
    /\ masterParsed' = ReadMasterRec(MasterTop, 0, FALSE)
    /\ UNCHANGED <<content, cache, now, last, failedAt, readmapSent>>

Next ==
    \/ Tick
    \/ EditMaps
    \/ ReadMap
    \/ \E k \in Keys, ok \in BOOLEAN : MountRequest(k, ok)
    \/ ReadMaster

Spec == Init /\ [][Next]_vars

-----------------------------------------------------------------------------
TypeOK ==
    /\ content \in Versions
    /\ cache \in [CacheKeys -> Entry]
    /\ now \in 1..MaxTime
    /\ last \in [key : Keys \cup {NoKey}, at : 0..MaxTime, since : 0..MaxTime,
                 st : StatusSet \cup {"none"}, m : Ents \cup {NoEnt}, neg : BOOLEAN, rm : BOOLEAN]
    /\ failedAt \in [Keys -> 0..MaxTime]
    /\ readmapSent \in BOOLEAN
    /\ masterParsed \in Seq(CacheKeys)

(* Reference definitions: what a read of a map with includes should       *)
(* deliver, computed over the include graph instead of by recursion.     *)

\* The maps f includes, other than itself.
Includes(cont, f) == {cont[f][j].target : j \in {i \in DOMAIN cont[f] : cont[f][i].kind = "plus"}} \ {f}

\* The maps reachable from the maps S in at most n include steps.
RECURSIVE ReachWithin(_, _, _)
ReachWithin(cont, S, n) ==
    IF n = 0 THEN S ELSE ReachWithin(cont, S \cup UNION {Includes(cont, g) : g \in S}, n - 1)

\* The keys listed in the maps reachable from map f.
KeysOf(cont, g) == {cont[g][j].key : j \in {i \in DOMAIN cont[g] : cont[g][i].kind = "key"}}
RefKeys(cont, f) == UNION {KeysOf(cont, g) : g \in ReachWithin(cont, {f}, MaxIncludeDepth)}

\* The entries the current map offers for key k: its own lines for k in
\* any reachable map, else the wildcard's.
EntriesFor(k) ==
    LET G == ReachWithin(content, {Top}, MaxIncludeDepth)
        L(key) == UNION {{content[g][j].ent : j \in {i \in DOMAIN content[g] :
                              content[g][i].kind = "key" /\ content[g][i].key = key}} : g \in G}
    IN IF L(k) # {} THEN L(k) ELSE L(Wild)

\* A re-read of the map (lookup_nss_read_map over lookup_read_map, its
\* include recursion with the depth bound and the self-include guard, and
\* the cache_clean calls of every nested read) leaves in the cache exactly
\* the keys of the maps reachable within MAX_INCLUDE_DEPTH includes.
ReadMapMatchesReference ==
    [][ReadMap => {k \in CacheKeys : cache'[k].in} = RefKeys(content, Top)]_vars

\* A read of the master map (lookup_read_master with master->depth and
\* master->recurse) hands master_parse_entry the entries of exactly the
\* master maps reachable within MAX_INCLUDE_DEPTH includes.
ReadMasterMatchesReference ==
    masterParsed # <<>> =>
        {masterParsed[i] : i \in DOMAIN masterParsed} = RefKeys(MasterContent, MasterTop)

\* Spec 8, scenario 6, and spec 4.A: once parse_mount has failed for k at
\* time f (lookup_mount then sets status = f + NEGATIVE_TIMEOUT), a request
\* for k before f + NEGATIVE_TIMEOUT is answered NOTFOUND from the negative
\* cache, and a request after it consults the map again
\* (lookup_file.c:1066-1071, 1128-1141).  A re-read of the map that still
\* lists k refreshes k's entry (spec 4.A) and keeps the window; one that no
\* longer lists k drops the entry and the window with it.  The deadline
\* second itself is left open: the code refuses (>=) where spec section 3
\* consults the map (status > now).
NegativeWindowHonoured ==
    last.since # 0 =>
        /\ last.at < last.since + NegativeTimeout => last.neg
        /\ last.at > last.since + NegativeTimeout => ~last.neg

\* A mount request mounts the entry the map files list for the key now
\* (or the wildcard's), never a cache entry of a key since removed from
\* the map: check_map_indirect should delete the cached key when
\* neither it nor a wildcard is found (spec 9 on line 991).
MountUsesCurrentEntry ==
    [][\A k \in Keys, ok \in BOOLEAN :
         MountRequest(k, ok) => (last'.m # NoEnt => last'.m \in EntriesFor(k))]_vars

\* Spec 7: an include cycle gives UNAVAIL, so no master-map entry is
\* handed to master_parse_entry twice in one read of the master map
\* (a second parse of a registered path takes master_add_map_source).
MasterEntriesParsedOnce ==
    \A i, j \in DOMAIN masterParsed : i # j => masterParsed[i] # masterParsed[j]

=============================================================================
