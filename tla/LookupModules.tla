--------------------------- MODULE LookupModules ---------------------------
(***************************************************************************)
(* The lookup modules whose entry points match the calls of               *)
(* src/daemon/lookup.c (lookup_read_map(ap, age, ctxt) and                 *)
(* lookup_mount(ap, name, name_len, ctxt)): src/modules/lookup_nisplus.c   *)
(* and src/modules/lookup_hesiod.c.                                        *)
(*                                                                         *)
(* A module call is the set of its outcomes: the NSS status it returns,    *)
(* the cache it leaves, the entry it handed to parse_mount, and whether   *)
(* it asked the parent to re-read its map (SIGHUP).  A map entry is its    *)
(* key; the NIS+ table and the Hesiod filsys records are fixed sets of     *)
(* keys.  A server that does not answer, a cache_update that cannot       *)
(* allocate and parse_mount's result are choices.                          *)
(***************************************************************************)
EXTENDS Naturals

CONSTANTS
    Keys,        \* map keys
    Star,        \* the wildcard key "*"
    PlusKeys,    \* keys beginning with '+' (plus-map inclusion)
    NisTable,    \* keys of the NIS+ table <mapname>.org_dir.<domain>
    HesiodKeys   \* names with a Hesiod "filsys" record

ASSUME /\ {Star} \cup PlusKeys \cup NisTable \cup HesiodKeys \subseteq Keys

\* cache_update(key, mapent, age) of every key in ks: the entry now has
\* the age of this read.
CacheUpdate(c, ks) == [k \in Keys |-> IF k \in ks THEN "fresh" ELSE c[k]]

\* cache_delete(key).
CacheDelete(c, k) == [c EXCEPT ![k] = "absent"]

\* parse_mount is handed the entry of a key the source holds now
\* ("current"), an entry the source no longer holds ("stale"), or nothing.
Outcome(s, c, h, g, hup) ==
    [status |-> s, cache |-> c, handed |-> h, garbled |-> g, hup |-> hup]

-----------------------------------------------------------------------------
(* lookup_nisplus.c *)

\* lookup_init fails (no map name, no NIS+ domain, open_parse fails, or
\* malloc): open_lookup returns NULL, and the pipeline's do_read_map and
\* do_lookup_mount return UNAVAIL without a call (36-67).
LookupInitFails(c) == Outcome("UNAVAIL", c, "none", FALSE, FALSE)

\* lookup_read_map: the table is looked up (NOTFOUND if missing), then
\* enumerated (UNAVAIL on failure), and every entry whose key does not
\* begin with '+' is cached (69-117).
NisplusReadMap(c) ==
    LET w == NisTable \ PlusKeys IN
    { Outcome("NOTFOUND", c, "none", FALSE, FALSE),
      Outcome("UNAVAIL", c, "none", FALSE, FALSE),
      Outcome("SUCCESS", CacheUpdate(c, w), "none", FALSE, FALSE) }

\* After nis_list fails, lookup_one and lookup_wild call nis_freeresult
\* and then read result->status (135-141, 168-174).  The read of freed
\* memory yields the status the server returned or whatever the
\* allocator wrote there, so the value they return falls in any class:
\* CHE_MISSING, CHE_FAIL (0), -status < 0, or another positive int.
FreedRead == {"missing", "fail", "error", "positive"}

\* The classes of what a failed nis_list answers for key k: NIS_NOTFOUND
\* when the table does not hold k, another error when the server fails.
FailedList(k, tbl) == (IF k \in tbl THEN {} ELSE {"missing"}) \cup {"error"}

\* nis_list of [key=k] and cache_update of the entry found; cache_update
\* returns CHE_FAIL when it cannot allocate.  The result ret is one of
\* "ok" (CHE_OK/CHE_UPDATED), "fail", "missing", "error", "positive"
\* (119-152 with k the key, 154-184 with k = Star).
NisplusMatch(c, k) ==
    (IF k \in NisTable
     THEN {[ret |-> "ok", cache |-> CacheUpdate(c, {k}), garbled |-> FALSE],
           [ret |-> "fail", cache |-> c, garbled |-> FALSE]}
     ELSE {})
    \cup {[ret |-> r, cache |-> c, garbled |-> r # a] : a \in FailedList(k, NisTable), r \in FreedRead}

\* check_map_indirect (186-238): CHE_FAIL is NOTFOUND, a negative value
\* UNAVAIL; CHE_MISSING looks the wildcard up, deletes "*" when that is
\* missing too, deletes the key, and is NOTFOUND; anything else is
\* SUCCESS.  A SIGHUP to the parent is sent when the last read is older
\* than exp_runfreq (a time not modelled: a choice) and the entry was
\* updated (a positive value may carry the CHE_UPDATED bit) or an entry
\* that existed is missing.
CheckMapIndirect(c, k) ==
    LET Hup(o) == IF o.ret \in {"ok", "positive"} \/ (o.ret = "missing" /\ c[k] # "absent")
                  THEN BOOLEAN ELSE {FALSE}
    IN UNION {
        CASE o.ret = "fail" ->
               {Outcome("NOTFOUND", o.cache, "none", o.garbled, FALSE)}
          [] o.ret = "error" ->
               {Outcome("UNAVAIL", o.cache, "none", o.garbled, FALSE)}
          [] o.ret = "missing" ->
               {Outcome("NOTFOUND",
                        CacheDelete(IF w.ret = "missing" THEN CacheDelete(w.cache, Star) ELSE w.cache, k),
                        "none", o.garbled \/ w.garbled, h) :
                  w \in NisplusMatch(o.cache, Star), h \in Hup(o)}
          [] OTHER ->
               {Outcome("SUCCESS", o.cache, "none", o.garbled, h) : h \in Hup(o)}
        : o \in NisplusMatch(c, k)}

\* Mutation of NisplusMount: the table is never consulted.
NisplusMountNoCheck(c, k, direct) ==
    LET checked == {Outcome("SUCCESS", c, "none", FALSE, FALSE)}
    IN UNION {
        IF o.status # "SUCCESS" THEN {o}
        ELSE IF o.cache[k] = "absent" THEN {[o EXCEPT !.status = "TRYAGAIN"]}
        ELSE {[o EXCEPT !.status = s, !.handed = IF k \in NisTable THEN "current" ELSE "stale"]
                : s \in {"SUCCESS", "TRYAGAIN"}}
        : o \in checked}

\* lookup_mount (240-283): an indirect map is checked against the table
\* first and a failed check is returned; then the cached entry, if any,
\* is handed to parse_mount, whose failure (or a missing entry) is
\* TRYAGAIN.  A direct map is not checked (257-261).
NisplusMount(c, k, direct) ==
    LET checked == IF direct THEN {Outcome("SUCCESS", c, "none", FALSE, FALSE)}
                   ELSE CheckMapIndirect(c, k)
    IN UNION {
        IF o.status # "SUCCESS" THEN {o}
        ELSE IF o.cache[k] = "absent" THEN {[o EXCEPT !.status = "TRYAGAIN"]}
        ELSE {[o EXCEPT !.status = s, !.handed = IF k \in NisTable THEN "current" ELSE "stale"]
                : s \in {"SUCCESS", "TRYAGAIN"}}
        : o \in checked}

-----------------------------------------------------------------------------
(* lookup_hesiod.c *)

\* lookup_read_map cannot enumerate Hesiod: UNAVAIL (63-66).
HesiodReadMap(c) == {Outcome("UNAVAIL", c, "none", FALSE, FALSE)}

\* lookup_mount (72-114): no filsys record (or a resolver failure) is
\* UNAVAIL; otherwise the record of lowest priority goes to parse_mount,
\* whose 0 / 1 is returned as NSS_STATUS_SUCCESS / NSS_STATUS_NOTFOUND.
\* The cache is not touched.
HesiodMount(c, k) ==
    {Outcome("UNAVAIL", c, "none", FALSE, FALSE)}
    \cup (IF k \in HesiodKeys
          THEN {Outcome(s, c, "current", FALSE, FALSE) : s \in {"SUCCESS", "NOTFOUND"}}
          ELSE {})

=============================================================================
