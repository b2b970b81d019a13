------------------------------ MODULE NssRules ------------------------------
(***************************************************************************)
(* The action matching of the name-service-switch pipeline                *)
(* (src/daemon/lookup.c): what the pipeline does after one nsswitch        *)
(* source returned an NSS status.  lookup_nss_read_map and                 *)
(* lookup_nss_mount share it line for line.                                *)
(***************************************************************************)
EXTENDS Naturals

\* The NSS status enumeration, in the order of enum nsswitch_status
\* (NSS_STATUS_SUCCESS is 0: the callers return !status).
Status == <<"SUCCESS", "NOTFOUND", "UNAVAIL", "TRYAGAIN">>
StatusSet == {Status[i] : i \in 1..4}

ActionKind == {"CONTINUE", "RETURN", "UNKNOWN"}
Action == [action : ActionKind, negated : BOOLEAN]

\* The negated-action loop (lookup.c:123-138): some defined, negated
\* RETURN slot whose status differs from the observed one.
NegatedReturn(src, s) ==
    \E st \in StatusSet :
        /\ src.action[st].action # "UNKNOWN"
        /\ src.action[st].negated
        /\ s # st
        /\ src.action[st].action = "RETURN"

\* What the pipeline does after a source returned s: the negated-action
\* loop first, then the action for the observed status (lookup.c:122-159,
\* 347-383).  "continue" goes on to the next source.
NssVerdict(src, s) ==
    IF NegatedReturn(src, s)
    THEN IF s = "SUCCESS" THEN "success" ELSE "failure"
    ELSE IF s = "SUCCESS"
         THEN IF src.action[s].action = "CONTINUE" THEN "continue" ELSE "success"
         ELSE IF src.action[s].action = "RETURN" THEN "failure" ELSE "continue"

\* The value lookup_nss_mount returns for a list of one source (an
\* included map resolved through nsswitch): 0 on "failure", 1 on
\* "success" and, the list being non-empty, 1 when it runs out
\* (lookup.c:347-389).
SingleSourceMount(src, s) == IF NssVerdict(src, s) = "failure" THEN 0 ELSE 1

=============================================================================
