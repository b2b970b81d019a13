------------------------------ MODULE Submount ------------------------------
(***************************************************************************)
(* Submount notification of src/lib/master.c.  notify_submounts(ap, s)     *)
(* walks ap->submounts under ap->mounts_mutex, and for each child drops    *)
(* mounts_mutex, takes the child's state_mutex, recurses into the child if *)
(* it has submounts, writes s into its state pipe (nextstate), and takes   *)
(* mounts_mutex back (master.c:711-757).  The caller,                      *)
(* master_notify_state_change, holds the root's state_mutex throughout.    *)
(*                                                                         *)
(* Meanwhile other threads change the tree:                                *)
(*  - a submount's worker that exits frees its autofs_point: it unlinks   *)
(*    it from its parent's list under the parent's mounts_mutex, then      *)
(*    destroys its two mutexes (a destroy that returns EBUSY, because the  *)
(*    mutex is held, is fatal) and frees it (master_free_autofs_point,     *)
(*    197-221);                                                            *)
(*  - mounting an autofs submount links a new autofs_point into its        *)
(*    parent's list under the parent's mounts_mutex (mount_autofs, not in  *)
(*    this tree: spec section 3, "per-entry locks for ... submount list"). *)
(*                                                                         *)
(* The list cursor p is a pointer: the node it designates may be unlinked  *)
(* or freed while mounts_mutex is dropped.                                 *)
(***************************************************************************)
EXTENDS Naturals, Sequences, SequencesExt

CONSTANTS
    Root,     \* the autofs_point of the master-map entry being notified
    Others,   \* autofs_points of other master-map entries
    Subs,     \* autofs_points of submounts
    Tree0,    \* Tree0[a]: the submounts of a, in list order, at the start
    Joins,    \* pairs <<parent, child>> a submount mount may link later
    Frees,    \* submounts whose worker may exit and free them
    ListHead, \* the list head &ap->submounts: end of a walk
    NoOwner   \* a free mutex

Aps == {Root} \cup Others \cup Subs
Notifier == "notifier"
Owners == {Notifier} \cup Subs \cup {NoOwner}

ASSUME /\ Tree0 \in [Aps -> Seq(Subs)]
       /\ Joins \subseteq Aps \X Subs
       /\ Frees \subseteq Subs
       /\ {ListHead, NoOwner} \cap Aps = {}

Frame == [ap : Aps, p : Subs \cup {ListHead}, this : Subs \cup {ListHead}, empty : BOOLEAN]
NPcs == {"lock_mm", "loop", "lock_state", "write", "relock", "done"}

VARIABLES
    subs,     \* subs[a]: a->submounts, in list order
    exiting,  \* submounts unlinked by master_free_autofs_point, not yet freed
    freed,    \* submounts whose autofs_point has been freed
    mm,       \* owner of each a->mounts_mutex
    sm,       \* owner of each a->state_mutex
    stack,    \* the notifier's call frames of notify_submounts, innermost last
    npc,      \* notifier program counter in the innermost frame
    got,      \* got[a]: state bytes nextstate wrote to a's pipe
    fatal     \* the process called fatal()

vars == <<subs, exiting, freed, mm, sm, stack, npc, got, fatal>>

Linked(c) == \E a \in Aps : c \in ToSet(subs[a])

\* The submounts below a, at the start.
RECURSIVE Below0(_)
Below0(a) == UNION {{c} \cup Below0(c) : c \in ToSet(Tree0[a])}

Top == stack[Len(stack)]
SetTop(f) == stack' = [stack EXCEPT ![Len(stack)] = f]

\* p->next: the node after c in a's list, or the head after the last.
NextOf(a, c) ==
    LET i == CHOOSE j \in DOMAIN subs[a] : subs[a][j] = c
    IN IF i = Len(subs[a]) THEN ListHead ELSE subs[a][i + 1]

First(a) == IF subs[a] = <<>> THEN ListHead ELSE Head(subs[a])

Init ==
    /\ subs = Tree0
    /\ exiting = {}
    /\ freed = {}
    /\ mm = [a \in Aps |-> NoOwner]
    /\ sm = [a \in Aps |-> IF a = Root THEN Notifier ELSE NoOwner]
    /\ stack = <<[ap |-> Root, p |-> ListHead, this |-> ListHead, empty |-> TRUE]>>
    /\ npc = "lock_mm"
    /\ got = [a \in Aps |-> 0]
    /\ fatal = FALSE

-----------------------------------------------------------------------------
(* notify_submounts *)

\* Entry: lock ap->mounts_mutex and start at head->next (master.c:718-723).
LockMounts ==
    /\ npc = "lock_mm"
    /\ mm[Top.ap] = NoOwner
    /\ mm' = [mm EXCEPT ![Top.ap] = Notifier]
    /\ SetTop([Top EXCEPT !.p = First(Top.ap)])
    /\ npc' = "loop"
    /\ UNCHANGED <<subs, exiting, freed, sm, got, fatal>>

\* Mutation of Advance: p = p->next is missing.
AdvanceNoNext ==
    /\ npc = "loop"
    /\ Top.p # ListHead
    /\ SetTop([Top EXCEPT !.this = Top.p, !.empty = (subs[Top.p] = <<>>)])
    /\ mm' = [mm EXCEPT ![Top.ap] = NoOwner]
    /\ npc' = "lock_state"
    /\ UNCHANGED <<subs, exiting, freed, sm, got, fatal>>

\* Loop body up to the unlock: this = p, p = p->next, empty =
\* list_empty(&this->submounts), unlock ap->mounts_mutex (724-732).  The
\* links of a node list_del has unlinked are not defined; the walk is
\* taken to end there (SubmountWalkSafe fails before that is used).
Advance ==
    /\ npc = "loop"
    /\ Top.p # ListHead
    /\ LET c == Top.p IN
         SetTop([Top EXCEPT !.this = c,
                            !.p = IF c \in ToSet(subs[Top.ap]) THEN NextOf(Top.ap, c) ELSE ListHead,
                            !.empty = (subs[c] = <<>>)])
    /\ mm' = [mm EXCEPT ![Top.ap] = NoOwner]
    /\ npc' = "lock_state"
    /\ UNCHANGED <<subs, exiting, freed, sm, got, fatal>>

\* p == head: unlock and return (751-756); the caller goes on to its own
\* nextstate, or master_notify_state_change gets control back.
Return ==
    /\ npc = "loop"
    /\ Top.p = ListHead
    /\ mm' = [mm EXCEPT ![Top.ap] = NoOwner]
    /\ stack' = SubSeq(stack, 1, Len(stack) - 1)
    /\ npc' = IF Len(stack) = 1 THEN "done" ELSE "write"
    /\ UNCHANGED <<subs, exiting, freed, sm, got, fatal>>

\* Mutation of LockState: the recursion into a child with submounts is
\* missing.
LockStateNoRecurse ==
    /\ npc = "lock_state"
    /\ sm[Top.this] = NoOwner
    /\ sm' = [sm EXCEPT ![Top.this] = Notifier]
    /\ npc' = "write"
    /\ UNCHANGED <<subs, exiting, freed, mm, stack, got, fatal>>

\* Lock this->state_mutex, and recurse if this had submounts (734-739).
LockState ==
    /\ npc = "lock_state"
    /\ sm[Top.this] = NoOwner
    /\ sm' = [sm EXCEPT ![Top.this] = Notifier]
    /\ IF Top.empty
       THEN /\ npc' = "write"
            /\ UNCHANGED stack
       ELSE /\ stack' = Append(stack, [ap |-> Top.this, p |-> ListHead, this |-> ListHead, empty |-> TRUE])
            /\ npc' = "lock_mm"
    /\ UNCHANGED <<subs, exiting, freed, mm, got, fatal>>

\* nextstate(this->state_pipe[1], state) and unlock this->state_mutex
\* (741-745).
Write ==
    /\ npc = "write"
    /\ got' = [got EXCEPT ![Top.this] = @ + 1]
    /\ sm' = [sm EXCEPT ![Top.this] = NoOwner]
    /\ npc' = "relock"
    /\ UNCHANGED <<subs, exiting, freed, mm, stack, fatal>>

\* pthread_mutex_lock(&ap->mounts_mutex) and back to the loop test (747).
Relock ==
    /\ npc = "relock"
    /\ mm[Top.ap] = NoOwner
    /\ mm' = [mm EXCEPT ![Top.ap] = Notifier]
    /\ npc' = "loop"
    /\ UNCHANGED <<subs, exiting, freed, sm, stack, got, fatal>>

Notify == LockMounts \/ Advance \/ Return \/ LockState \/ Write \/ Relock

-----------------------------------------------------------------------------
(* The other threads *)

\* master_free_autofs_point of a submount: under the parent's
\* mounts_mutex, list_del if still linked (204-208).
Unlink(c) ==
    /\ c \in Frees
    /\ Linked(c)
    /\ LET a == CHOOSE x \in Aps : c \in ToSet(subs[x]) IN
         /\ mm[a] = NoOwner
         /\ subs' = [subs EXCEPT ![a] = SelectSeq(@, LAMBDA x : x # c)]
    /\ exiting' = exiting \cup {c}
    /\ UNCHANGED <<freed, mm, sm, stack, npc, got, fatal>>

\* Then pthread_mutex_destroy of state_mutex and mounts_mutex, fatal on
\* an error (EBUSY when held), and free(ap) (209-220).
Release(c) ==
    /\ c \in exiting
    /\ exiting' = exiting \ {c}
    /\ freed' = freed \cup {c}
    /\ fatal' = (sm[c] # NoOwner \/ mm[c] # NoOwner)
    /\ UNCHANGED <<subs, mm, sm, stack, npc, got>>

\* Mounting an autofs submount links it into its parent's list under the
\* parent's mounts_mutex.
Join(a, c) ==
    /\ <<a, c>> \in Joins
    /\ a \notin freed \cup exiting
    /\ ~Linked(c) /\ c \notin freed \cup exiting
    /\ mm[a] = NoOwner
    /\ subs' = [subs EXCEPT ![a] = Append(@, c)]
    /\ UNCHANGED <<exiting, freed, mm, sm, stack, npc, got, fatal>>

\* fatal() ends the process.
Next ==
    /\ ~fatal
    /\ \/ Notify
       \/ \E c \in Subs : Unlink(c) \/ Release(c)
       \/ \E j \in Joins : Join(j[1], j[2])

Spec == Init /\ [][Next]_vars /\ WF_vars(Notify)

-----------------------------------------------------------------------------
TypeOK ==
    /\ subs \in [Aps -> Seq(Subs)]
    /\ exiting \subseteq Subs /\ freed \subseteq Subs
    /\ mm \in [Aps -> Owners] /\ sm \in [Aps -> Owners]
    /\ stack \in Seq(Frame)
    /\ npc \in NPcs
    /\ got \in [Aps -> Nat]
    /\ fatal \in BOOLEAN


\* notify_submounts never touches a submount another thread has unlinked
\* or freed: the node p designates when the loop dereferences it
\* (this = p; p = p->next), the child whose state_mutex it locks and the
\* ap whose mounts_mutex it takes back are live; and master_free_autofs_point
\* never destroys a mutex the walk holds (EBUSY, fatal).
SubmountWalkSafe ==
    /\ ~fatal
    /\ npc = "loop" /\ Top.p # ListHead => Top.p \in ToSet(subs[Top.ap])
    /\ npc = "lock_state" => Top.this \notin freed
    /\ npc \in {"lock_mm", "relock"} => Top.ap \notin freed

\* Spec section 4.E, submount propagation: one walk writes the state once
\* into the pipe of every submount below the root, none twice; submounts
\* linked while the walk runs may or may not be reached.
NotifiedOnce ==
    /\ \A a \in Aps : got[a] <= 1
    /\ npc = "done" => \A c \in Below0(Root) : got[c] = 1

\* The walk is depth-first, recursing before signalling: when a submount
\* is sent the state, every submount below it already has been.
ChildrenBeforeParent ==
    \A c \in Subs : got[c] > 0 => \A d \in Below0(c) : got[d] > 0

=============================================================================
