--------------------------- MODULE FsnotifyGroup ----------------------------
(***************************************************************************)
(* fs/notify/group.c with the marks of fs/notify/inode_mark.c: the life of *)
(* an fsnotify group.  It is the client that ties together                 *)
(* atomic_dec_and_mutex_lock() of kernel/mutex.c, a mutex and SRCU.        *)
(*                                                                         *)
(* A group is found on a list under fsnotify_grp_mutex and gets a          *)
(* reference there.  Whoever drops the last one takes it off the list,     *)
(* waits for the SRCU readers that walk the list without a reference, and  *)
(* tears down its marks, which an inode may be tearing down at the same    *)
(* time; num_marks decides who frees the group.                            *)
(*                                                                         *)
(* All groups here have the same number, so at most one is on the list.    *)
(* What runs under fsnotify_grp_mutex or under the three locks of a mark   *)
(* is one step.  synchronize_srcu() is the promise that module Srcu        *)
(* checks.  Event masks are left out.                                      *)
(***************************************************************************)
EXTENDS Integers, FiniteSets

CONSTANTS
  Tasks,   \* tasks
  Groups,  \* what kmalloc() returns; each is used once
  Marks,   \* marks on one inode
  None     \* NULL

FsnotifyAssumption == None \notin Groups

VARIABLES
  refcnt, num_marks,  \* of a group
  frees,              \* how often a group has been freed
  fsnotify_groups,    \* the groups on the list
  used,               \* groups allocated so far
  listed,             \* history: groups that were on the list
  pc, hold, g,        \* of a task: where it is, its reference, the group it works on
  mg, todo,           \* ... the group of the mark it destroys, its free_list
  cur,                \* ... the group it has come to walking the list
  wait,               \* ... the readers its synchronize_srcu() waits for
  group,              \* mark->group
  g_list, i_list      \* marks on their group's list, on the inode's list

gvars == <<refcnt, num_marks, frees, fsnotify_groups, used, listed>>
tvars == <<pc, hold, g, mg, todo, cur, wait>>
mvars == <<group, g_list, i_list>>
vars == <<gvars, tvars, mvars>>

Init ==
  /\ refcnt = [x \in Groups |-> 0] /\ num_marks = [x \in Groups |-> 0]
  /\ frees = [x \in Groups |-> 0]
  /\ fsnotify_groups = {} /\ used = {} /\ listed = {}
  /\ pc = [t \in Tasks |-> "idle"]
  /\ hold = [t \in Tasks |-> None] /\ g = [t \in Tasks |-> None]
  /\ mg = [t \in Tasks |-> None] /\ cur = [t \in Tasks |-> None]
  /\ todo = [t \in Tasks |-> {}] /\ wait = [t \in Tasks |-> {}]
  /\ group = [m \in Marks |-> None] /\ g_list = {} /\ i_list = {}

Goto(t, l) == pc' = [pc EXCEPT ![t] = l]

-----------------------------------------------------------------------------
(* fsnotify_obtain_group() and fsnotify_put_group().                       *)

\* The allocation, before the mutex.
Obtain(t) ==
  /\ pc[t] = "idle" /\ hold[t] = None
  /\ \E x \in Groups \ used :
       /\ used' = used \cup {x}
       /\ refcnt' = [refcnt EXCEPT ![x] = 1]
       /\ g' = [g EXCEPT ![t] = x]
  /\ Goto(t, "find")
  /\ UNCHANGED <<num_marks, frees, fsnotify_groups, listed, hold, mg, todo, cur, wait, mvars>>

\* fsnotify_find_group() gives a reference to a group on the list, and the new
\* one is put again; or the new one goes on the list.
Find(t) ==
  /\ pc[t] = "find"
  /\ \/ \E x \in fsnotify_groups :
          /\ refcnt' = [refcnt EXCEPT ![x] = @ + 1]
          /\ hold' = [hold EXCEPT ![t] = x]
          /\ Goto(t, "put")
          /\ UNCHANGED <<num_marks, fsnotify_groups, listed, g>>
     \/ /\ fsnotify_groups = {}
        /\ fsnotify_groups' = {g[t]} /\ listed' = listed \cup {g[t]}
        /\ num_marks' = [num_marks EXCEPT ![g[t]] = @ + 1]
        /\ hold' = [hold EXCEPT ![t] = g[t]]
        /\ g' = [g EXCEPT ![t] = None]
        /\ Goto(t, "idle")
        /\ UNCHANGED refcnt
  /\ UNCHANGED <<frees, used, mg, todo, cur, wait, mvars>>

\* The owner of a reference calls fsnotify_put_group().
Put(t) ==
  /\ pc[t] = "idle" /\ hold[t] # None
  /\ g' = [g EXCEPT ![t] = hold[t]]
  /\ hold' = [hold EXCEPT ![t] = None]
  /\ Goto(t, "put")
  /\ UNCHANGED <<gvars, mg, todo, cur, wait, mvars>>

\* atomic_dec_and_mutex_lock() up to the mutex: atomic_add_unless(cnt, -1, 1).
FastDec(t) ==
  /\ pc[t] = "put"
  /\ refcnt' = [refcnt EXCEPT ![g[t]] = IF @ # 1 THEN @ - 1 ELSE @]
  /\ IF refcnt[g[t]] # 1
     THEN Goto(t, "idle") /\ g' = [g EXCEPT ![t] = None]
     ELSE Goto(t, "lock") /\ UNCHANGED g
  /\ UNCHANGED <<num_marks, frees, fsnotify_groups, used, listed, hold, mg, todo, cur, wait, mvars>>

\* Is the count after the decrement under the mutex what lets us go on?
HitZero_NoTest(n) == TRUE
HitZero(n) == n = 0

\* The tasks that synchronize_srcu() waits for.
Readers == {t \in Tasks : pc[t] = "read"}

\* ... the decrement under the mutex; at 0 the group is taken off the list, the
\* mutex dropped and synchronize_srcu() called.
SlowDec(t) ==
  /\ pc[t] = "lock"
  /\ refcnt' = [refcnt EXCEPT ![g[t]] = @ - 1]
  /\ IF HitZero(refcnt'[g[t]])
     THEN /\ fsnotify_groups' = fsnotify_groups \ {g[t]}
          /\ wait' = [wait EXCEPT ![t] = Readers]
          /\ Goto(t, "sync") /\ UNCHANGED g
     ELSE /\ g' = [g EXCEPT ![t] = None]
          /\ Goto(t, "idle") /\ UNCHANGED <<fsnotify_groups, wait>>
  /\ UNCHANGED <<num_marks, frees, used, listed, hold, mg, todo, cur, mvars>>

\* The marks on a group's mark_entries.
GroupMarks_None(x) == {}
GroupMarks(x) == {m \in g_list : group[m] = x}

\* fsnotify_destroy_group() begins: fsnotify_clear_marks_by_group() collects the
\* marks that are still on the group's list.
Sync(t) ==
  /\ pc[t] = "sync" /\ wait[t] = {}
  /\ todo' = [todo EXCEPT ![t] = GroupMarks(g[t])]
  /\ g_list' = g_list \ todo'[t]
  /\ Goto(t, "clear")
  /\ UNCHANGED <<gvars, hold, g, mg, cur, wait, group, i_list>>

\* num_marks is decremented; whoever gets it to zero frees the group.
DecMarks(x) ==
  /\ num_marks' = [num_marks EXCEPT ![x] = @ - 1]
  /\ frees' = IF num_marks'[x] = 0 THEN [frees EXCEPT ![x] = @ + 1] ELSE frees
  /\ UNCHANGED <<refcnt, fsnotify_groups, used, listed>>

\* The free_list is done: the inode's work is over, a group goes past the point
\* of no return.
Cleared(t) ==
  /\ pc[t] = "clear" /\ todo[t] = {}
  /\ IF g[t] = None THEN UNCHANGED gvars ELSE DecMarks(g[t])
  /\ g' = [g EXCEPT ![t] = None]
  /\ Goto(t, "idle")
  /\ UNCHANGED <<hold, mg, todo, cur, wait, mvars>>

-----------------------------------------------------------------------------
(* Marks.                                                                  *)

\* fsnotify_add_mark() by the owner of a reference, one mark for each group.
AddMark(t) ==
  /\ pc[t] = "idle" /\ hold[t] # None
  /\ \A m \in i_list : group[m] # hold[t]
  /\ \E m \in Marks :
       /\ m \notin g_list \cup i_list /\ group[m] = None
       /\ \A s \in Tasks : m \notin todo[s]
       /\ group' = [group EXCEPT ![m] = hold[t]]
       /\ g_list' = g_list \cup {m} /\ i_list' = i_list \cup {m}
  /\ num_marks' = [num_marks EXCEPT ![hold[t]] = @ + 1]
  /\ UNCHANGED <<refcnt, frees, fsnotify_groups, used, listed, tvars>>

\* The owner removes a mark of its group.
RemoveMark(t) ==
  /\ pc[t] = "idle" /\ hold[t] # None
  /\ \E m \in Marks : group[m] = hold[t] /\ todo' = [todo EXCEPT ![t] = {m}]
  /\ Goto(t, "clear")
  /\ UNCHANGED <<gvars, hold, g, mg, cur, wait, mvars>>

\* fsnotify_clear_marks_by_inode(): the inode goes away.
ClearByInode(t) ==
  /\ pc[t] = "idle" /\ hold[t] = None /\ i_list # {}
  /\ todo' = [todo EXCEPT ![t] = i_list]
  /\ i_list' = {}
  /\ Goto(t, "clear")
  /\ UNCHANGED <<gvars, hold, g, mg, cur, wait, group, g_list>>

\* fsnotify_destroy_mark_by_entry() on a mark somebody else has detached.
AlreadyDead(m) == group[m] = None

\* fsnotify_destroy_mark_by_entry() under the locks.
DestroyMark(t) ==
  /\ pc[t] = "clear"
  /\ \E m \in todo[t] :
       /\ todo' = [todo EXCEPT ![t] = @ \ {m}]
       /\ \/ AlreadyDead(m) /\ UNCHANGED <<pc, mg, mvars>>
          \/ /\ ~AlreadyDead(m)
             /\ mg' = [mg EXCEPT ![t] = group[m]]
             /\ group' = [group EXCEPT ![m] = None]
             /\ g_list' = g_list \ {m} /\ i_list' = i_list \ {m}
             /\ Goto(t, "marks")
  /\ UNCHANGED <<gvars, hold, g, cur, wait>>

\* ... and its end, after the locks were dropped.
DropMark(t) ==
  /\ pc[t] = "marks"
  /\ DecMarks(mg[t])
  /\ mg' = [mg EXCEPT ![t] = None]
  /\ Goto(t, "clear")
  /\ UNCHANGED <<hold, g, todo, cur, wait, mvars>>

-----------------------------------------------------------------------------
(* fsnotify(): an event walks the list under srcu_read_lock().             *)

EventBegin(t) ==
  /\ pc[t] = "idle"
  /\ Goto(t, "read")
  /\ UNCHANGED <<gvars, hold, g, mg, todo, cur, wait, mvars>>

EventVisit(t) ==
  /\ pc[t] = "read" /\ cur[t] = None
  /\ \E x \in fsnotify_groups : cur' = [cur EXCEPT ![t] = x]
  /\ UNCHANGED <<gvars, pc, hold, g, mg, todo, wait, mvars>>

EventEnd(t) ==
  /\ pc[t] = "read"
  /\ cur' = [cur EXCEPT ![t] = None]
  /\ wait' = [s \in Tasks |-> wait[s] \ {t}]
  /\ Goto(t, "idle")
  /\ UNCHANGED <<gvars, hold, g, mg, todo, mvars>>

Next ==
  \E t \in Tasks :
    \/ Obtain(t) \/ Find(t) \/ Put(t) \/ FastDec(t) \/ SlowDec(t) \/ Sync(t) \/ Cleared(t)
    \/ AddMark(t) \/ RemoveMark(t) \/ ClearByInode(t) \/ DestroyMark(t) \/ DropMark(t)
    \/ EventBegin(t) \/ EventVisit(t) \/ EventEnd(t)

Spec == Init /\ [][Next]_vars

-----------------------------------------------------------------------------
(* Properties.                                                             *)

\* The type of every variable; in particular refcnt is never lowered twice.
TypeOK ==
  /\ refcnt \in [Groups -> 0..Cardinality(Tasks)+1]
  /\ num_marks \in [Groups -> Int] /\ frees \in [Groups -> Nat]
  /\ used \subseteq Groups /\ fsnotify_groups \subseteq used /\ listed \subseteq used
  /\ pc \in [Tasks -> {"idle", "find", "put", "lock", "sync", "clear", "marks", "read"}]
  /\ {hold, g, mg, cur} \subseteq [Tasks -> Groups \cup {None}]
  /\ todo \in [Tasks -> SUBSET Marks] /\ wait \in [Tasks -> SUBSET Tasks]
  /\ group \in [Marks -> Groups \cup {None}]
  /\ g_list \subseteq Marks /\ i_list \subseteq Marks

\* A group that anybody can still reach (by a reference, by walking the list, by
\* tearing it or one of its marks down, or from a mark) has not been freed.
NoUseAfterFree ==
  \A x \in Groups :
    \/ x \in fsnotify_groups
    \/ \E t \in Tasks : x \in {hold[t], g[t], mg[t], cur[t]}
    \/ \E m \in Marks : group[m] = x
    => frees[x] = 0

\* A group that was on the list is freed once and only once, however many marks
\* its owner and the inode tear down at the same time.
Idle == \A t \in Tasks : pc[t] = "idle"
ListedIsFreed ==
  \A x \in listed : /\ frees[x] <= 1
                    /\ Idle /\ refcnt[x] = 0 => frees[x] = 1
=============================================================================
