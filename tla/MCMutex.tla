------------------------------ MODULE MCMutex -------------------------------
(***************************************************************************)
(* Model checking of Mutex, and of FsnotifyGroup, where the last function  *)
(* of mutex.c, atomic_dec_and_mutex_lock(), is modelled with its caller.   *)
(* They share no state, so one run holds both and only one of them moves.  *)
(***************************************************************************)
EXTENDS Mutex

CONSTANTS Owners, Groups, Marks  \* tasks, groups and marks of FsnotifyGroup

VARIABLES part, refcnt, num_marks, frees, fsnotify_groups, used, listed,
          gpc, hold, g, mg, todo, cur, wait, group, g_list, i_list

G == INSTANCE FsnotifyGroup WITH Tasks <- Owners, pc <- gpc

ASSUME FsnotifyAssumption ==
  /\ G!FsnotifyAssumption
  /\ IsFiniteSet(Owners) /\ IsFiniteSet(Marks)

groupvars == <<refcnt, num_marks, frees, fsnotify_groups, used, listed,
               gpc, hold, g, mg, todo, cur, wait, group, g_list, i_list>>
allvars == <<part, vars, groupvars>>

MCInit == part \in {"mutex", "fsnotify"} /\ Init /\ G!Init

MCNext ==
  /\ UNCHANGED part
  /\ \/ part = "mutex" /\ Next /\ UNCHANGED groupvars
     \/ part = "fsnotify" /\ G!Next /\ UNCHANGED vars

MCSpec == MCInit /\ [][MCNext]_allvars /\ Fairness

\* No fsnotify group is freed while anybody can reach it.
NoUseAfterFree == G!NoUseAfterFree

\* A group that was on the list of groups is freed exactly once.
ListedIsFreed == G!ListedIsFreed
=============================================================================
