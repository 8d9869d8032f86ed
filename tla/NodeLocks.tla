------------------------------ MODULE NodeLocks ------------------------------
(***************************************************************************)
(* What conflict detection promises to an executor: an iteration owns the  *)
(* nodes it acquires until it ends, and meets a conflict only if another   *)
(* iteration owns the node it asks for.                                    *)
(***************************************************************************)
CONSTANTS Contexts, Lockables, Nobody

VARIABLES
  owned,   \* the context that owns each lockable, or Nobody
  ending   \* contexts whose iteration is releasing what it owns

lockVars == <<owned, ending>>

LocksInit ==
  /\ owned = [l \in Lockables |-> Nobody]
  /\ ending = {}

Own(c, l) ==
  /\ c \notin ending
  /\ owned[l] = Nobody
  /\ owned' = [owned EXCEPT ![l] = c]
  /\ UNCHANGED ending

Conflict(c, l) ==
  /\ c \notin ending
  /\ owned[l] \notin {c, Nobody}
  /\ ending' = ending \cup {c}
  /\ UNCHANGED owned

Commit(c) ==
  /\ c \notin ending
  /\ ending' = ending \cup {c}
  /\ UNCHANGED owned

Disown(c, l) ==
  /\ c \in ending
  /\ owned[l] = c
  /\ owned' = [owned EXCEPT ![l] = Nobody]
  /\ UNCHANGED ending

NextIteration(c) ==
  /\ c \in ending
  /\ \A l \in Lockables : owned[l] # c
  /\ ending' = ending \ {c}
  /\ UNCHANGED owned

LocksNext ==
  \E c \in Contexts :
    \/ Commit(c) \/ NextIteration(c)
    \/ \E l \in Lockables : Own(c, l) \/ Conflict(c, l) \/ Disown(c, l)

LocksSafe == LocksInit /\ [][LocksNext]_lockVars

\* An iteration that ends releases everything it owns.
LocksSpec ==
  /\ LocksSafe
  /\ \A c \in Contexts :
       WF_lockVars(NextIteration(c) \/ \E l \in Lockables : Disown(c, l))
=============================================================================
