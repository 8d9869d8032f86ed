----------------------------- MODULE LockManager -----------------------------
(***************************************************************************)
(* Context.cpp and PtrLock.h: a lockable has a lock bit and an owner in    *)
(* one word, and a pointer that links the lockables of one iteration.  A   *)
(* step is one access to a word that other threads use.                    *)
(***************************************************************************)
EXTENDS Integers, FiniteSets

CONSTANTS
  Contexts,   \* one per thread
  Lockables,  \* nodes of the graph
  Nil         \* the null pointer

ASSUME LockAssumption == Nil \notin Contexts /\ Nil \notin Lockables

VARIABLES
  bit,    \* low bit of a lockable's owner word
  owner,  \* the rest of it: a context or Nil
  next,   \* a lockable's link
  locks,  \* first lockable of a context's list
  pc,     \* where a context is
  cur     \* the lockable it is acquiring or releasing

managerVars == <<bit, owner, next, locks, pc, cur>>

ManagerInit ==
  /\ bit = [l \in Lockables |-> FALSE]
  /\ owner = [l \in Lockables |-> Nil]
  /\ next = [l \in Lockables |-> Nil]
  /\ locks = [c \in Contexts |-> Nil]
  /\ pc = [c \in Contexts |-> "run"]
  /\ cur = [c \in Contexts |-> Nil]

Go(c, place) == pc' = [pc EXCEPT ![c] = place]

\* try_lock reads the word, and gives up if the bit is set.
TryLock(c) ==
  /\ pc[c] = "run"
  /\ \E l \in Lockables :
       /\ cur' = [cur EXCEPT ![c] = l]
       /\ Go(c, IF bit[l] THEN "getOwner" ELSE "fetchOr")
  /\ UNCHANGED <<bit, owner, next, locks>>

FetchOr(c) ==
  /\ pc[c] = "fetchOr"
  /\ bit' = [bit EXCEPT ![cur[c]] = TRUE]
  /\ Go(c, IF bit[cur[c]] THEN "getOwner" ELSE "setValue")
  /\ UNCHANGED <<owner, next, locks, cur>>

SetValue(c) ==
  /\ pc[c] = "setValue"
  /\ owner' = [owner EXCEPT ![cur[c]] = c]
  /\ Go(c, "addToNhood")
  /\ UNCHANGED <<bit, next, locks, cur>>

AddToNhood(c) ==
  /\ pc[c] = "addToNhood"
  /\ next' = [next EXCEPT ![cur[c]] = locks[c]]
  /\ locks' = [locks EXCEPT ![c] = cur[c]]
  /\ cur' = [cur EXCEPT ![c] = Nil]
  /\ Go(c, "run")
  /\ UNCHANGED <<bit, owner>>

\* The lock is taken: by this iteration, or there is a conflict.
GetOwner(c) ==
  /\ pc[c] = "getOwner"
  /\ Go(c, IF owner[cur[c]] = c THEN "run" ELSE "release")
  /\ cur' = [cur EXCEPT ![c] = Nil]
  /\ UNCHANGED <<bit, owner, next, locks>>

CommitIteration(c) ==
  /\ pc[c] = "run"
  /\ Go(c, "release")
  /\ UNCHANGED <<bit, owner, next, locks, cur>>

\* The loop of commitIteration and cancelIteration: take the first lockable off
\* the list, clear its link, release it.  "ORDER MATTERS!"
ReleaseFirst == [unlink |-> "unlock", unlock |-> "clear", clear |-> "release"]  \* mutant
CommitOrder == [unlink |-> "clear", clear |-> "unlock", unlock |-> "release"]

Unlink(c) ==
  /\ pc[c] = "release"
  /\ locks[c] # Nil
  /\ cur' = [cur EXCEPT ![c] = locks[c]]
  /\ locks' = [locks EXCEPT ![c] = next[locks[c]]]
  /\ Go(c, CommitOrder["unlink"])
  /\ UNCHANGED <<bit, owner, next>>

ClearNext(c) ==
  /\ pc[c] = "clear"
  /\ next' = [next EXCEPT ![cur[c]] = Nil]
  /\ Go(c, CommitOrder["clear"])
  /\ UNCHANGED <<bit, owner, locks, cur>>

\* unlock_and_clear
Release(c) ==
  /\ pc[c] = "unlock"
  /\ bit' = [bit EXCEPT ![cur[c]] = FALSE]
  /\ owner' = [owner EXCEPT ![cur[c]] = Nil]
  /\ Go(c, CommitOrder["unlock"])
  /\ UNCHANGED <<next, locks, cur>>

StartIteration(c) ==
  /\ pc[c] = "release"
  /\ locks[c] = Nil
  /\ Go(c, "run")
  /\ cur' = [cur EXCEPT ![c] = Nil]
  /\ UNCHANGED <<bit, owner, next, locks>>

Releasing(c) == Unlink(c) \/ ClearNext(c) \/ Release(c) \/ StartIteration(c)

ManagerNext ==
  \E c \in Contexts :
    \/ TryLock(c) \/ FetchOr(c) \/ SetValue(c) \/ AddToNhood(c) \/ GetOwner(c)
    \/ CommitIteration(c) \/ Releasing(c)

\* An iteration may run for ever, but one that ends goes on to its end.
ManagerSpec ==
  /\ ManagerInit /\ [][ManagerNext]_managerVars
  /\ \A c \in Contexts : WF_managerVars(Releasing(c))
                        /\ WF_managerVars(GetOwner(c))

-----------------------------------------------------------------------------
Places == {"run", "fetchOr", "getOwner", "setValue", "addToNhood",
           "release", "clear", "unlock"}

\* The bit of a lockable is set exactly while a context owns it or is about to.
ManagerTypeOK ==
  /\ bit \in [Lockables -> BOOLEAN]
  /\ owner \in [Lockables -> Contexts \cup {Nil}]
  /\ next \in [Lockables -> Lockables \cup {Nil}]
  /\ locks \in [Contexts -> Lockables \cup {Nil}]
  /\ pc \in [Contexts -> Places]
  /\ cur \in [Contexts -> Lockables \cup {Nil}]
  /\ \A l \in Lockables :
       bit[l] <=> owner[l] # Nil \/ \E c \in Contexts : pc[c] = "setValue" /\ cur[c] = l

\* The assertions of addToNhood and release: a lockable that is acquired is in
\* no list, and a context releases only what it owns and has unlinked.
AssertionsHold ==
  \A c \in Contexts :
    /\ pc[c] = "addToNhood" => next[cur[c]] = Nil
    /\ pc[c] = "unlock" => owner[cur[c]] = c /\ next[cur[c]] = Nil

\* The lockables on the list of a context: all that its links lead to from its
\* first one, which are those in every set that has the first and is closed
\* under links.
Leads(c, S) == /\ locks[c] # Nil => locks[c] \in S
               /\ \A l \in S : next[l] # Nil => next[l] \in S
List(c) == {l \in Lockables : \A S \in SUBSET Lockables : Leads(c, S) => l \in S}

\* The list of a context holds exactly the lockables it owns, except the one it
\* is just acquiring or releasing: no lock is leaked by an iteration and none
\* is in two lists.
ListsAreExact ==
  \A c \in Contexts :
    List(c) =
      {l \in Lockables : owner[l] = c} \ (IF pc[c] \in {"addToNhood", "clear", "unlock"}
                                         THEN {cur[c]} ELSE {})

\* A context owns what it has set the bit of, and its iteration ends when it
\* has failed to.
Owned ==
  [l \in Lockables |->
     LET taking == {c \in Contexts : pc[c] = "setValue" /\ cur[c] = l}
     IN  IF taking = {} THEN owner[l] ELSE CHOOSE c \in taking : TRUE]
Ending ==
  {c \in Contexts : \/ pc[c] \in {"release", "clear", "unlock"}
                    \/ pc[c] = "getOwner" /\ owner[cur[c]] # c}

Abstract == INSTANCE NodeLocks WITH Nobody <- Nil, owned <- Owned, ending <- Ending

\* Acquiring and releasing behave as single steps, and a conflict is signalled
\* only for a lockable that another iteration has: although the bit and the
\* owner are read one after the other.
ImplementsNodeLocks == Abstract!LocksSpec
=============================================================================
