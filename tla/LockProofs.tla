----------------------------- MODULE LockProofs -----------------------------
(***************************************************************************)
(* The lists of held locks, for any number of threads and of nodes.  The   *)
(* first invariant says what each link, each list head and each node in    *)
(* hand is, one by one; the second that the links have an order, so that   *)
(* every owned node is found from the head of its list.                    *)
(***************************************************************************)
EXTENDS LockManager, TLAPS

Holding == {"addToNhood", "clear", "unlock"}

\* The lockable a context is busy with: it owns it or is about to.
CurIsKnown ==
  \A c \in Contexts :
    /\ pc[c] \in Holding \cup {"fetchOr", "getOwner", "setValue"} => cur[c] \in Lockables
    /\ pc[c] \in Holding => owner[cur[c]] = c
    /\ pc[c] = "setValue" => owner[cur[c]] = Nil
    /\ \A d \in Contexts : pc[c] = "setValue" /\ pc[d] = "setValue" /\ cur[c] = cur[d] => c = d

\* Lists run through lockables of one owner, and start at one of its own.
LinksStayHome ==
  /\ \A c \in Contexts : locks[c] # Nil => owner[locks[c]] = c
  /\ \A l \in Lockables : next[l] # Nil => owner[l] # Nil /\ owner[next[l]] = owner[l]

\* No lockable is linked to twice.
LinksDoNotMeet ==
  /\ \A l, k \in Lockables : next[l] # Nil /\ next[l] = next[k] => l = k
  /\ \A c \in Contexts, l \in Lockables :
       locks[c] # Nil /\ next[l] = locks[c] => pc[c] = "clear" /\ l = cur[c]

\* What a context has in hand is in no list.
InHand ==
  \A c \in Contexts : pc[c] \in Holding =>
    /\ locks[c] # cur[c]
    /\ \A l \in Lockables : next[l] # cur[c]
    /\ pc[c] # "clear" => next[cur[c]] = Nil
    /\ pc[c] = "clear" => next[cur[c]] = locks[c]

LockInv == ManagerTypeOK /\ CurIsKnown /\ LinksStayHome /\ LinksDoNotMeet /\ InHand

-----------------------------------------------------------------------------
\* The constructors leave no lockable owned and all lists empty.
LEMMA LocksInitially == ManagerInit => LockInv
  BY LockAssumption DEF ManagerInit, LockInv, ManagerTypeOK, CurIsKnown, LinksStayHome,
       LinksDoNotMeet, InHand, Holding, Places

\* try_lock's look at the bit changes no lockable.
LEMMA TryLockKeeps == ASSUME NEW c \in Contexts PROVE LockInv /\ TryLock(c) => LockInv'
<1> SUFFICES ASSUME LockInv, TryLock(c) PROVE LockInv'
    OBVIOUS
<1> USE LockAssumption DEF LockInv, ManagerTypeOK, Holding
<1>1. ManagerTypeOK'
    BY DEF TryLock, Go, Places
<1>2. CurIsKnown'
    BY DEF TryLock, Go, CurIsKnown
<1>3. LinksStayHome'
    BY DEF TryLock, Go, LinksStayHome
<1>4. LinksDoNotMeet'
    BY DEF TryLock, Go, LinksDoNotMeet
<1>5. InHand'
    BY DEF TryLock, Go, InHand
<1> QED BY <1>1, <1>2, <1>3, <1>4, <1>5

\* Only one context finds the bit of a free lockable clear.
LEMMA FetchOrKeeps == ASSUME NEW c \in Contexts PROVE LockInv /\ FetchOr(c) => LockInv'
<1> SUFFICES ASSUME LockInv, FetchOr(c) PROVE LockInv'
    OBVIOUS
<1> USE LockAssumption DEF LockInv, ManagerTypeOK, Holding
<1>1. ManagerTypeOK'
    BY DEF FetchOr, Go, Places, CurIsKnown
<1>2. CurIsKnown'
    BY DEF FetchOr, Go, CurIsKnown
<1>3. LinksStayHome'
    BY DEF FetchOr, Go, LinksStayHome
<1>4. LinksDoNotMeet'
    BY DEF FetchOr, Go, LinksDoNotMeet
<1>5. InHand'
    BY DEF FetchOr, Go, InHand
<1> QED BY <1>1, <1>2, <1>3, <1>4, <1>5

\* The owner is entered.
LEMMA SetValueKeeps == ASSUME NEW c \in Contexts PROVE LockInv /\ SetValue(c) => LockInv'
<1> SUFFICES ASSUME LockInv, SetValue(c) PROVE LockInv'
    OBVIOUS
<1> USE LockAssumption DEF LockInv, ManagerTypeOK, Holding
<1>1. ManagerTypeOK'
    BY DEF SetValue, Go, Places, CurIsKnown
<1>2. CurIsKnown'
    BY DEF SetValue, Go, CurIsKnown
<1>3. LinksStayHome'
    BY DEF SetValue, Go, CurIsKnown, LinksStayHome
<1>4. LinksDoNotMeet'
    BY DEF SetValue, Go, LinksDoNotMeet
<1>5. InHand'
    BY DEF SetValue, Go, CurIsKnown, LinksStayHome, InHand
<1> QED BY <1>1, <1>2, <1>3, <1>4, <1>5

\* The lockable becomes the head of its owner's list.
LEMMA AddToNhoodKeeps == ASSUME NEW c \in Contexts PROVE LockInv /\ AddToNhood(c) => LockInv'
<1> SUFFICES ASSUME LockInv, AddToNhood(c) PROVE LockInv'
    OBVIOUS
<1> USE LockAssumption DEF LockInv, ManagerTypeOK, Holding
<1>1. ManagerTypeOK'
    BY DEF AddToNhood, Go, Places, CurIsKnown
<1>2. CurIsKnown'
    BY DEF AddToNhood, Go, CurIsKnown
<1>3. LinksStayHome'
    BY DEF AddToNhood, Go, CurIsKnown, LinksStayHome
<1>4. LinksDoNotMeet'
    BY DEF AddToNhood, Go, CurIsKnown, LinksStayHome, LinksDoNotMeet, InHand
<1>5. InHand'
    BY DEF AddToNhood, Go, CurIsKnown, LinksStayHome, InHand
<1> QED BY <1>1, <1>2, <1>3, <1>4, <1>5

\* A look at the owner of a taken lockable changes none.
LEMMA GetOwnerKeeps == ASSUME NEW c \in Contexts PROVE LockInv /\ GetOwner(c) => LockInv'
<1> SUFFICES ASSUME LockInv, GetOwner(c) PROVE LockInv'
    OBVIOUS
<1> USE LockAssumption DEF LockInv, ManagerTypeOK, Holding
<1>1. ManagerTypeOK'
    BY DEF GetOwner, Go, Places
<1>2. CurIsKnown'
    BY DEF GetOwner, Go, CurIsKnown
<1>3. LinksStayHome'
    BY DEF GetOwner, Go, LinksStayHome
<1>4. LinksDoNotMeet'
    BY DEF GetOwner, Go, LinksDoNotMeet
<1>5. InHand'
    BY DEF GetOwner, Go, InHand
<1> QED BY <1>1, <1>2, <1>3, <1>4, <1>5

\* The end of an iteration starts with the lists as they are.
LEMMA CommitIterationKeeps == ASSUME NEW c \in Contexts PROVE LockInv /\ CommitIteration(c) => LockInv'
<1> SUFFICES ASSUME LockInv, CommitIteration(c) PROVE LockInv'
    OBVIOUS
<1> USE LockAssumption DEF LockInv, ManagerTypeOK, Holding
<1>1. ManagerTypeOK'
    BY DEF CommitIteration, Go, Places
<1>2. CurIsKnown'
    BY DEF CommitIteration, Go, CurIsKnown
<1>3. LinksStayHome'
    BY DEF CommitIteration, Go, LinksStayHome
<1>4. LinksDoNotMeet'
    BY DEF CommitIteration, Go, LinksDoNotMeet
<1>5. InHand'
    BY DEF CommitIteration, Go, InHand
<1> QED BY <1>1, <1>2, <1>3, <1>4, <1>5

\* The head of the list is taken off it.
LEMMA UnlinkKeeps == ASSUME NEW c \in Contexts PROVE LockInv /\ Unlink(c) => LockInv'
<1> SUFFICES ASSUME LockInv, Unlink(c) PROVE LockInv'
    OBVIOUS
<1> USE LockAssumption DEF LockInv, ManagerTypeOK, Holding
<1>1. ManagerTypeOK'
    BY DEF Unlink, Go, CommitOrder, Places
<1>2. CurIsKnown'
    BY DEF Unlink, Go, CommitOrder, CurIsKnown, LinksStayHome
<1>3. LinksStayHome'
    BY DEF Unlink, Go, CommitOrder, LinksStayHome
<1>4. LinksDoNotMeet'
    BY DEF Unlink, Go, CommitOrder, LinksStayHome, LinksDoNotMeet
<1>5. InHand'
    BY DEF Unlink, Go, CommitOrder, CurIsKnown, LinksStayHome, LinksDoNotMeet, InHand
<1> QED BY <1>1, <1>2, <1>3, <1>4, <1>5

\* Its link is cleared while it is still owned.
LEMMA ClearNextKeeps == ASSUME NEW c \in Contexts PROVE LockInv /\ ClearNext(c) => LockInv'
<1> SUFFICES ASSUME LockInv, ClearNext(c) PROVE LockInv'
    OBVIOUS
<1> USE LockAssumption DEF LockInv, ManagerTypeOK, Holding
<1>1. ManagerTypeOK'
    BY DEF ClearNext, Go, CommitOrder, Places, CurIsKnown
<1>2. CurIsKnown'
    BY DEF ClearNext, Go, CommitOrder, CurIsKnown
<1>3. LinksStayHome'
    BY DEF ClearNext, Go, CommitOrder, CurIsKnown, LinksStayHome
<1>4. LinksDoNotMeet'
    BY DEF ClearNext, Go, CommitOrder, CurIsKnown, LinksDoNotMeet
<1>5. InHand'
    BY DEF ClearNext, Go, CommitOrder, CurIsKnown, InHand
<1> QED BY <1>1, <1>2, <1>3, <1>4, <1>5

\* It is released when nothing leads to it or from it.
LEMMA ReleaseKeeps == ASSUME NEW c \in Contexts PROVE LockInv /\ Release(c) => LockInv'
<1> SUFFICES ASSUME LockInv, Release(c) PROVE LockInv'
    OBVIOUS
<1> USE LockAssumption DEF LockInv, ManagerTypeOK, Holding
<1>1. ManagerTypeOK'
    BY DEF Release, Go, CommitOrder, Places, CurIsKnown
<1>2. CurIsKnown'
    BY DEF Release, Go, CommitOrder, CurIsKnown
<1>3. LinksStayHome'
    BY DEF Release, Go, CommitOrder, CurIsKnown, LinksStayHome, InHand
<1>4. LinksDoNotMeet'
    BY DEF Release, Go, CommitOrder, LinksDoNotMeet
<1>5. InHand'
    BY DEF Release, Go, CommitOrder, CurIsKnown, InHand
<1> QED BY <1>1, <1>2, <1>3, <1>4, <1>5

\* The next iteration starts with an empty list.
LEMMA StartIterationKeeps == ASSUME NEW c \in Contexts PROVE LockInv /\ StartIteration(c) => LockInv'
<1> SUFFICES ASSUME LockInv, StartIteration(c) PROVE LockInv'
    OBVIOUS
<1> USE LockAssumption DEF LockInv, ManagerTypeOK, Holding
<1>1. ManagerTypeOK'
    BY DEF StartIteration, Go, Places
<1>2. CurIsKnown'
    BY DEF StartIteration, Go, CurIsKnown
<1>3. LinksStayHome'
    BY DEF StartIteration, Go, LinksStayHome
<1>4. LinksDoNotMeet'
    BY DEF StartIteration, Go, LinksDoNotMeet
<1>5. InHand'
    BY DEF StartIteration, Go, InHand
<1> QED BY <1>1, <1>2, <1>3, <1>4, <1>5

\* Every step of Context.cpp's locks preserves the invariant.
LEMMA LocksStep == LockInv /\ [ManagerNext]_managerVars => LockInv'
<1> SUFFICES ASSUME LockInv, [ManagerNext]_managerVars PROVE LockInv'
    OBVIOUS
<1>1. CASE UNCHANGED managerVars
    BY <1>1 DEF managerVars, LockInv, ManagerTypeOK, CurIsKnown, LinksStayHome,
                LinksDoNotMeet, InHand
<1>2. CASE ManagerNext
    BY <1>2, TryLockKeeps, FetchOrKeeps, SetValueKeeps, AddToNhoodKeeps, GetOwnerKeeps,
       CommitIterationKeeps, UnlinkKeeps, ClearNextKeeps, ReleaseKeeps, StartIterationKeeps
       DEF ManagerNext, Releasing
<1> QED BY <1>1, <1>2

\* For any number of threads and nodes the bit and the owner of a lockable go
\* together, and the assertions of addToNhood and release hold: a lockable is
\* acquired only when it is in no list, and released only by its owner, after
\* it has been unlinked.
THEOREM LockAssertionsHold == ManagerSpec => [](ManagerTypeOK /\ AssertionsHold)
<1>1. ManagerInit => LockInv
    BY LocksInitially
<1>2. LockInv /\ [ManagerNext]_managerVars => LockInv'
    BY LocksStep
<1>3. LockInv => ManagerTypeOK /\ AssertionsHold
    BY DEF LockInv, AssertionsHold, CurIsKnown, InHand, Holding
<1> QED BY <1>1, <1>2, <1>3, PTL DEF ManagerSpec

-----------------------------------------------------------------------------
\* Links have an order: some lockable of every set has no link to it from the
\* set.
NoCycles ==
  \A S \in SUBSET Lockables : S # {} => \E l \in S : \A k \in S : next[k] # l

InHandOf(c) == IF pc[c] \in Holding THEN {cur[c]} ELSE {}

\* A lockable that is owned and not in hand is the first of its list or is
\* linked to.
OwnedAreLinked ==
  \A c \in Contexts, l \in Lockables :
    owner[l] = c /\ l \notin InHandOf(c) => locks[c] = l \/ \E k \in Lockables : next[k] = l

ListInv == NoCycles /\ OwnedAreLinked

LEMMA ListsInitially == ManagerInit => ListInv
  BY LockAssumption DEF ManagerInit, ListInv, NoCycles, OwnedAreLinked

\* addToNhood links from a lockable that nothing links to; no other step adds
\* a link.
LEMMA NoCyclesStep == LockInv /\ NoCycles /\ [ManagerNext]_managerVars => NoCycles'
<1> SUFFICES ASSUME LockInv, NoCycles, [ManagerNext]_managerVars,
                    NEW S \in SUBSET Lockables, S # {}
             PROVE  \E l \in S : \A k \in S : next'[k] # l
    BY DEF NoCycles
<1>1. PICK l \in S : \A k \in S : next[k] # l
    BY DEF NoCycles
<1>2. CASE UNCHANGED next
    BY <1>1, <1>2
<1>3. ASSUME NEW c \in Contexts, ClearNext(c)
      PROVE  \A k \in S : next'[k] # l
    BY <1>1, <1>3, LockAssumption DEF ClearNext, LockInv, ManagerTypeOK
<1>4. ASSUME NEW c \in Contexts, AddToNhood(c), cur[c] \notin S
      PROVE  \A k \in S : next'[k] # l
    BY <1>1, <1>4 DEF AddToNhood, LockInv, ManagerTypeOK
<1>5. ASSUME NEW c \in Contexts, AddToNhood(c), cur[c] \in S
      PROVE  \A k \in S : next'[k] # cur[c]
    BY <1>5 DEF AddToNhood, LockInv, ManagerTypeOK, InHand, Holding
<1> QED BY <1>1, <1>2, <1>3, <1>4, <1>5
        DEF ManagerNext, managerVars, Releasing, TryLock, FetchOr, SetValue, GetOwner,
            CommitIteration, Unlink, Release, StartIteration

LEMMA OwnedAreLinkedStep ==
  LockInv /\ OwnedAreLinked /\ [ManagerNext]_managerVars => OwnedAreLinked'
<1> SUFFICES ASSUME LockInv, OwnedAreLinked, [ManagerNext]_managerVars,
                    NEW d \in Contexts, NEW l \in Lockables,
                    owner'[l] = d, l \notin InHandOf(d)'
             PROVE  locks'[d] = l \/ \E k \in Lockables : next'[k] = l
    BY DEF OwnedAreLinked
<1> USE LockAssumption DEF LockInv, ManagerTypeOK, InHandOf, Holding, Go
<1>1. CASE UNCHANGED managerVars
    BY <1>1 DEF managerVars, OwnedAreLinked
<1>2. ASSUME NEW c \in Contexts, TryLock(c) \/ FetchOr(c) \/ GetOwner(c) \/ CommitIteration(c)
                                  \/ StartIteration(c)
      PROVE  locks'[d] = l \/ \E k \in Lockables : next'[k] = l
  <2>1. UNCHANGED <<owner, next, locks>>
    BY <1>2 DEF TryLock, FetchOr, GetOwner, CommitIteration, StartIteration
  <2>2. pc[c] \notin Holding /\ pc'[c] \notin Holding
    BY <1>2 DEF TryLock, FetchOr, GetOwner, CommitIteration, StartIteration
  <2>3. d # c => pc'[d] = pc[d] /\ cur'[d] = cur[d]
    BY <1>2 DEF TryLock, FetchOr, GetOwner, CommitIteration, StartIteration
  <2>4. InHandOf(d) = InHandOf(d)'
    BY <2>2, <2>3
  <2> QED BY <2>1, <2>4 DEF OwnedAreLinked
<1>3. ASSUME NEW c \in Contexts, SetValue(c)
      PROVE  locks'[d] = l \/ \E k \in Lockables : next'[k] = l
    BY <1>3 DEF SetValue, OwnedAreLinked, CurIsKnown
<1>4. ASSUME NEW c \in Contexts, AddToNhood(c)
      PROVE  locks'[d] = l \/ \E k \in Lockables : next'[k] = l
    BY <1>4 DEF AddToNhood, OwnedAreLinked, CurIsKnown, InHand
<1>5. ASSUME NEW c \in Contexts, Unlink(c)
      PROVE  locks'[d] = l \/ \E k \in Lockables : next'[k] = l
    BY <1>5 DEF Unlink, OwnedAreLinked, CommitOrder
<1>6. ASSUME NEW c \in Contexts, ClearNext(c)
      PROVE  locks'[d] = l \/ \E k \in Lockables : next'[k] = l
    BY <1>6 DEF ClearNext, OwnedAreLinked, CurIsKnown, InHand, LinksStayHome, CommitOrder
<1>7. ASSUME NEW c \in Contexts, Release(c)
      PROVE  locks'[d] = l \/ \E k \in Lockables : next'[k] = l
    BY <1>7 DEF Release, OwnedAreLinked, CurIsKnown, CommitOrder
<1> QED BY <1>1, <1>2, <1>3, <1>4, <1>5, <1>6, <1>7 DEF ManagerNext, Releasing

\* The links lead from the head of a context's list to exactly what it owns.
LEMMA InvariantMakesListsExact == LockInv /\ ListInv => ListsAreExact
<1> SUFFICES ASSUME LockInv, ListInv, NEW c \in Contexts
             PROVE  List(c) = {l \in Lockables : owner[l] = c} \ InHandOf(c)
    BY DEF ListsAreExact, InHandOf, Holding
<1> DEFINE Mine == {l \in Lockables : owner[l] = c} \ InHandOf(c)
<1> USE DEF LockInv, ListInv, ManagerTypeOK
<1>1. Leads(c, Mine)
    BY DEF Leads, LinksStayHome, InHand, InHandOf
<1>2. ASSUME NEW S \in SUBSET Lockables, Leads(c, S)
      PROVE  Mine \subseteq S
  <2> SUFFICES ASSUME Mine \ S # {} PROVE FALSE
      OBVIOUS
  <2>1. PICK l \in Mine \ S : \A k \in Mine \ S : next[k] # l
      BY DEF NoCycles
  <2>2. PICK k \in Lockables : next[k] = l
      BY <1>2, <2>1, LockAssumption DEF OwnedAreLinked, Leads
  <2>3. owner[k] = c
      BY <2>1, <2>2, LockAssumption DEF LinksStayHome
  <2>4. k \notin InHandOf(c)
      BY <1>2, <2>1, <2>2, LockAssumption DEF InHand, InHandOf, Leads
  <2> QED BY <1>2, <2>1, <2>2, <2>3, <2>4, LockAssumption DEF Leads
<1> QED BY <1>1, <1>2 DEF List

\* For any number of threads and nodes the list of an iteration holds exactly
\* the nodes it owns: commitIteration and cancelIteration, which only follow
\* the list, release every lock and no other's.
THEOREM ListsStayExact == ManagerSpec => []ListsAreExact
<1>1. ManagerInit => LockInv /\ ListInv
    BY LocksInitially, ListsInitially
<1>2. LockInv /\ ListInv /\ [ManagerNext]_managerVars => LockInv' /\ ListInv'
    BY LocksStep, NoCyclesStep, OwnedAreLinkedStep DEF ListInv
<1>3. LockInv /\ ListInv => ListsAreExact
    BY InvariantMakesListsExact
<1> QED BY <1>1, <1>2, <1>3, PTL DEF ManagerSpec

-----------------------------------------------------------------------------
\* Who owns a lockable in the eyes of conflict detection.
OwnedIsKnown ==
  /\ Owned \in [Lockables -> Contexts \cup {Nil}]
  /\ \A l \in Lockables, c \in Contexts :
       Owned[l] = c <=> owner[l] = c \/ (pc[c] = "setValue" /\ cur[c] = l)
  /\ \A l \in Lockables : Owned[l] = Nil <=> ~bit[l]

LEMMA InvariantMakesOwnedKnown == LockInv => OwnedIsKnown
<1> SUFFICES ASSUME LockInv PROVE OwnedIsKnown
    OBVIOUS
<1> USE LockAssumption DEF LockInv, ManagerTypeOK, CurIsKnown
<1> DEFINE taking(l) == {c \in Contexts : pc[c] = "setValue" /\ cur[c] = l}
<1>1. ASSUME NEW l \in Lockables, taking(l) = {}
      PROVE  Owned[l] = owner[l]
    BY <1>1 DEF Owned
<1>2. ASSUME NEW l \in Lockables, NEW c \in taking(l)
      PROVE  Owned[l] = c
  <2>1. \A d \in taking(l) : d = c
      BY <1>2
  <2>2. (CHOOSE d \in taking(l) : TRUE) = c
      BY <1>2, <2>1
  <2> QED BY <1>2, <2>2 DEF Owned
<1>3. Owned \in [Lockables -> Contexts \cup {Nil}]
  <2>1. \A l \in Lockables : Owned[l] \in Contexts \cup {Nil}
      BY <1>1, <1>2
  <2> QED BY <2>1 DEF Owned
<1>4. ASSUME NEW l \in Lockables, NEW c \in Contexts
      PROVE  Owned[l] = c <=> owner[l] = c \/ (pc[c] = "setValue" /\ cur[c] = l)
  <2>1. CASE taking(l) = {}
      BY <1>1, <2>1
  <2>2. ASSUME NEW d \in taking(l) PROVE owner[l] = Nil /\ Owned[l] = d
      BY <1>2, <2>2
  <2>3. pc[c] = "setValue" /\ cur[c] = l => c \in taking(l)
      OBVIOUS
  <2> QED BY <1>2, <2>1, <2>2, <2>3
<1>5. ASSUME NEW l \in Lockables
      PROVE  Owned[l] = Nil <=> ~bit[l]
    BY <1>1, <1>2
<1> QED BY <1>3, <1>4, <1>5 DEF OwnedIsKnown

\* The owner of no lockable changes while no bit, owner or taker does.
LEMMA SameOwned ==
  ASSUME OwnedIsKnown, OwnedIsKnown',
         \A l \in Lockables, c \in Contexts :
           owner'[l] = c \/ (pc'[c] = "setValue" /\ cur'[c] = l)
             <=> owner[l] = c \/ (pc[c] = "setValue" /\ cur[c] = l)
  PROVE  Owned' = Owned
<1>1. ASSUME NEW l \in Lockables PROVE Owned'[l] = Owned[l]
    BY LockAssumption DEF OwnedIsKnown
<1> QED BY <1>1 DEF OwnedIsKnown

\* Each step of a context is a step of NodeLocks or changes nothing there.
LEMMA TryLockSimulates ==
  ASSUME LockInv, OwnedIsKnown, OwnedIsKnown', NEW c \in Contexts, TryLock(c)
  PROVE  Abstract!LocksNext \/ UNCHANGED Abstract!lockVars
<1> USE LockAssumption DEF LockInv, ManagerTypeOK, Go
<1>1. PICK l \in Lockables : /\ cur' = [cur EXCEPT ![c] = l]
                             /\ Go(c, IF bit[l] THEN "getOwner" ELSE "fetchOr")
    BY DEF TryLock
<1>2. pc[c] = "run" /\ UNCHANGED <<bit, owner, next, locks>>
    BY DEF TryLock
<1>3. UNCHANGED Owned
    BY <1>1, <1>2, SameOwned
<1>4. CASE bit[l] /\ owner[l] # c
  <2>1. c \notin Ending /\ Ending' = Ending \cup {c}
      BY <1>1, <1>2, <1>4 DEF Ending
  <2>2. Owned[l] \notin {c, Nil}
      BY <1>2, <1>4 DEF OwnedIsKnown
  <2>3. Abstract!Conflict(c, l)
      BY <1>3, <2>1, <2>2 DEF Abstract!Conflict
  <2> QED BY <2>3 DEF Abstract!LocksNext
<1>5. CASE ~(bit[l] /\ owner[l] # c)
  <2>1. UNCHANGED Ending
      BY <1>1, <1>2, <1>5 DEF Ending
  <2> QED BY <1>3, <2>1 DEF Abstract!lockVars
<1> QED BY <1>4, <1>5

LEMMA FetchOrSimulates ==
  ASSUME LockInv, OwnedIsKnown, OwnedIsKnown', NEW c \in Contexts, FetchOr(c)
  PROVE  Abstract!LocksNext \/ UNCHANGED Abstract!lockVars
<1> USE LockAssumption DEF LockInv, ManagerTypeOK, Go
<1> DEFINE l == cur[c]
<1>1. /\ pc[c] = "fetchOr" /\ l \in Lockables
      /\ pc' = [pc EXCEPT ![c] = IF bit[l] THEN "getOwner" ELSE "setValue"]
      /\ UNCHANGED <<owner, next, locks, cur>>
    BY DEF FetchOr, CurIsKnown
<1>2. CASE bit[l]
  <2>1. UNCHANGED Owned
      BY <1>1, <1>2, SameOwned
  <2>2. CASE owner[l] # c
    <3>1. c \notin Ending /\ Ending' = Ending \cup {c}
        BY <1>1, <1>2, <2>2 DEF Ending
    <3>2. Owned[l] \notin {c, Nil}
        BY <1>1, <1>2, <2>2 DEF OwnedIsKnown
    <3>3. Abstract!Conflict(c, l)
        BY <2>1, <3>1, <3>2 DEF Abstract!Conflict
    <3> QED BY <1>1, <3>3 DEF Abstract!LocksNext
  <2>3. CASE owner[l] = c
    <3>1. UNCHANGED Ending
        BY <1>1, <1>2, <2>3 DEF Ending
    <3> QED BY <2>1, <3>1 DEF Abstract!lockVars
  <2> QED BY <2>2, <2>3
<1>3. CASE ~bit[l]
  <2>1. c \notin Ending /\ UNCHANGED Ending
      BY <1>1, <1>3 DEF Ending
  <2>2. Owned[l] = Nil /\ Owned'[l] = c
      BY <1>1, <1>3 DEF OwnedIsKnown
  <2>3. ASSUME NEW k \in Lockables \ {l} PROVE Owned'[k] = Owned[k]
    <3>1. \A d \in Contexts : Owned'[k] = d <=> Owned[k] = d
        BY <1>1, <1>3, <2>3 DEF OwnedIsKnown
    <3> QED BY <3>1 DEF OwnedIsKnown
  <2>4. Owned' = [Owned EXCEPT ![l] = c]
      BY <1>1, <2>2, <2>3 DEF OwnedIsKnown
  <2>5. Abstract!Own(c, l)
      BY <2>1, <2>2, <2>4 DEF Abstract!Own
  <2> QED BY <1>1, <2>5 DEF Abstract!LocksNext
<1> QED BY <1>2, <1>3

\* A context that waits to read the owner of what another is entering as its
\* own keeps finding another's.
LEMMA SetValueSimulates ==
  ASSUME LockInv, OwnedIsKnown, OwnedIsKnown', NEW c \in Contexts, SetValue(c)
  PROVE  UNCHANGED Abstract!lockVars
<1> USE LockAssumption DEF LockInv, ManagerTypeOK, Go
<1>1. /\ pc[c] = "setValue" /\ cur[c] \in Lockables /\ owner[cur[c]] = Nil
      /\ pc' = [pc EXCEPT ![c] = "addToNhood"]
      /\ owner' = [owner EXCEPT ![cur[c]] = c]
      /\ UNCHANGED <<bit, next, locks, cur>>
    BY DEF SetValue, CurIsKnown
<1>2. UNCHANGED Owned
    BY <1>1, SameOwned DEF CurIsKnown
<1>3. \A d \in Contexts : pc[d] = "getOwner" => (owner'[cur[d]] # d <=> owner[cur[d]] # d)
    BY <1>1 DEF CurIsKnown
<1>4. UNCHANGED Ending
    BY <1>1, <1>3 DEF Ending
<1> QED BY <1>2, <1>4 DEF Abstract!lockVars

\* Steps that only move lockables between lists, and a look at an owner.
LEMMA ListStepsSimulate ==
  ASSUME LockInv, OwnedIsKnown, OwnedIsKnown', NEW c \in Contexts,
         AddToNhood(c) \/ GetOwner(c) \/ Unlink(c) \/ ClearNext(c)
  PROVE  UNCHANGED Abstract!lockVars
<1> USE LockAssumption DEF LockInv, ManagerTypeOK, Go, CommitOrder
<1>1. /\ UNCHANGED <<bit, owner>>
      /\ pc[c] # "setValue" /\ pc'[c] # "setValue"
      /\ \A d \in Contexts \ {c} : pc'[d] = pc[d] /\ cur'[d] = cur[d]
    BY DEF AddToNhood, GetOwner, Unlink, ClearNext
<1>2. UNCHANGED Owned
    BY <1>1, SameOwned
<1>3. c \in Ending <=> c \in Ending'
  <2>1. CASE AddToNhood(c)
      BY <2>1 DEF AddToNhood, Ending
  <2>2. CASE GetOwner(c)
      BY <2>2 DEF GetOwner, Ending
  <2>3. CASE Unlink(c)
      BY <2>3 DEF Unlink, Ending
  <2>4. CASE ClearNext(c)
      BY <2>4 DEF ClearNext, Ending
  <2> QED BY <2>1, <2>2, <2>3, <2>4
<1>4. \A d \in Contexts \ {c} : d \in Ending <=> d \in Ending'
    BY <1>1 DEF Ending
<1>5. UNCHANGED Ending
  <2>1. Ending \subseteq Contexts /\ Ending' \subseteq Contexts
      BY DEF Ending
  <2> QED BY <1>3, <1>4, <2>1
<1> QED BY <1>2, <1>5 DEF Abstract!lockVars

LEMMA CommitSimulates ==
  ASSUME LockInv, OwnedIsKnown, OwnedIsKnown', NEW c \in Contexts, CommitIteration(c)
  PROVE  Abstract!LocksNext
<1> USE DEF LockInv, ManagerTypeOK, Go
<1>1. UNCHANGED Owned
    BY SameOwned DEF CommitIteration
<1>2. c \notin Ending /\ Ending' = Ending \cup {c}
    BY DEF CommitIteration, Ending
<1>3. Abstract!Commit(c)
    BY <1>1, <1>2 DEF Abstract!Commit
<1> QED BY <1>3 DEF Abstract!LocksNext

LEMMA ReleaseSimulates ==
  ASSUME LockInv, OwnedIsKnown, OwnedIsKnown', NEW c \in Contexts, Release(c)
  PROVE  Abstract!LocksNext
<1> USE LockAssumption DEF LockInv, ManagerTypeOK, Go, CommitOrder
<1> DEFINE l == cur[c]
<1>1. /\ pc[c] = "unlock" /\ l \in Lockables /\ owner[l] = c
      /\ pc' = [pc EXCEPT ![c] = "release"]
      /\ bit' = [bit EXCEPT ![l] = FALSE]
      /\ owner' = [owner EXCEPT ![l] = Nil]
      /\ UNCHANGED <<next, locks, cur>>
    BY DEF Release, CurIsKnown, Holding
<1>2. Owned[l] = c /\ Owned'[l] = Nil
    BY <1>1 DEF OwnedIsKnown
<1>3. ASSUME NEW k \in Lockables \ {l} PROVE Owned'[k] = Owned[k]
  <2>1. \A d \in Contexts : Owned'[k] = d <=> Owned[k] = d
      BY <1>1, <1>3 DEF OwnedIsKnown
  <2> QED BY <2>1 DEF OwnedIsKnown
<1>4. Owned' = [Owned EXCEPT ![l] = Nil]
    BY <1>1, <1>2, <1>3 DEF OwnedIsKnown
<1>5. \A d \in Contexts : pc[d] = "getOwner" => (owner'[cur[d]] # d <=> owner[cur[d]] # d)
    BY <1>1 DEF CurIsKnown
<1>6. c \in Ending /\ UNCHANGED Ending
    BY <1>1, <1>5 DEF Ending
<1>7. Abstract!Disown(c, l)
    BY <1>2, <1>4, <1>6 DEF Abstract!Disown
<1> QED BY <1>1, <1>7 DEF Abstract!LocksNext

\* An iteration starts when the list of the last one is empty, and then it owns
\* nothing, because its list was exact.
LEMMA StartIterationSimulates ==
  ASSUME LockInv, ListsAreExact, OwnedIsKnown, OwnedIsKnown', NEW c \in Contexts,
         StartIteration(c)
  PROVE  Abstract!LocksNext
<1> USE LockAssumption DEF LockInv, ManagerTypeOK, Go
<1>1. UNCHANGED Owned
    BY SameOwned DEF StartIteration
<1>2. c \in Ending /\ Ending' = Ending \ {c}
    BY DEF StartIteration, Ending
<1>3. List(c) = {}
  <2>1. Leads(c, {}) /\ {} \in SUBSET Lockables
      BY DEF StartIteration, Leads
  <2> QED BY <2>1 DEF List
<1>4. \A l \in Lockables : owner[l] # c
    BY <1>3 DEF StartIteration, ListsAreExact
<1>5. \A l \in Lockables : Owned[l] # c
    BY <1>4 DEF StartIteration, OwnedIsKnown
<1>6. Abstract!NextIteration(c)
    BY <1>1, <1>2, <1>5 DEF Abstract!NextIteration
<1> QED BY <1>6 DEF Abstract!LocksNext

\* For any number of threads and nodes, tryAcquire, release and the two ways an
\* iteration ends are steps of NodeLocks, although each is several accesses: a
\* lockable has one owner, a conflict is met only on another's, and a context
\* that starts an iteration owns nothing.
THEOREM LocksAreImplemented == ManagerSpec => Abstract!LocksSafe
<1> DEFINE Inv == LockInv /\ ListInv
<1>1. ManagerInit => Inv
    BY LocksInitially, ListsInitially
<1>2. Inv /\ [ManagerNext]_managerVars => Inv'
    BY LocksStep, NoCyclesStep, OwnedAreLinkedStep DEF ListInv
<1>3. Inv => OwnedIsKnown /\ LockInv /\ ListsAreExact
    BY InvariantMakesOwnedKnown, InvariantMakesListsExact
<1>4. ManagerInit => Abstract!LocksInit
    BY DEF ManagerInit, Abstract!LocksInit, Owned, Ending
<1>5. LockInv /\ ListsAreExact /\ OwnedIsKnown /\ OwnedIsKnown' /\ [ManagerNext]_managerVars
        => [Abstract!LocksNext]_(Abstract!lockVars)
  <2> SUFFICES ASSUME LockInv, ListsAreExact, OwnedIsKnown, OwnedIsKnown',
                      [ManagerNext]_managerVars
               PROVE  Abstract!LocksNext \/ UNCHANGED Abstract!lockVars
      OBVIOUS
  <2>1. CASE UNCHANGED managerVars
      BY <2>1 DEF managerVars, Abstract!lockVars, Owned, Ending
  <2>2. CASE ManagerNext
      BY <2>2, TryLockSimulates, FetchOrSimulates, SetValueSimulates, ListStepsSimulate,
         CommitSimulates, ReleaseSimulates, StartIterationSimulates
         DEF ManagerNext, Releasing
  <2> QED BY <2>1, <2>2
<1> HIDE DEF Inv
<1> QED BY <1>1, <1>2, <1>3, <1>4, <1>5, PTL DEF ManagerSpec, Abstract!LocksSafe
=============================================================================
